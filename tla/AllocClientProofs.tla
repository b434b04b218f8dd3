------------------------- MODULE AllocClientProofs -------------------------
(***************************************************************************)
(* Theorems about the client of AllocClient: what alloc.c promises a       *)
(* program that avoids the calls it gets wrong, in every state and for     *)
(* every size of heap, page, frame and request.  The invariant is that a   *)
(* call is at one of the stages of AllocProofs.  What the client looks at  *)
(* before a call, the list as Walk goes through it, is what the stages say *)
(* of it; so the client's calls begin as they must, no stage dereferences  *)
(* a word that is not mapped, and the promises, the refinement of Heap and *)
(* the checks of the test framework follow.                                *)
(***************************************************************************)
EXTENDS AllocClient, AllocProofs, FiniteSetTheorems, WellFoundedInduction

-----------------------------------------------------------------------------
(***************************************************************************)
(* The list as AllocClient sees it: the i-th block reached from the head   *)
(* is the one of F with the i-th highest number                            *)
(***************************************************************************)
\* A set of numbers has a least one.
LEMMA Least ==
  ASSUME NEW S \in SUBSET Nat, S # {}
  PROVE  \E k \in S : \A j \in S : k <= j
<1> DEFINE R == {ss \in Nat \X Nat : ss[1] < ss[2]}
<1>1. IsWellFoundedOn(R, Nat)
  BY NatLessThanWellFounded DEF OpToRel
<1>2. \A j, k \in Nat : j < k => <<j, k>> \in R
  OBVIOUS
<1> HIDE DEF R
<1>3. PICK k \in S : \A j \in S : ~(<<j, k>> \in R)
  BY ONLY <1>1, S \in SUBSET Nat, S # {}, WFMin
<1>4. \A j \in S : ~(j < k)
  BY <1>2, <1>3
<1> QED
  BY <1>3, <1>4

\* Numbers without a gap below any of them.
LEMMA NoGap ==
  ASSUME NEW P \in SUBSET Nat, \A i \in P : i > 1 => i - 1 \in P,
         NEW i \in P, NEW j \in Nat, 1 <= j, j <= i
  PROVE  j \in P
<1> DEFINE S == {k \in Nat : j + k \in P}
<1>1. i - j \in S
  <2>1. i - j \in Nat /\ j + (i - j) = i
    OBVIOUS
  <2> QED
    BY <2>1
<1>2. PICK k \in S : \A l \in S : k <= l
  BY <1>1, Least
<1>3. CASE k = 0
  BY <1>2, <1>3
<1>4. CASE k # 0
  <2>1. k - 1 \in Nat /\ j + k > 1 /\ j + k \in P /\ (j + k) - 1 = j + (k - 1)
    BY <1>2, <1>4
  <2>2. k - 1 \in S
    BY <2>1
  <2> QED
    BY <1>2, <2>1, <2>2
<1> QED
  BY <1>3, <1>4

\* The i-th place from the head is that of the block x.
At(F, r, i, x) == x \in F /\ r[x] = r[head] - (i - 1)

\* What is in the first place, and behind a place.
LEMMA Places ==
  ASSUME TypeOK, NEW F, NEW r, NEW X, Break, Shape(F, r, X)
  PROVE  /\ F \subseteq Nat \ {0} /\ \A x \in F : r[x] \in Int
         /\ F # {} => At(F, r, 1, head)
         /\ F = {} => head = NULL
         /\ \A x \in F : \E i \in Nat : i >= 1 /\ At(F, r, i, x)
         /\ \A i \in Nat, x, y \in F : At(F, r, i, x) /\ At(F, r, i, y) => x = y
         /\ \A i \in Nat, x \in F : At(F, r, i, x) =>
              /\ NextOf(x) # NULL => At(F, r, i + 1, NextOf(x))
              /\ NextOf(x) = NULL => \A y \in F : ~At(F, r, i + 1, y)
         /\ \A i \in Nat, x \in F : i > 1 /\ At(F, r, i, x) =>
              At(F, r, i - 1, Read(mem, Prev_(x)))
<1>1. F \subseteq Nat \ {0} /\ Chain(mem, head, F, r) /\ (head = NULL <=> F = {})
  BY SearchFacts
<1>2. /\ \A x \in F : r[x] \in Int /\ (x # NULL) /\ (F # {} => head \in F)
      /\ \A x \in F : r[x] <= r[head]
      /\ \A x, y \in F : r[x] = r[y] => x = y
  BY <1>1 DEF Chain, NULL
<1>3. F # {} => At(F, r, 1, head)
  <2>1. F # {} => r[head] = r[head] - (1 - 1)
    BY <1>2
  <2> QED
    BY <1>2, <2>1 DEF At
<1>4. ASSUME NEW x \in F
      PROVE  \E i \in Nat : i >= 1 /\ At(F, r, i, x)
  <2>1. r[head] \in Int /\ r[x] \in Int /\ r[x] <= r[head]
    BY <1>2
  <2>2. (r[head] - r[x]) + 1 \in Nat /\ (r[head] - r[x]) + 1 >= 1
        /\ r[x] = r[head] - (((r[head] - r[x]) + 1) - 1)
    BY <2>1
  <2> QED
    BY <2>2 DEF At
<1>5. ASSUME NEW i \in Nat, NEW x \in F, NEW y \in F, At(F, r, i, x), At(F, r, i, y)
      PROVE  x = y
  BY <1>2, <1>5 DEF At
<1>6. ASSUME NEW i \in Nat, NEW x \in F, At(F, r, i, x)
      PROVE  /\ NextOf(x) # NULL => At(F, r, i + 1, NextOf(x))
             /\ NextOf(x) = NULL => \A y \in F : ~At(F, r, i + 1, y)
  <2>1. NextOf(x) = mem[x + 1] /\ r[x] \in Int /\ r[head] \in Int
        /\ \A y \in F : r[y] \in Int
    BY <1>2, SearchFacts
  <2>2. /\ mem[x + 1] = NULL => \A y \in F : r[x] <= r[y]
        /\ mem[x + 1] # NULL => mem[x + 1] \in F /\ r[mem[x + 1]] = r[x] - 1
    BY <1>1 DEF Chain
  <2>3. r[x] = r[head] - (i - 1)
    BY <1>6 DEF At
  <2>4. ASSUME NextOf(x) # NULL
        PROVE  At(F, r, i + 1, NextOf(x))
    BY <2>1, <2>2, <2>3, <2>4 DEF At
  <2>5. ASSUME NextOf(x) = NULL, NEW y \in F, At(F, r, i + 1, y)
        PROVE  FALSE
    BY <2>1, <2>2, <2>3, <2>5 DEF At
  <2> QED
    BY <2>4, <2>5
<1>7. ASSUME NEW i \in Nat, NEW x \in F, i > 1, At(F, r, i, x)
      PROVE  At(F, r, i - 1, Read(mem, Prev_(x)))
  <2>1. Read(mem, Prev_(x)) = mem[x + 2]
    BY BlockFacts
  <2>2. r[x] \in Int /\ r[head] \in Int /\ r[x] = r[head] - (i - 1)
    BY <1>2, <1>7 DEF At
  <2>3. x # head
    BY <1>7, <2>2
  <2>4. mem[x + 2] \in F /\ mem[mem[x + 2] + 1] = x
    BY <1>1, <2>3 DEF Chain
  <2>5. r[x] = r[mem[x + 2]] - 1
    BY <1>1, <1>2, <2>4 DEF Chain
  <2>6. r[mem[x + 2]] \in Int
    BY <1>2, <2>4
  <2> QED
    BY <2>1, <2>2, <2>4, <2>5, <2>6 DEF At
<1> QED
  BY <1>1, <1>2, <1>3, <1>4, <1>5, <1>6, <1>7

\* Division by three.
LEMMA ByThree ==
  ASSUME NEW k \in Nat
  PROVE  \E q \in Nat, p \in 0 .. 2 : q = k \div 3 /\ p = k % 3 /\ k = 3 * q + p
<1>1. PICK t \in Nat : t = 3
  OBVIOUS
<1>2. PICK q, p : q = k \div t /\ p = k % t
  OBVIOUS
<1>3. q \in Nat /\ p \in Nat /\ p < t /\ k = t * q + p
  BY <1>1, <1>2
<1> QED
  BY <1>1, <1>2, <1>3

\* The heap has no room for more blocks than MostBlocks.
LEMMA Room ==
  ASSUME TypeOK, NEW F, NEW r, NEW X, Break, Shape(F, r, X),
         NEW N \in Nat, NEW W \in [1 .. N -> F],
         \A i, j \in 1 .. N : W[i] = W[j] => i = j
  PROVE  N <= MostBlocks
<1>1. HeapWords \in Nat /\ Words = First .. Limit - 1 /\ Limit = First + HeapWords
      /\ First \in Nat
  BY HeapAssumption, PageAssumption DEF Words, First, Limit
<1>2. /\ \A h \in F : h \in Nat /\ mem[h] \in Nat /\ mem[h] >= 3
                      /\ h \in Words /\ h + 1 \in Words /\ h + 2 \in Words
      /\ \A h, k \in F : h # k => h + mem[h] <= k \/ k + mem[k] <= h
  BY BlockFacts
<1>3. SUFFICES ASSUME N > MostBlocks PROVE FALSE
  BY <1>1 DEF MostBlocks
<1> DEFINE S == 0 .. 3 * N - 1
           Q == [k \in S |-> k \div 3]
           P == [k \in S |-> k % 3]
           f == [k \in S |-> W[Q[k] + 1] + P[k]]
<1>4. 3 * N > HeapWords
  BY <1>1, <1>3 DEF MostBlocks
<1>5. IsFiniteSet(S) /\ Cardinality(S) = 3 * N
  BY <1>1, <1>4, FS_Interval
<1>6. IsFiniteSet(Words) /\ Cardinality(Words) = HeapWords
  <2>1. IsFiniteSet(First .. Limit - 1)
        /\ Cardinality(First .. Limit - 1)
             = IF First > Limit - 1 THEN 0 ELSE (Limit - 1) - First + 1
    BY <1>1, FS_Interval
  <2> QED
    BY <1>1, <2>1
<1>7. ASSUME NEW k \in S
      PROVE  \E q \in Nat, p \in 0 .. 2, h \in F :
               /\ q + 1 \in 1 .. N /\ k = 3 * q + p
               /\ h = W[q + 1] /\ f[k] = h + p
  <2>1. k \in Nat /\ k < 3 * N
    OBVIOUS
  <2>2. PICK q \in Nat, p \in 0 .. 2 : q = k \div 3 /\ p = k % 3 /\ k = 3 * q + p
    BY <2>1, ByThree
  <2>3. q + 1 \in 1 .. N
    BY <2>1, <2>2
  <2>4. PICK h \in F : h = W[q + 1]
    BY <2>3
  <2>5. Q[k] = q /\ P[k] = p
    BY <2>2
  <2> HIDE DEF Q, P
  <2>6. f[k] = h + p
    <3>1. f[k] = W[Q[k] + 1] + P[k]
      OBVIOUS
    <3> HIDE DEF f, S
    <3> QED
      BY ONLY <2>4, <2>5, <3>1
  <2> QED
    BY <2>2, <2>3, <2>4, <2>6
<1>8. f \in [S -> Words]
  <2>1. ASSUME NEW k \in S
        PROVE  f[k] \in Words
    <3>1. PICK q \in Nat, p \in 0 .. 2, h \in F : f[k] = h + p
      BY <1>7
    <3>2. h \in Nat /\ h \in Words /\ h + 1 \in Words /\ h + 2 \in Words
      BY <1>2
    <3>3. p = 0 \/ p = 1 \/ p = 2
      OBVIOUS
    <3>4. h + p \in Words
      BY ONLY <3>2, <3>3
    <3> HIDE DEF f
    <3> QED
      BY ONLY <3>1, <3>4
  <2>2. f = [k \in S |-> f[k]]
    OBVIOUS
  <2> HIDE DEF f
  <2> QED
    BY <2>1, <2>2
<1>9. PICK k, l \in S : k # l /\ f[k] = f[l]
  <2> HIDE DEF S, f
  <2>1. Cardinality(Words) < Cardinality(S)
    BY <1>1, <1>4, <1>5, <1>6
  <2> QED
    BY <1>5, <1>6, <1>8, <2>1, FS_PigeonHole
<1> HIDE DEF S, f
<1>10. PICK q \in Nat, p \in 0 .. 2, h \in F :
         q + 1 \in 1 .. N /\ k = 3 * q + p /\ h = W[q + 1] /\ f[k] = h + p
  BY <1>7
<1>11. PICK s \in Nat, t \in 0 .. 2, g \in F :
         s + 1 \in 1 .. N /\ l = 3 * s + t /\ g = W[s + 1] /\ f[l] = g + t
  BY <1>7
<1>12. h + p = g + t
  BY ONLY <1>9, <1>10, <1>11
<1>13. h = g
  <2>1. /\ h \in Nat /\ g \in Nat /\ mem[h] \in Nat /\ mem[g] \in Nat
        /\ mem[h] >= 3 /\ mem[g] >= 3
        /\ h # g => h + mem[h] <= g \/ g + mem[g] <= h
    BY <1>2
  <2> QED
    BY ONLY <1>12, <2>1, p \in 0 .. 2, t \in 0 .. 2
<1>14. p = t
  BY <1>2, <1>12, <1>13
<1>15. q + 1 = s + 1
  BY <1>10, <1>11, <1>13
<1> QED
  BY <1>9, <1>10, <1>11, <1>14, <1>15

\* The blocks behind a place that is taken are as many as they say.
LEMMA PlaceInRoom ==
  ASSUME TypeOK, NEW F, NEW r, NEW X, Break, Shape(F, r, X),
         NEW i \in Nat, i >= 1, NEW x \in F, At(F, r, i, x)
  PROVE  i <= MostBlocks /\ \A j \in 1 .. i : \E y \in F : At(F, r, j, y)
<1> DEFINE P == {j \in Nat : j >= 1 /\ \E y \in F : At(F, r, j, y)}
<1>1. ASSUME NEW j \in P, j > 1
      PROVE  j - 1 \in P
  <2>1. PICK y \in F : At(F, r, j, y)
    OBVIOUS
  <2>2. At(F, r, j - 1, Read(mem, Prev_(y)))
    BY <1>1, <2>1, Places
  <2>3. Read(mem, Prev_(y)) \in F
    BY <2>2 DEF At
  <2> QED
    BY <1>1, <2>2, <2>3
<1>2. i \in P
  OBVIOUS
<1>3. \A j \in 1 .. i : j \in P
  <2>1. ASSUME NEW j \in 1 .. i
        PROVE  j \in P
    <3>1. j \in Nat /\ 1 <= j /\ j <= i /\ P \in SUBSET Nat
      OBVIOUS
    <3> HIDE DEF P
    <3> QED
      BY <1>1, <1>2, <3>1, NoGap
  <2> QED
    BY <2>1
<1> DEFINE W == [j \in 1 .. i |-> CHOOSE y \in F : At(F, r, j, y)]
<1>4. \A j \in 1 .. i : W[j] \in F /\ At(F, r, j, W[j])
  BY <1>3
<1>5. W \in [1 .. i -> F]
  BY <1>4
<1>6. ASSUME NEW j \in 1 .. i, NEW k \in 1 .. i, W[j] = W[k]
      PROVE  j = k
  <2>1. PICK y \in F : y = W[j]
    BY <1>4
  <2> HIDE DEF W
  <2>2. At(F, r, j, y) /\ At(F, r, k, y)
    BY <1>4, <1>6, <2>1
  <2>3. r[y] \in Int
    BY Places
  <2>4. r[y] = r[head] - (j - 1) /\ r[y] = r[head] - (k - 1)
    BY <2>2 DEF At
  <2>5. r[head] \in Int
    BY Places DEF At
  <2> QED
    BY <2>4, <2>5
<1> HIDE DEF W
<1>7. i <= MostBlocks
  BY <1>5, <1>6, Room
<1> QED
  BY <1>3, <1>7

\* The recursion of Walk has a solution, and the blocks in their places are one.
LEMMA WalkIs ==
  ASSUME TypeOK, NEW F, NEW r, NEW X, Break, Shape(F, r, X)
  PROVE  /\ MostBlocks \in Nat
         /\ Walk = [i \in 1 .. MostBlocks + 1 |->
                      IF i = 1 THEN head
                      ELSE IF Walk[i - 1] = NULL THEN NULL ELSE NextOf(Walk[i - 1])]
<1>0. MostBlocks \in Nat
  <2>1. HeapWords \in Nat
    BY HeapAssumption
  <2> QED
    BY <2>1, ByThree DEF MostBlocks
<1> DEFINE I == 1 .. MostBlocks + 1
           W == [i \in I |-> IF \E x \in F : At(F, r, i, x)
                             THEN CHOOSE x \in F : At(F, r, i, x) ELSE NULL]
           E == [i \in I |-> IF i = 1 THEN head
                             ELSE IF W[i - 1] = NULL THEN NULL ELSE NextOf(W[i - 1])]
<1>1. \A x \in F : x # NULL
  BY SearchFacts
<1>2. ASSUME NEW i \in I
      PROVE  /\ (\E x \in F : At(F, r, i, x)) => W[i] \in F /\ At(F, r, i, W[i]) /\ W[i] # NULL
             /\ ~(\E x \in F : At(F, r, i, x)) => W[i] = NULL
  BY <1>1
<1>3. \A i \in I : \A x \in F : At(F, r, i, x) => W[i] = x
  BY <1>2, Places
<1> HIDE DEF W
<1>4. ASSUME NEW i \in I
      PROVE  W[i] = E[i]
  <2>1. CASE i = 1
    <3>1. E[i] = head
      BY <2>1
    <3>2. CASE F = {}
      BY <1>2, <3>1, <3>2, Places
    <3>3. CASE F # {}
      <4>1. At(F, r, i, head) /\ head \in F
        BY <2>1, <3>3, Places DEF At
      <4> QED
        BY <1>3, <3>1, <4>1
    <3> QED
      BY <3>2, <3>3
  <2>2. CASE i # 1
    <3>1. i - 1 \in I /\ i - 1 \in Nat /\ i > 1 /\ i \in Nat /\ (i - 1) + 1 = i
      BY <1>0, <2>2
    <3>2. E[i] = IF W[i - 1] = NULL THEN NULL ELSE NextOf(W[i - 1])
      BY <2>2
    <3> HIDE DEF E, I
    <3>3. CASE \E x \in F : At(F, r, i - 1, x)
      <4>1. PICK x \in F : x = W[i - 1] /\ At(F, r, i - 1, x) /\ x # NULL
        BY <1>2, <3>1, <3>3
      <4>2. E[i] = NextOf(x)
        BY <3>2, <4>1
      <4>3. /\ NextOf(x) # NULL => At(F, r, i, NextOf(x))
            /\ NextOf(x) = NULL => \A y \in F : ~At(F, r, i, y)
        BY <3>1, <4>1, Places
      <4>4. CASE NextOf(x) = NULL
        BY <1>2, <4>2, <4>3, <4>4
      <4>5. CASE NextOf(x) # NULL
        BY <1>3, <4>2, <4>3, <4>5 DEF At
      <4> QED
        BY <4>4, <4>5
    <3>4. CASE ~\E x \in F : At(F, r, i - 1, x)
      <4>1. E[i] = NULL
        BY <1>2, <3>1, <3>2, <3>4
      <4>2. ASSUME NEW x \in F, At(F, r, i, x)
            PROVE  FALSE
        <5>1. At(F, r, i - 1, Read(mem, Prev_(x)))
          BY <3>1, <4>2, Places
        <5> QED
          BY <3>4, <5>1 DEF At
      <4> QED
        BY <1>2, <4>1, <4>2
    <3> QED
      BY <3>3, <3>4
  <2> QED
    BY <2>1, <2>2
<1>5. W = E
  <2>1. W = [i \in I |-> W[i]] /\ E = [i \in I |-> E[i]]
    BY DEF W
  <2> HIDE DEF E, I
  <2> QED
    BY <1>4, <2>1
<1>6. \E g : g = [i \in I |-> IF i = 1 THEN head
                              ELSE LET before == g[i - 1]
                                   IN IF before = NULL THEN NULL ELSE NextOf(before)]
  <2>1. W = [i \in I |-> IF i = 1 THEN head
                         ELSE LET before == W[i - 1]
                              IN IF before = NULL THEN NULL ELSE NextOf(before)]
    BY <1>5
  <2> QED
    BY <2>1
<1>7. Walk = [i \in I |-> IF i = 1 THEN head
                          ELSE LET before == Walk[i - 1]
                               IN IF before = NULL THEN NULL ELSE NextOf(before)]
  BY <1>6 DEF Walk
<1> QED
  BY <1>0, <1>7

\* Walk finds the block in each place, and nothing behind the last.
LEMMA WalkFinds ==
  ASSUME TypeOK, NEW F, NEW r, NEW X, Break, Shape(F, r, X),
         NEW i \in 1 .. MostBlocks + 1
  PROVE  /\ \A x \in F : At(F, r, i, x) => Walk[i] = x
         /\ (\A x \in F : ~At(F, r, i, x)) => Walk[i] = NULL
<1> DEFINE Right(j) == /\ \A x \in F : At(F, r, j, x) => Walk[j] = x
                       /\ (\A x \in F : ~At(F, r, j, x)) => Walk[j] = NULL
           S == {j \in 1 .. MostBlocks + 1 : ~Right(j)}
<1>0. MostBlocks \in Nat /\ \A x \in F : x # NULL
  BY WalkIs, SearchFacts
<1>1. /\ Walk[1] = head
      /\ \A j \in 1 .. MostBlocks + 1 : j # 1 =>
           Walk[j] = IF Walk[j - 1] = NULL THEN NULL ELSE NextOf(Walk[j - 1])
  <2>1. 1 \in 1 .. MostBlocks + 1
    BY <1>0
  <2>2. Walk = [j \in 1 .. MostBlocks + 1 |->
                  IF j = 1 THEN head
                  ELSE IF Walk[j - 1] = NULL THEN NULL ELSE NextOf(Walk[j - 1])]
    BY WalkIs
  <2> DEFINE E == [j \in 1 .. MostBlocks + 1 |->
                     IF j = 1 THEN head
                     ELSE IF Walk[j - 1] = NULL THEN NULL ELSE NextOf(Walk[j - 1])]
  <2>3. /\ E[1] = head
        /\ \A j \in 1 .. MostBlocks + 1 : j # 1 =>
             E[j] = IF Walk[j - 1] = NULL THEN NULL ELSE NextOf(Walk[j - 1])
    BY <2>1
  <2>4. Walk = E
    BY <2>2
  <2> HIDE DEF E
  <2> QED
    BY ONLY <2>3, <2>4
<1>2. SUFFICES ASSUME S # {} PROVE FALSE
  OBVIOUS
<1>3. PICK j \in S : \A k \in S : j <= k
  <2>1. S \in SUBSET Nat
    BY <1>0
  <2> HIDE DEF S
  <2> QED
    BY <1>2, <2>1, Least
<1>4. j \in 1 .. MostBlocks + 1 /\ ~Right(j)
  OBVIOUS
<1>5. CASE j = 1
  <2>1. Walk[j] = head
    BY <1>1, <1>5
  <2>2. CASE F = {}
    BY <1>4, <2>1, <2>2, Places
  <2>3. CASE F # {}
    <3>1. At(F, r, j, head) /\ head \in F /\ j \in Nat
      BY <1>5, <2>3, Places DEF At
    <3>2. \A x \in F : At(F, r, j, x) => x = head
      BY <3>1, Places
    <3> QED
      BY <1>4, <2>1, <3>1, <3>2
  <2> QED
    BY <2>2, <2>3
<1>6. CASE j # 1
  <2>1. j - 1 \in 1 .. MostBlocks + 1 /\ j - 1 \in Nat /\ j > 1 /\ j \in Nat /\ (j - 1) + 1 = j
    BY <1>0, <1>4, <1>6
  <2>2. Right(j - 1)
    <3>1. j - 1 \notin S
      BY <1>3, <2>1
    <3> QED
      BY <2>1, <3>1
  <2>3. Walk[j] = IF Walk[j - 1] = NULL THEN NULL ELSE NextOf(Walk[j - 1])
    BY <1>1, <1>4, <1>6
  <2>4. CASE \E x \in F : At(F, r, j - 1, x)
    <3>1. PICK x \in F : At(F, r, j - 1, x)
      BY <2>4
    <3>2. Walk[j - 1] = x /\ x # NULL
      BY <1>0, <2>2, <3>1
    <3>3. Walk[j] = NextOf(x)
      BY <2>3, <3>2
    <3>4. /\ NextOf(x) # NULL => At(F, r, j, NextOf(x))
          /\ NextOf(x) = NULL => \A y \in F : ~At(F, r, j, y)
      BY <2>1, <3>1, Places
    <3>5. CASE NextOf(x) = NULL
      BY <1>4, <3>3, <3>4, <3>5
    <3>6. CASE NextOf(x) # NULL
      <4>1. NextOf(x) \in F /\ At(F, r, j, NextOf(x))
        BY <3>4, <3>6 DEF At
      <4>2. \A y \in F : At(F, r, j, y) => y = NextOf(x)
        BY <2>1, <4>1, Places
      <4> QED
        BY <1>4, <3>3, <4>1, <4>2
    <3> QED
      BY <3>5, <3>6
  <2>5. CASE ~\E x \in F : At(F, r, j - 1, x)
    <3>1. Walk[j] = NULL
      BY <2>2, <2>3, <2>5
    <3>2. ASSUME NEW x \in F, At(F, r, j, x)
          PROVE  FALSE
      <4>1. At(F, r, j - 1, Read(mem, Prev_(x)))
        BY <2>1, <3>2, Places
      <4> QED
        BY <2>5, <4>1 DEF At
    <3> QED
      BY <1>4, <3>1, <3>2
  <2> QED
    BY <2>4, <2>5
<1> QED
  BY <1>5, <1>6

\* The least of a set of integers.
LEMMA MinIs ==
  ASSUME NEW S \in SUBSET Int, NEW m \in S, \A x \in S : m <= x
  PROVE  Min(S) = m
<1>1. \A x \in S : (\A y \in S : x <= y) => x = m
  <2>1. SUFFICES ASSUME NEW x \in S, \A y \in S : x <= y
                 PROVE  x = m
    OBVIOUS
  <2>2. x <= m /\ m <= x /\ x \in Int /\ m \in Int
    BY <2>1
  <2> QED
    BY <2>2
<1> QED
  BY <1>1 DEF Min

\* The list has the blocks of F, each in its place.
LEMMA Listing ==
  ASSUME TypeOK, NEW F, NEW r, NEW X, Break, Shape(F, r, X)
  PROVE  /\ Acyclic
         /\ Len(List) \in Nat /\ DOMAIN List = 1 .. Len(List)
         /\ \A i \in 1 .. Len(List) : List[i] \in F /\ At(F, r, i, List[i])
         /\ \A x \in F : \E i \in 1 .. Len(List) : List[i] = x
         /\ Listed = F
<1>0. MostBlocks \in Nat /\ \A x \in F : x # NULL
  BY WalkIs, SearchFacts
<1> DEFINE N == MostBlocks + 1
           ends == {i \in 1 .. N : Walk[i] = NULL}
<1>1. N \in 1 .. N /\ N \in Nat
  BY <1>0
<1>2. Walk[N] = NULL
  <2>1. ASSUME NEW x \in F, At(F, r, N, x)
        PROVE  FALSE
    BY <1>0, <1>1, <2>1, PlaceInRoom
  <2> QED
    BY <1>1, <2>1, WalkFinds
<1>3. Acyclic
  BY <1>2 DEF Acyclic
<1>4. ends # {} /\ ends \in SUBSET Nat /\ ends \in SUBSET Int
  BY <1>1, <1>2
<1>5. PICK e \in ends : \A k \in ends : e <= k
  <2> HIDE DEF ends
  <2> QED
    BY <1>4, Least
<1>6. Min(ends) = e
  <2> HIDE DEF ends
  <2> QED
    BY <1>4, <1>5, MinIs
<1>7. e \in 1 .. N /\ Walk[e] = NULL /\ e \in Nat /\ e - 1 \in Nat
  BY <1>1
<1>8. List = [i \in 1 .. e - 1 |-> Walk[i]]
  BY <1>4, <1>6 DEF List
<1>9. Len(List) = e - 1 /\ DOMAIN List = 1 .. e - 1 /\ \A i \in 1 .. e - 1 : List[i] = Walk[i]
  BY <1>7, <1>8
<1>10. ASSUME NEW i \in 1 .. e - 1
       PROVE  List[i] \in F /\ At(F, r, i, List[i])
  <2>1. i \in 1 .. N /\ i < e /\ Walk[i] # NULL
    <3>1. i \in 1 .. N /\ ~(e <= i)
      BY <1>1, <1>7
    <3>2. i \notin ends
      BY <1>5, <3>1
    <3> QED
      BY <1>7, <3>1, <3>2
  <2>2. PICK x \in F : At(F, r, i, x)
    BY <2>1, WalkFinds
  <2> QED
    BY <1>9, <2>1, <2>2, WalkFinds
<1>11. ASSUME NEW x \in F
       PROVE  \E i \in 1 .. e - 1 : List[i] = x
  <2>1. PICK i \in Nat : i >= 1 /\ At(F, r, i, x)
    BY Places
  <2>2. i <= MostBlocks /\ \A j \in 1 .. i : \E y \in F : At(F, r, j, y)
    BY <2>1, PlaceInRoom
  <2>3. i \in 1 .. N
    BY <1>0, <2>1, <2>2
  <2>4. ASSUME e <= i PROVE FALSE
    <3>1. PICK y \in F : At(F, r, e, y)
      BY <1>7, <2>2, <2>4
    <3>2. Walk[e] = y
      BY <1>7, <3>1, WalkFinds
    <3> QED
      BY <1>0, <1>7, <3>2
  <2>5. i \in 1 .. e - 1
    BY <1>7, <2>3, <2>4
  <2>6. Walk[i] = x
    BY <2>1, <2>3, WalkFinds
  <2> QED
    BY <1>9, <2>5, <2>6
<1>12. Listed = F
  <2>1. Listed = {List[i] : i \in 1 .. e - 1}
    BY <1>9 DEF Listed, ToSet
  <2> QED
    BY <1>10, <1>11, <2>1
<1> QED
  BY <1>3, <1>7, <1>9, <1>10, <1>11, <1>12

-----------------------------------------------------------------------------
(***************************************************************************)
(* What a careful client makes sure of before a call                       *)
(***************************************************************************)
\* The search takes the first block that is large enough.
LEMMA FitsFirst ==
  ASSUME TypeOK, NEW F, NEW r, NEW X, Break, Shape(F, r, X), NEW t \in Nat
  PROVE  /\ (\A x \in F : mem[x] < t) => Fits(t) = 0
         /\ \A x \in F : mem[x] >= t /\ (\A y \in F : r[y] > r[x] => mem[y] < t) =>
              /\ Fits(t) \in 1 .. Len(List) /\ List[Fits(t)] = x
              /\ Fits(t) = 1 <=> x = head
<1> DEFINE I == {i \in 1 .. Len(List) : SizeOf(List[i]) >= t}
<1>1. Fits(t) = IF I # {} THEN Min(I) ELSE 0
  BY DEF Fits, SelectInSeq
<1>2. /\ Len(List) \in Nat
      /\ \A i \in 1 .. Len(List) : List[i] \in F /\ At(F, r, i, List[i])
      /\ \A x \in F : \E i \in 1 .. Len(List) : List[i] = x
  BY Listing
<1>3. \A x \in F : SizeOf(x) = mem[x] /\ mem[x] \in Nat
  BY BlockFacts
<1>4. ASSUME \A x \in F : mem[x] < t
      PROVE  Fits(t) = 0
  <2>1. \A i \in 1 .. Len(List) : ~(SizeOf(List[i]) >= t)
    BY <1>2, <1>3, <1>4
  <2> QED
    BY <1>1, <2>1
<1>5. ASSUME NEW x \in F, mem[x] >= t, \A y \in F : r[y] > r[x] => mem[y] < t
      PROVE  /\ Fits(t) \in 1 .. Len(List) /\ List[Fits(t)] = x
             /\ Fits(t) = 1 <=> x = head
  <2>1. PICK i \in 1 .. Len(List) : List[i] = x
    BY <1>2
  <2>2. i \in I
    BY <1>3, <1>5, <2>1
  <2>3. At(F, r, i, x) /\ i \in Nat /\ \A y \in F : r[y] \in Int
    BY <1>2, <2>1, Places
  <2>4. ASSUME NEW j \in I
        PROVE  i <= j
    <3>1. PICK y \in F : y = List[j] /\ At(F, r, j, y) /\ mem[y] >= t /\ j \in Nat
      BY <1>2, <1>3
    <3>2. ~(r[y] > r[x])
      BY <1>3, <1>5, <3>1
    <3>3. r[x] = r[head] - (i - 1) /\ r[y] = r[head] - (j - 1) /\ r[head] \in Int
      BY <2>3, <3>1, Places DEF At
    <3> QED
      BY <2>3, <3>1, <3>2, <3>3
  <2>5. I \in SUBSET Int
    BY <1>2
  <2>6. Fits(t) = i
    <3>1. Min(I) = i
      <4> HIDE DEF I
      <4> QED
        BY <2>2, <2>4, <2>5, MinIs
    <3> QED
      BY <1>1, <2>2, <3>1
  <2>7. i = 1 <=> x = head
    <3>1. F # {} /\ At(F, r, 1, head) /\ head \in F
      BY Places DEF At
    <3>2. ASSUME i = 1 PROVE x = head
      BY <2>3, <3>1, <3>2, Places
    <3>3. ASSUME x = head PROVE i = 1
      BY <2>3, <3>1, <3>3 DEF At
    <3> QED
      BY <3>2, <3>3
  <2> QED
    BY <2>1, <2>6, <2>7
<1> QED
  BY <1>4, <1>5

Careful == Unsafe \subseteq {"resize_by_moving"}

\* The client that asks for a block knows that the allocator can give it one.
LEMMA RequestPromised ==
  ASSUME TypeOK, Careful, NEW F, NEW r, NEW X, Break, Shape(F, r, X), NEW n \in Nat,
         MayRequest(n)
  PROVE  Promised(F, r, n + Header)
<1>1. PICK t \in Nat : t = n + Header
  BY DEF Header
<1>2. IF Fits(t) = 0 THEN MayGrow(t) ELSE MayTake(Fits(t), t)
  BY <1>1 DEF MayRequest
<1>3. Avoids("tight_fit") /\ Avoids("last_fit") /\ Avoids("stale_prev")
      /\ Avoids("heap_exhausted")
  BY DEF Careful, Avoids
<1>4. \A x \in F : SizeOf(x) = mem[x] /\ mem[x] \in Nat /\ NextOf(x) = mem[x + 1]
  BY BlockFacts
<1>5. ASSUME NEW x \in F, mem[x] >= t, \A y \in F : r[y] > r[x] => mem[y] < t
      PROVE  Splits(x, t)
  <2>1. PICK i \in 1 .. Len(List) : i = Fits(t) /\ List[i] = x /\ (i = 1 <=> x = head)
    BY <1>5, FitsFirst, SMTT(20)
  <2>2. i # 0 /\ i \in Nat
    BY Listing
  <2>3. MayTake(i, t)
    BY <1>2, <2>1, <2>2
  <2>4. mem[x] - t >= 3 /\ (i = 1 \/ mem[x + 1] # NULL) /\ (i > 1 \/ mem[x + 1] = NULL)
    BY <1>3, <1>4, <2>1, <2>3 DEF MayTake
  <2>5. mem[x] >= t + 3
    BY <1>4, <2>4
  <2>6. i > 1 <=> ~(i = 1)
    BY <2>2
  <2> QED
    BY <2>1, <2>4, <2>5, <2>6 DEF Splits
<1>6. ASSUME \A x \in F : mem[x] < t
      PROVE  Growable(t)
  <2>1. MayGrow(t)
    BY <1>2, <1>6, FitsFirst
  <2> QED
    BY <1>3, <2>1 DEF MayGrow, Growable
<1>7. Promised(F, r, t)
  BY <1>5, <1>6 DEF Promised
<1> QED
  BY <1>1, <1>7

\* The client that frees a block knows that its listed neighbours are where
\* kufree can handle them.
LEMMA FreePromised ==
  ASSUME TypeOK, Careful, NEW F, NEW r, NEW X, Break, Shape(F, r, X), NEW b \in live,
         MayFree(b)
  PROVE  IF b.at - Header + mem[b.at - Header] = Top
         THEN FreesLast(F, b.at - Header) ELSE FreesInner(F, b.at - Header)
<1>1. PICK h : h = b.at - Header
  OBVIOUS
<1>2. h \in Used(live) /\ SizeOf(h) = mem[h] /\ End(h) = h + mem[h] /\ Top = block_end
      /\ h \in Nat /\ mem[h] \in Nat
  BY <1>1, PayloadFacts, TopIsEnd
<1>3. Listed = F
  BY Listing
<1>4. /\ \A x \in F : SizeOf(x) = mem[x] /\ mem[x] \in Nat /\ NextOf(x) = mem[x + 1]
                      /\ End(x) = x + mem[x] /\ x \in Nat
      /\ \A x, y \in F : x # y => x + mem[x] <= y \/ y + mem[y] <= x
      /\ \A x \in F : mem[x] >= 3
  BY BlockFacts
<1>5. Avoids("stale_prev") /\ Avoids("unmapped_read") /\ Avoids("three_way")
  BY DEF Careful, Avoids
<1>6. IF End(h) = block_end THEN MayFreeLast(h) ELSE MayFreeInner(h)
  BY <1>1 DEF MayFree
<1>7. CASE h + mem[h] = Top
  <2>1. MayFreeLast(h)
    BY <1>2, <1>6, <1>7
  <2>2. FreesLast(F, h)
    BY <1>3, <1>4, <1>5, <2>1 DEF MayFreeLast, FreesLast, Prev_
  <2> QED
    BY <1>1, <1>7, <2>2
<1>8. CASE h + mem[h] # Top
  <2> DEFINE lower == {f \in Listed : End(f) = h}
             upper == {f \in Listed : f = End(h)}
  <2>1. IF lower # {} /\ upper # {}
        THEN \E l \in lower, u \in upper : List = <<l, u>> \/ (head = u /\ NextOf(u) = l)
        ELSE \A u \in upper : NextOf(u) = NULL
    BY <1>2, <1>5, <1>6, <1>8 DEF MayFreeInner
  <2>2. \A x \in F : /\ x \in lower <=> x + mem[x] = h
                     /\ x \in upper <=> x = h + mem[h]
    BY <1>2, <1>3, <1>4
  <2>3. lower \subseteq F /\ upper \subseteq F
    BY <1>3
  <2> HIDE DEF lower, upper
  <2>4. ASSUME NEW l \in F, NEW u \in F, l + mem[l] = h, u = h + mem[h]
        PROVE  (head = l /\ mem[l + 1] = u /\ mem[u + 1] = NULL) \/ (head = u /\ mem[u + 1] = l)
    <3>1. l \in lower /\ u \in upper
      BY <2>2, <2>4
    <3>2. PICK k \in lower, v \in upper : List = <<k, v>> \/ (head = v /\ NextOf(v) = k)
      BY <2>1, <3>1
    <3>3. k = l
      <4>1. k \in F /\ k + mem[k] = h
        BY <2>2, <2>3
      <4>2. /\ k \in Nat /\ l \in Nat /\ mem[k] \in Nat /\ mem[l] \in Nat
            /\ mem[k] >= 3 /\ mem[l] >= 3
            /\ k # l => k + mem[k] <= l \/ l + mem[l] <= k
        BY <1>4, <4>1
      <4> QED
        BY <1>2, <2>4, <4>1, <4>2
    <3>4. v = u
      BY <2>2, <2>3, <2>4
    <3>5. CASE head = v /\ NextOf(v) = k
      BY <1>4, <3>3, <3>4, <3>5
    <3>6. CASE List = <<k, v>>
      <4>1. Len(List) = 2 /\ List[1] = l /\ List[2] = u
        BY <3>3, <3>4, <3>6
      <4>2. At(F, r, 1, l) /\ At(F, r, 2, u)
        BY <4>1, Listing
      <4>3. head = l
        <5>1. At(F, r, 1, head) /\ head \in F
          BY Places DEF At
        <5> QED
          BY <4>2, <5>1, Places
      <4>4. NextOf(l) = u
        <5>1. NextOf(l) # NULL => At(F, r, 2, NextOf(l))
          BY <4>2, Places
        <5>2. NextOf(l) = NULL => ~At(F, r, 2, u)
          BY <4>2, Places
        <5>3. NextOf(l) \in F /\ At(F, r, 2, NextOf(l))
          BY <4>2, <5>1, <5>2 DEF At
        <5> QED
          BY <4>2, <5>3, Places
      <4>5. NextOf(u) = NULL
        <5>1. SUFFICES ASSUME NextOf(u) # NULL PROVE FALSE
          OBVIOUS
        <5>2. At(F, r, 3, NextOf(u))
          BY <4>2, <5>1, Places
        <5>3. NextOf(u) \in F
          BY <5>2 DEF At
        <5>4. PICK i \in 1 .. Len(List) : List[i] = NextOf(u)
          BY <5>3, Listing
        <5>5. (i = 1 \/ i = 2) /\ At(F, r, i, NextOf(u))
          BY <4>1, <5>4, Listing
        <5>6. r[NextOf(u)] \in Int /\ r[head] \in Int
          BY <4>2, <4>3, <5>3, Places
        <5> QED
          BY <5>2, <5>5, <5>6 DEF At
      <4> QED
        BY <1>4, <4>3, <4>4, <4>5
    <3> QED
      BY <3>2, <3>5, <3>6
  <2>5. ASSUME NEW u \in F, u = h + mem[h], \A l \in F : l + mem[l] # h
        PROVE  mem[u + 1] = NULL
    <3>1. u \in upper /\ lower = {}
      BY <2>2, <2>3, <2>5
    <3> QED
      BY <1>4, <2>1, <3>1
  <2>6. FreesInner(F, h)
    BY <2>4, <2>5 DEF FreesInner
  <2> QED
    BY <1>1, <1>8, <2>6
<1> QED
  BY <1>7, <1>8

-----------------------------------------------------------------------------
(***************************************************************************)
(* The calls that ask for a block                                          *)
(***************************************************************************)
\* An entry point starts the search at the head of the list.
LEMMA EnterStep ==
  ASSUME TypeOK, NEW F, NEW r, NEW X, Idle(F, r, X),
         NEW op, NEW b, NEW len \in Nat, NEW n \in Nat, n # 0, Enter(op, b, len, n),
         Promised(F, r, n + Header),
         \/ /\ op \in {"malloc", "calloc"} /\ b.at = NULL /\ len = n /\ n > 1
         \/ /\ op = "realloc" /\ b \in live /\ n = len + Header
            /\ mem[b.at - Header] < len
            /\ b.at - Header + mem[b.at - Header] <= LastMapped(brk)
  PROVE  pc' = "fit" /\ call'.op = op /\ Fitting(F, r, X)'
<1>1. UNCHANGED <<code, live>> /\ pc' = "fit" /\ Break /\ Shape(F, r, X)
  BY DEF Enter, Idle, Calm
<1>2. Idle(F, r, X)' /\ mem' = mem /\ live' = live /\ brk' = brk /\ head' = head
      /\ available_memory' = available_memory
  BY <1>1, SameCalm
<1>3. /\ call'.op = op /\ call'.ptr = b.at /\ call'.len = len
      /\ call'.total = n + Header /\ call'.temp = head
      /\ call'.prev_size = SizeOf(b.at - Header)
  BY DEF Enter, NoCall
<1>4. Requesting'
  <2>1. CASE op \in {"malloc", "calloc"} /\ b.at = NULL /\ len = n /\ n > 1
    BY <1>3, <2>1 DEF Requesting
  <2>2. CASE /\ op = "realloc" /\ b \in live /\ n = len + Header
             /\ mem[b.at - Header] < len
             /\ b.at - Header + mem[b.at - Header] <= LastMapped(brk)
    <3>1. SizeOf(b.at - Header) = mem[b.at - Header]
      BY <1>1, <2>2, PayloadFacts
    <3>2. n + Header = len + 2 * Header
      BY <2>2 DEF Header
    <3>3. \E d \in live' : d.at = call'.ptr
      BY <1>2, <1>3, <2>2
    <3>4. call'.prev_size = mem'[call'.ptr - Header] /\ call'.prev_size < call'.len
          /\ call'.total = call'.len + 2 * Header /\ call'.op = "realloc"
          /\ call'.ptr - Header + call'.prev_size <= LastMapped(brk')
      BY <1>2, <1>3, <2>2, <3>1, <3>2
    <3> QED
      BY <3>3, <3>4 DEF Requesting
  <2> QED
    BY <2>1, <2>2
<1>5. Promised(F, r, call.total)'
  BY <1>2, <1>3 DEF Promised, Splits, Growable, CanMove
<1>6. head \in F \cup {NULL} /\ \A x \in F : ~Passed(r, head, x)
  BY <1>1, SearchFacts
<1>7. /\ call'.temp \in F \cup {NULL}
      /\ \A x \in F : Passed(r, call'.temp, x) => mem'[x] < call'.total
  BY <1>3, <1>6
<1> QED
  BY <1>1, <1>2, <1>3, <1>4, <1>5, <1>7 DEF Fitting

\* A call that finds nothing to do returns at once.
LEMMA NothingAsked ==
  ASSUME NEW F, NEW r, NEW X, Idle(F, r, X), NEW op, NEW b, NEW len, Enter(op, b, len, 0)
  PROVE  pc' = "idle" /\ call' = NoCall /\ Idle(F, r, X)'
<1>1. UNCHANGED <<code, live>> /\ pc' = "idle" /\ call' = NoCall
  BY DEF Enter
<1> QED
  BY <1>1, SameCalm

\* A careful client asks kumalloc.
LEMMA MallocStep ==
  ASSUME TypeOK, Careful, NEW F, NEW r, NEW X, Idle(F, r, X),
         NEW n \in Sizes, MayMalloc(n), CallMalloc(n)
  PROVE  pc' = "fit" /\ call'.op = "malloc" /\ Fitting(F, r, X)'
<1>1. n \in Nat /\ n # 0
  BY SizesAssumption
<1>2. n > 1 /\ MayRequest(n)
  <2>1. Avoids("small_block")
    BY DEF Careful, Avoids
  <2> QED
    BY <2>1 DEF MayMalloc
<1>3. Promised(F, r, n + Header)
  BY <1>1, <1>2, RequestPromised DEF Idle, Calm
<1>4. Enter("malloc", Nothing, n, n) /\ Nothing.at = NULL
  BY DEF CallMalloc, Nothing
<1> QED
  BY ONLY TypeOK, Idle(F, r, X), <1>1, <1>2, <1>3, <1>4, EnterStep

\* Nothing wraps below the width.
LEMMA Fitted ==
  ASSUME NEW p \in Nat, NEW w \in Nat \ {0}, p < w
  PROVE  p % w = p
OBVIOUS

\* It asks kucalloc.
LEMMA CallocStep ==
  ASSUME TypeOK, Careful, NEW F, NEW r, NEW X, Idle(F, r, X),
         NEW k \in Counts, NEW n \in Sizes, MayCalloc(k, n), CallCalloc(k, n)
  PROVE  \/ pc' = "idle" /\ call' = NoCall /\ Idle(F, r, X)'
         \/ pc' = "fit" /\ call'.op = "calloc" /\ Fitting(F, r, X)'
<1>1. k \in Nat /\ n \in Nat
  BY SizesAssumption
<1>2. PICK p \in Nat : p = k * n
  BY <1>1
<1>3. p < Width
  <2>1. Avoids("calloc_overflow")
    BY DEF Careful, Avoids
  <2> QED
    BY <1>2, <2>1 DEF MayCalloc
<1>4. p % Width = p
  BY <1>3, WidthAssumption, Fitted
<1>5. Enter("calloc", Nothing, p, p) /\ Nothing.at = NULL
  BY <1>2, <1>4, Zenon DEF CallCalloc, Nothing
<1>6. CASE p = 0
  BY <1>5, <1>6, NothingAsked
<1>7. CASE p # 0
  <2>1. MayMalloc(p)
    BY <1>2, <1>4, <1>7, Zenon DEF MayCalloc
  <2>2. p > 1 /\ MayRequest(p)
    <3>1. Avoids("small_block")
      BY DEF Careful, Avoids
    <3> QED
      BY <2>1, <3>1 DEF MayMalloc
  <2>3. Promised(F, r, p + Header)
    BY <2>2, RequestPromised DEF Idle, Calm
  <2> QED
    BY ONLY TypeOK, Idle(F, r, X), p \in Nat, <1>5, <1>7, <2>2, <2>3, EnterStep
<1> QED
  BY <1>6, <1>7

\* kurealloc leaves the block where it is, or asks for another.
LEMMA ReallocStep ==
  ASSUME TypeOK, Careful, NEW F, NEW r, NEW X, Idle(F, r, X),
         NEW b \in live, NEW n \in Resizes, MayRealloc(b, n), CallRealloc(b, n)
  PROVE  \/ pc' = "fill" /\ call'.op = "resize" /\ Filling(F, r, X)'
         \/ /\ Unsafe # {}
            /\ pc' = "fit" /\ call'.op = "realloc" /\ Fitting(F, r, X)'
<1>1. n \in Nat /\ n # 0
  BY SizesAssumption
<1>2. Break /\ Shape(F, r, X)
  BY DEF Idle, Calm
<1>3. SizeOf(b.at - Header) = mem[b.at - Header] /\ mem[b.at - Header] \in Nat
      /\ End(b.at - Header) = b.at - Header + mem[b.at - Header]
  BY <1>2, PayloadFacts
<1>4. CASE SizeOf(b.at - Header) >= n
  <2>1. Avoids("resize_in_place")
    BY DEF Careful, Avoids
  <2>2. n <= SizeOf(b.at - Header) - Header
    BY <1>4, <2>1 DEF MayRealloc
  <2> QED
    BY ONLY TypeOK, Idle(F, r, X), b \in live, <1>1, <1>4, <2>2,
            CallRealloc(b, n), ResizeStep
<1>5. CASE ~(SizeOf(b.at - Header) >= n)
  <2>1. Avoids("resize_at_end")
    BY DEF Careful, Avoids
  <2>2. /\ ~Avoids("resize_by_moving") /\ MayRequest(n + Header)
        /\ End(b.at - Header) <= LastMapped(brk)
    BY <1>5, <2>1 DEF MayRealloc
  <2>3. Unsafe # {}
    BY <2>2 DEF Avoids
  <2>4. Enter("realloc", b, n, n + Header)
    BY <1>5 DEF CallRealloc
  <2>5. PICK t \in Nat : t = n + Header /\ t # 0
    BY <1>1 DEF Header
  <2>6. Promised(F, r, t + Header)
    BY <1>2, <2>2, <2>5, RequestPromised
  <2>7. mem[b.at - Header] < n /\ b.at - Header + mem[b.at - Header] <= LastMapped(brk)
    BY <1>1, <1>3, <1>5, <2>2
  <2>8. Enter("realloc", b, n, t)
    BY <2>4, <2>5, Zenon
  <2> QED
    BY ONLY TypeOK, Idle(F, r, X), b \in live, <1>1, <2>3, <2>5, <2>6, <2>7, <2>8, EnterStep
<1> QED
  BY <1>4, <1>5

-----------------------------------------------------------------------------
(***************************************************************************)
(* No step dereferences a word that is not mapped                          *)
(***************************************************************************)
\* The words a step may dereference when the break stays where it is.
Mapped == First .. LastMapped(brk)

\* Every word of a block is mapped.
LEMMA BlocksMapped ==
  ASSUME TypeOK, NEW F, NEW r, NEW X, Break, Shape(F, r, X)
  PROVE  /\ brk \in Nat /\ brk > 0 /\ LastMapped(brk) \in Nat /\ LastMapped(brk) >= Top - 1
         /\ First \in Nat /\ Top \in Nat
         /\ \A h \in F \cup Used(live) \cup X :
              /\ h \in Mapped /\ h + 1 \in Mapped /\ h + 2 \in Mapped
              /\ \A w \in Int : h <= w /\ w < h + mem[h] => w \in Mapped
<1>1. /\ brk = Top + available_memory /\ available_memory \in Nat /\ Top \in Nat
      /\ First \in Nat /\ First > 0 /\ Top >= First
  BY ConstantTypes DEF Break, TypeOK
<1>2. brk \in Nat /\ brk > 0 /\ brk >= Top
  BY <1>1
<1>3. LastMapped(brk) \in Nat /\ LastMapped(brk) >= brk - 1
  BY <1>2, MappedBelow
<1>4. PICK last \in Nat : last = LastMapped(brk)
  BY <1>3
<1>5. ASSUME NEW w \in Int, First <= w, w < Top
      PROVE  w \in Mapped
  BY <1>1, <1>2, <1>3, <1>4, <1>5 DEF Mapped
<1>6. \A h \in F \cup Used(live) \cup X :
        h \in Nat /\ mem[h] \in Nat /\ h >= First /\ mem[h] >= 3 /\ h + mem[h] <= Top
  BY BlockFacts
<1>7. ASSUME NEW h \in F \cup Used(live) \cup X, NEW w \in Int, h <= w, w < h + mem[h]
      PROVE  w \in Mapped
  <2>1. First <= w /\ w < Top
    BY <1>1, <1>6, <1>7
  <2> QED
    BY <1>5, <2>1
<1>8. ASSUME NEW h \in F \cup Used(live) \cup X
      PROVE  h \in Mapped /\ h + 1 \in Mapped /\ h + 2 \in Mapped
  <2>1. /\ h \in Int /\ h + 1 \in Int /\ h + 2 \in Int
        /\ h + 1 < h + mem[h] /\ h + 2 < h + mem[h] /\ h < h + mem[h]
        /\ h <= h /\ h <= h + 1 /\ h <= h + 2
    BY <1>6
  <2> QED
    BY <1>7, <2>1
<1>9. LastMapped(brk) >= Top - 1
  BY <1>1, <1>2, <1>3
<1> QED
  BY <1>1, <1>2, <1>3, <1>7, <1>8, <1>9

\* What a step dereferences, by where the call stands.
LEMMA TouchedAt ==
  /\ pc = "idle" => Touched = {}
  /\ pc = "fit" => Touched = IF call.temp = NULL THEN {}
                             ELSE IF SizeOf(call.temp) >= call.total THEN {call.temp}
                             ELSE {call.temp, Next_(call.temp)}
  /\ pc = "grow" => Touched = {GrowAt}
  /\ pc = "take" => Touched = TakeTouches
  /\ pc = "unlink" => Touched = UnlinkTouches
  /\ pc = "return" /\ call.op = "calloc" => Touched = Cleared
  /\ pc = "return" /\ call.op = "realloc" => Touched = Copied \cup CopiedFrom
  /\ pc = "return" /\ call.op \notin {"calloc", "realloc"} => Touched = {}
  /\ pc = "fill" => Touched = UNION {Payload(b) : b \in Given}
  /\ pc = "last" => Touched = {call.block}
  /\ pc = "trim" => Touched = TrimTouches
BY DEF Touched

\* What the searches for a neighbour dereference.
LEMMA TouchedMerging ==
  /\ pc = "merge" =>
       Touched = IF call.temp = NULL THEN {Next_(call.block), Prev_(head)}
                 ELSE {call.temp, call.block}
                        \cup (IF call.block = End(call.temp) \/ call.temp = End(call.block)
                              THEN {} ELSE {Next_(call.temp)})
  /\ pc = "above" =>
       Touched = IF call.temp2 = End(call.block)
                 THEN ThreeTouches(call.temp, call.temp2)
                 ELSE {Next_(call.temp2), call.temp, call.block}
  /\ pc = "below" =>
       Touched = IF call.temp2 = NULL
                 THEN {call.block, Next_(call.block), call.temp, Prev_(call.temp)}
                        \cup (IF call.temp # head
                              THEN {Next_(Read(mem, Prev_(call.temp)))} ELSE {})
                 ELSE IF End(call.temp2) = call.block
                      THEN ThreeTouches(call.temp2, call.temp)
                      ELSE {Next_(call.temp2)}
BY DEF Touched

\* The break that the words a step dereferences are held against.
LEMMA BreakAt ==
  /\ pc = "grow" => BreakThen = Moved(GrowBy)
  /\ pc = "trim" /\ call.temp # NULL /\ End(call.temp) = block_end =>
       BreakThen = Moved(-SizeOf(call.temp))
  /\ pc # "grow" /\ ~(pc = "trim" /\ call.temp # NULL /\ End(call.temp) = block_end) =>
       BreakThen = brk
BY DEF BreakThen

\* Where the break stays, it is enough that the words are mapped now.
LEMMA FaultsNot ==
  ASSUME BreakThen = brk, Touched \subseteq Mapped
  PROVE  ~Faults
BY DEF Faults, Mapped

\* First fit dereferences mapped words only.
LEMMA FitSafe ==
  ASSUME TypeOK, NEW F, NEW r, NEW X, Fitting(F, r, X), pc = "fit"
  PROVE  ~Faults
<1>1. Break /\ Shape(F, r, X) /\ call.temp \in F \cup {NULL}
  BY DEF Fitting, Idle, Calm
<1>2. call.temp # NULL => call.temp \in Mapped /\ Next_(call.temp) \in Mapped
  BY <1>1, BlocksMapped DEF Next_
<1>3. Touched \subseteq Mapped
  BY <1>2, TouchedAt
<1> QED
  BY <1>3, BreakAt, FaultsNot

\* Growing the heap dereferences mapped words only.
LEMMA GrowSafe ==
  ASSUME TypeOK, NEW F, NEW r, NEW X, Growing(F, r, X), pc = "grow"
  PROVE  ~Faults
<1>1. /\ GrowAt = Top /\ Moved(GrowBy) = brk + GrowBy /\ brk + GrowBy \in First .. Limit
      /\ Top + call.total <= brk + GrowBy
      /\ call.total \in Nat /\ call.total >= 3 /\ Top \in First .. Limit /\ Top \in Nat
  BY GrowsBy
<1>2. PICK b : b = brk + GrowBy
  OBVIOUS
<1>3. b \in Nat /\ b > 0 /\ Top < b /\ First \in Nat
  BY <1>1, <1>2, ConstantTypes
<1>4. LastMapped(b) \in Nat /\ LastMapped(b) >= b - 1
  BY <1>3, MappedBelow
<1>5. Top \in First .. LastMapped(b)
  BY <1>1, <1>3, <1>4
<1>6. BreakThen = b /\ Touched = {Top}
  BY <1>1, <1>2, TouchedAt, BreakAt
<1> QED
  BY ONLY <1>5, <1>6, Zenon DEF Faults

\* Splitting a block dereferences mapped words only.
LEMMA TakeSafe ==
  ASSUME TypeOK, NEW F, NEW r, NEW X, Taking(F, r, X), pc = "take"
  PROVE  ~Faults
<1>1. PICK b, s : b = call.block /\ s = b + call.total
  <2>1. \E b, s : b = call.block /\ s = b + call.total
    OBVIOUS
  <2> QED
    BY <2>1
<1>2. /\ Subseq = s /\ s \in Nat \ {0} /\ b \in Nat \ {0} /\ b + 3 <= s
      /\ s + 3 <= b + mem[b] /\ mem[b] \in Nat /\ call.total \in Nat
      /\ mem[b] >= call.total + 3
      /\ SizeOf(b) = mem[b]
      /\ b \in F /\ Break /\ Shape(F, r, X)
  BY <1>1, SplitFacts
<1>3. /\ b \in Mapped /\ b + 1 \in Mapped /\ b + 2 \in Mapped
      /\ s \in Mapped /\ s + 1 \in Mapped /\ s + 2 \in Mapped
  <2>1. b \in Mapped /\ b + 1 \in Mapped /\ b + 2 \in Mapped
        /\ \A w \in Int : b <= w /\ w < b + mem[b] => w \in Mapped
    BY <1>2, BlocksMapped
  <2>2. /\ s \in Int /\ s + 1 \in Int /\ s + 2 \in Int
        /\ b <= s /\ b <= s + 1 /\ b <= s + 2
        /\ s < b + mem[b] /\ s + 1 < b + mem[b] /\ s + 2 < b + mem[b]
    BY <1>2
  <2> QED
    BY ONLY <2>1, <2>2
<1>4. head = b => SizeOf(head) > call.total
  BY <1>2
<1>5. TakeTouches \subseteq Mapped
  <2>1. CASE head # b
    BY ONLY <1>1, <1>2, <1>3, <2>1 DEF TakeTouches, Next_
  <2>2. CASE head = b
    BY ONLY <1>1, <1>2, <1>3, <1>4, <2>2 DEF TakeTouches, Next_, Prev_
  <2> QED
    BY <2>1, <2>2
<1> QED
  BY <1>5, TouchedAt, BreakAt, FaultsNot

\* Unlinking a block dereferences mapped words only.
LEMMA UnlinkSafe ==
  ASSUME TypeOK, NEW F, NEW r, NEW X, Unlinking(F, r, X), pc = "unlink"
  PROVE  ~Faults
<1>1. /\ Break /\ Shape(F, r, X \cup {Subseq})
      /\ call.temp \in F /\ call.block \in F /\ mem[call.block + 1] # NULL
  BY DEF Unlinking, Idle, Calm
<1>2. \A h \in F \cup {Subseq} : h \in Mapped /\ h + 1 \in Mapped /\ h + 2 \in Mapped
  BY <1>1, BlocksMapped
<1>3. NextOf(call.block) \in F
  BY <1>1, BlockFacts
<1>4. UnlinkTouches \subseteq Mapped
  BY ONLY <1>1, <1>2, <1>3 DEF UnlinkTouches, Next_, Prev_
<1> QED
  BY <1>4, TouchedAt, BreakAt, FaultsNot

\* Clearing or copying dereferences mapped words only.
LEMMA ReturnSafe ==
  ASSUME TypeOK, NEW F, NEW r, NEW X, Returning(F, r, X), pc = "return"
  PROVE  ~Faults
<1>1. /\ Idle(F, r, X \cup {call.block}) /\ Requesting /\ mem[call.block] = call.total
      /\ Break /\ Shape(F, r, X \cup {call.block})
  BY DEF Returning, Idle, Calm
<1>2. /\ call.total \in Nat /\ call.block \in Nat
      /\ call.ptr \in Nat /\ call.len \in Nat /\ call.prev_size \in Nat
  BY <1>1, RequestTotal DEF TypeOK, Locals
<1>3. \A w \in Int : call.block <= w /\ w < call.block + call.total => w \in Mapped
  BY <1>1, BlocksMapped
<1>4. CASE call.op \in {"malloc", "calloc"}
  <2>1. Cleared \subseteq Mapped
    BY <1>2, <1>3 DEF Cleared, Header
  <2>2. Touched \subseteq Mapped
    BY <1>4, <2>1, TouchedAt
  <2> QED
    BY <2>2, BreakAt, FaultsNot
<1>5. CASE call.op = "realloc"
  <2>1. /\ call.total = call.len + 2 * Header
        /\ \E b \in live : b.at = call.ptr
        /\ call.prev_size < call.len
        /\ call.ptr - Header + call.prev_size <= LastMapped(brk)
    BY <1>1, <1>5 DEF Requesting
  <2>2. Copied \subseteq Mapped
    BY <1>2, <1>3, <2>1 DEF Copied, Header
  <2>3. PICK b \in live : b.at = call.ptr
    BY <2>1
  <2>4. call.ptr - Header \in Nat /\ call.ptr - Header >= First /\ First \in Nat
    <3>1. b.at - Header \in Used(live)
      BY DEF Used
    <3>2. b.at - Header \in Nat /\ b.at - Header >= First /\ First \in Nat
      BY <1>1, <3>1, BlockFacts
    <3> QED
      BY <2>3, <3>2
  <2>5. PICK last \in Nat : last = LastMapped(brk)
    BY <1>1, BlocksMapped
  <2>6. CopiedFrom \subseteq Mapped
    <3>1. \A w \in CopiedFrom : w \in First .. last
      BY <1>2, <2>1, <2>4, <2>5 DEF CopiedFrom, Header
    <3> QED
      BY <2>5, <3>1 DEF Mapped
  <2>7. Touched \subseteq Mapped
    BY <1>5, <2>2, <2>6, TouchedAt
  <2> QED
    BY <2>7, BreakAt, FaultsNot
<1> QED
  BY <1>1, <1>4, <1>5 DEF Requesting

\* The client dereferences mapped words only.
LEMMA FillSafe ==
  ASSUME TypeOK, NEW F, NEW r, NEW X, Filling(F, r, X), pc = "fill"
  PROVE  ~Faults
<1>1. Break /\ Shape(F, r, X)
  BY DEF Filling, Calm
<1>2. ASSUME NEW b \in live, NEW w \in Payload(b)
      PROVE  w \in Mapped
  <2>1. /\ b.at - Header \in Used(live) /\ w \in Int /\ b.at - Header < w
        /\ w < b.at - Header + mem[b.at - Header]
        /\ b.at - Header \in Nat
    BY <1>1, PayloadFacts
  <2>2. PICK h \in Used(live) : h = b.at - Header
    BY <2>1
  <2>3. h \in Nat /\ h <= w /\ w < h + mem[h]
    BY <2>1, <2>2
  <2> QED
    BY <1>1, <2>1, <2>3, BlocksMapped
<1>3. UNION {Payload(b) : b \in Given} \subseteq Mapped
  BY <1>2 DEF Given
<1>4. Touched \subseteq Mapped
  BY <1>3, TouchedAt
<1> QED
  BY <1>4, BreakAt, FaultsNot

\* Giving the last block back dereferences mapped words only.
LEMMA LastSafe ==
  ASSUME TypeOK, NEW F, NEW r, NEW X, Freed(F, r, X), pc = "last"
  PROVE  ~Faults
<1>1. Break /\ Shape(F, r, X \cup {call.block})
  BY DEF Freed, Idle, Calm
<1>2. Touched \subseteq Mapped
  BY <1>1, BlocksMapped, TouchedAt
<1> QED
  BY <1>2, BreakAt, FaultsNot

\* Looking for a block to trim dereferences mapped words only.
LEMMA TrimInnerSafe ==
  ASSUME TypeOK, NEW F, NEW r, NEW X, TrimmingInner(F, r, X), pc = "trim"
  PROVE  ~Faults
<1>1. /\ Break /\ Shape(F, r, X \cup {call.block}) /\ NoneLast(F)
      /\ call.temp \in F \cup {NULL}
  BY DEF TrimmingInner, Inner, Freed, Idle, Calm
<1>2. \A h \in F \cup {call.block} : h \in Mapped /\ h + 1 \in Mapped /\ h + 2 \in Mapped
  BY <1>1, BlocksMapped
<1>3. call.temp # NULL => End(call.temp) # block_end
  <2>1. SUFFICES ASSUME call.temp # NULL PROVE End(call.temp) # block_end
    OBVIOUS
  <2>2. call.temp \in F /\ End(call.temp) = call.temp + mem[call.temp] /\ Top = block_end
    BY <1>1, <2>1, BlockFacts, TopIsEnd
  <2> QED
    BY <1>1, <2>2 DEF NoneLast
<1>4. TrimTouches \subseteq Mapped
  BY ONLY <1>1, <1>2, <1>3 DEF TrimTouches, Next_
<1>5. Touched \subseteq Mapped
  BY <1>4, TouchedAt
<1>6. BreakThen = brk
  BY <1>3, BreakAt
<1> QED
  BY <1>5, <1>6, FaultsNot

\* Trimming dereferences mapped words only.
LEMMA TrimLastSafe ==
  ASSUME TypeOK, NEW F, NEW r, NEW X, TrimmingLast(F, r, X), call.return_flag, pc = "trim"
  PROVE  ~Faults
<1>1. PICK t : t = call.temp
  OBVIOUS
<1>2. Break /\ Shape(F, r, X) /\ FreesLast(F, Top) /\ t \in F \cup {NULL}
  BY <1>1 DEF TrimmingLast, Calm
<1>3. \A h \in F : h \in Mapped /\ h + 1 \in Mapped /\ h + 2 \in Mapped
  BY <1>2, BlocksMapped
<1>4. Touched = TrimTouches
  BY TouchedAt
<1>5. CASE t = NULL
  <2>1. TrimTouches = {}
    BY <1>1, <1>5 DEF TrimTouches
  <2>2. BreakThen = brk
    BY <1>1, <1>5, BreakAt
  <2> QED
    BY <1>4, <2>1, <2>2, FaultsNot
<1>6. CASE t # NULL /\ End(t) # block_end
  <2>1. TrimTouches \subseteq Mapped
    BY ONLY <1>1, <1>2, <1>3, <1>6 DEF TrimTouches, Next_
  <2>2. BreakThen = brk
    BY <1>1, <1>6, BreakAt
  <2> QED
    BY <1>4, <2>1, <2>2, FaultsNot
<1>7. CASE t # NULL /\ End(t) = block_end
  <2>1. t \in F /\ t + mem[t] = Top
    BY <1>2, <1>7, BlockFacts, TopIsEnd
  <2>2. PICK b : b = t + available_memory
    OBVIOUS
  <2>3. /\ Moved(-mem[t]) = b /\ SizeOf(t) = mem[t]
        /\ LastMapped(b) \in Nat /\ t \in Nat
        /\ \A h \in F \ {t} : h + mem[h] <= t
    BY <1>2, <2>1, <2>2, BreakMoves
  <2>4. BreakThen = b
    BY <1>1, <1>7, <2>3, BreakAt
  <2>5. t + 2 <= LastMapped(b)
    BY <1>2, <2>1, <2>2 DEF FreesLast
  <2>6. /\ \A h \in F : h \in Nat /\ h >= First /\ mem[h] \in Nat /\ mem[h] >= 3
        /\ Read(mem, Prev_(t)) = mem[t + 2] /\ First \in Nat
    BY <1>2, <2>1, BlockFacts
  <2>7. t # head => mem[t + 2] \in F /\ mem[t + 2] # t
    <3>1. Chain(mem, head, F, r)
      BY <1>2 DEF Shape
    <3>2. ASSUME t # head PROVE mem[t + 2] \in F /\ mem[mem[t + 2] + 1] = t
      BY <2>1, <3>1, <3>2 DEF Chain
    <3>3. ASSUME t # head, mem[t + 2] = t PROVE FALSE
      <4>1. mem[t + 1] = t /\ t \in F
        BY <2>1, <3>2, <3>3
      <4>2. r[t] = r[t] - 1 /\ r[t] \in Int
        BY <1>7, <3>1, <4>1 DEF Chain
      <4> QED
        BY <4>2
    <3> QED
      BY <3>2, <3>3
  <2>8. PICK last \in Nat : last = LastMapped(b)
    BY <2>3
  <2>9. t + 1 \in First .. last /\ t + 2 \in First .. last
    BY <2>1, <2>3, <2>5, <2>6, <2>8
  <2>10. t # head => mem[t + 2] + 1 \in First .. last
    <3>1. SUFFICES ASSUME t # head PROVE mem[t + 2] + 1 \in First .. last
      OBVIOUS
    <3>2. PICK p \in F : p = mem[t + 2] /\ p # t
      BY <2>7, <3>1
    <3>3. p \in Nat /\ p >= First /\ mem[p] \in Nat /\ mem[p] >= 3 /\ p + mem[p] <= t
      BY <2>3, <2>6, <3>2
    <3>4. p + 1 \in First .. last
      BY <2>3, <2>5, <2>6, <2>8, <3>3
    <3> QED
      BY <3>2, <3>4
  <2>11. TrimTouches \subseteq First .. last
    <3>1. TrimTouches = {t + 1} \cup (IF t # head THEN {t + 2, Read(mem, Prev_(t)) + 1} ELSE {})
      BY ONLY <1>1, <1>7 DEF TrimTouches, Next_, Prev_
    <3> QED
      BY ONLY <2>6, <2>9, <2>10, <3>1
  <2> QED
    BY ONLY <1>4, <2>4, <2>8, <2>11 DEF Faults
<1> QED
  BY <1>2, <1>5, <1>6, <1>7

\* What merging with both neighbours dereferences are fields of blocks.
LEMMA ThreeSafe ==
  ASSUME TypeOK, NEW F, NEW r, NEW X, Inner(F, r, X), NEW l \in F, NEW u \in F
  PROVE  ThreeTouches(l, u) \subseteq Mapped
<1>1. Break /\ Shape(F, r, X \cup {call.block}) /\ Chain(mem, head, F, r)
  BY DEF Inner, Freed, Idle, Calm, Shape
<1>2. \A h \in F \cup {call.block} : h \in Mapped /\ h + 1 \in Mapped /\ h + 2 \in Mapped
  BY <1>1, BlocksMapped
<1>3. Read(mem, Next_(u)) = mem[u + 1] /\ Read(mem, Prev_(u)) = mem[u + 2]
      /\ mem[u + 1] \in F \cup {NULL}
  BY <1>1, BlockFacts
<1>4. u # head => mem[u + 2] \in F
  BY <1>1 DEF Chain
<1> QED
  BY ONLY l \in F, u \in F, <1>2, <1>3, <1>4 DEF ThreeTouches, BackLink, Next_, Prev_

\* Merging dereferences mapped words only.
LEMMA MergeSafe ==
  ASSUME TypeOK, NEW F, NEW r, NEW X,
         \/ pc = "merge" /\ Merging(F, r, X)
         \/ pc = "above" /\ MergingAbove(F, r, X)
         \/ pc = "below" /\ MergingBelow(F, r, X)
  PROVE  ~Faults
<1>1. Inner(F, r, X) /\ call.temp \in F \cup {NULL} /\ F # {}
  BY DEF Merging, MergingAbove, MergingBelow
<1>2. Break /\ Shape(F, r, X \cup {call.block}) /\ Chain(mem, head, F, r)
  BY <1>1 DEF Inner, Freed, Idle, Calm, Shape
<1>3. \A h \in F \cup {call.block} : h \in Mapped /\ h + 1 \in Mapped /\ h + 2 \in Mapped
  BY <1>2, BlocksMapped
<1>4. head \in F /\ \A x \in F : /\ Read(mem, Prev_(x)) = mem[x + 2]
                                 /\ x # head => mem[x + 2] \in F
                                 /\ x # NULL
  BY <1>1, <1>2, BlockFacts, SearchFacts DEF Chain
<1>5. BreakThen = brk
  BY BreakAt
<1>6. CASE pc = "merge"
  <2>1. Touched \subseteq Mapped
    BY <1>1, <1>3, <1>4, <1>6, TouchedMerging DEF Next_, Prev_
  <2> QED
    BY <1>5, <2>1, FaultsNot
<1>7. CASE pc = "above"
  <2>1. call.temp \in F /\ call.temp2 \in F
    BY <1>7 DEF MergingAbove
  <2>2. ThreeTouches(call.temp, call.temp2) \subseteq Mapped
    BY <1>1, <2>1, ThreeSafe
  <2>3. Touched \subseteq Mapped
    BY <1>3, <1>7, <2>1, <2>2, TouchedMerging DEF Next_
  <2> QED
    BY <1>5, <2>3, FaultsNot
<1>8. CASE pc = "below"
  <2>1. call.temp \in F /\ call.temp2 \in F \cup {NULL}
    BY <1>8 DEF MergingBelow
  <2>2. call.temp2 # NULL => ThreeTouches(call.temp2, call.temp) \subseteq Mapped
    BY <1>1, <2>1, ThreeSafe
  <2>3. Touched \subseteq Mapped
    BY <1>3, <1>4, <1>8, <2>1, <2>2, TouchedMerging DEF Next_, Prev_
  <2> QED
    BY <1>5, <2>3, FaultsNot
<1> QED
  BY <1>6, <1>7, <1>8

\* Only a client that resizes by moving loses blocks.
Loses(lost) == Unsafe = {} => lost = {} /\ call.op # "realloc"

-----------------------------------------------------------------------------
(***************************************************************************)
(* The invariant                                                           *)
(***************************************************************************)
\* Before the first call there is no block.
LEMMA InitStage ==
  Init => \E F, r, lost : Stage(F, r, lost) /\ Loses(lost)
<1> SUFFICES ASSUME Init PROVE \E F, r, lost : Stage(F, r, lost) /\ Loses(lost)
  OBVIOUS
<1>1. /\ mem = [a \in Words |-> 0] /\ head = NULL /\ block_end = NULL /\ available_memory = 0
      /\ brk = First /\ refused = FALSE /\ live = {} /\ call = NoCall /\ pc = "idle"
  BY DEF Init
<1>2. First \in Nat /\ Limit \in Nat /\ First <= Limit
  BY ConstantTypes
<1>3. Top = First /\ Used(live) = {}
  BY <1>1 DEF Top, Used
<1>4. Break
  BY <1>1, <1>2, <1>3 DEF Break
<1>5. PICK F, r : F = {} /\ r = [x \in {} |-> 0]
  OBVIOUS
<1>6. Chain(mem, head, F, r)
  BY <1>1, <1>5 DEF Chain
<1>7. Tiles(mem, F \cup Used(live) \cup {}, Top)
  <2>1. F \cup Used(live) \cup {} = {} /\ First .. First - 1 = {}
    BY <1>2, <1>3, <1>5
  <2> QED
    BY <1>3, <2>1 DEF Tiles
<1>8. Holds(mem, live)
  BY <1>1 DEF Holds
<1>9. Shape(F, r, {})
  BY <1>3, <1>5, <1>6, <1>7, <1>8 DEF Shape
<1>10. Idle(F, r, {})
  BY <1>1, <1>4, <1>5, <1>9 DEF Idle, Calm, Apart, NoneLast, Filled
<1>11. Stage(F, r, {}) /\ Loses({})
  BY <1>1, <1>10 DEF Stage, Loses, NoCall
<1> QED
  BY <1>11

\* Wherever a call stands, its next step dereferences mapped words only.
LEMMA StageSafe ==
  ASSUME TypeOK, NEW F, NEW r, NEW X, Stage(F, r, X)
  PROVE  ~Faults
<1>1. CASE pc = "idle"
  <2>1. Touched \subseteq Mapped /\ BreakThen = brk
    BY <1>1, TouchedAt, BreakAt
  <2> QED
    BY <2>1, FaultsNot
<1>2. CASE pc = "fit" /\ Fitting(F, r, X)
  BY <1>2, FitSafe
<1>3. CASE pc = "grow" /\ Growing(F, r, X)
  BY <1>3, GrowSafe
<1>4. CASE pc = "take" /\ Taking(F, r, X)
  BY <1>4, TakeSafe
<1>5. CASE pc = "unlink" /\ Unlinking(F, r, X)
  BY <1>5, UnlinkSafe
<1>6. CASE pc = "return" /\ Returning(F, r, X)
  BY <1>6, ReturnSafe
<1>7. CASE pc = "fill" /\ Filling(F, r, X)
  BY <1>7, FillSafe
<1>8. CASE pc = "last" /\ Freeing(F, r, X)
  BY <1>8, LastSafe DEF Freeing
<1>9. CASE pc = "trim" /\ call.return_flag /\ TrimmingLast(F, r, X)
  BY <1>9, TrimLastSafe
<1>10. CASE pc = "trim" /\ ~call.return_flag /\ TrimmingInner(F, r, X)
  BY <1>10, TrimInnerSafe
<1>11. CASE \/ pc = "merge" /\ Merging(F, r, X)
            \/ pc = "above" /\ MergingAbove(F, r, X)
            \/ pc = "below" /\ MergingBelow(F, r, X)
  BY <1>11, MergeSafe
<1> QED
  BY <1>1, <1>2, <1>3, <1>4, <1>5, <1>6, <1>7, <1>8, <1>9, <1>10, <1>11 DEF Stage

\* Wherever a call stands, sbrk can move the break as its next step wants it.
LEMMA StageMoves ==
  ASSUME TypeOK, NEW F, NEW r, NEW X, Stage(F, r, X)
  PROVE  ~Aborts
<1>1. CanMove(0)
  <2>1. brk \in First .. Limit /\ First \in Nat /\ Limit \in Nat
    BY ConstantTypes DEF TypeOK
  <2> QED
    BY <2>1 DEF CanMove
<1>2. ASSUME NEW Y, Break, Shape(F, r, Y), NEW t \in F \cup Used(live) \cup Y,
             End(t) = block_end
      PROVE  CanMove(-SizeOf(t))
  <2>1. SizeOf(t) = mem[t] /\ End(t) = t + mem[t]
    BY <1>2, BlockFacts
  <2>2. Top = block_end
    BY <1>2, TopIsEnd
  <2>3. CanMove(-mem[t])
    BY <1>2, <2>1, <2>2, BreakMoves
  <2> QED
    BY <2>1, <2>3
<1>3. CASE pc = "grow"
  <2>1. Growing(F, r, X)
    BY <1>3 DEF Stage
  <2>2. CanMove(GrowBy)
    BY <2>1, GrowsBy
  <2> QED
    BY <1>3, <2>2 DEF Aborts, Moves
<1>4. CASE pc = "last" /\ End(call.block) = block_end
  <2>1. Break /\ Shape(F, r, X \cup {call.block})
    BY <1>4 DEF Stage, Freeing, Freed, Idle, Calm
  <2>2. CanMove(-SizeOf(call.block))
    BY <1>2, <1>4, <2>1
  <2> QED
    BY <1>4, <2>2 DEF Aborts, Moves
<1>5. CASE pc = "trim" /\ call.temp # NULL /\ End(call.temp) = block_end
  <2>1. PICK Y : Break /\ Shape(F, r, Y) /\ call.temp \in F
    <3>1. CASE TrimmingLast(F, r, X)
      BY <1>5, <3>1 DEF TrimmingLast, Calm
    <3>2. CASE TrimmingInner(F, r, X)
      BY <1>5, <3>2 DEF TrimmingInner, Inner, Freed, Idle, Calm
    <3> QED
      BY <1>5, <3>1, <3>2 DEF Stage
  <2>2. CanMove(-SizeOf(call.temp))
    BY <1>2, <1>5, <2>1
  <2> QED
    BY <1>5, <2>2 DEF Aborts, Moves
<1> QED
  BY <1>1, <1>3, <1>4, <1>5 DEF Aborts, Moves

\* The invariant after a step: a stage of the call, and no block lost unless the
\* client resizes by moving.
After == \E F, r, lost : Stage(F, r, lost)' /\ Loses(lost)'

\* The stages of kumalloc.
LEMMA RequestSteps ==
  ASSUME TypeOK, NEW F, NEW r, NEW X, Stage(F, r, X), Loses(X),
         \/ pc = "fit" /\ Fit
         \/ pc = "grow" /\ Grow
         \/ pc = "take" /\ (TakeHead \/ TakeOther)
         \/ pc = "unlink" /\ Unlink
  PROVE  After
<1>1. CASE pc = "fit" /\ Fit
  <2>1. Fitting(F, r, X)
    BY <1>1 DEF Stage
  <2>2. /\ \/ pc' = "fit" /\ Fitting(F, r, X)'
           \/ pc' = "take" /\ Taking(F, r, X)'
           \/ pc' = "grow" /\ Growing(F, r, X)'
        /\ call'.op = call.op
    BY <1>1, <2>1, FitStep
  <2>3. Stage(F, r, X)' /\ Loses(X)'
    BY <2>2 DEF Stage, Loses
  <2> QED
    BY <2>3 DEF After
<1>2. CASE pc = "grow" /\ Grow
  <2>1. Growing(F, r, X)
    BY <1>2 DEF Stage
  <2>2. pc' = "return" /\ call'.op = call.op /\ Returning(F, r, X)'
    BY <1>2, <2>1, GrowStep
  <2>3. Stage(F, r, X)' /\ Loses(X)'
    BY <2>2 DEF Stage, Loses
  <2> QED
    BY <2>3 DEF After
<1>3. CASE pc = "take" /\ TakeHead
  <2>1. Taking(F, r, X)
    BY <1>3 DEF Stage
  <2>2. pc' = "return" /\ call' = call /\ \E G, q : Returning(G, q, X)'
    BY <1>3, <2>1, TakeHeadStep
  <2>3. PICK G, q : Returning(G, q, X)'
    BY <2>2
  <2>4. Stage(G, q, X)' /\ Loses(X)'
    BY <2>2, <2>3 DEF Stage, Loses
  <2> QED
    BY <2>4 DEF After
<1>4. CASE pc = "take" /\ TakeOther
  <2>1. Taking(F, r, X)
    BY <1>4 DEF Stage
  <2>2. pc' = "unlink" /\ call'.op = call.op /\ Unlinking(F, r, X)'
    BY <1>4, <2>1, TakeOtherStep
  <2>3. Stage(F, r, X)' /\ Loses(X)'
    BY <2>2 DEF Stage, Loses
  <2> QED
    BY <2>3 DEF After
<1>5. CASE pc = "unlink" /\ Unlink
  <2>1. Unlinking(F, r, X)
    BY <1>5 DEF Stage
  <2>2. CASE NextOf(call.temp) # call.block
    <3>1. pc' = "unlink" /\ Unlinking(F, r, X)' /\ call'.op = call.op
      BY <1>5, <2>1, <2>2, UnlinkSearch
    <3>2. Stage(F, r, X)' /\ Loses(X)'
      BY <3>1 DEF Stage, Loses
    <3> QED
      BY <3>2 DEF After
  <2>3. CASE NextOf(call.temp) = call.block
    <3>1. pc' = "return" /\ call' = call /\ \E G, q : Returning(G, q, X)'
      BY <1>5, <2>1, <2>3, UnlinkFoundStep
    <3>2. PICK G, q : Returning(G, q, X)'
      BY <3>1
    <3>3. Stage(G, q, X)' /\ Loses(X)'
      BY <3>1, <3>2 DEF Stage, Loses
    <3> QED
      BY <3>3 DEF After
  <2> QED
    BY <2>2, <2>3
<1> QED
  BY <1>1, <1>2, <1>3, <1>4, <1>5

\* The client gets its block and fills it.
LEMMA ReturnSteps ==
  ASSUME TypeOK, NEW F, NEW r, NEW X, Stage(F, r, X), Loses(X),
         \/ pc = "return" /\ Return
         \/ pc = "fill" /\ Fill
  PROVE  After
<1>1. CASE pc = "return" /\ Return
  <2>1. Returning(F, r, X)
    BY <1>1 DEF Stage
  <2>2. /\ pc' = "fill" /\ call' = call
        /\ \E Y : (call.op # "realloc" => Y = X) /\ Filling(F, r, Y)'
    BY <1>1, <2>1, ReturnStep
  <2>3. PICK Y : (call.op # "realloc" => Y = X) /\ Filling(F, r, Y)'
    BY <2>2
  <2>4. Stage(F, r, Y)' /\ Loses(Y)'
    BY <2>2, <2>3 DEF Stage, Loses
  <2> QED
    BY <2>4 DEF After
<1>2. CASE pc = "fill" /\ Fill
  <2>1. Filling(F, r, X)
    BY <1>2 DEF Stage
  <2>2. pc' = "idle" /\ call' = NoCall /\ Idle(F, r, X)'
    BY <1>2, <2>1, FillStep
  <2>3. Stage(F, r, X)' /\ Loses(X)'
    BY <2>2 DEF Stage, Loses, NoCall
  <2> QED
    BY <2>3 DEF After
<1> QED
  BY <1>1, <1>2

\* A call that frees is over.
LEMMA CallEnds ==
  ASSUME NEW X, Loses(X), pc' = "idle", call' = NoCall, \E G, q : Idle(G, q, X)'
  PROVE  After
<1>1. PICK G, q : Idle(G, q, X)'
  OBVIOUS
<1>2. Stage(G, q, X)' /\ Loses(X)'
  BY <1>1 DEF Stage, Loses, NoCall
<1> QED
  BY <1>2 DEF After

\* The stages of kufree.
LEMMA FreeSteps ==
  ASSUME TypeOK, NEW F, NEW r, NEW X, Stage(F, r, X), Loses(X),
         \/ pc = "last" /\ LastBlock
         \/ pc = "trim" /\ (Trim \/ Trimmed)
  PROVE  After
<1>1. CASE pc = "last" /\ LastBlock
  <2>1. Freeing(F, r, X)
    BY <1>1 DEF Stage
  <2>2. /\ pc' = "trim" /\ call'.op = call.op
        /\ \/ call'.return_flag /\ TrimmingLast(F, r, X)'
           \/ ~call'.return_flag /\ TrimmingInner(F, r, X)'
    BY <1>1, <2>1, LastBlockStep
  <2>3. Stage(F, r, X)' /\ Loses(X)'
    BY <2>2 DEF Stage, Loses
  <2> QED
    BY <2>3 DEF After
<1>2. CASE pc = "trim" /\ Trim
  <2>1. \/ call.return_flag /\ TrimmingLast(F, r, X)
        \/ ~call.return_flag /\ TrimmingInner(F, r, X)
    BY <1>2 DEF Stage
  <2>2. CASE ~call.return_flag
    <3>1. /\ pc' = "trim" /\ TrimmingInner(F, r, X)' /\ ~call'.return_flag
          /\ call'.op = call.op
      BY <1>2, <2>1, <2>2, TrimSearchInner
    <3>2. Stage(F, r, X)' /\ Loses(X)'
      BY <3>1 DEF Stage, Loses
    <3> QED
      BY <3>2 DEF After
  <2>3. CASE call.return_flag /\ End(call.temp) # block_end
    <3>1. /\ pc' = "trim" /\ TrimmingLast(F, r, X)' /\ call'.return_flag
          /\ call'.op = call.op
      BY <1>2, <2>1, <2>3, TrimSearchLast
    <3>2. Stage(F, r, X)' /\ Loses(X)'
      BY <3>1 DEF Stage, Loses
    <3> QED
      BY <3>2 DEF After
  <2>4. CASE call.return_flag /\ End(call.temp) = block_end
    <3>1. /\ pc' = "trim" /\ call'.return_flag /\ call'.op = call.op
          /\ \E G, q : TrimmingLast(G, q, X)'
      BY <1>2, <2>1, <2>4, TrimDropStep
    <3>2. PICK G, q : TrimmingLast(G, q, X)'
      BY <3>1
    <3>3. Stage(G, q, X)' /\ Loses(X)'
      BY <3>1, <3>2 DEF Stage, Loses
    <3> QED
      BY <3>3 DEF After
  <2> QED
    BY <2>2, <2>3, <2>4
<1>3. CASE pc = "trim" /\ Trimmed
  <2>1. \/ call.return_flag /\ TrimmingLast(F, r, X)
        \/ ~call.return_flag /\ TrimmingInner(F, r, X)
    BY <1>3 DEF Stage
  <2>2. \/ pc' = "idle" /\ call' = NoCall /\ \E G, q : Idle(G, q, X)'
        \/ pc' = "merge" /\ call'.op = call.op /\ Merging(F, r, X)'
    BY <1>3, <2>1, TrimmedStep
  <2>3. ASSUME pc' = "merge", call'.op = call.op, Merging(F, r, X)'
        PROVE  After
    <3>1. Stage(F, r, X)' /\ Loses(X)'
      BY <2>3 DEF Stage, Loses
    <3> QED
      BY <3>1 DEF After
  <2> QED
    BY <2>2, <2>3, CallEnds
<1> QED
  BY <1>1, <1>2, <1>3

\* The end of a call that merges, as the steps below have it.
LEMMA FreeEnds ==
  ASSUME NEW m, NEW h, Free(m, h)
  PROVE  pc' = "idle" /\ call' = NoCall
BY DEF Free

\* Merging three blocks ends the call.
LEMMA ThreeEnds ==
  ASSUME NEW l, NEW u, MergeThree(l, u)
  PROVE  pc' = "idle" /\ call' = NoCall
BY FreeEnds DEF MergeThree

\* So do the other ways to list a block.
LEMMA MergeEnds ==
  ASSUME Push \/ MergeAbove \/ MergeBelow
  PROVE  pc' = "idle" /\ call' = NoCall
<1>1. CASE Push
  BY <1>1, FreeEnds DEF Push
<1>2. CASE MergeAbove
  BY <1>2, FreeEnds DEF MergeAbove
<1>3. CASE MergeBelow
  BY <1>3, FreeEnds DEF MergeBelow
<1> QED
  BY <1>1, <1>2, <1>3

\* The stages of listing an inner block.
LEMMA MergeSteps ==
  ASSUME TypeOK, NEW F, NEW r, NEW X, Stage(F, r, X), Loses(X),
         \/ pc = "merge" /\ Merge
         \/ pc = "above" /\ Above
         \/ pc = "below" /\ Below
  PROVE  After
<1>1. CASE pc = "merge" /\ Merge
  <2>1. Merging(F, r, X)
    BY <1>1 DEF Stage
  <2>2. CASE call.temp # NULL
    <3>1. /\ \/ pc' = "merge" /\ Merging(F, r, X)'
             \/ pc' = "above" /\ MergingAbove(F, r, X)'
             \/ pc' = "below" /\ MergingBelow(F, r, X)'
          /\ call'.op = call.op
      BY <1>1, <2>1, <2>2, MergeSearch
    <3>2. Stage(F, r, X)' /\ Loses(X)'
      BY <3>1 DEF Stage, Loses
    <3> QED
      BY <3>2 DEF After
  <2>3. CASE call.temp = NULL
    <3>1. Push
      BY <1>1, <2>3 DEF Merge
    <3>2. \E G, q : Idle(G, q, X)'
      BY <2>1, <2>3, <3>1, PushStep
    <3> QED
      BY <3>1, <3>2, MergeEnds, CallEnds
  <2> QED
    BY <2>2, <2>3
<1>2. CASE pc = "above" /\ Above
  <2>1. MergingAbove(F, r, X)
    BY <1>2 DEF Stage
  <2>2. /\ Inner(F, r, X) /\ call.temp \in F /\ call.temp + mem[call.temp] = call.block
        /\ call.temp2 \in F
    BY <2>1 DEF MergingAbove, BelowIt
  <2>3. CASE call.temp2 = End(call.block)
    <3>1. MergeThree(call.temp, call.temp2)
      BY <1>2, <2>3 DEF Above
    <3>2. call.block + mem[call.block] = call.temp2
      <4>1. Break /\ Shape(F, r, X \cup {call.block})
        BY <2>2 DEF Inner, Freed, Idle, Calm
      <4>2. End(call.block) = call.block + mem[call.block]
        BY <4>1, BlockFacts
      <4> QED
        BY <2>3, <4>2
    <3>3. \E G, q : Idle(G, q, X)'
      <4>1. PICK l, u : l = call.temp /\ u = call.temp2
        <5>1. \E l, u : l = call.temp /\ u = call.temp2
          OBVIOUS
        <5> QED
          BY <5>1
      <4>2. /\ l \in F /\ u \in F /\ l + mem[l] = call.block
            /\ call.block + mem[call.block] = u /\ MergeThree(l, u)
        BY <2>2, <3>1, <3>2, <4>1
      <4> QED
        BY ONLY TypeOK, <2>2, <4>2, MergeThreeStep
    <3> QED
      BY <3>1, <3>3, ThreeEnds, CallEnds
  <2>4. CASE call.temp2 # End(call.block) /\ NextOf(call.temp2) = NULL
    <3>1. MergeAbove
      BY <1>2, <2>4 DEF Above
    <3>2. Idle(F, r, X)'
      BY <2>1, <2>4, <3>1, MergeAboveStep
    <3>3. \E G, q : Idle(G, q, X)'
      BY <3>2
    <3> QED
      BY <3>1, <3>3, MergeEnds, CallEnds
  <2>5. CASE call.temp2 # End(call.block) /\ NextOf(call.temp2) # NULL
    <3>1. pc' = "above" /\ MergingAbove(F, r, X)' /\ call'.op = call.op
      BY <1>2, <2>1, <2>5, AboveSearch
    <3>2. Stage(F, r, X)' /\ Loses(X)'
      BY <3>1 DEF Stage, Loses
    <3> QED
      BY <3>2 DEF After
  <2> QED
    BY <2>3, <2>4, <2>5
<1>3. CASE pc = "below" /\ Below
  <2>1. MergingBelow(F, r, X)
    BY <1>3 DEF Stage
  <2>2. /\ Inner(F, r, X) /\ call.temp \in F /\ call.temp = call.block + mem[call.block]
        /\ call.temp2 \in F \cup {NULL}
    BY <2>1 DEF MergingBelow, AboveIt
  <2>3. CASE call.temp2 = NULL
    <3>1. MergeBelow
      BY <1>3, <2>3 DEF Below
    <3>2. \E G, q : Idle(G, q, X)'
      BY <2>1, <2>3, <3>1, MergeBelowStep
    <3> QED
      BY <3>1, <3>2, MergeEnds, CallEnds
  <2>4. CASE call.temp2 # NULL /\ End(call.temp2) = call.block
    <3>1. MergeThree(call.temp2, call.temp)
      BY <1>3, <2>4 DEF Below
    <3>2. call.temp2 \in F /\ call.temp2 + mem[call.temp2] = call.block
      <4>1. Break /\ Shape(F, r, X \cup {call.block})
        BY <2>2 DEF Inner, Freed, Idle, Calm
      <4>2. call.temp2 \in F
        BY <2>2, <2>4
      <4>3. End(call.temp2) = call.temp2 + mem[call.temp2]
        BY <4>1, <4>2, BlockFacts
      <4> QED
        BY <2>4, <4>2, <4>3
    <3>3. \E G, q : Idle(G, q, X)'
      <4>1. PICK l, u : l = call.temp2 /\ u = call.temp
        <5>1. \E l, u : l = call.temp2 /\ u = call.temp
          OBVIOUS
        <5> QED
          BY <5>1
      <4>2. /\ l \in F /\ u \in F /\ l + mem[l] = call.block
            /\ call.block + mem[call.block] = u /\ MergeThree(l, u)
        BY <2>2, <3>1, <3>2, <4>1
      <4> QED
        BY ONLY TypeOK, <2>2, <4>2, MergeThreeStep
    <3> QED
      BY <3>1, <3>3, ThreeEnds, CallEnds
  <2>5. CASE call.temp2 # NULL /\ End(call.temp2) # call.block
    <3>1. pc' = "below" /\ MergingBelow(F, r, X)' /\ call'.op = call.op
      BY <1>3, <2>1, <2>5, BelowSearch
    <3>2. Stage(F, r, X)' /\ Loses(X)'
      BY <3>1 DEF Stage, Loses
    <3> QED
      BY <3>2 DEF After
  <2> QED
    BY <2>3, <2>4, <2>5
<1> QED
  BY <1>1, <1>2, <1>3

\* The calls of a careful client.
LEMMA ClientSteps ==
  ASSUME TypeOK, Careful, NEW F, NEW r, NEW X, Stage(F, r, X), Loses(X), ClientCalls
  PROVE  After
<1>1. pc = "idle"
  BY DEF ClientCalls, CallMalloc, CallCalloc, CallRealloc, CallFree
<1>2. Idle(F, r, X)
  BY <1>1 DEF Stage
<1>3. ASSUME pc' = "fit", Fitting(F, r, X)', Unsafe = {} => call'.op # "realloc"
      PROVE  After
  <2>1. Stage(F, r, X)' /\ Loses(X)'
    BY <1>3 DEF Stage, Loses
  <2> QED
    BY <2>1 DEF After
<1>4. ASSUME NEW n \in Sizes, MayMalloc(n), CallMalloc(n)
      PROVE  After
  <2>1. pc' = "fit" /\ call'.op = "malloc" /\ Fitting(F, r, X)'
    BY <1>2, <1>4, MallocStep
  <2> QED
    BY <1>3, <2>1
<1>5. ASSUME NEW k \in Counts, NEW n \in Sizes, MayCalloc(k, n), CallCalloc(k, n)
      PROVE  After
  <2>1. \/ pc' = "idle" /\ call' = NoCall /\ Idle(F, r, X)'
        \/ pc' = "fit" /\ call'.op = "calloc" /\ Fitting(F, r, X)'
    BY <1>2, <1>5, CallocStep
  <2>2. ASSUME pc' = "idle", call' = NoCall, Idle(F, r, X)'
        PROVE  After
    <3>1. \E G, q : Idle(G, q, X)'
      BY <2>2
    <3> QED
      BY <2>2, <3>1, CallEnds
  <2> QED
    BY <1>3, <2>1, <2>2
<1>6. ASSUME NEW b \in live, NEW n \in Resizes, MayRealloc(b, n), CallRealloc(b, n)
      PROVE  After
  <2>1. \/ pc' = "fill" /\ call'.op = "resize" /\ Filling(F, r, X)'
        \/ Unsafe # {} /\ pc' = "fit" /\ call'.op = "realloc" /\ Fitting(F, r, X)'
    BY <1>2, <1>6, ReallocStep
  <2>2. ASSUME pc' = "fill", call'.op = "resize", Filling(F, r, X)'
        PROVE  After
    <3>1. Stage(F, r, X)' /\ Loses(X)'
      BY <2>2 DEF Stage, Loses
    <3> QED
      BY <3>1 DEF After
  <2> QED
    BY <1>3, <2>1, <2>2
<1>7. ASSUME NEW b \in live, MayFree(b), CallFree(b)
      PROVE  After
  <2>1. IF b.at - Header + mem[b.at - Header] = Top
        THEN FreesLast(F, b.at - Header) ELSE FreesInner(F, b.at - Header)
    BY <1>2, <1>7, FreePromised DEF Idle, Calm
  <2>2. pc' = "last" /\ call'.op = "free" /\ Freeing(F, r, X)'
    BY <1>2, <1>7, <2>1, CallFreeStep
  <2>3. Stage(F, r, X)' /\ Loses(X)'
    BY <2>2 DEF Stage, Loses
  <2> QED
    BY <2>3 DEF After
<1> QED
  BY <1>4, <1>5, <1>6, <1>7 DEF ClientCalls

\* Each step belongs to one place in the call.
LEMMA CodeAt ==
  ASSUME Code
  PROVE  \/ \/ pc = "fit" /\ Fit
            \/ pc = "grow" /\ Grow
            \/ pc = "take" /\ (TakeHead \/ TakeOther)
            \/ pc = "unlink" /\ Unlink
         \/ \/ pc = "return" /\ Return
            \/ pc = "fill" /\ Fill
         \/ \/ pc = "last" /\ LastBlock
            \/ pc = "trim" /\ (Trim \/ Trimmed)
         \/ \/ pc = "merge" /\ Merge
            \/ pc = "above" /\ Above
            \/ pc = "below" /\ Below
BY DEF Code, Fit, Grow, TakeHead, TakeOther, Unlink, Return, Fill, LastBlock, Trim, Trimmed,
       Merge, Above, Below

\* A step that changes nothing.
LEMMA StutterStage ==
  ASSUME UNCHANGED vars, NEW F, NEW r, NEW X, Stage(F, r, X), Loses(X)
  PROVE  After
<1>1. UNCHANGED <<code, live>> /\ call' = call /\ pc' = pc
  BY DEF vars
<1>2. /\ mem' = mem /\ head' = head /\ brk' = brk /\ live' = live /\ Top' = Top
      /\ available_memory' = available_memory
      /\ Calm(F, r, X)' <=> Calm(F, r, X)
      /\ NoneLast(F)' <=> NoneLast(F)
      /\ Filled(mem, live)' <=> Filled(mem, live)
  BY <1>1, SameCalm
<1>3. \A Y : Idle(F, r, Y)' <=> Idle(F, r, Y)
  BY <1>1, SameCalm
<1>4. Requesting' <=> Requesting
  BY <1>1, <1>2 DEF Requesting
<1>5. CASE pc = "idle" /\ Idle(F, r, X)
  <2>1. Stage(F, r, X)'
    BY <1>1, <1>3, <1>5 DEF Stage
  <2>2. Loses(X)'
    BY <1>1 DEF Loses
  <2> QED
    BY <2>1, <2>2 DEF After
<1>6. CASE pc = "fit" /\ Fitting(F, r, X)
  <2>1. Promised(F, r, call.total)'
    BY <1>1, <1>2, <1>6 DEF Fitting, Promised, Splits, Growable, CanMove
  <2>2. Fitting(F, r, X)'
    BY <1>1, <1>2, <1>3, <1>4, <1>6, <2>1 DEF Fitting
  <2>3. Stage(F, r, X)' /\ Loses(X)'
    BY <1>1, <1>6, <2>2 DEF Stage, Loses
  <2> QED
    BY <2>3 DEF After
<1>7. CASE pc = "grow" /\ Growing(F, r, X)
  <2>1. Growing(F, r, X)'
    BY <1>1, <1>2, <1>3, <1>4, <1>7 DEF Growing, Growable, CanMove
  <2>2. Stage(F, r, X)' /\ Loses(X)'
    BY <1>1, <1>7, <2>1 DEF Stage, Loses
  <2> QED
    BY <2>2 DEF After
<1>8. CASE pc = "take" /\ Taking(F, r, X)
  <2>1. Taking(F, r, X)'
    BY <1>1, <1>2, <1>3, <1>4, <1>8 DEF Taking, Splits
  <2>2. Stage(F, r, X)' /\ Loses(X)'
    BY <1>1, <1>8, <2>1 DEF Stage, Loses
  <2> QED
    BY <2>2 DEF After
<1>9. CASE pc = "unlink" /\ Unlinking(F, r, X)
  <2>1. PICK s : s = Subseq
    OBVIOUS
  <2>2. Subseq' = s
    BY <1>1, <2>1 DEF Subseq
  <2>3. Idle(F, r, X \cup {s})'
    BY <1>3, <1>9, <2>1 DEF Unlinking
  <2>4. Unlinking(F, r, X)'
    BY <1>1, <1>2, <1>4, <1>9, <2>1, <2>2, <2>3 DEF Unlinking
  <2>5. Stage(F, r, X)' /\ Loses(X)'
    BY <1>1, <1>9, <2>4 DEF Stage, Loses
  <2> QED
    BY <2>5 DEF After
<1>10. PICK c : c = call.block
  OBVIOUS
<1>11. Idle(F, r, X \cup {c})' <=> Idle(F, r, X \cup {c})
  BY <1>3
<1>12. CASE pc = "return" /\ Returning(F, r, X)
  <2>1. Returning(F, r, X)'
    BY <1>1, <1>2, <1>4, <1>10, <1>11, <1>12 DEF Returning
  <2>2. Stage(F, r, X)' /\ Loses(X)'
    BY <1>1, <1>12, <2>1 DEF Stage, Loses
  <2> QED
    BY <2>2 DEF After
<1>13. CASE pc = "fill" /\ Filling(F, r, X)
  <2>1. Filled(mem, live \ Given)' <=> Filled(mem, live \ Given)
    BY <1>1, <1>2 DEF Filled, Given
  <2>2. Filling(F, r, X)'
    BY <1>1, <1>2, <1>13, <2>1 DEF Filling, Given
  <2>3. Stage(F, r, X)' /\ Loses(X)'
    BY <1>1, <1>13, <2>2 DEF Stage, Loses
  <2> QED
    BY <2>3 DEF After
<1>14. Freed(F, r, X)' <=> Freed(F, r, X)
  BY <1>1, <1>10, <1>11 DEF Freed
<1>15. /\ \A h : FreesLast(F, h)' <=> FreesLast(F, h)
       /\ \A h : FreesInner(F, h)' <=> FreesInner(F, h)
  BY <1>1, <1>2 DEF FreesLast, FreesInner
<1>16. CASE pc = "last" /\ Freeing(F, r, X)
  <2>1. Freeing(F, r, X)'
    BY <1>1, <1>2, <1>14, <1>15, <1>16 DEF Freeing
  <2>2. Stage(F, r, X)' /\ Loses(X)'
    BY <1>1, <1>16, <2>1 DEF Stage, Loses
  <2> QED
    BY <2>2 DEF After
<1>17. CASE pc = "trim" /\ call.return_flag /\ TrimmingLast(F, r, X)
  <2>1. TrimmingLast(F, r, X)'
    BY <1>1, <1>2, <1>15, <1>17 DEF TrimmingLast
  <2>2. Stage(F, r, X)' /\ Loses(X)'
    BY <1>1, <1>17, <2>1 DEF Stage, Loses
  <2> QED
    BY <2>2 DEF After
<1>18. Inner(F, r, X) => Inner(F, r, X)'
  BY <1>1, SameInner
<1>19. CASE pc = "trim" /\ ~call.return_flag /\ TrimmingInner(F, r, X)
  <2>1. TrimmingInner(F, r, X)'
    BY <1>1, <1>18, <1>19 DEF TrimmingInner
  <2>2. Stage(F, r, X)' /\ Loses(X)'
    BY <1>1, <1>19, <2>1 DEF Stage, Loses
  <2> QED
    BY <2>2 DEF After
<1>20. CASE pc = "merge" /\ Merging(F, r, X)
  <2>1. Merging(F, r, X)'
    BY <1>1, <1>2, <1>18, <1>20 DEF Merging, BelowIt, AboveIt
  <2>2. Stage(F, r, X)' /\ Loses(X)'
    BY <1>1, <1>20, <2>1 DEF Stage, Loses
  <2> QED
    BY <2>2 DEF After
<1>21. CASE pc = "above" /\ MergingAbove(F, r, X)
  <2>1. MergingAbove(F, r, X)'
    BY <1>1, <1>2, <1>18, <1>21 DEF MergingAbove, BelowIt, AboveIt
  <2>2. Stage(F, r, X)' /\ Loses(X)'
    BY <1>1, <1>21, <2>1 DEF Stage, Loses
  <2> QED
    BY <2>2 DEF After
<1>22. CASE pc = "below" /\ MergingBelow(F, r, X)
  <2>1. MergingBelow(F, r, X)'
    BY <1>1, <1>2, <1>18, <1>22 DEF MergingBelow, BelowIt, AboveIt
  <2>2. Stage(F, r, X)' /\ Loses(X)'
    BY <1>1, <1>22, <2>1 DEF Stage, Loses
  <2> QED
    BY <2>2 DEF After
<1> QED
  BY <1>5, <1>6, <1>7, <1>8, <1>9, <1>12, <1>13, <1>16, <1>17, <1>19, <1>20, <1>21, <1>22
  DEF Stage

ClientInv == \E F, r, lost : Stage(F, r, lost) /\ Loses(lost)

CInv == IInv /\ ClientInv

\* The invariant is inductive.
LEMMA StepKeepsCInv ==
  ASSUME Careful, CInv, [ClientNext]_vars
  PROVE  CInv'
<1>1. IInv /\ TypeOK
  BY DEF CInv, IInv
<1>2. PICK F, r, lost : Stage(F, r, lost) /\ Loses(lost)
  BY DEF CInv, ClientInv
<1>3. ~Faults /\ ~Aborts
  BY <1>1, <1>2, StageSafe, StageMoves
<1>4. CASE ClientCalls
  <2>1. Calls
    BY <1>4 DEF ClientCalls, Calls
  <2>2. IInv'
    BY <1>1, <2>1, CallsIInv
  <2>3. After
    BY <1>1, <1>2, <1>4, ClientSteps
  <2> QED
    BY <2>2, <2>3 DEF CInv, ClientInv, After
<1>5. CASE Step
  <2>1. Code
    BY <1>3, <1>5 DEF Step, Crash
  <2>2. IInv'
    BY <1>1, <1>5, NextIInv DEF Next
  <2>3. After
    BY <1>1, <1>2, <2>1, CodeAt, RequestSteps, ReturnSteps, FreeSteps, MergeSteps
  <2> QED
    BY <2>2, <2>3 DEF CInv, ClientInv, After
<1>6. CASE UNCHANGED vars
  <2>1. IInv'
    BY <1>1, <1>6, NextIInv
  <2>2. After
    BY <1>2, <1>6, StutterStage
  <2> QED
    BY <2>1, <2>2 DEF CInv, ClientInv, After
<1> QED
  BY <1>4, <1>5, <1>6 DEF ClientNext

\* The blocks and the list are as the invariant says, whatever a careful client
\* asks for and in whatever order it frees.
THEOREM ClientInvariant ==
  ASSUME Unsafe \subseteq {"resize_by_moving"}
  PROVE  ClientSpec => []CInv
<1>1. Careful
  BY DEF Careful
<1>2. Init => CInv
  BY InitIInv, InitStage DEF CInv, ClientInv
<1>3. CInv /\ [ClientNext]_vars => CInv'
  BY <1>1, StepKeepsCInv
<1> QED
  BY <1>2, <1>3, PTL DEF ClientSpec

-----------------------------------------------------------------------------
(***************************************************************************)
(* What the allocator promises a careful client                            *)
(***************************************************************************)
LEMMA CInvIs ==
  ASSUME CInv
  PROVE  TypeOK /\ \E F, r, lost : Stage(F, r, lost) /\ Loses(lost)
BY DEF CInv, IInv, ClientInv

\* Between calls.
LEMMA IdleFacts ==
  ASSUME TypeOK, NEW F, NEW r, NEW X, Stage(F, r, X), pc = "idle"
  PROVE  /\ Idle(F, r, X) /\ Break /\ Shape(F, r, X) /\ NoneLast(F) /\ Apart(F)
         /\ Listed = F
<1>1. Idle(F, r, X)
  BY DEF Stage
<1>2. Break /\ Shape(F, r, X) /\ NoneLast(F) /\ Apart(F)
  BY <1>1 DEF Idle, Calm
<1> QED
  BY <1>1, <1>2, Listing

\* The invariant has no place for a crash.
LEMMA CInvNoCrash ==
  ASSUME CInv
  PROVE  NoCrash
<1>1. PICK F, r, lost : Stage(F, r, lost)
  BY CInvIs
<1> QED
  BY <1>1 DEF Stage, NoCrash

\* The listed blocks point back at each other.
LEMMA CInvLinked ==
  ASSUME CInv
  PROVE  Linked
<1>1. SUFFICES ASSUME pc = "idle"
               PROVE  /\ Acyclic
                      /\ \A i \in 2 .. Len(List) : Read(mem, Prev_(List[i])) = List[i - 1]
  BY DEF Linked
<1>2. PICK F, r, lost : Stage(F, r, lost)
  BY CInvIs
<1>3. TypeOK /\ Break /\ Shape(F, r, lost)
  BY <1>1, <1>2, CInvIs, IdleFacts
<1>4. /\ Acyclic /\ Len(List) \in Nat
      /\ \A i \in 1 .. Len(List) : List[i] \in F /\ At(F, r, i, List[i])
  BY <1>3, Listing
<1>5. ASSUME NEW i \in 2 .. Len(List)
      PROVE  Read(mem, Prev_(List[i])) = List[i - 1]
  <2>1. i \in 1 .. Len(List) /\ i - 1 \in 1 .. Len(List) /\ i \in Nat /\ i - 1 \in Nat /\ i > 1
    BY <1>4
  <2>2. PICK x \in F, y \in F : x = List[i] /\ y = List[i - 1]
    BY <1>4, <2>1
  <2>3. At(F, r, i, x) /\ At(F, r, i - 1, y)
    BY <1>4, <2>1, <2>2
  <2>4. At(F, r, i - 1, Read(mem, Prev_(x)))
    BY <1>3, <2>1, <2>3, Places
  <2>5. Read(mem, Prev_(x)) \in F
    BY <2>4 DEF At
  <2>6. Read(mem, Prev_(x)) = y
    BY <1>3, <2>1, <2>3, <2>4, <2>5, Places
  <2> QED
    BY <2>2, <2>6
<1> QED
  BY <1>4, <1>5

\* They are apart, and none is the last.
LEMMA CInvCoalesced ==
  ASSUME CInv
  PROVE  Coalesced
<1>1. SUFFICES ASSUME pc = "idle", NEW f \in Listed
               PROVE  End(f) # block_end /\ \A g \in Listed : End(f) # g
  BY DEF Coalesced
<1>2. PICK F, r, lost : Stage(F, r, lost)
  BY CInvIs
<1>3. /\ TypeOK /\ Break /\ Shape(F, r, lost) /\ NoneLast(F) /\ Apart(F) /\ Listed = F
  BY <1>1, <1>2, CInvIs, IdleFacts
<1>4. f \in F /\ End(f) = f + mem[f] /\ Top = block_end
  BY <1>1, <1>3, BlockFacts, TopIsEnd
<1> QED
  BY <1>3, <1>4 DEF NoneLast, Apart

\* Blocks in use hold their owner's pattern.
LEMMA CInvIntact ==
  ASSUME CInv
  PROVE  Intact
<1>1. PICK F, r, lost : Stage(F, r, lost)
  BY CInvIs
<1>2. pc # "fill" => Filled(mem, live)
  BY <1>1 DEF Stage, Fitting, Growing, Taking, Unlinking, Returning, Freeing, Freed, TrimmingLast,
              TrimmingInner, Inner, Merging, MergingAbove, MergingBelow, Idle
<1> QED
  BY <1>2 DEF Intact, Filled

\* What is handed out fits in its block.
LEMMA CInvRoomy ==
  ASSUME CInv
  PROVE  Roomy
<1>1. SUFFICES ASSUME pc = "fill", NEW b \in Given
               PROVE  b.at + b.len <= End(call.block)
  BY DEF Roomy
<1>2. PICK F, r, lost : Stage(F, r, lost)
  BY CInvIs
<1>3. TypeOK /\ Break /\ Shape(F, r, lost)
  BY <1>1, <1>2, CInvIs DEF Stage, Filling, Calm
<1>4. b \in live /\ b.at = call.block + Header /\ call.block \in Nat
  BY <1>3 DEF Given, TypeOK, Locals
<1>5. /\ b.at - Header + mem[b.at - Header] = End(b.at - Header)
      /\ b.len + Header <= mem[b.at - Header] /\ mem[b.at - Header] \in Nat
      /\ b.at \in Nat /\ b.len \in Nat
  BY <1>3, <1>4, PayloadFacts
<1>6. b.at - Header = call.block
  BY <1>4 DEF Header
<1> QED
  BY <1>4, <1>5, <1>6 DEF Header

\* With nothing lost the blocks in use and the listed ones cover the heap.
LEMMA CInvTiled ==
  ASSUME CInv, Unsafe = {}
  PROVE  Tiled
<1>1. SUFFICES ASSUME pc = "idle", block_end # NULL
               PROVE  /\ \A w \in First .. block_end - 1 : \E h \in Blocks : w \in Extent(h)
                      /\ \A h \in Blocks : SizeOf(h) > 0 /\ End(h) <= block_end
                      /\ \A h, k \in Blocks : h # k => Extent(h) \cap Extent(k) = {}
  BY DEF Tiled
<1>2. PICK F, r, lost : Stage(F, r, lost) /\ Loses(lost)
  BY CInvIs
<1>3. /\ TypeOK /\ Break /\ Shape(F, r, lost) /\ Listed = F /\ lost = {}
      /\ Top = block_end
  BY <1>1, <1>2, CInvIs, IdleFacts DEF Loses, Top
<1>4. Blocks = F \cup Used(live) \cup lost
  BY <1>3 DEF Blocks, Used
<1>5. /\ \A h \in Blocks : /\ SizeOf(h) = mem[h] /\ End(h) = h + mem[h] /\ h \in Nat
                           /\ mem[h] \in Nat /\ mem[h] >= 3 /\ h + mem[h] <= Top
      /\ \A h, k \in Blocks : h # k => h + mem[h] <= k \/ k + mem[k] <= h
  BY <1>3, <1>4, BlockFacts
<1>6. \A w \in First .. Top - 1 : \E h \in Blocks : h <= w /\ w < h + mem[h]
  BY <1>3, <1>4 DEF Shape, Tiles
<1>7. First \in Nat /\ Top \in Nat
  BY <1>3, BlocksMapped
<1>8. ASSUME NEW w \in First .. block_end - 1
      PROVE  \E h \in Blocks : w \in Extent(h)
  <2>1. PICK h \in Blocks : h <= w /\ w < h + mem[h]
    BY <1>3, <1>6
  <2>2. w \in Extent(h)
    BY <1>5, <1>7, <2>1 DEF Extent
  <2> QED
    BY <2>2
<1>9. ASSUME NEW h \in Blocks, NEW k \in Blocks, h # k
      PROVE  Extent(h) \cap Extent(k) = {}
  BY <1>5, <1>9 DEF Extent
<1> QED
  BY <1>3, <1>5, <1>8, <1>9

\* With nothing lost and nothing in use there is no block left.
LEMMA CInvDrained ==
  ASSUME CInv, Unsafe = {}
  PROVE  Drained
<1>1. SUFFICES ASSUME pc = "idle", live = {}
               PROVE  head = NULL /\ block_end \in {NULL, First}
  BY DEF Drained
<1>2. PICK F, r, lost : Stage(F, r, lost) /\ Loses(lost)
  BY CInvIs
<1>3. /\ TypeOK /\ Break /\ Shape(F, r, lost) /\ NoneLast(F) /\ lost = {}
  BY <1>1, <1>2, CInvIs, IdleFacts DEF Loses
<1>4. F \cup Used(live) \cup lost = F
  BY <1>1, <1>3 DEF Used
<1>5. /\ \A h \in F : h \in Nat /\ mem[h] \in Nat /\ mem[h] >= 3 /\ h + mem[h] <= Top
      /\ First \in Nat /\ Top \in Nat /\ Top >= First
  BY <1>3, BlockFacts DEF Break
<1>6. \A w \in First .. Top - 1 : \E h \in F : h <= w /\ w < h + mem[h]
  BY <1>3, <1>4 DEF Shape, Tiles
<1>7. Top = First
  <2>1. SUFFICES ASSUME Top > First PROVE FALSE
    BY <1>5
  <2>2. Top - 1 \in First .. Top - 1
    BY <1>5, <2>1
  <2>3. PICK h \in F : h <= Top - 1 /\ Top - 1 < h + mem[h]
    BY <1>6, <2>2
  <2>4. h + mem[h] = Top
    BY <1>5, <2>3
  <2> QED
    BY <1>3, <2>4 DEF NoneLast
<1>8. F = {}
  <2>1. SUFFICES ASSUME NEW h \in F PROVE FALSE
    OBVIOUS
  <2>2. h >= First
    BY <1>3, BlockFacts
  <2> QED
    BY <1>5, <1>7, <2>2
<1> QED
  BY <1>3, <1>7, <1>8, SearchFacts DEF Top

\* No call of a careful client dereferences a word that is not mapped, also when
\* it resizes by moving (alloc.c:29-384).
THEOREM ClientNoCrash ==
  ASSUME Unsafe \subseteq {"resize_by_moving"}
  PROVE  ClientSpec => []NoCrash
<1>1. CInv => NoCrash
  BY CInvNoCrash
<1> QED
  BY <1>1, ClientInvariant, PTL

\* The free list has an end and is doubly linked between calls: what lines 201,
\* 262, 309 and 341 rely on.
THEOREM ClientLinked ==
  ASSUME Unsafe \subseteq {"resize_by_moving"}
  PROVE  ClientSpec => []Linked
<1>1. CInv => Linked
  BY CInvLinked
<1> QED
  BY <1>1, ClientInvariant, PTL

\* Whatever can be merged or given back has been when kufree returns
\* (alloc.c:184-205, 237-346).
THEOREM ClientCoalesced ==
  ASSUME Unsafe \subseteq {"resize_by_moving"}
  PROVE  ClientSpec => []Coalesced
<1>1. CInv => Coalesced
  BY CInvCoalesced
<1> QED
  BY <1>1, ClientInvariant, PTL

\* Nothing but its owner writes to a block in use (memlist.c:239).
THEOREM ClientIntact ==
  ASSUME Unsafe \subseteq {"resize_by_moving"}
  PROVE  ClientSpec => []Intact
<1>1. CInv => Intact
  BY CInvIntact
<1> QED
  BY <1>1, ClientInvariant, PTL

\* What a call hands out lies in the block it was taken from (alloc.c:142,
\* 152-155, 368-370).
THEOREM ClientRoomy ==
  ASSUME Unsafe \subseteq {"resize_by_moving"}
  PROVE  ClientSpec => []Roomy
<1>1. CInv => Roomy
  BY CInvRoomy
<1> QED
  BY <1>1, ClientInvariant, PTL

\* Every word below block_end belongs to exactly one block, in use or listed,
\* for a client that avoids every kind of call that alloc.c gets wrong
\* (alloc.c:98-131, 253-345).
THEOREM ClientTiled ==
  ASSUME Unsafe = {}
  PROVE  ClientSpec => []Tiled
<1>1. CInv => Tiled
  BY CInvTiled
<1>2. ClientSpec => []CInv
  BY ClientInvariant
<1> QED
  BY <1>1, <1>2, PTL

\* Such a client that has freed everything, in whatever order, has given every
\* block back.
THEOREM ClientDrained ==
  ASSUME Unsafe = {}
  PROVE  ClientSpec => []Drained
<1>1. CInv => Drained
  BY CInvDrained
<1>2. ClientSpec => []CInv
  BY ClientInvariant
<1> QED
  BY <1>1, <1>2, PTL

-----------------------------------------------------------------------------
(***************************************************************************)
(* The allocator implements Heap                                           *)
(***************************************************************************)
\* The allocations are words of their own that hold what their owners wrote,
\* but for one that has just been handed out.
Owning ==
  /\ \A b \in live : /\ b.at \in Nat \ {0} /\ b.len \in Nat
                     /\ \A w \in Payload(b) : w \in Words
  /\ \A b, c \in live : b # c => Payload(b) \cap Payload(c) = {}
  /\ \A b, c \in live : b.at = c.at => b = c
  /\ Filled(mem, IF pc = "fill" THEN live \ Given ELSE live)
  /\ pc = "fill" => Given # {}

\* Two allocations have no word in common.
LEMMA PayloadsApart ==
  ASSUME TypeOK, NEW F, NEW r, NEW X, Break, Shape(F, r, X),
         NEW b \in live, NEW c \in live, b # c
  PROVE  Payload(b) \cap Payload(c) = {}
<1>1. b.at # c.at
  BY DEF Shape, Holds
<1>2. PICK h, k : h = b.at - Header /\ k = c.at - Header
  OBVIOUS
<1>3. /\ h \in Used(live) /\ k \in Used(live) /\ h # k /\ h \in Nat /\ k \in Nat
      /\ mem[h] \in Nat /\ mem[k] \in Nat
      /\ \A w \in Payload(b) : w \in Int /\ h < w /\ w < h + mem[h]
      /\ \A w \in Payload(c) : w \in Int /\ k < w /\ w < k + mem[k]
  <2>1. b.at = h + Header /\ c.at = k + Header
    BY <1>2, PayloadFacts
  <2>2. h # k
    BY <1>1, <2>1
  <2> QED
    BY <1>2, <2>2, PayloadFacts
<1>4. h + mem[h] <= k \/ k + mem[k] <= h
  BY <1>3, BlockFacts
<1>5. SUFFICES ASSUME NEW w, w \in Payload(b), w \in Payload(c) PROVE FALSE
  OBVIOUS
<1> QED
  BY <1>3, <1>4, <1>5

\* It follows from the invariant wherever a call stands.
LEMMA CInvOwning ==
  CInv => Owning
<1> SUFFICES ASSUME CInv PROVE Owning
  OBVIOUS
<1>1. PICK F, r, lost : Stage(F, r, lost)
  BY CInvIs
<1>2. TypeOK
  BY CInvIs
<1>3. /\ pc = "fill" => Filled(mem, live \ Given) /\ Given # {}
      /\ pc # "fill" => Filled(mem, live)
  BY <1>1 DEF Stage, Fitting, Growing, Taking, Unlinking, Returning, Filling, Freeing, Freed,
              TrimmingLast, TrimmingInner, Inner, Merging, MergingAbove, MergingBelow, Idle
<1>4. PICK X : Break /\ Shape(F, r, X)
  BY <1>1 DEF Stage, Fitting, Growing, Taking, Unlinking, Returning, Filling, Freeing, Freed,
              TrimmingLast, TrimmingInner, Inner, Merging, MergingAbove, MergingBelow, Idle, Calm
<1>5. \A b, c \in live : b # c => Payload(b) \cap Payload(c) = {}
  BY <1>2, <1>4, PayloadsApart
<1>6. \A b, c \in live : b.at = c.at => b = c
  BY <1>4 DEF Shape, Holds
<1>7. \A b \in live : /\ b.at \in Nat \ {0} /\ b.len \in Nat
                      /\ \A w \in Payload(b) : w \in Words
  BY <1>2, <1>4, PayloadFacts
<1> QED
  BY <1>3, <1>5, <1>6, <1>7 DEF Owning

-----------------------------------------------------------------------------
\* The contents of the allocations, as Heap sees them.
Content == [w \in UNION {Payload(b) : b \in live} |-> Read(mem, w)]

\* What an allocation holds.
LEMMA ContentAt ==
  ASSUME Owning, NEW b \in live, NEW w \in Payload(b)
  PROVE  Content[w] = mem[w] /\ w \in Words
<1>1. w \in Words /\ w \in UNION {Payload(c) : c \in live}
  BY DEF Owning
<1> QED
  BY <1>1 DEF Content, Read

\* As ContentAt, in the next state.
LEMMA ContentThen ==
  ASSUME Owning', NEW b \in live', NEW w \in Payload(b)
  PROVE  Content'[w] = mem'[w] /\ w \in Words
<1>1. w \in Words /\ w \in UNION {Payload(c) : c \in live'}
  BY DEF Owning, Payload
<1> QED
  BY <1>1 DEF Content, Read, Payload

\* Words of allocations that are filled before and after a step are kept.
LEMMA FilledKept ==
  ASSUME Owning, Owning', NEW S, S \subseteq live, S \subseteq live',
         Filled(mem, S), Filled(mem', S)
  PROVE  H!Keeps(S)
<1>1. DOMAIN Content' = H!Owned(live')
  BY DEF Content, Payload, H!Owned, H!Payload
<1>2. ASSUME NEW w \in H!Owned(S)
      PROVE  Content'[w] = Content[w]
  <2>1. PICK b \in S : w \in Payload(b)
    BY <1>2 DEF H!Owned, H!Payload, Payload
  <2>2. mem[w] = Data(b.at) /\ mem'[w] = Data(b.at)
    BY <2>1 DEF Filled
  <2>3. Content[w] = mem[w]
    BY <2>1, ContentAt
  <2>4. Content'[w] = mem'[w]
    BY <2>1, ContentThen
  <2> QED
    BY <2>2, <2>3, <2>4
<1>3. DOMAIN Content' = H!Owned(live') /\ \A w \in H!Owned(S) : Content'[w] = Content[w]
  BY <1>1, <1>2
<1> QED
  BY ONLY <1>3 DEF H!Keeps, H!Owned, Content

\* A step that changes neither the allocations nor what they hold.
LEMMA ContentSame ==
  ASSUME Owning, Owning', live' = live, pc # "fill", pc' # "fill"
  PROVE  UNCHANGED <<live, Content>>
<1>1. Filled(mem, live) /\ Filled(mem', live)
  BY DEF Owning, Filled, Payload
<1>2. \A b \in live : \A w \in Payload(b) : w \in Words /\ mem'[w] = mem[w]
  BY <1>1 DEF Filled, Owning
<1>3. \A w \in UNION {Payload(b) : b \in live} : Read(mem', w) = Read(mem, w)
  BY <1>2 DEF Read
<1> QED
  BY <1>3 DEF Content, Payload

\* A call that begins and leaves the allocations alone.
LEMMA CallStutters ==
  ASSUME Owning, Owning', pc = "idle", NEW op, NEW b, NEW len, NEW n, Enter(op, b, len, n)
  PROVE  UNCHANGED <<live, Content>>
<1>1. live' = live /\ pc' # "fill"
  BY DEF Enter
<1> QED
  BY <1>1, ContentSame

\* kufree takes an allocation away.
LEMMA FreeReleases ==
  ASSUME Owning, Owning', NEW b \in live, CallFree(b)
  PROVE  H!Release
<1>1. live' = live \ {b} /\ pc = "idle" /\ pc' = "last"
  BY DEF CallFree
<1>2. Filled(mem, live') /\ Filled(mem', live')
  BY <1>1 DEF Owning, Filled, Payload
<1>3. H!Keeps(live')
  <2>1. PICK S : S = live'
    OBVIOUS
  <2>2. S \subseteq live /\ S \subseteq live' /\ Filled(mem, S) /\ Filled(mem', S)
    BY <1>1, <1>2, <2>1
  <2> QED
    BY <2>1, <2>2, FilledKept
<1> QED
  BY <1>1, <1>3 DEF H!Release

\* The client writes to the block it was given.
LEMMA FillStores ==
  ASSUME Owning, Owning', Fill
  PROVE  H!Store
<1>1. pc = "fill" /\ pc' = "idle" /\ live' = live
  BY DEF Fill
<1>2. PICK b \in live : b.at = call.block + Header
  BY <1>1 DEF Owning, Given
<1>3. live \ {b} \subseteq live \ Given
  BY <1>2 DEF Owning, Given
<1>4. Filled(mem, live \ {b}) /\ Filled(mem', live \ {b})
  BY <1>1, <1>3 DEF Owning, Filled, Payload
<1>5. H!Keeps(live \ {b})
  <2>1. PICK S : S = live \ {b}
    OBVIOUS
  <2>2. S \subseteq live /\ S \subseteq live' /\ Filled(mem, S) /\ Filled(mem', S)
    BY <1>1, <1>4, <2>1
  <2> QED
    BY <2>1, <2>2, FilledKept
<1> QED
  BY <1>1, <1>2, <1>5 DEF H!Store

\* What is handed out is Heap's to give: the others are kept.
LEMMA NewAdds ==
  ASSUME Owning, Owning', NEW S, S \subseteq live, NEW b, b \notin S, live' = S \cup {b},
         Filled(mem, S), Filled(mem', S)
  PROVE  H!Add(S, b)
<1>1. b \in live' /\ S \subseteq live'
  OBVIOUS
<1>2. H!Payload(b) = Payload(b)
  BY DEF H!Payload, Payload
<1>3. Payload(b) \subseteq Words
  BY <1>1 DEF Owning, Payload
<1>4. \A c \in S : Payload(b) \cap Payload(c) = {}
  BY <1>1 DEF Owning, Payload
<1>5. Payload(b) \cap H!Owned(S) = {}
  BY <1>4 DEF H!Owned, H!Payload, Payload
<1>6. H!Keeps(S)
  BY <1>1, FilledKept
<1> QED
  BY <1>2, <1>3, <1>5, <1>6 DEF H!Add

\* What an allocation moved or resized holds.
LEMMA ContentMoves ==
  ASSUME Owning, Owning', NEW old \in live, NEW b \in live',
         \A i \in 0 .. b.len - 1 : i < old.len => mem'[b.at + i] = mem[old.at + i]
  PROVE  \A i \in 0 .. b.len - 1 : i < old.len => Content'[b.at + i] = Content[old.at + i]
<1> SUFFICES ASSUME NEW i \in 0 .. b.len - 1, i < old.len
             PROVE  Content'[b.at + i] = Content[old.at + i]
  OBVIOUS
<1>1. old.at \in Nat /\ old.len \in Nat /\ b.at \in Nat /\ b.len \in Nat
  BY DEF Owning
<1>2. i \in Nat /\ old.at + i \in Payload(old) /\ b.at + i \in Payload(b)
  BY <1>1 DEF Payload
<1>3. Content[old.at + i] = mem[old.at + i]
  BY <1>2, ContentAt
<1>4. Content'[b.at + i] = mem'[b.at + i]
  BY <1>2, ContentThen
<1> QED
  BY <1>3, <1>4

\* A block that is long enough is resized where it is.
LEMMA InPlaceResizes ==
  ASSUME Owning, Owning', NEW b \in live, NEW n, CallRealloc(b, n), SizeOf(b.at - Header) >= n
  PROVE  H!Resize
<1>1. PICK new : new = [at |-> b.at, len |-> n]
  OBVIOUS
<1>2. /\ pc = "idle" /\ live' = (live \ {b}) \cup {new} /\ mem' = mem
      /\ pc' = "fill" /\ call'.block = b.at - Header
  BY <1>1 DEF CallRealloc, code, NoCall
<1>3. PICK S : S = live \ {b}
  OBVIOUS
<1>4. S \subseteq live /\ live' = S \cup {new}
  BY <1>2, <1>3
<1>5. new \notin S /\ \A c \in S : c.at # b.at
  BY <1>1, <1>3 DEF Owning
<1>6. Filled(mem, S) /\ Filled(mem', S)
  BY <1>2, <1>4 DEF Owning, Filled
<1>7. H!Add(S, new)
  BY <1>4, <1>5, <1>6, NewAdds
<1>8. \A i \in 0 .. new.len - 1 : i < b.len => mem'[new.at + i] = mem[b.at + i]
  BY <1>1, <1>2
<1>9. \A i \in 0 .. new.len - 1 : i < b.len => Content'[new.at + i] = Content[b.at + i]
  BY <1>4, <1>8, ContentMoves
<1>10. new \in live'
  BY <1>4
<1> QED
  BY <1>3, <1>7, <1>9, <1>10 DEF H!Resize, Content

\* A block that was listed or is new is handed out.
LEMMA ReturnFacts ==
  ASSUME TypeOK, Owning, Owning', NEW F, NEW r, NEW X, Returning(F, r, X), Return, pc = "return",
         NEW new, new = [at |-> call.block + Header, len |-> call.len],
         NEW S, S = {b \in live : b.at # call.ptr}
  PROVE  new \notin live /\ new \in live' /\ H!Add(S, new)
<1>1. /\ live' = S \cup {new} /\ S \subseteq live /\ pc' = "fill" /\ call' = call
      /\ call.block \in Nat
  BY DEF Return, TypeOK, Locals
<1>2. Used(live) \cap (X \cup {call.block}) = {} /\ Filled(mem, live)
  BY DEF Returning, Idle, Calm, Shape
<1>3. \A b \in live : b.at # call.block + Header
  <2>1. SUFFICES ASSUME NEW b \in live, b.at = call.block + Header PROVE FALSE
    OBVIOUS
  <2>2. b.at - Header = call.block
    BY <1>1, <2>1 DEF Header
  <2> QED
    BY <1>2, <2>2 DEF Used
<1>4. new \notin live
  BY <1>3
<1>5. Filled(mem', live' \ Given')
  BY <1>1 DEF Owning
<1>6. Given' = {new}
  <2>1. \A b \in S : b.at # call.block + Header
    BY <1>1, <1>3
  <2> QED
    BY <1>1, <2>1 DEF Given
<1>7. Filled(mem, S) /\ Filled(mem', S)
  BY <1>1, <1>2, <1>4, <1>5, <1>6 DEF Filled
<1>8. new \notin S
  BY <1>1, <1>4
<1>9. H!Add(S, new)
  BY <1>1, <1>7, <1>8, NewAdds
<1> QED
  BY <1>1, <1>4, <1>9

\* kumalloc and kucalloc grant an allocation, kurealloc moves one.
LEMMA ReturnGives ==
  ASSUME TypeOK, Owning, Owning', NEW F, NEW r, NEW X, Returning(F, r, X), Return, pc = "return"
  PROVE  H!Grant \/ H!Resize
<1>1. PICK new : new = [at |-> call.block + Header, len |-> call.len]
  OBVIOUS
<1>2. PICK S : S = {b \in live : b.at # call.ptr}
  OBVIOUS
<1>3. new \notin live /\ new \in live' /\ H!Add(S, new)
  BY <1>1, <1>2, ReturnFacts
<1>4. Requesting
  BY DEF Returning
<1>5. CASE call.op \in {"malloc", "calloc"}
  <2>1. call.ptr = NULL
    BY <1>4, <1>5 DEF Requesting
  <2>2. S = live
    BY <1>2, <2>1 DEF Owning, NULL
  <2> QED
    BY <1>3, <2>2 DEF H!Grant
<1>6. CASE call.op = "realloc"
  <2>1. PICK old \in live : old.at = call.ptr
    BY <1>4, <1>6 DEF Requesting
  <2>2. S = live \ {old}
    BY <1>2, <2>1 DEF Owning
  <2>3. call.prev_size = mem[call.ptr - Header]
    BY <1>4, <1>6 DEF Requesting
  <2>4. Break /\ Shape(F, r, X \cup {call.block})
    BY DEF Returning, Idle, Calm
  <2>5. /\ old.at \in Nat /\ old.len \in Nat /\ call.prev_size \in Nat
        /\ old.len + Header <= call.prev_size
        /\ \A w \in Payload(old) : w \in Words
    BY <2>1, <2>3, <2>4, PayloadFacts
  <2>6. new.at \in Nat /\ new.len \in Nat /\ (\A w \in Payload(new) : w \in Words)
        /\ call.block \in Nat
    BY <1>3 DEF Owning, Payload, TypeOK, Locals
  <2>7. ASSUME NEW i \in 0 .. new.len - 1, i < old.len
        PROVE  mem'[new.at + i] = mem[old.at + i]
    <3>1. mem' = [a \in Words |-> IF a \in Copied
                                  THEN Read(mem, a - call.block - 1 + call.ptr)
                                  ELSE mem[a]]
      BY <1>6 DEF Return
    <3>2. PICK a : a = new.at + i
      OBVIOUS
    <3>3. i \in Nat /\ a \in Words /\ old.at + i \in Words /\ a \in Nat
      BY <2>5, <2>6, <2>7, <3>2 DEF Payload
    <3>4. a = call.block + 1 + i
      BY <1>1, <2>6, <3>2, <3>3 DEF Header
    <3>5. a \in Copied
      BY <2>5, <2>6, <2>7, <3>3, <3>4 DEF Copied, Header
    <3>6. a - call.block - 1 + call.ptr = old.at + i
      BY <2>1, <2>5, <2>6, <3>3, <3>4
    <3> QED
      BY <3>1, <3>2, <3>3, <3>5, <3>6 DEF Read
  <2>8. \A i \in 0 .. new.len - 1 : i < old.len => Content'[new.at + i] = Content[old.at + i]
    BY <1>3, <2>7, ContentMoves
  <2> QED
    BY <1>3, <2>2, <2>8 DEF H!Resize, Content
<1> QED
  BY <1>4, <1>5, <1>6 DEF Requesting

\* Every step of a careful client or of the code is one of Heap's, or none.
LEMMA HeapStep ==
  ASSUME CInv, Owning, Owning', [ClientNext]_vars, pc' # "crash"
  PROVE  [H!Next]_<<live, Content>>
<1>1. PICK F, r, lost : Stage(F, r, lost)
  BY CInvIs
<1>2. TypeOK
  BY CInvIs
<1>3. CASE ClientCalls
  <2>1. ASSUME NEW n \in Sizes, CallMalloc(n) PROVE [H!Next]_<<live, Content>>
    <3>1. pc = "idle" /\ Enter("malloc", Nothing, n, n)
      BY <2>1 DEF CallMalloc
    <3> QED
      BY <3>1, CallStutters
  <2>2. ASSUME NEW k \in Counts, NEW n \in Sizes, CallCalloc(k, n)
        PROVE  [H!Next]_<<live, Content>>
    <3>1. pc = "idle" /\ Enter("calloc", Nothing, k * n, (k * n) % Width)
      BY <2>2 DEF CallCalloc
    <3> QED
      BY <3>1, CallStutters
  <2>3. ASSUME NEW b \in live, NEW n \in Resizes, CallRealloc(b, n)
        PROVE  [H!Next]_<<live, Content>>
    <3>1. CASE SizeOf(b.at - Header) >= n
      <4>1. H!Resize
        BY <2>3, <3>1, InPlaceResizes
      <4> QED
        BY <4>1 DEF H!Next
    <3>2. CASE ~(SizeOf(b.at - Header) >= n)
      <4>1. pc = "idle" /\ Enter("realloc", b, n, n + Header)
        BY <2>3, <3>2 DEF CallRealloc
      <4> QED
        BY <4>1, CallStutters
    <3> QED
      BY <3>1, <3>2
  <2>4. ASSUME NEW b \in live, CallFree(b) PROVE [H!Next]_<<live, Content>>
    <3>1. H!Release
      BY <2>4, FreeReleases
    <3> QED
      BY <3>1 DEF H!Next
  <2> QED
    BY <1>3, <2>1, <2>2, <2>3, <2>4 DEF ClientCalls
<1>4. CASE Code
  <2>1. CASE pc = "return" /\ Return
    <3>1. Returning(F, r, lost)
      BY <1>1, <2>1 DEF Stage
    <3>2. H!Grant \/ H!Resize
      BY <1>2, <2>1, <3>1, ReturnGives
    <3> QED
      BY <3>2 DEF H!Next
  <2>2. CASE pc = "fill" /\ Fill
    <3>1. H!Store
      BY <2>2, FillStores
    <3> QED
      BY <3>1 DEF H!Next
  <2>3. CASE ~(pc = "return" /\ Return) /\ ~(pc = "fill" /\ Fill)
    <3>1. live' = live /\ pc # "fill" /\ pc' # "fill"
      BY <1>4, <2>3 DEF Code, Fit, Grow, TakeHead, TakeOther, Unlink, Return, Fill, LastBlock,
         Trim, Trimmed, Merge, Above, Below, Push, MergeThree, MergeAbove, MergeBelow, Free
    <3> QED
      BY <3>1, ContentSame
  <2> QED
    BY <2>1, <2>2, <2>3
<1>5. CASE UNCHANGED vars
  BY <1>5 DEF vars, code, Content, Payload
<1> QED
  BY <1>3, <1>4, <1>5 DEF ClientNext, Step, Crash

\* The allocator of a careful client implements Heap: allocations are disjoint,
\* keep their contents while they are held, and keep them when resized, in place
\* or by moving (memlist.c:171 and 239, checked_alloc.c:230).
THEOREM ClientImplementsHeap ==
  ASSUME Unsafe \subseteq {"resize_by_moving"}
  PROVE  ClientSpec => ImplementsHeap
<1>1. ClientSpec => []CInv
  BY ClientInvariant
<1>2. CInv => Owning /\ NoCrash
  BY CInvOwning, CInvNoCrash
<1>3. Init => H!Init
  <2>1. ASSUME Init PROVE H!Init
    <3>1. live = {}
      BY <2>1 DEF Init
    <3>2. UNION {Payload(b) : b \in live} = {}
      BY <3>1
    <3> QED
      BY <3>1, <3>2 DEF H!Init
  <2> QED
    BY <2>1
<1>4. CInv /\ Owning /\ Owning' /\ NoCrash' /\ [ClientNext]_vars => [H!Next]_(H!vars)
  <2>1. SUFFICES ASSUME CInv, Owning, Owning', NoCrash', [ClientNext]_vars
                 PROVE  [H!Next]_(H!vars)
    OBVIOUS
  <2>2. pc' # "crash"
    BY <2>1 DEF NoCrash
  <2>3. [H!Next]_<<live, Content>>
    BY <2>1, <2>2, HeapStep
  <2> QED
    BY <2>3 DEF H!vars, Content
<1> QED
  BY <1>1, <1>2, <1>3, <1>4, PTL DEF ClientSpec, ImplementsHeap, H!Spec

-----------------------------------------------------------------------------
(***************************************************************************)
(* The lists of memlist.c: adding a region keeps a list sorted, and what   *)
(* the searches find in a sorted list.                                     *)
(***************************************************************************)
Regions == [start : Nat, end : Nat]
NonEmpty(r) == r \in Regions /\ r.start < r.end

\* The order of the list allocs: every region ends before the next ones start.
Sorted(list) ==
  /\ list \in Seq(Regions)
  /\ \A i \in 1 .. Len(list) : NonEmpty(list[i])
  /\ \A i, j \in 1 .. Len(list) : i < j => list[i].end <= list[j].start

\* The fields of a region are numbers.
LEMMA RegionType ==
  ASSUME NEW r, NonEmpty(r)
  PROVE  r.start \in Nat /\ r.end \in Nat /\ r.start < r.end
BY DEF NonEmpty, Regions

\* So are those of the regions of a sorted list.
LEMMA SortedType ==
  ASSUME NEW list, Sorted(list)
  PROVE  /\ Len(list) \in Nat
         /\ list # <<>> => Len(list) # 0
         /\ \A i \in 1 .. Len(list) :
              list[i].start \in Nat /\ list[i].end \in Nat /\ list[i].start < list[i].end
<1>1. Len(list) \in Nat /\ (list # <<>> => Len(list) # 0)
  BY DEF Sorted
<1> QED
  BY <1>1, RegionType DEF Sorted

\* Putting one list behind another.
LEMMA Joined ==
  ASSUME NEW S, NEW s \in Seq(S), NEW t \in Seq(S)
  PROVE  s \o t \in Seq(S) /\ Len(s \o t) = Len(s) + Len(t)
OBVIOUS

\* The list l is the list with region put behind the k-th of it, where it
\* belongs.
Inserted(list, region, l, k) ==
  /\ k \in 0 .. Len(list)
  /\ l \in Seq(Regions) /\ Len(l) = Len(list) + 1 /\ l[k + 1] = region
  /\ \A i \in 1 .. k : l[i] = list[i]
  /\ \A i \in k + 2 .. Len(l) : i - 1 \in 1 .. Len(list) /\ l[i] = list[i - 1]
  /\ \A j \in 1 .. k : list[j].end <= region.start
  /\ \A j \in k + 1 .. Len(list) : region.end <= list[j].start

\* memlist_add_region puts a region where it belongs, whichever way it takes
\* (memlist.c:160 to 179).
LEMMA AddInserts ==
  ASSUME NEW list, Sorted(list), NEW region, NonEmpty(region), CanAdd(list, region)
  PROVE  \E k : Inserted(list, region, AddRegion(list, region), k)
<1>1. CASE list = <<>> \/ region.end <= list[1].start
  <2> DEFINE l == <<region>> \o list
  <2>1. AddRegion(list, region) = l
    BY <1>1 DEF AddRegion
  <2>2. /\ l \in Seq(Regions) /\ Len(l) = Len(list) + 1 /\ l[1] = region
        /\ \A i \in 2 .. Len(l) : i - 1 \in 1 .. Len(list) /\ l[i] = list[i - 1]
    BY DEF Sorted, NonEmpty
  <2>3. \A j \in 1 .. Len(list) : region.end <= list[j].start
    BY <1>1, SortedType, RegionType DEF Sorted
  <2> HIDE DEF l
  <2>4. Len(list) \in Nat
    BY SortedType
  <2>5. Inserted(list, region, l, 0)
    BY <2>2, <2>3, <2>4 DEF Inserted
  <2> QED
    BY <2>1, <2>5
<1>2. CASE /\ list # <<>> /\ ~(region.end <= list[1].start)
           /\ region.start >= Last(list).end
  <2> DEFINE l == Append(list, region)
  <2>1. AddRegion(list, region) = l
    BY <1>2 DEF AddRegion
  <2>2. /\ l \in Seq(Regions) /\ Len(l) = Len(list) + 1 /\ l[Len(list) + 1] = region
        /\ \A i \in 1 .. Len(list) : l[i] = list[i]
    BY DEF Sorted, NonEmpty
  <2>3. \A j \in 1 .. Len(list) : list[j].end <= region.start
    <3>1. Len(list) \in 1 .. Len(list) /\ list[Len(list)].end <= region.start
      BY <1>2, SortedType DEF Last
    <3>2. SUFFICES ASSUME NEW j \in 1 .. Len(list), j # Len(list)
                   PROVE  list[j].end <= region.start
      BY <3>1
    <3>3. list[j].end <= list[Len(list)].start
      BY <3>1, <3>2, SortedType DEF Sorted
    <3> QED
      BY <3>1, <3>3, SortedType, RegionType
  <2> HIDE DEF l
  <2>4. Len(list) \in Nat
    BY SortedType
  <2>5. Inserted(list, region, l, Len(list))
    BY <2>2, <2>3, <2>4 DEF Inserted
  <2> QED
    BY <2>1, <2>5
<1>3. CASE ~Outside(list, region)
  <2> DEFINE k == CHOOSE i \in 1 .. Len(list) : StopsAt(list, region, i)
             l == InsertAt(list, 1 + k, region)
  <2>1. AddRegion(list, region) = l
    BY <1>3 DEF AddRegion, Outside
  <2>2. k \in 1 .. Len(list) /\ StopsAt(list, region, k)
    BY <1>3 DEF CanAdd
  <2> HIDE DEF k
  <2>3. l = SubSeq(list, 1, k) \o <<region>> \o SubSeq(list, 1 + k, Len(list))
    <3>1. (1 + k) - 1 = k
      BY <2>2, SortedType
    <3> QED
      BY <3>1 DEF InsertAt
  <2>4. /\ l \in Seq(Regions) /\ Len(l) = Len(list) + 1 /\ l[k + 1] = region
        /\ \A i \in 1 .. k : l[i] = list[i]
        /\ \A i \in k + 2 .. Len(l) : i - 1 \in 1 .. Len(list) /\ l[i] = list[i - 1]
    <3>1. /\ list \in Seq(Regions) /\ Len(list) \in Nat /\ region \in Regions
          /\ k \in 1 .. Len(list)
      BY <2>2, SortedType DEF Sorted, NonEmpty
    <3> DEFINE low == SubSeq(list, 1, k)
               high == SubSeq(list, 1 + k, Len(list))
    <3>2. low \in Seq(Regions) /\ Len(low) = k /\ \A i \in 1 .. k : low[i] = list[i]
      BY <3>1
    <3>3. /\ high \in Seq(Regions) /\ Len(high) = Len(list) - k
          /\ \A i \in 1 .. Len(list) - k : high[i] = list[k + i]
      BY <3>1
    <3> HIDE DEF low, high
    <3>4. /\ low \o <<region>> \in Seq(Regions) /\ Len(low \o <<region>>) = k + 1
          /\ (low \o <<region>>)[k + 1] = region
          /\ \A i \in 1 .. k : (low \o <<region>>)[i] = list[i]
      BY <3>1, <3>2
    <3>5. l = (low \o <<region>>) \o high
      BY <2>3 DEF low, high
    <3> DEFINE front == low \o <<region>>
    <3>6. l = front \o high
      BY <3>5
    <3>7. /\ front \in Seq(Regions) /\ Len(front) = k + 1 /\ front[k + 1] = region
          /\ \A i \in 1 .. k : front[i] = list[i]
      BY <3>4
    <3> HIDE DEF front, l
    <3>8. l \in Seq(Regions) /\ Len(l) = Len(list) + 1
      <4>1. front \o high \in Seq(Regions) /\ Len(front \o high) = Len(front) + Len(high)
        BY <3>3, <3>7, Joined
      <4>2. k \in Nat /\ Len(front) + Len(high) = Len(list) + 1
        BY <3>1, <3>3, <3>7
      <4> QED
        BY <3>6, <4>1, <4>2
    <3>9. l[k + 1] = region /\ \A i \in 1 .. k : l[i] = list[i]
      BY <3>1, <3>3, <3>6, <3>7
    <3>10. ASSUME NEW i \in k + 2 .. Len(l)
           PROVE  i - 1 \in 1 .. Len(list) /\ l[i] = list[i - 1]
      <4>1. /\ i - (k + 1) \in 1 .. Len(list) - k /\ k + (i - (k + 1)) = i - 1
            /\ i - 1 \in 1 .. Len(list)
        BY <3>1, <3>8
      <4>2. l[i] = high[i - (k + 1)]
        BY <3>1, <3>3, <3>6, <3>7, <4>1
      <4> QED
        BY <3>3, <4>1, <4>2
    <3> QED
      BY <3>8, <3>9, <3>10
  <2>5. /\ \A j \in 1 .. k : list[j].end <= region.start
        /\ \A j \in k + 1 .. Len(list) : region.end <= list[j].start
    <3>1. list[k].end <= region.start /\ (k = Len(list) \/ list[k + 1].start >= region.end)
      BY <2>2 DEF StopsAt, FitsAfter
    <3>2. ASSUME NEW j \in 1 .. k
          PROVE  j \in 1 .. Len(list) /\ list[j].end <= region.start
      <4>1. CASE j = k
        BY <2>2, <3>1, <4>1
      <4>2. CASE j # k
        <5>1. j \in 1 .. Len(list) /\ j < k /\ list[j].end <= list[k].start
          BY <2>2, <4>2, SortedType DEF Sorted
        <5> QED
          BY <2>2, <3>1, <5>1, SortedType, RegionType
      <4> QED
        BY <4>1, <4>2
    <3>3. ASSUME NEW j \in k + 1 .. Len(list)
          PROVE  region.end <= list[j].start
      <4>1. k + 1 \in 1 .. Len(list) /\ region.end <= list[k + 1].start
        BY <2>2, <3>1, SortedType, RegionType
      <4>2. CASE j = k + 1
        BY <4>1, <4>2
      <4>3. CASE j # k + 1
        <5>1. j \in 1 .. Len(list) /\ list[k + 1].end <= list[j].start
          BY <2>2, <4>1, <4>3, SortedType DEF Sorted
        <5> QED
          BY <4>1, <5>1, SortedType, RegionType
      <4> QED
        BY <4>2, <4>3
    <3> QED
      BY <3>2, <3>3
  <2> HIDE DEF l
  <2>6. Inserted(list, region, l, k)
    BY <2>2, <2>4, <2>5, SortedType DEF Inserted
  <2> QED
    BY <2>1, <2>6
<1> QED
  BY <1>1, <1>2, <1>3 DEF Outside

\* So the list stays sorted (memlist.c:160 to 179); the searches rely on it.
THEOREM AddKeepsSorted ==
  ASSUME NEW list, Sorted(list), NEW region, NonEmpty(region), CanAdd(list, region)
  PROVE  Sorted(AddRegion(list, region))
<1>1. PICK l : l = AddRegion(list, region)
  OBVIOUS
<1>2. PICK k : Inserted(list, region, l, k)
  BY <1>1, AddInserts
<1>3. k \in 0 .. Len(list) /\ k \in Nat /\ Len(list) \in Nat
  BY <1>2, SortedType DEF Inserted
<1>4. /\ l \in Seq(Regions) /\ Len(l) = Len(list) + 1 /\ l[k + 1] = region
      /\ \A i \in 1 .. k : l[i] = list[i]
      /\ \A i \in k + 2 .. Len(l) : i - 1 \in 1 .. Len(list) /\ l[i] = list[i - 1]
  BY <1>2 DEF Inserted
<1>5. /\ \A j \in 1 .. k : list[j].end <= region.start
      /\ \A j \in k + 1 .. Len(list) : region.end <= list[j].start
  BY <1>2 DEF Inserted
<1>6. \A i \in 1 .. Len(l) : NonEmpty(l[i])
  <2> SUFFICES ASSUME NEW i \in 1 .. Len(l)
               PROVE  NonEmpty(l[i])
    OBVIOUS
  <2>1. CASE i \in 1 .. k
    BY <1>3, <1>4, <2>1, SortedType DEF Sorted
  <2>2. CASE i = k + 1
    BY <1>4, <2>2
  <2>3. CASE i \in k + 2 .. Len(l)
    BY <1>4, <2>3 DEF Sorted
  <2> QED
    BY <1>3, <1>4, <2>1, <2>2, <2>3, SortedType
<1>7. \A i, j \in 1 .. Len(l) : i < j => l[i].end <= l[j].start
  <2> SUFFICES ASSUME NEW i \in 1 .. Len(l), NEW j \in 1 .. Len(l), i < j
               PROVE  l[i].end <= l[j].start
    OBVIOUS
  <2>1. k \in Nat /\ k \in 0 .. Len(list) /\ Len(list) \in Nat
    BY <1>3
  <2>2. CASE i \in 1 .. k /\ j \in 1 .. k
    <3>1. i \in 1 .. Len(list) /\ j \in 1 .. Len(list)
      BY <2>1, <2>2
    <3> QED
      BY <1>4, <2>2, <3>1 DEF Sorted
  <2>3. CASE i \in 1 .. k /\ j = k + 1
    BY <1>4, <1>5, <2>3
  <2>4. CASE i \in 1 .. k /\ j \in k + 2 .. Len(l)
    <3>1. i \in 1 .. Len(list) /\ j - 1 \in 1 .. Len(list) /\ i < j - 1
      BY <1>4, <2>1, <2>4
    <3> QED
      BY <1>4, <2>4, <3>1 DEF Sorted
  <2>5. CASE i = k + 1 /\ j \in k + 2 .. Len(l)
    <3>1. j - 1 \in k + 1 .. Len(list)
      BY <1>4, <2>1, <2>5
    <3> QED
      BY <1>4, <1>5, <2>5, <3>1
  <2>6. CASE i \in k + 2 .. Len(l) /\ j \in k + 2 .. Len(l)
    <3>1. i - 1 \in 1 .. Len(list) /\ j - 1 \in 1 .. Len(list) /\ i - 1 < j - 1
      BY <1>4, <2>1, <2>6
    <3> QED
      BY <1>4, <2>6, <3>1 DEF Sorted
  <2> QED
    BY <1>4, <2>1, <2>2, <2>3, <2>4, <2>5, <2>6
<1> QED
  BY <1>1, <1>4, <1>6, <1>7 DEF Sorted

\* memlist_find_overlap on a sorted list sees an overlap with the first region
\* and with no other (memlist.c:83), so that do_brk misses the allocations that
\* a lowered break cuts off unless the first is among them (intercept.c:54).
THEOREM OverlapWithFirst ==
  ASSUME NEW list, Sorted(list), NEW region, NonEmpty(region)
  PROVE  FindOverlap(list, region) <=> list # <<>> /\ RegionsOverlap(list[1], region)
<1>1. ASSUME FindOverlap(list, region)
      PROVE  list # <<>> /\ RegionsOverlap(list[1], region)
  <2>1. PICK i \in 1 .. Len(list) :
          /\ RegionsOverlap(list[i], region)
          /\ \A j \in 1 .. i - 1 : ~(list[j].end <= region.start)
    BY <1>1 DEF FindOverlap
  <2>2. list # <<>> /\ ~(region.end <= list[1].start)
    BY <1>1 DEF FindOverlap, Outside
  <2>3. CASE i = 1
    BY <2>1, <2>2, <2>3
  <2>4. CASE i # 1
    <3>1. 1 \in 1 .. i - 1 /\ 1 \in 1 .. Len(list)
      BY <2>4, SortedType
    <3>2. ~(list[1].end <= region.start)
      BY <2>1, <3>1
    <3> QED
      BY <2>2, <3>1, <3>2, SortedType, RegionType DEF RegionsOverlap
  <2> QED
    BY <2>3, <2>4
<1>2. ASSUME list # <<>>, RegionsOverlap(list[1], region)
      PROVE  FindOverlap(list, region)
  <2>1. 1 \in 1 .. Len(list) /\ Len(list) \in 1 .. Len(list)
    BY <1>2, SortedType
  <2>2. list[1].end <= list[Len(list)].end
    <3>1. CASE Len(list) = 1
      BY <2>1, <3>1, SortedType
    <3>2. CASE Len(list) # 1
      BY <2>1, <3>2, SortedType DEF Sorted
    <3> QED
      BY <3>1, <3>2
  <2>3. ~(region.end <= list[1].start) /\ ~(region.start >= list[Len(list)].end)
    BY <1>2, <2>1, <2>2, SortedType, RegionType DEF RegionsOverlap
  <2>4. ~Outside(list, region)
    BY <1>2, <2>3 DEF Outside, Last
  <2>5. \A j \in 1 .. 1 - 1 : ~(list[j].end <= region.start)
    OBVIOUS
  <2> QED
    BY <1>2, <2>1, <2>4, <2>5 DEF FindOverlap
<1> QED
  BY <1>1, <1>2

\* memlist_find on a sorted list finds the region with a word if there is one,
\* although it stops early: checked_free never blames a client that frees what
\* it holds (memlist.c:226, checked_alloc.c:173).
THEOREM FindFinds ==
  ASSUME NEW list, Sorted(list), NEW word \in Nat, NEW i \in 1 .. Len(list),
         list[i].start <= word, word < list[i].end
  PROVE  Find(list, word) = i
<1> DEFINE Behind == {k \in 1 .. Len(list) : word < list[k].end}
<1>1. i \in Behind
  OBVIOUS
<1>2. ASSUME NEW k \in Behind
      PROVE  i <= k
  <2>1. SUFFICES ASSUME k < i PROVE FALSE
    BY SortedType
  <2>2. list[k].end <= list[i].start
    BY <2>1 DEF Sorted
  <2> QED
    BY <2>2, SortedType
<1>3. Behind \subseteq Int
  BY SortedType
<1> HIDE DEF Behind
<1>4. Min(Behind) = i
  BY <1>1, <1>2, <1>3, MinIs
<1>5. SelectInSeq(list, LAMBDA r : word < r.end) = i
  BY <1>1, <1>4 DEF SelectInSeq, Behind
<1> QED
  BY <1>5, SortedType DEF Find

-----------------------------------------------------------------------------
(***************************************************************************)
(* The list of a set of regions                                            *)
(***************************************************************************)
\* Regions that do not overlap.
Sparse(R) ==
  /\ IsFiniteSet(R)
  /\ \A r \in R : NonEmpty(r)
  /\ \A r, s \in R : r # s => r.end <= s.start \/ s.end <= r.start

Before(R, r) == {s \in R : s.start < r.start}

\* A region that starts behind another has more regions before it.
LEMMA BeforeGrows ==
  ASSUME NEW R, Sparse(R), NEW r \in R
  PROVE  /\ Cardinality(R) \in Nat /\ Cardinality(Before(R, r)) \in 0 .. Cardinality(R) - 1
         /\ \A s \in R : r.start < s.start =>
              Cardinality(Before(R, r)) < Cardinality(Before(R, s))
<1>1. IsFiniteSet(R) /\ \A s \in R : s.start \in Nat
  BY RegionType DEF Sparse
<1>2. /\ Cardinality(R) \in Nat
      /\ \A s \in R : /\ IsFiniteSet(Before(R, s)) /\ Cardinality(Before(R, s)) \in Nat
  <2>1. \A s \in R : Before(R, s) \in SUBSET R
    BY DEF Before
  <2> QED
    BY <1>1, <2>1, FS_Subset, FS_CardinalityType
<1>3. Cardinality(Before(R, r)) < Cardinality(R)
  <2>1. Before(R, r) \in SUBSET R /\ r \in R /\ r \notin Before(R, r)
    BY <1>1 DEF Before
  <2>2. Before(R, r) # R
    BY <2>1
  <2>3. Cardinality(Before(R, r)) <= Cardinality(R) /\ Cardinality(R) # Cardinality(Before(R, r))
    BY <1>1, <2>1, <2>2, FS_Subset
  <2> QED
    BY <1>2, <2>3
<1>4. ASSUME NEW s \in R, r.start < s.start
      PROVE  Cardinality(Before(R, r)) < Cardinality(Before(R, s))
  <2>1. Before(R, r) \in SUBSET Before(R, s)
    BY <1>1, <1>4 DEF Before
  <2>2. r \in Before(R, s) /\ r \notin Before(R, r)
    BY <1>1, <1>4 DEF Before
  <2>3. Before(R, r) # Before(R, s)
    BY <2>2
  <2>4. /\ Cardinality(Before(R, r)) <= Cardinality(Before(R, s))
        /\ Cardinality(Before(R, s)) # Cardinality(Before(R, r))
    BY <1>2, <2>1, <2>3, FS_Subset
  <2> QED
    BY <1>2, <2>4
<1> QED
  BY <1>2, <1>3, <1>4

\* No two regions of a set have as many before them.
LEMMA BeforeTells ==
  ASSUME NEW R, Sparse(R), NEW r \in R, NEW s \in R,
         Cardinality(Before(R, r)) = Cardinality(Before(R, s))
  PROVE  r = s
<1>1. SUFFICES ASSUME r # s PROVE FALSE
  OBVIOUS
<1>2. NonEmpty(r) /\ NonEmpty(s) /\ (r.end <= s.start \/ s.end <= r.start)
  BY <1>1 DEF Sparse
<1>3. r.start < s.start \/ s.start < r.start
  BY <1>2, RegionType
<1>4. Cardinality(Before(R, r)) \in Nat /\ Cardinality(Before(R, s)) \in Nat
  BY BeforeGrows
<1>5. \/ Cardinality(Before(R, r)) < Cardinality(Before(R, s))
      \/ Cardinality(Before(R, s)) < Cardinality(Before(R, r))
  BY <1>3, BeforeGrows
<1> QED
  BY <1>4, <1>5

\* Every place in the list is taken.
LEMMA PlacesTaken ==
  ASSUME NEW R, Sparse(R), NEW k \in 0 .. Cardinality(R) - 1
  PROVE  \E r \in R : Cardinality(Before(R, r)) = k
<1> DEFINE T == 0 .. Cardinality(R) - 1
           f == [r \in R |-> Cardinality(Before(R, r))]
<1>1. Cardinality(R) \in Nat /\ IsFiniteSet(R)
  BY FS_CardinalityType DEF Sparse
<1>2. IsFiniteSet(T) /\ Cardinality(T) = Cardinality(R)
  <2>1. 0 \in Int /\ Cardinality(R) - 1 \in Int
    BY <1>1
  <2>2. /\ IsFiniteSet(0 .. Cardinality(R) - 1)
        /\ Cardinality(0 .. Cardinality(R) - 1)
             = IF 0 > Cardinality(R) - 1 THEN 0 ELSE (Cardinality(R) - 1) - 0 + 1
    BY <2>1, FS_Interval
  <2> QED
    BY <1>1, <2>2
<1>3. f \in [R -> T]
  BY BeforeGrows
<1>4. \A r, s \in R : f[r] = f[s] => r = s
  BY BeforeTells
<1>5. f \in Injection(R, T)
  BY <1>3, <1>4 DEF Injection, IsInjective
<1> HIDE DEF T, f
<1>6. f \in Surjection(R, T)
  BY <1>2, <1>5, FS_Injection
<1>7. \A t \in T : \E r \in R : f[r] = t
  BY <1>6 DEF Surjection
<1> QED
  BY <1>7 DEF T, f

\* The list is a function of the places.
LEMMA OrderPlaces ==
  ASSUME NEW R
  PROVE  InOrder(R) = [i \in 1 .. Cardinality(R) |-> InOrder(R)[i]]
<1> DEFINE e(i) == CHOOSE r \in R : Cardinality({s \in R : s.start < r.start}) = i - 1
<1>1. InOrder(R) = [i \in 1 .. Cardinality(R) |-> e(i)]
  BY DEF InOrder
<1> HIDE DEF e
<1>2. \A i \in 1 .. Cardinality(R) : InOrder(R)[i] = e(i)
  BY <1>1
<1> QED
  BY <1>1, <1>2

\* The list of a set of regions is sorted and holds them.
LEMMA OrderFacts ==
  ASSUME NEW R, Sparse(R)
  PROVE  /\ Len(InOrder(R)) = Cardinality(R) /\ Cardinality(R) \in Nat
         /\ Sorted(InOrder(R))
         /\ \A i \in 1 .. Cardinality(R) :
              InOrder(R)[i] \in R /\ Cardinality(Before(R, InOrder(R)[i])) = i - 1
         /\ \A r \in R : \E i \in 1 .. Cardinality(R) : InOrder(R)[i] = r
<1> DEFINE n == Cardinality(R)
           l == InOrder(R)
<1>1. n \in Nat
  BY FS_CardinalityType DEF Sparse
<1>2. \A i \in 1 .. n : l[i] \in R /\ Cardinality(Before(R, l[i])) = i - 1
  <2> SUFFICES ASSUME NEW i \in 1 .. n
               PROVE  l[i] \in R /\ Cardinality(Before(R, l[i])) = i - 1
    OBVIOUS
  <2>1. i - 1 \in 0 .. n - 1
    BY <1>1
  <2>2. \E r \in R : Cardinality(Before(R, r)) = i - 1
    BY <2>1, PlacesTaken
  <2>3. l[i] = CHOOSE r \in R : Cardinality(Before(R, r)) = i - 1
    BY DEF InOrder, Before
  <2> QED
    BY <2>2, <2>3
<1>3. \A r \in R : r \in Regions /\ NonEmpty(r)
  BY DEF Sparse, NonEmpty
<1>4. l = [i \in 1 .. n |-> l[i]]
  BY OrderPlaces
<1>5. l \in Seq(Regions) /\ Len(l) = n
  <2> HIDE DEF l, n
  <2>1. \A i \in 1 .. n : l[i] \in Regions
    BY <1>2, <1>3
  <2> QED
    BY <1>1, <1>4, <2>1
<1> HIDE DEF l, n
<1>6. ASSUME NEW i \in 1 .. n, NEW j \in 1 .. n, i < j
      PROVE  l[i].end <= l[j].start
  <2>1. PICK r \in R, s \in R : r = l[i] /\ s = l[j]
    BY <1>2
  <2>2. Cardinality(Before(R, r)) = i - 1 /\ Cardinality(Before(R, s)) = j - 1
    BY <1>2, <2>1
  <2>3. Cardinality(Before(R, r)) < Cardinality(Before(R, s)) /\ r # s
    BY <1>1, <1>6, <2>2
  <2>4. ~(s.start < r.start)
    <3>1. SUFFICES ASSUME s.start < r.start PROVE FALSE
      OBVIOUS
    <3>2. Cardinality(Before(R, s)) < Cardinality(Before(R, r))
      BY <3>1, BeforeGrows
    <3> QED
      BY <1>1, <2>2, <2>3, <3>2
  <2>5. NonEmpty(r) /\ NonEmpty(s) /\ (r.end <= s.start \/ s.end <= r.start)
    BY <2>3 DEF Sparse
  <2>6. r.end <= s.start
    BY <2>4, <2>5, RegionType
  <2> QED
    BY <2>1, <2>6
<1>7. Sorted(l)
  BY <1>2, <1>3, <1>5, <1>6 DEF Sorted
<1>8. ASSUME NEW r \in R
      PROVE  \E i \in 1 .. n : l[i] = r
  <2>1. PICK k : k = Cardinality(Before(R, r)) + 1
    OBVIOUS
  <2>2. k \in 1 .. n /\ Cardinality(Before(R, r)) = k - 1
    BY <1>1, <2>1, BeforeGrows DEF n
  <2>3. l[k] = r
    BY <1>2, <2>2, BeforeTells
  <2> QED
    BY <2>2, <2>3
<1> QED
  BY <1>1, <1>2, <1>5, <1>7, <1>8 DEF l, n

\* The first k regions of a sorted list are k.
LEMMA FirstOnes ==
  ASSUME NEW l, Sorted(l), NEW k \in 0 .. Len(l)
  PROVE  Cardinality({l[i] : i \in 1 .. k}) = k
<1> DEFINE S == 1 .. k
           T == {l[i] : i \in S}
           f == [i \in S |-> l[i]]
<1>1. k \in Nat /\ S \subseteq 1 .. Len(l)
  BY SortedType
<1>2. IsFiniteSet(S) /\ Cardinality(S) = k
  <2>1. IsFiniteSet(1 .. k) /\ Cardinality(1 .. k) = IF 1 > k THEN 0 ELSE k - 1 + 1
    BY <1>1, FS_Interval
  <2> QED
    BY <1>1, <2>1
<1>3. \A i, j \in S : l[i] = l[j] => i = j
  <2> SUFFICES ASSUME NEW i \in S, NEW j \in S, i < j PROVE l[i] # l[j]
    BY <1>1
  <2>1. l[i].end <= l[j].start /\ l[i].start < l[i].end /\ l[i].start \in Nat /\ l[i].end \in Nat
    BY <1>1, SortedType DEF Sorted
  <2> QED
    BY <2>1, <1>1, SortedType
<1>4. f \in [S -> T] /\ \A t \in T : \E i \in S : f[i] = t
  OBVIOUS
<1>5. f \in Surjection(S, T)
  BY <1>4 DEF Surjection
<1>6. f \in Injection(S, T)
  BY <1>3, <1>4 DEF Injection, IsInjective
<1> HIDE DEF S, T, f
<1>7. Cardinality(T) = Cardinality(S)
  BY <1>2, <1>5, <1>6, FS_Surjection
<1> QED
  BY <1>2, <1>7 DEF S, T

\* There is one sorted list of a set of regions.
LEMMA OrderUnique ==
  ASSUME NEW R, Sparse(R), NEW l, Sorted(l), \A i \in 1 .. Len(l) : l[i] \in R,
         \A r \in R : \E i \in 1 .. Len(l) : l[i] = r
  PROVE  l = InOrder(R)
<1>1. Len(l) \in Nat
  BY SortedType
<1>2. Len(l) = Cardinality(R)
  <2>1. R = {l[i] : i \in 1 .. Len(l)}
    OBVIOUS
  <2>2. Len(l) \in 0 .. Len(l)
    BY <1>1
  <2> QED
    BY <2>1, <2>2, FirstOnes
<1>3. ASSUME NEW i \in 1 .. Len(l)
      PROVE  l[i] = InOrder(R)[i]
  <2>1. Before(R, l[i]) = {l[j] : j \in 1 .. i - 1}
    <3>1. ASSUME NEW j \in 1 .. i - 1
          PROVE  l[j] \in Before(R, l[i])
      <4>1. j \in 1 .. Len(l) /\ j < i
        BY <1>1
      <4>2. l[j].start < l[i].start
        BY <4>1, SortedType, SMTT(20) DEF Sorted
      <4> QED
        BY <4>1, <4>2 DEF Before
    <3>2. ASSUME NEW r \in Before(R, l[i])
          PROVE  \E j \in 1 .. i - 1 : l[j] = r
      <4>1. PICK j \in 1 .. Len(l) : l[j] = r
        BY DEF Before
      <4>2. l[j].start < l[i].start
        BY <4>1 DEF Before
      <4>3. ~(i < j) /\ i # j
        <5>1. i # j
          BY <4>2, SortedType
        <5>2. ASSUME i < j PROVE FALSE
          <6>1. l[i].end <= l[j].start
            BY <5>2 DEF Sorted
          <6> QED
            BY <4>2, <6>1, SortedType
        <5> QED
          BY <5>1, <5>2
      <4>4. j \in 1 .. i - 1
        BY <1>1, <4>3
      <4> QED
        BY <4>1, <4>4
    <3> QED
      BY <3>1, <3>2
  <2>2. i - 1 \in 0 .. Len(l)
    BY <1>1
  <2>3. Cardinality(Before(R, l[i])) = i - 1
    BY <2>1, <2>2, FirstOnes
  <2>4. /\ InOrder(R)[i] \in R /\ Cardinality(Before(R, InOrder(R)[i])) = i - 1
    BY <1>2, OrderFacts
  <2> QED
    BY <2>3, <2>4, BeforeTells
<1>4. l = [i \in 1 .. Len(l) |-> l[i]]
  BY DEF Sorted
<1>5. InOrder(R) = [i \in 1 .. Len(l) |-> InOrder(R)[i]]
  BY <1>2, OrderPlaces
<1> QED
  BY <1>3, <1>4, <1>5

\* memlist_add_region finds a place for a region that overlaps none
\* (memlist.c:160 to 181).
LEMMA PlaceFound ==
  ASSUME NEW l, Sorted(l), NEW region, NonEmpty(region),
         \A i \in 1 .. Len(l) : region.end <= l[i].start \/ l[i].end <= region.start
  PROVE  CanAdd(l, region)
<1> DEFINE S == {i \in 1 .. Len(l) : FitsAfter(l, region, i)}
           B == {i \in 1 .. Len(l) : ~(l[i].end <= region.start)}
<1>1. Len(l) \in Nat
  BY SortedType
<1>2. SUFFICES ASSUME ~Outside(l, region)
               PROVE  \E i \in 1 .. Len(l) : StopsAt(l, region, i)
  BY DEF CanAdd
<1>3. /\ l # <<>> /\ ~(region.end <= l[1].start) /\ ~(region.start >= l[Len(l)].end)
      /\ 1 \in 1 .. Len(l) /\ Len(l) \in 1 .. Len(l)
  BY <1>1, <1>2, SortedType DEF Outside, Last
<1>4. B \subseteq Nat /\ Len(l) \in B /\ 1 \notin B
  <2>1. ~(l[Len(l)].end <= region.start)
    BY <1>3, SortedType, RegionType
  <2>2. l[1].end <= region.start
    BY <1>3
  <2> QED
    BY <1>1, <1>3, <2>1, <2>2
<1>5. PICK j \in B : \A k \in B : j <= k
  <2> HIDE DEF B
  <2> QED
    BY <1>4, Least
<1>6. j \in 1 .. Len(l) /\ j # 1 /\ j - 1 \in 1 .. Len(l) /\ j - 1 \notin B /\ j - 1 + 1 = j
  BY <1>1, <1>4, <1>5
<1>7. j - 1 \in S
  <2>1. l[j - 1].end <= region.start
    BY <1>6
  <2>2. l[j].start >= region.end
    <3>1. region.end <= l[j].start
      BY <1>5, <1>6
    <3> QED
      BY <1>6, <3>1, SortedType, RegionType
  <2> QED
    BY <1>6, <2>1, <2>2 DEF FitsAfter
<1>8. PICK i \in S : \A k \in S : i <= k
  <2>1. S \subseteq Nat /\ S # {}
    BY <1>1, <1>7
  <2> HIDE DEF S
  <2> QED
    BY <2>1, Least
<1>9. i \in 1 .. Len(l) /\ FitsAfter(l, region, i)
  BY <1>8
<1>10. \A k \in 1 .. i : ~RegionsOverlap(l[k], region)
  <2>1. \A k \in 1 .. i : k \in 1 .. Len(l)
    BY <1>1, <1>9
  <2> QED
    BY <2>1, SortedType, RegionType DEF RegionsOverlap
<1>11. \A k \in 1 .. i - 1 : ~FitsAfter(l, region, k)
  <2>1. SUFFICES ASSUME NEW k \in 1 .. i - 1, FitsAfter(l, region, k) PROVE FALSE
    OBVIOUS
  <2>2. k \in S /\ k < i /\ i \in Nat /\ k \in Nat
    BY <1>1, <1>9, <2>1
  <2> QED
    BY <1>8, <2>2
<1> QED
  BY <1>9, <1>10, <1>11 DEF StopsAt

\* The list of a set of regions becomes the list of the set with the new one:
\* the list is always that of the regions in it, in whatever order they came.
LEMMA AddInOrder ==
  ASSUME NEW R, NEW region, region \notin R, Sparse(R), Sparse(R \cup {region})
  PROVE  /\ CanAdd(InOrder(R), region)
         /\ AddRegion(InOrder(R), region) = InOrder(R \cup {region})
<1>1. PICK l : l = InOrder(R)
  OBVIOUS
<1>2. /\ Sorted(l) /\ Len(l) \in Nat
      /\ \A i \in 1 .. Len(l) : l[i] \in R
      /\ \A r \in R : \E i \in 1 .. Len(l) : l[i] = r
  BY <1>1, OrderFacts
<1>3. NonEmpty(region)
  BY DEF Sparse
<1>4. \A i \in 1 .. Len(l) : region.end <= l[i].start \/ l[i].end <= region.start
  BY <1>2 DEF Sparse
<1>5. CanAdd(l, region)
  BY <1>2, <1>3, <1>4, PlaceFound
<1>6. PICK m : m = AddRegion(l, region)
  OBVIOUS
<1>7. Sorted(m)
  BY <1>2, <1>3, <1>5, <1>6, AddKeepsSorted
<1>8. PICK k : Inserted(l, region, m, k)
  BY <1>2, <1>3, <1>5, <1>6, AddInserts
<1>9. /\ k \in Nat /\ k \in 0 .. Len(l) /\ Len(m) = Len(l) + 1 /\ m[k + 1] = region
      /\ \A i \in 1 .. k : m[i] = l[i]
      /\ \A i \in k + 2 .. Len(m) : i - 1 \in 1 .. Len(l) /\ m[i] = l[i - 1]
  BY <1>2, <1>8 DEF Inserted
<1>10. ASSUME NEW i \in 1 .. Len(m)
       PROVE  m[i] \in R \cup {region}
  <2>1. CASE i \in 1 .. k
    <3>1. i \in 1 .. Len(l)
      BY <1>2, <1>9, <2>1
    <3> QED
      BY <1>2, <1>9, <2>1, <3>1
  <2>2. CASE i = k + 1
    BY <1>9, <2>2
  <2>3. CASE i \in k + 2 .. Len(m)
    BY <1>2, <1>9, <2>3
  <2> QED
    BY <1>2, <1>9, <2>1, <2>2, <2>3
<1>11. ASSUME NEW r \in R \cup {region}
       PROVE  \E i \in 1 .. Len(m) : m[i] = r
  <2>1. CASE r = region
    BY <1>2, <1>9, <2>1
  <2>2. CASE r \in R
    <3>1. PICK j \in 1 .. Len(l) : l[j] = r
      BY <1>2, <2>2
    <3>2. CASE j \in 1 .. k
      BY <1>2, <1>9, <3>1, <3>2
    <3>3. CASE j \in k + 1 .. Len(l)
      <4>1. j + 1 \in k + 2 .. Len(m) /\ j + 1 - 1 = j /\ j + 1 \in 1 .. Len(m)
        BY <1>2, <1>9, <3>3
      <4>2. m[j + 1] = r
        BY <1>9, <3>1, <4>1
      <4> QED
        BY <4>1, <4>2
    <3> QED
      BY <1>2, <1>9, <3>1, <3>2, <3>3
  <2> QED
    BY <2>1, <2>2
<1>12. m = InOrder(R \cup {region})
  BY <1>7, <1>10, <1>11, OrderUnique
<1> QED
  BY <1>1, <1>5, <1>6, <1>12

\* A region that is in the list is found by its first word.
LEMMA FoundInOrder ==
  ASSUME NEW R, Sparse(R), NEW r \in R
  PROVE  /\ Find(InOrder(R), r.start) # 0
         /\ InOrder(R)[Find(InOrder(R), r.start)] = r
<1>1. PICK l : l = InOrder(R)
  OBVIOUS
<1>2. Sorted(l) /\ \E i \in 1 .. Len(l) : l[i] = r
  BY <1>1, OrderFacts
<1>3. PICK i \in 1 .. Len(l) : l[i] = r
  BY <1>2
<1>4. r.start \in Nat /\ r.start < r.end
  BY RegionType DEF Sparse
<1>5. Find(l, r.start) = i
  BY <1>2, <1>3, <1>4, FindFinds
<1>6. i # 0
  BY <1>3
<1> QED
  BY <1>1, <1>3, <1>5, <1>6

\* No region in the list reaches behind word: memlist_find_overlap has nothing
\* to miss.
LEMMA NoOverlapBehind ==
  ASSUME NEW R, Sparse(R), NEW region, NonEmpty(region), \A r \in R : r.end <= region.start
  PROVE  ~FindOverlap(InOrder(R), region) /\ \A r \in R : ~RegionsOverlap(r, region)
<1>1. \A r \in R : ~RegionsOverlap(r, region)
  BY DEF RegionsOverlap
<1>2. PICK l : l = InOrder(R)
  OBVIOUS
<1>3. Sorted(l) /\ \A i \in 1 .. Len(l) : l[i] \in R
  BY <1>2, OrderFacts
<1>4. SUFFICES ASSUME FindOverlap(l, region) PROVE FALSE
  BY <1>1, <1>2
<1>5. l # <<>> /\ RegionsOverlap(l[1], region)
  BY <1>3, <1>4, OverlapWithFirst
<1>6. 1 \in 1 .. Len(l)
  BY <1>3, <1>5, SortedType
<1> QED
  BY <1>1, <1>3, <1>5, <1>6

-----------------------------------------------------------------------------
(***************************************************************************)
(* The checks of the test framework                                        *)
(***************************************************************************)
\* The client holds finitely many allocations, none of them empty.
Held == IsFiniteSet(live) /\ \A b \in live : b.len > 0

RegionsOf(S) == {RegionOf(b) : b \in S}

\* Every step keeps it so.
LEMMA HeldStep ==
  ASSUME CInv, Held, [ClientNext]_vars
  PROVE  Held'
<1>1. TypeOK
  BY CInvIs
<1>2. PICK F, r, lost : Stage(F, r, lost)
  BY CInvIs
<1>3. ASSUME live' = live PROVE Held'
  BY <1>3 DEF Held
<1>4. ASSUME NEW b \in live, NEW n \in Resizes, CallRealloc(b, n) PROVE Held'
  <2>1. CASE SizeOf(b.at - Header) >= n
    <3>1. live' = (live \ {b}) \cup {[at |-> b.at, len |-> n]}
      BY <1>4, <2>1 DEF CallRealloc
    <3>2. IsFiniteSet(live')
      BY <3>1, FS_RemoveElement, FS_AddElement DEF Held
    <3>3. n > 0
      BY SizesAssumption
    <3> QED
      BY <3>1, <3>2, <3>3 DEF Held
  <2>2. CASE ~(SizeOf(b.at - Header) >= n)
    BY <1>3, <1>4, <2>2 DEF CallRealloc, Enter
  <2> QED
    BY <2>1, <2>2
<1>5. ASSUME NEW b \in live, CallFree(b) PROVE Held'
  <2>1. live' = live \ {b}
    BY <1>5 DEF CallFree
  <2> QED
    BY <2>1, FS_RemoveElement DEF Held
<1>6. ASSUME Return PROVE Held'
  <2>1. Requesting
    BY <1>2, <1>6 DEF Stage, Returning, Return
  <2>2. call.len > 0
    <3>1. call.len \in Nat /\ call.prev_size \in Nat
      BY <1>1 DEF TypeOK, Locals
    <3> QED
      BY <2>1, <3>1 DEF Requesting
  <2>3. PICK S : S = {b \in live : b.at # call.ptr}
    OBVIOUS
  <2>4. live' = S \cup {[at |-> call.block + Header, len |-> call.len]}
    BY <1>6, <2>3 DEF Return
  <2>5. IsFiniteSet(S)
    BY <2>3, FS_Subset DEF Held
  <2>6. IsFiniteSet(live')
    BY <2>4, <2>5, FS_AddElement
  <2> QED
    BY <2>2, <2>3, <2>4, <2>6 DEF Held
<1>7. CASE ClientCalls
  BY <1>3, <1>4, <1>5, <1>7 DEF ClientCalls, CallMalloc, CallCalloc, Enter
<1>8. CASE Step
  <2>1. CASE Return
    BY <1>6, <2>1
  <2>2. CASE ~Return
    <3>1. live' = live
      BY <1>8, <2>2 DEF Step, Crash, Code, Fit, Grow, TakeHead, TakeOther, Unlink, Fill, LastBlock,
         Trim, Trimmed, Merge, Above, Below, Push, MergeThree, MergeAbove, MergeBelow, Free
    <3> QED
      BY <1>3, <3>1
  <2> QED
    BY <2>1, <2>2
<1>9. CASE UNCHANGED vars
  BY <1>3, <1>9 DEF vars
<1> QED
  BY <1>7, <1>8, <1>9 DEF ClientNext

\* The regions of the allocations do not overlap, and each has one.
LEMMA RegionsSparse ==
  ASSUME Owning, Held, NEW S, S \subseteq live
  PROVE  Sparse(RegionsOf(S))
<1>1. \A b \in live : b.at \in Nat /\ b.len \in Nat /\ b.len > 0
  BY DEF Owning, Held
<1>2. IsFiniteSet(RegionsOf(S))
  <2>1. PICK f : f = [b \in S |-> RegionOf(b)]
    OBVIOUS
  <2>2. f \in [S -> RegionsOf(S)] /\ \A t \in RegionsOf(S) : \E b \in S : f[b] = t
    BY <2>1 DEF RegionsOf
  <2>3. f \in Surjection(S, RegionsOf(S))
    BY <2>2 DEF Surjection
  <2>4. IsFiniteSet(S)
    BY FS_Subset DEF Held
  <2> QED
    BY <2>3, <2>4, FS_Surjection
<1>3. \A b \in live : NonEmpty(RegionOf(b))
  BY <1>1 DEF NonEmpty, Regions, RegionOf, Region
<1>4. ASSUME NEW b \in live, NEW c \in live, b # c
      PROVE  RegionOf(b).end <= RegionOf(c).start \/ RegionOf(c).end <= RegionOf(b).start
  <2>1. Payload(b) \cap Payload(c) = {}
    BY <1>4 DEF Owning
  <2>2. /\ b.at \in Nat /\ b.len \in Nat /\ b.len > 0
        /\ c.at \in Nat /\ c.len \in Nat /\ c.len > 0
    BY <1>1
  <2>3. b.at + b.len <= c.at \/ c.at + c.len <= b.at
    <3>1. CASE b.at <= c.at
      <4>1. c.at \in Payload(c) /\ c.at \notin Payload(b)
        BY <2>1, <2>2 DEF Payload
      <4> QED
        BY <2>2, <3>1, <4>1 DEF Payload
    <3>2. CASE c.at <= b.at
      <4>1. b.at \in Payload(b) /\ b.at \notin Payload(c)
        BY <2>1, <2>2 DEF Payload
      <4> QED
        BY <2>2, <3>2, <4>1 DEF Payload
    <3> QED
      BY <2>2, <3>1, <3>2
  <2> QED
    BY <2>3 DEF RegionOf, Region
<1> QED
  BY <1>2, <1>3, <1>4 DEF Sparse, RegionsOf

\* What checked_alloc and checked_free find in the list.
Passing ==
  \A b \in live :
    /\ FreePasses(b)
    /\ CanAdd(Allocs(live \ {b}), RegionOf(b))
    /\ AddRegion(Allocs(live \ {b}), RegionOf(b)) = Allocs(live)
    /\ b.at + b.len <= brk

\* They are so wherever a call stands.
LEMMA CInvPassing ==
  ASSUME CInv, Held
  PROVE  Passing
<1>1. Owning /\ TypeOK
  BY CInvOwning, CInvIs
<1>2. SUFFICES ASSUME NEW b \in live
               PROVE  /\ FreePasses(b)
                      /\ CanAdd(Allocs(live \ {b}), RegionOf(b))
                      /\ AddRegion(Allocs(live \ {b}), RegionOf(b)) = Allocs(live)
                      /\ b.at + b.len <= brk
  BY DEF Passing
<1>3. PICK R, Q : R = RegionsOf(live) /\ Q = RegionsOf(live \ {b})
  OBVIOUS
<1>4. PICK q : q = RegionOf(b)
  OBVIOUS
<1>5. Sparse(R) /\ Sparse(Q) /\ Allocs(live) = InOrder(R) /\ Allocs(live \ {b}) = InOrder(Q)
  BY <1>1, <1>3, RegionsSparse DEF Allocs, RegionsOf
<1>6. R = Q \cup {q} /\ q \in R /\ q.start = b.at
  BY <1>3, <1>4 DEF RegionsOf, RegionOf, Region
<1>7. q \notin Q
  <2>1. SUFFICES ASSUME NEW c \in live, c # b, RegionOf(c) = q PROVE FALSE
    BY <1>3 DEF RegionsOf
  <2>2. c.at = b.at
    BY <1>4, <2>1 DEF RegionOf, Region
  <2> QED
    BY <1>1, <2>1, <2>2 DEF Owning
<1>8. FreePasses(b)
  <2>1. Find(InOrder(R), b.at) # 0 /\ InOrder(R)[Find(InOrder(R), b.at)] = q
    BY <1>5, <1>6, FoundInOrder
  <2> QED
    BY <1>4, <1>5, <2>1 DEF FreePasses
<1>9. CanAdd(InOrder(Q), q) /\ AddRegion(InOrder(Q), q) = InOrder(R)
  BY <1>5, <1>6, <1>7, AddInOrder
<1>10. b.at + b.len <= brk
  <2>1. PICK F, r, lost : Stage(F, r, lost)
    BY CInvIs
  <2>2. PICK X : Break /\ Shape(F, r, X)
    BY <2>1 DEF Stage, Fitting, Growing, Taking, Unlinking, Returning, Filling, Freeing, Freed,
                TrimmingLast, TrimmingInner, Inner, Merging, MergingAbove, MergingBelow, Idle, Calm
  <2>3. PICK h : h = b.at - Header
    OBVIOUS
  <2>4. /\ b.at \in Nat /\ b.len \in Nat /\ h \in Used(live) /\ h \in Nat /\ b.at = h + Header
        /\ mem[h] \in Nat /\ b.len + Header <= mem[h]
    BY <1>1, <2>2, <2>3, PayloadFacts
  <2>5. h + mem[h] <= Top /\ Top \in Nat
    BY <1>1, <2>2, <2>4, BlockFacts, BlocksMapped
  <2>6. brk = Top + available_memory /\ available_memory \in Nat
    BY <1>1, <2>2 DEF Break, TypeOK
  <2> QED
    BY <2>4, <2>5, <2>6 DEF Header
<1> QED
  BY <1>4, <1>5, <1>8, <1>9, <1>10

\* kucalloc's words are zero (alloc.c:142).
LEMMA CallocClears ==
  ASSUME TypeOK, Owning', NEW F, NEW r, NEW X, Returning(F, r, X), Return, call.op = "calloc",
         NEW b \in live', b.at = call.block + Header, NEW w \in Payload(b)
  PROVE  Read(mem', w) = 0
<1>1. call.total = call.len + Header
  BY DEF Returning, Requesting
<1>2. /\ mem' = Overwrite(mem, Cleared, 0) /\ pc' = "fill"
      /\ live' = {c \in live : c.at # call.ptr}
                   \cup {[at |-> call.block + Header, len |-> call.len]}
  BY DEF Return
<1>3. b.len = call.len
  <2>1. [at |-> call.block + Header, len |-> call.len] \in live'
    BY <1>2
  <2> QED
    BY <2>1 DEF Owning
<1>4. call.block \in Nat /\ call.len \in Nat
  BY DEF TypeOK, Locals
<1>5. w \in Cleared
  BY <1>1, <1>3, <1>4 DEF Payload, Cleared, Header
<1> QED
  BY <1>2, <1>5 DEF Overwrite, Read, NULL

\* What is checked of the block that a call hands out.
LEMMA HandOutPasses ==
  ASSUME CInv, Owning', Passing', NoCrash', [ClientNext]_vars, vars' # vars, pc' = "fill"
  PROVE  \A b \in Given' :
           /\ AllocPasses(b)'
           /\ AddRegion(Allocs(live' \ {b}), RegionOf(b)) = Allocs(live')
<1>1. PICK F, r, lost : Stage(F, r, lost)
  BY CInvIs
<1>2. TypeOK
  BY CInvIs
<1>3. \/ Return
      \/ call'.op = "resize"
  <2>1. CASE ClientCalls
    BY <2>1 DEF ClientCalls, CallMalloc, CallCalloc, CallRealloc, CallFree, Enter, NoCall
  <2>2. CASE Step
    BY <2>2 DEF Step, Crash, Code, Fit, Grow, TakeHead, TakeOther, Unlink, Fill, LastBlock,
       Trim, Trimmed, Merge, Above, Below, Push, MergeThree, MergeAbove, MergeBelow, Free
  <2> QED
    BY <2>1, <2>2 DEF ClientNext
<1>4. TAKE b \in Given'
<1>5. b \in live' /\ b.at = call'.block + Header
  BY DEF Given
<1>6. /\ CanAdd(Allocs(live' \ {b}), RegionOf(b))
      /\ AddRegion(Allocs(live' \ {b}), RegionOf(b)) = Allocs(live')
      /\ b.at + b.len <= brk'
  BY <1>5 DEF Passing, Allocs, RegionOf
<1>7. ASSUME call'.op = "calloc", NEW w \in Payload(b)
      PROVE  Read(mem', w) = 0
  <2>1. Return /\ call' = call
    BY <1>3, <1>7 DEF Return
  <2>2. Returning(F, r, lost)
    BY <1>1, <2>1 DEF Stage, Return
  <2> QED
    BY <1>2, <1>5, <1>7, <2>1, <2>2, CallocClears
<1> QED
  BY <1>6, <1>7 DEF AllocPasses, Allocs, RegionOf, Payload, Read

\* The break is not lowered below an allocation, and do_brk sees it so.
LEMMA BreakPasses ==
  ASSUME CInv, Held, TypeOK', Passing', [ClientNext]_vars, brk' < brk
  PROVE  /\ BrkPasses(brk')
         /\ \A b \in live : ~RegionsOverlap(RegionOf(b), Region(brk', brk - brk'))
<1>1. TypeOK /\ Owning
  BY CInvIs, CInvOwning
<1>2. First \in Nat /\ Limit \in Nat /\ brk \in Nat /\ brk' \in Nat
  <2>1. First \in Nat /\ Limit \in Nat
    BY ConstantTypes
  <2>2. brk \in First .. Limit /\ brk' \in First .. Limit
    BY <1>1 DEF TypeOK
  <2> QED
    BY <2>1, <2>2
<1>3. live' = live
  <2>1. brk' # brk
    BY <1>2
  <2>2. CASE ClientCalls
    BY <2>1, <2>2 DEF ClientCalls, CallMalloc, CallCalloc, CallRealloc, CallFree, Enter, code
  <2>3. CASE Step
    BY <2>1, <2>3 DEF Step, Crash, Code, Fit, Grow, TakeHead, TakeOther, Unlink, Return, Fill,
       LastBlock, Trim, Trimmed, Merge, Above, Below, Push, MergeThree, MergeAbove, MergeBelow,
       Free, code
  <2>4. CASE UNCHANGED vars
    BY <2>1, <2>4 DEF vars, code
  <2> QED
    BY <2>2, <2>3, <2>4 DEF ClientNext
<1>4. \A b \in live : b.at + b.len <= brk'
  BY <1>3 DEF Passing
<1>5. PICK given : given = Region(brk', brk - brk')
  OBVIOUS
<1>6. given.start = brk' /\ NonEmpty(given)
  <2>1. brk' + (brk - brk') = brk
    <3>1. PICK low \in Nat, high \in Nat : low = brk' /\ high = brk
      BY <1>2
    <3>2. low + (high - low) = high
      OBVIOUS
    <3> QED
      BY ONLY <3>1, <3>2
  <2>2. given = [start |-> brk', end |-> brk]
    BY <1>5, <2>1 DEF Region
  <2> QED
    BY <1>2, <2>2 DEF NonEmpty, Regions
<1>7. PICK R : R = RegionsOf(live)
  OBVIOUS
<1>8. Sparse(R)
  BY <1>1, <1>7, RegionsSparse
<1>9. \A r \in R : r.end <= given.start
  BY <1>4, <1>6, <1>7 DEF RegionsOf, RegionOf, Region
<1>10. ~FindOverlap(InOrder(R), given) /\ \A r \in R : ~RegionsOverlap(r, given)
  BY <1>6, <1>8, <1>9, NoOverlapBehind
<1> QED
  BY <1>5, <1>7, <1>10 DEF BrkPasses, Allocs, RegionsOf

\* The checks of the test framework pass, whatever a careful client asks for: no
\* region overlaps another, adding one keeps the list allocs the sorted list of
\* the regions in it, the region to free is found in it, kucalloc's words are
\* zero, and the break is not lowered below an allocation (checked_alloc.c:96-115
\* and 172-176, memlist.c:83 and 160-181, intercept.c:54).
THEOREM ClientChecksPass ==
  ASSUME Unsafe \subseteq {"resize_by_moving"}
  PROVE  ClientSpec => ChecksPass
<1>1. ClientSpec => []CInv
  BY ClientInvariant
<1>2. Init => Held
  <2>1. Init => live = {}
    BY DEF Init
  <2> QED
    BY <2>1, FS_EmptySet DEF Held
<1>3. CInv /\ Held /\ [ClientNext]_vars => Held'
  BY HeldStep
<1>4. CInv => NoCrash /\ Owning /\ TypeOK
  BY CInvNoCrash, CInvOwning, CInvIs
<1>5. CInv /\ Held => Passing
  BY CInvPassing
<1>6. CInv /\ Held /\ Passing /\ Owning' /\ TypeOK' /\ Passing' /\ NoCrash' /\ [ClientNext]_vars
        => [/\ pc' = "fill" =>
                 \A b \in Given' :
                   /\ AllocPasses(b)'
                   /\ AddRegion(Allocs(live' \ {b}), RegionOf(b)) = Allocs(live')
            /\ \A b \in live : b \notin live' => FreePasses(b)
            /\ brk' < brk =>
                 /\ BrkPasses(brk')
                 /\ \A b \in live : ~RegionsOverlap(RegionOf(b), Region(brk', brk - brk'))]_vars
  <2>1. SUFFICES ASSUME CInv, Held, Passing, Owning', TypeOK', Passing', NoCrash',
                        [ClientNext]_vars, vars' # vars
                 PROVE  /\ pc' = "fill" =>
                             \A b \in Given' :
                               /\ AllocPasses(b)'
                               /\ AddRegion(Allocs(live' \ {b}), RegionOf(b)) = Allocs(live')
                        /\ \A b \in live : b \notin live' => FreePasses(b)
                        /\ brk' < brk =>
                             /\ BrkPasses(brk')
                             /\ \A b \in live :
                                  ~RegionsOverlap(RegionOf(b), Region(brk', brk - brk'))
    OBVIOUS
  <2>2. pc' = "fill" =>
          \A b \in Given' :
            /\ AllocPasses(b)'
            /\ AddRegion(Allocs(live' \ {b}), RegionOf(b)) = Allocs(live')
    BY <2>1, HandOutPasses
  <2>3. \A b \in live : b \notin live' => FreePasses(b)
    BY <2>1 DEF Passing
  <2>4. brk' < brk =>
          /\ BrkPasses(brk')
          /\ \A b \in live : ~RegionsOverlap(RegionOf(b), Region(brk', brk - brk'))
    BY <2>1, BreakPasses
  <2> QED
    BY <2>2, <2>3, <2>4
<1> QED
  BY <1>1, <1>2, <1>3, <1>4, <1>5, <1>6, PTL DEF ClientSpec, ChecksPass
=============================================================================
