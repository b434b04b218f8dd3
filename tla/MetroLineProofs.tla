-------------------------- MODULE MetroLineProofs ---------------------------
(* Proofs about module MetroLine. *)
EXTENDS MetroLine, SequenceTheorems, TLAPS

LEMMA NoTrainFact == NoTrain \notin Nat
  BY DEF NoTrain

\* What the waiting trains become in a step of one section: its queue gets the
\* new train, or loses its first.
LEMMA AppendElements ==
    ASSUME NEW q \in Seq(Nat), NEW x \in Nat
    PROVE  /\ Append(q, x) \in Seq(Nat)
           /\ Len(Append(q, x)) = Len(q) + 1
           /\ \A i \in 1 .. Len(q) : Append(q, x)[i] = q[i]
           /\ Append(q, x)[Len(q) + 1] = x
  OBVIOUS

LEMMA TailElements ==
    ASSUME NEW q \in Seq(Nat), q # <<>>
    PROVE  /\ Tail(q) \in Seq(Nat)
           /\ Head(q) = q[1]
           /\ Head(q) \in Nat
           /\ Len(q) > 0
           /\ Len(Tail(q)) = Len(q) - 1
           /\ \A i \in 1 .. Len(q) - 1 : Tail(q)[i] = q[i + 1]
  OBVIOUS

\* The types of the variables.
THEOREM LTypeCorrect == LSpec => []LTypeOK
<1>1. LInit => LTypeOK
  BY DEF LInit, LTypeOK
<1>2. LTypeOK /\ [LNext]_lvars => LTypeOK'
  <2> SUFFICES ASSUME LTypeOK, [LNext]_lvars PROVE LTypeOK'
    OBVIOUS
  <2> USE DEF LTypeOK
  <2>1. ASSUME NEW s \in Section, Arrive(s) PROVE LTypeOK'
    BY <2>1, AppendElements DEF Arrive
  <2>2. ASSUME NEW s \in Section, Enter(s) PROVE LTypeOK'
    BY <2>2, TailElements DEF Enter
  <2>3. CASE Leave
    BY <2>3 DEF Leave
  <2>4. CASE UNCHANGED lvars
    BY <2>4 DEF lvars
  <2>5. QED
    BY <2>1, <2>2, <2>3, <2>4 DEF LNext
<1>3. QED
  BY <1>1, <1>2, PTL DEF LSpec

\* Every queue is sorted and holds numbers that have been given out.
Sorted ==
    /\ QueueOrder
    /\ \A s \in Section : \A i \in 1 .. Len(waiting[s]) : waiting[s][i] < born

LEMMA SortedStep == LTypeOK /\ Sorted /\ [LNext]_lvars => Sorted'
<1> SUFFICES ASSUME LTypeOK, Sorted, [LNext]_lvars PROVE Sorted'
  OBVIOUS
<1> USE DEF LTypeOK, Sorted, QueueOrder
<1>1. ASSUME NEW s \in Section, Arrive(s) PROVE Sorted'
  <2>1. \A r \in Section : waiting'[r] = IF r = s THEN Append(waiting[s], born) ELSE waiting[r]
    BY <1>1 DEF Arrive
  <2>2. QED
    BY <1>1, <2>1, AppendElements DEF Arrive
<1>2. ASSUME NEW s \in Section, Enter(s) PROVE Sorted'
  <2>1. \A r \in Section : waiting'[r] = IF r = s THEN Tail(waiting[s]) ELSE waiting[r]
    BY <1>2 DEF Enter
  <2>2. QED
    BY <1>2, <2>1, TailElements DEF Enter
<1>3. CASE Leave
  BY <1>3 DEF Leave
<1>4. CASE UNCHANGED lvars
  BY <1>4 DEF lvars
<1>5. QED
  BY <1>1, <1>2, <1>3, <1>4 DEF LNext

\* Each section serves its trains in the order of their numbers.
THEOREM LineQueueOrder == LSpec => []QueueOrder
<1>1. LInit => Sorted
  BY DEF LInit, Sorted, QueueOrder
<1>2. LTypeOK /\ Sorted /\ [LNext]_lvars => Sorted'
  BY SortedStep
<1>3. Sorted => QueueOrder
  BY DEF Sorted
<1>4. QED
  BY <1>1, <1>2, <1>3, LTypeCorrect, PTL DEF LSpec

-----------------------------------------------------------------------------
\* The elements of a queue, as InQueue collects them.
Elements(q) == {q[i] : i \in 1 .. Len(q)}
Increasing(q) == \A i, j \in 1 .. Len(q) : i < j => q[i] < q[j]

LEMMA AppendRange ==
    ASSUME NEW q \in Seq(Nat), NEW x \in Nat
    PROVE  Elements(Append(q, x)) = Elements(q) \union {x}
<1>1. \A i \in 1 .. Len(q) + 1 : i \in 1 .. Len(q) \/ i = Len(q) + 1
  OBVIOUS
<1>2. QED
  BY <1>1, AppendElements DEF Elements

LEMMA TailRange ==
    ASSUME NEW q \in Seq(Nat), q # <<>>, Increasing(q)
    PROVE  Elements(Tail(q)) = Elements(q) \ {Head(q)}
<1>1. ASSUME NEW x \in Elements(Tail(q)) PROVE x \in Elements(q) \ {Head(q)}
  <2>1. PICK i \in 1 .. Len(q) - 1 : x = q[i + 1]
    BY <1>1, TailElements DEF Elements
  <2>2. i + 1 \in 1 .. Len(q) /\ 1 \in 1 .. Len(q) /\ 1 < i + 1
    BY <2>1
  <2>3. q[1] < q[i + 1] /\ q[1] \in Nat /\ q[i + 1] \in Nat
    BY <2>2 DEF Increasing
  <2>4. QED
    BY <2>1, <2>2, <2>3, TailElements DEF Elements
<1>2. ASSUME NEW x \in Elements(q), x # Head(q) PROVE x \in Elements(Tail(q))
  <2>1. PICK i \in 1 .. Len(q) : x = q[i]
    BY <1>2 DEF Elements
  <2>2. i # 1
    BY <1>2, <2>1, TailElements
  <2>3. i - 1 \in 1 .. Len(Tail(q)) /\ Tail(q)[i - 1] = x
    BY <2>1, <2>2, TailElements
  <2>4. QED
    BY <2>3 DEF Elements
<1>3. QED
  BY <1>1, <1>2

LEMMA OnePlaceStep == LTypeOK /\ Sorted /\ OnePlace /\ [LNext]_lvars => OnePlace'
<1> SUFFICES ASSUME LTypeOK, Sorted, OnePlace, [LNext]_lvars PROVE OnePlace'
  OBVIOUS
<1>1. \A r \in Section : InQueue(r) = Elements(waiting[r]) /\ InQueue(r)' = Elements(waiting'[r])
  BY DEF InQueue, Elements
<1>2. \A r \in Section : waiting[r] \in Seq(Nat) /\ Increasing(waiting[r])
  BY DEF LTypeOK, Sorted, QueueOrder, Increasing
<1>3. ASSUME NEW s \in Section, Arrive(s) PROVE OnePlace'
  <2>1. \A r \in Section : InQueue(r)' = IF r = s THEN InQueue(s) \union {born} ELSE InQueue(r)
    BY <1>1, <1>2, <1>3, AppendRange DEF Arrive, LTypeOK
  <2>2. Waiting' = Waiting \union {born}
    BY <2>1 DEF Waiting
  <2>3. born \in Nat /\ born' = born + 1 /\ tunnel' = tunnel /\ arrived' = arrived
    BY <1>3 DEF Arrive, LTypeOK
  <2>4. 0 .. born' - 1 = (0 .. born - 1) \union {born}
    BY <2>3
  <2>5. born \notin Waiting \union arrived \union ({tunnel} \ {NoTrain})
    BY <2>3 DEF OnePlace
  <2>6. tunnel # born
    BY <2>3, <2>5, NoTrainFact
  <2>7. \A r \in Section : InQueue(r) \subseteq Waiting
    BY DEF Waiting
  <2>8. QED
    BY <2>1, <2>2, <2>3, <2>4, <2>5, <2>6, <2>7 DEF OnePlace
<1>4. ASSUME NEW s \in Section, Enter(s) PROVE OnePlace'
  <2>1. \A r \in Section : InQueue(r)' =
           IF r = s THEN InQueue(s) \ {Head(waiting[s])} ELSE InQueue(r)
    BY <1>1, <1>2, <1>4, TailRange DEF Enter, LTypeOK
  <2>2. Head(waiting[s]) \in InQueue(s) /\ Head(waiting[s]) \in Nat
    BY <1>2, <1>4, TailElements DEF Enter, InQueue
  <2>3. \A r \in Section : r # s => Head(waiting[s]) \notin InQueue(r)
    BY <2>2 DEF OnePlace
  <2>4. Waiting' = Waiting \ {Head(waiting[s])}
    BY <2>1, <2>2, <2>3 DEF Waiting
  <2>5. /\ tunnel = NoTrain /\ tunnel' = Head(waiting[s]) /\ tunnel' # NoTrain
        /\ arrived' = arrived /\ born' = born
    BY <1>4, <2>2, NoTrainFact DEF Enter
  <2>6. Head(waiting[s]) \in Waiting
    BY <2>2 DEF Waiting
  <2>7. QED
    BY <2>1, <2>4, <2>5, <2>6 DEF OnePlace
<1>5. CASE Leave
  <2>1. \A r \in Section : InQueue(r)' = InQueue(r)
    BY <1>1, <1>5 DEF Leave
  <2>2. Waiting' = Waiting
    BY <2>1 DEF Waiting
  <2>3. NoTrain \notin Waiting \union arrived
    BY NoTrainFact DEF OnePlace
  <2>4. QED
    BY <1>5, <2>1, <2>2, <2>3 DEF OnePlace, Leave
<1>6. CASE UNCHANGED lvars
  <2>1. \A r \in Section : InQueue(r)' = InQueue(r)
    BY <1>1, <1>6 DEF lvars
  <2>2. Waiting' = Waiting
    BY <2>1 DEF Waiting
  <2>3. QED
    BY <1>6, <2>1, <2>2 DEF OnePlace, lvars
<1>7. QED
  BY <1>3, <1>4, <1>5, <1>6 DEF LNext

\* No train is lost, duplicated or in two places.
THEOREM LineOnePlace == LSpec => []OnePlace
<1>1. LInit => Sorted
  BY DEF LInit, Sorted, QueueOrder
<1>2. LInit => OnePlace
  <2> SUFFICES ASSUME LInit PROVE OnePlace
    OBVIOUS
  <2>1. \A s \in Section : InQueue(s) = {}
    BY DEF LInit, InQueue
  <2>2. Waiting = {}
    BY <2>1 DEF Waiting
  <2>3. 0 .. 0 - 1 = {}
    OBVIOUS
  <2>4. QED
    BY <2>1, <2>2, <2>3 DEF LInit, OnePlace
<1>3. QED
  BY <1>1, <1>2, LTypeCorrect, SortedStep, OnePlaceStep, PTL DEF LSpec
=============================================================================
