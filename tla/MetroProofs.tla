---------------------------- MODULE MetroProofs -----------------------------
(* Proofs about module Metro. *)
EXTENDS Metro, SequenceTheorems, TLAPS

LEMMA UnconstructedType == ControlLog!Unconstructed \in ControlLog!Event
  BY DEF ControlLog!Unconstructed, ControlLog!LogEvent, ControlLog!Event

LEMMA EventType ==
    ASSUME NEW id \in Int, NEW w \in SUBSET Nat
    PROVE  /\ ControlLog!LogEvent("System Overload", id, w) \in ControlLog!Event
           /\ ControlLog!LogEvent("Tunnel Cleared", id, w) \in ControlLog!Event
           /\ ControlLog!LogEvent("Tunnel Passing", id, w) \in ControlLog!Event
           /\ ControlLog!LogEvent("Breakdown", id, w) \in ControlLog!Event
  BY DEF ControlLog!LogEvent, ControlLog!Event

LEMMA CellType ==
    ASSUME ControlLog!QTypeOK, NEW i \in Nat
    PROVE  ControlLog!Cell(i) \in ControlLog!Event
<1> DEFINE E == ControlLog!Event
<1>1. cells \in Seq(E) /\ ControlLog!Unconstructed \in E
  BY UnconstructedType DEF ControlLog!QTypeOK
<1> HIDE DEF E
<1>2. ControlLog!Cell(i) \in E
  BY <1>1 DEF ControlLog!Cell
<1>3. QED
  BY <1>2 DEF E

\* The two halves of a push keep the type of the queue.
LEMMA ConstructType ==
    ASSUME ControlLog!QTypeOK, NEW t \in Thread, NEW e \in ControlLog!Event,
           ControlLog!Construct(t, e)
    PROVE  ControlLog!QTypeOK'
<1> DEFINE E == ControlLog!Event
<1>1. cells \in Seq(E) /\ e \in E /\ tail \in Nat /\ tail' = tail
  BY DEF ControlLog!QTypeOK, ControlLog!Construct
<1>2. \A i \in Nat : ControlLog!Cell(i) \in E
  BY CellType
<1>3. seen' \in [Thread -> SUBSET Nat]
  BY DEF ControlLog!QTypeOK, ControlLog!Construct
<1> HIDE DEF E
<1>4. CASE tail < Len(cells)
  <2>1. cells' = [cells EXCEPT ![tail + 1] = e]
    BY <1>4 DEF ControlLog!Construct
  <2>2. cells' \in Seq(E)
    BY <1>1, <1>4, <2>1
  <2>3. QED
    BY <1>1, <1>3, <2>2 DEF ControlLog!QTypeOK, E
<1>5. CASE ~(tail < Len(cells))
  <2>1. cells' = [i \in 1 .. tail + 1 |-> IF i = tail + 1 THEN e ELSE ControlLog!Cell(i)]
    BY <1>5 DEF ControlLog!Construct
  <2>2. cells' \in Seq(E)
    BY <1>1, <1>2, <2>1
  <2>3. QED
    BY <1>1, <1>3, <2>2 DEF ControlLog!QTypeOK, E
<1>6. QED
  BY <1>4, <1>5

LEMMA AdvanceType ==
    ASSUME ControlLog!QTypeOK, NEW t \in Thread, ControlLog!Advance(t)
    PROVE  ControlLog!QTypeOK'
<1>1. PICK loaded \in seen[t] :
         /\ tail' = loaded + 1
         /\ seen' = [u \in Thread |->
                       CASE u = t -> {}
                         [] u # t /\ seen[u] = {} -> {}
                         [] OTHER -> seen[u] \union {loaded + 1}]
  BY DEF ControlLog!Advance
<1>2. seen \in [Thread -> SUBSET Nat] /\ loaded + 1 \in Nat
  BY DEF ControlLog!QTypeOK
<1>3. ASSUME NEW u \in Thread PROVE seen'[u] \in SUBSET Nat
  BY <1>1, <1>2
<1>4. seen' \in [Thread -> SUBSET Nat]
  BY <1>1, <1>3
<1>5. cells' = cells
  BY DEF ControlLog!Advance
<1>6. QED
  BY <1>1, <1>2, <1>4, <1>5 DEF ControlLog!QTypeOK

\* A step of a thread's program counter keeps its type.
LEMMA GotoType ==
    ASSUME PcTypeOK, NEW t \in Thread, NEW from, NEW to, Goto(t, from, to),
           \/ t = CC /\ to \in CCPc
           \/ t \in Section /\ to \in SectionPc
    PROVE  PcTypeOK'
  BY DEF PcTypeOK, Goto, Thread, Section, CC

LEMMA SleepType ==
    ASSUME PcTypeOK, NEW t \in Thread, NEW from, NEW to, Sleep(t, from, to),
           \/ t = CC /\ to \in CCPc
           \/ t \in Section /\ to \in SectionPc
    PROVE  PcTypeOK'
<1>1. "dead" \in CCPc /\ "dead" \in SectionPc
  BY DEF CCPc, SectionPc
<1>2. QED
  BY <1>1, GotoType DEF Sleep

LEMMA WaitingType ==
    TypeOK => TrainsWaiting \in SUBSET Nat /\ \A s \in Section : InQueue(s) \in SUBSET Nat
  BY DEF TypeOK, TrainsWaiting, InQueue

LEMMA ThreadMembers ==
    /\ CC \in Thread /\ CC = 5 /\ CC \notin Section
    /\ Section \subseteq Thread /\ 0 \notin Section
  BY DEF CC, Thread, Section

\* Sums over the four sections.
LEMMA SumType ==
    ASSUME NEW f \in [Section -> Nat]
    PROVE  Sum4(f) \in Nat
  BY DEF Sum4, Section

LEMMA SumLeq ==
    ASSUME NEW f \in [Section -> Nat], NEW g \in [Section -> Nat],
           \A s \in Section : f[s] <= g[s]
    PROVE  Sum4(f) <= Sum4(g)
  BY DEF Sum4, Section

LEMMA SumBound ==
    ASSUME NEW f \in [Section -> Nat], NEW g \in [Section -> Nat], NEW h \in [Section -> Nat],
           \A s \in Section : f[s] <= g[s] + h[s]
    PROVE  Sum4(f) <= Sum4(g) + Sum4(h)
  BY DEF Sum4, Section

LEMMA SumPositive ==
    ASSUME NEW f \in [Section -> Nat], Sum4(f) > 0
    PROVE  \E s \in Section : f[s] > 0
  BY DEF Sum4, Section

LEMMA TotalType ==
    ASSUME TypeOK
    PROVE  /\ Total \in Nat
           /\ [s \in Section |-> Len(queue[s])] \in [Section -> Nat]
           /\ \A s \in Section : Len(queue[s]) \in Nat
<1>1. \A s \in Section : Len(queue[s]) \in Nat
  BY DEF TypeOK
<1>2. [s \in Section |-> Len(queue[s])] \in [Section -> Nat]
  BY <1>1
<1>3. QED
  BY <1>1, <1>2, SumType DEF Total

\* When some train waits, the most crowded section is not empty.
LEMMA CrowdedNonEmpty ==
    ASSUME TypeOK, Total > 0, NEW s \in Section, Crowded(s)
    PROVE  queue[s] # <<>>
<1> DEFINE f == [r \in Section |-> Len(queue[r])]
<1>1. f \in [Section -> Nat] /\ Sum4(f) > 0
  BY TotalType DEF Total
<1>2. PICK r \in Section : f[r] > 0
  BY <1>1, SumPositive
<1>3. Len(queue[s]) > 0
  <2>1. Len(queue[r]) > 0 /\ Len(queue[r]) <= Len(queue[s])
    BY <1>2 DEF Crowded
  <2>2. Len(queue[r]) \in Nat /\ Len(queue[s]) \in Nat
    BY TotalType
  <2>3. QED
    BY <2>1, <2>2
<1>4. Len(<<>>) = 0
  OBVIOUS
<1>5. QED
  BY <1>3, <1>4

\* The effect of Pick when the control center takes a train of section s.
PickFrom(s) ==
    /\ Crowded(s)
    /\ train' = Head(queue[s])
    /\ queue' = [queue EXCEPT ![s] = Tail(@)]
    /\ entry' = Passing(Head(queue[s]))

LEMMA SectionTypeStep ==
    ASSUME TypeOK, Recorded, NEW s \in Section, SectionStep(s)
    PROVE  TypeOK'
<1> USE ThreadMembers DEF TypeOK
<1>1. CASE Poll(s)
  <2>1. PcTypeOK'
    BY <1>1, GotoType DEF Poll, SectionPc
  <2>2. QED
    BY <1>1, <2>1 DEF Poll, ccvars, logvars, ControlLog!QTypeOK
<1>2. CASE Spin(s)
  BY <1>2 DEF Spin, vars, ccvars, logvars, PcTypeOK, ControlLog!QTypeOK
<1>3. CASE Gauge(s)
  <2>1. PcTypeOK'
    BY <1>3, GotoType DEF Gauge, SectionPc
  <2>2. Overloaded \in BOOLEAN
    BY DEF Overloaded
  <2>3. QED
    BY <1>3, <2>1, <2>2 DEF Gauge, ccvars, logvars, ControlLog!QTypeOK
<1>4. CASE Announce(s)
  <2>1. PcTypeOK'
    BY <1>4, GotoType DEF Announce, SectionPc, CCPc
  <2>2. ControlLog!QTypeOK'
    <3>1. CASE clearance
      BY <1>4, <3>1 DEF Announce, logvars, ControlLog!QTypeOK
    <3>2. CASE ~clearance
      <4> DEFINE e == ControlLog!LogEvent("System Overload", NoTrain, TrainsWaiting)
      <4>1. e \in ControlLog!Event
        <5>1. NoTrain \in Int /\ TrainsWaiting \in SUBSET Nat
          BY WaitingType DEF NoTrain
        <5>2. QED
          BY <5>1, EventType
      <4>2. ControlLog!Construct(s, e)
        BY <1>4, <3>2 DEF Announce
      <4>3. QED
        BY <4>1, <4>2, ConstructType
    <3>3. QED
      BY <3>1, <3>2
  <2>3. QED
    BY <1>4, <2>1, <2>2 DEF Announce, ccvars, logvars
<1>5. CASE LogOverload(s)
  <2>1. PcTypeOK'
    BY <1>5, GotoType DEF LogOverload, SectionPc, CCPc
  <2>2. ControlLog!QTypeOK'
    BY <1>5, AdvanceType DEF LogOverload
  <2>3. QED
    BY <1>5, <2>1, <2>2 DEF LogOverload, ccvars, logvars
<1>6. CASE Raise(s)
  <2>1. PcTypeOK'
    BY <1>6, GotoType DEF Raise, SectionPc, CCPc
  <2>2. QED
    BY <1>6, <2>1 DEF Raise, ccvars, logvars, ControlLog!QTypeOK
<1>7. CASE Recheck(s)
  <2>1. PcTypeOK'
    BY <1>7, GotoType DEF Recheck, SectionPc, CCPc
  <2>2. QED
    BY <1>7, <2>1 DEF Recheck, ccvars, logvars, ControlLog!QTypeOK
<1>8. CASE Number(s)
  <2>1. PcTypeOK'
    BY <1>8, GotoType DEF Number, SectionPc, CCPc
  <2>2. NextId \in Nat
    BY DEF NextId
  <2>3. QED
    BY <1>8, <2>1, <2>2 DEF Number, ccvars, logvars, ControlLog!QTypeOK
<1>9. CASE Enqueue(s)
  <2>1. PcTypeOK'
    BY <1>9, GotoType DEF Enqueue, SectionPc, CCPc
  <2>2. train_id \in Nat
    <3>1. Creating
      BY <1>9 DEF Enqueue, Goto, Creating
    <3>2. QED
      BY <3>1 DEF Recorded, Newest
  <2>3. QED
    BY <1>9, <2>1, <2>2 DEF Enqueue, ccvars, logvars, ControlLog!QTypeOK
<1>10. CASE Record(s)
  <2>1. PcTypeOK'
    BY <1>10, GotoType DEF Record, SectionPc, CCPc
  <2>2. train_id \in Nat
    <3>1. Creating
      BY <1>10 DEF Record, Goto, Creating
    <3>2. QED
      BY <3>1 DEF Recorded, Newest
  <2>3. DOMAIN trainsHashMap' \subseteq Nat /\ trainsHashMap' \in [DOMAIN trainsHashMap' -> Row]
    BY <1>10, <2>2 DEF Record, NewRow, Row
  <2>4. QED
    BY <1>10, <2>1, <2>3 DEF Record, ccvars, logvars, ControlLog!QTypeOK
<1>11. CASE Rest(s)
  <2>1. PcTypeOK'
    BY <1>11, SleepType DEF Rest, SectionPc, CCPc
  <2>2. QED
    BY <1>11, <2>1 DEF Rest, ccvars, logvars, ControlLog!QTypeOK
<1>12. QED
  BY <1>1, <1>2, <1>3, <1>4, <1>5, <1>6, <1>7, <1>8, <1>9, <1>10, <1>11
     DEF SectionStep

LEMMA ControlCenterTypeStep ==
    ASSUME TypeOK, PickNonEmpty, ControlCenterStep
    PROVE  TypeOK'
<1> USE ThreadMembers DEF TypeOK
<1>1. CASE Top
  <2>1. PcTypeOK'
    BY <1>1, GotoType DEF Top, SectionPc, CCPc
  <2>2. QED
    BY <1>1, <2>1 DEF Top, ccvars, logvars, ControlLog!QTypeOK
<1>2. CASE Idle
  <2>1. PcTypeOK'
    BY <1>2, GotoType DEF Idle, SectionPc, CCPc
  <2>2. ControlLog!QTypeOK'
    <3>1. CASE ~clearance
      BY <1>2, <3>1 DEF Idle, logvars, ControlLog!QTypeOK
    <3>2. CASE clearance
      <4> DEFINE e == ControlLog!LogEvent("Tunnel Cleared", NoTrain, {})
      <4>1. e \in ControlLog!Event
        <5>1. NoTrain \in Int /\ {} \in SUBSET Nat
          BY DEF NoTrain
        <5>2. QED
          BY <5>1, EventType
      <4>2. ControlLog!Construct(CC, e)
        BY <1>2, <3>2 DEF Idle
      <4>3. QED
        BY <4>1, <4>2, ConstructType
    <3>3. QED
      BY <3>1, <3>2
  <2>3. QED
    BY <1>2, <2>1, <2>2 DEF Idle, ccvars, logvars
<1>3. CASE LogCleared
  <2>1. PcTypeOK'
    BY <1>3, GotoType DEF LogCleared, SectionPc, CCPc
  <2>2. ControlLog!QTypeOK'
    BY <1>3, AdvanceType DEF LogCleared
  <2>3. QED
    BY <1>3, <2>1, <2>2 DEF LogCleared, ccvars, logvars
<1>4. CASE Reset
  <2>1. PcTypeOK'
    BY <1>4, GotoType DEF Reset, SectionPc, CCPc
  <2>2. QED
    BY <1>4, <2>1 DEF Reset, ccvars, logvars, ControlLog!QTypeOK
<1>5. CASE Pick
  <2>1. PcTypeOK'
    BY <1>5, GotoType DEF Pick, SectionPc, CCPc
  <2>2. PICK s \in Section : PickFrom(s)
    BY <1>5 DEF Pick, PickFrom
  <2>3. queue[s] \in Seq(Nat) /\ queue[s] # <<>>
    BY <1>5, <2>2, CrowdedNonEmpty DEF Pick, Goto, PickNonEmpty, PickFrom
  <2>4. Head(queue[s]) \in Nat /\ Tail(queue[s]) \in Seq(Nat)
    BY <2>3
  <2>5. queue' \in [Section -> Seq(Nat)] /\ train' \in Nat
    BY <2>2, <2>4 DEF PickFrom
  <2>6. entry' \in ControlLog!Event
    <3>1. Head(queue[s]) \in Int /\ {} \in SUBSET Nat
      BY <2>4
    <3>2. Passing(Head(queue[s])) \in ControlLog!Event
      BY <3>1, EventType DEF Passing
    <3>3. QED
      BY <2>2, <3>2 DEF PickFrom
  <2>7. QED
    BY <1>5, <2>1, <2>5, <2>6 DEF Pick, ccvars, logvars, ControlLog!QTypeOK
<1>6. CASE Copy
  <2>1. PcTypeOK'
    BY <1>6 DEF Copy, PcTypeOK
  <2>2. copied + 1 \in Section /\ copied' = copied + 1
    BY <1>6 DEF Copy, Section
  <2>3. entry' \in ControlLog!Event
    <3>1. entry.waiting \union InQueue(copied + 1) \in SUBSET Nat
      BY <2>2, WaitingType DEF ControlLog!Event
    <3>2. QED
      BY <1>6, <3>1 DEF Copy, ControlLog!Event
  <2>4. QED
    BY <1>6, <2>1, <2>2, <2>3 DEF Copy, ccvars, logvars, ControlLog!QTypeOK
<1>7. CASE PushEntry
  <2>1. PcTypeOK'
    BY <1>7, GotoType DEF PushEntry, SectionPc, CCPc
  <2>2. ControlLog!QTypeOK'
    BY <1>7, ConstructType DEF PushEntry
  <2>3. QED
    BY <1>7, <2>1, <2>2 DEF PushEntry, ccvars, logvars
<1>8. CASE LogEntry
  <2>1. PcTypeOK'
    BY <1>8, GotoType DEF LogEntry, SectionPc, CCPc
  <2>2. ControlLog!QTypeOK'
    BY <1>8, AdvanceType DEF LogEntry
  <2>3. QED
    BY <1>8, <2>1, <2>2, UnconstructedType DEF LogEntry, ccvars, logvars
<1>9. CASE Front
  <2>1. PcTypeOK'
    BY <1>9, GotoType, SleepType DEF Front, SectionPc, CCPc
  <2>2. entry' \in ControlLog!Event
    <3>1. train \in Int /\ {} \in SUBSET Nat
      BY DEF NoTrain
    <3>2. ControlLog!LogEvent("Breakdown", train, {}) \in ControlLog!Event
      BY <3>1, EventType
    <3>3. QED
      BY <1>9, <3>2 DEF Front
  <2>3. QED
    BY <1>9, <2>1, <2>2 DEF Front, ccvars, logvars, ControlLog!QTypeOK
<1>10. CASE Back
  <2>1. PcTypeOK'
    BY <1>10, SleepType DEF Back, SectionPc, CCPc
  <2>2. QED
    BY <1>10, <2>1 DEF Back, ccvars, logvars, ControlLog!QTypeOK
<1>11. CASE Exit
  <2>1. PcTypeOK'
    BY <1>11, GotoType DEF Exit, SectionPc, CCPc
  <2>2. trainsHashMap' \in [DOMAIN trainsHashMap -> Row]
    BY <1>11 DEF Exit, Row
  <2>3. DOMAIN trainsHashMap' = DOMAIN trainsHashMap
    BY <1>11 DEF Exit
  <2>4. QED
    BY <1>11, <2>1, <2>2, <2>3 DEF Exit, ccvars, logvars, ControlLog!QTypeOK
<1>12. QED
  BY <1>1, <1>2, <1>3, <1>4, <1>5, <1>6, <1>7, <1>8, <1>9, <1>10, <1>11
     DEF ControlCenterStep

-----------------------------------------------------------------------------
\* The effect of a jump on the program counters.
LEMMA GotoEffect ==
    ASSUME PcTypeOK, NEW t \in Thread, NEW from, NEW to, Goto(t, from, to)
    PROVE  pc[t] = from /\ pc'[t] = to /\ \A u \in Thread : u # t => pc'[u] = pc[u]
  BY DEF PcTypeOK, Goto

LEMMA SleepEffect ==
    ASSUME PcTypeOK, NEW t \in Thread, NEW from, NEW to, Sleep(t, from, to)
    PROVE  pc[t] = from /\ pc'[t] \in {to, "dead"} /\ \A u \in Thread : u # t => pc'[u] = pc[u]
  BY GotoEffect DEF Sleep

\* A step of a thread moves no other program counter.
LEMMA SectionPcStep ==
    ASSUME PcTypeOK, NEW s \in Section, SectionStep(s)
    PROVE  \A u \in Thread : u # s => pc'[u] = pc[u]
<1> USE ThreadMembers
<1>1. CASE Poll(s)
  BY <1>1, GotoEffect DEF Poll
<1>2. CASE Spin(s)
  BY <1>2 DEF Spin, vars
<1>3. CASE Gauge(s)
  <2>1. Goto(s, "gauge", "announce") \/ Goto(s, "gauge", "recheck")
    BY <1>3 DEF Gauge
  <2>2. QED
    BY <2>1, GotoEffect
<1>4. CASE Announce(s)
  <2>1. Goto(s, "announce", "raise") \/ Goto(s, "announce", "logging")
    BY <1>4 DEF Announce
  <2>2. QED
    BY <2>1, GotoEffect
<1>5. CASE LogOverload(s)
  BY <1>5, GotoEffect DEF LogOverload
<1>6. CASE Raise(s)
  BY <1>6, GotoEffect DEF Raise
<1>7. CASE Recheck(s)
  <2>1. Goto(s, "recheck", "poll") \/ Goto(s, "recheck", "number") \/ Goto(s, "recheck", "rest")
    BY <1>7 DEF Recheck
  <2>2. QED
    BY <2>1, GotoEffect
<1>8. CASE Number(s)
  BY <1>8, GotoEffect DEF Number
<1>9. CASE Enqueue(s)
  BY <1>9, GotoEffect DEF Enqueue
<1>10. CASE Record(s)
  BY <1>10, GotoEffect DEF Record
<1>11. CASE Rest(s)
  BY <1>11, SleepEffect DEF Rest
<1>12. QED
  BY <1>1, <1>2, <1>3, <1>4, <1>5, <1>6, <1>7, <1>8, <1>9, <1>10, <1>11
     DEF SectionStep

\* Only Number enters the part of the critical section that creates a train.
LEMMA SectionPcQuiet ==
    ASSUME PcTypeOK, NEW s \in Section, SectionStep(s),
           ~Number(s), ~Enqueue(s), ~Record(s)
    PROVE  pc'[s] \notin {"enqueue", "record"}
<1> USE ThreadMembers
<1>1. \/ Goto(s, "poll", "gauge")
      \/ pc' = pc /\ pc[s] = "poll"
      \/ Goto(s, "gauge", "announce")
      \/ Goto(s, "gauge", "recheck")
      \/ Goto(s, "announce", "raise")
      \/ Goto(s, "announce", "logging")
      \/ Goto(s, "logging", "raise")
      \/ Goto(s, "raise", "recheck")
      \/ Goto(s, "recheck", "poll")
      \/ Goto(s, "recheck", "number")
      \/ Goto(s, "recheck", "rest")
      \/ Sleep(s, "rest", "poll")
  BY DEF SectionStep, Poll, Spin, Gauge, Announce, LogOverload, Raise, Recheck,
         Rest, vars
<1>2. ASSUME NEW from, NEW to, Goto(s, from, to), to \notin {"enqueue", "record"}
      PROVE  pc'[s] \notin {"enqueue", "record"}
  BY <1>2, GotoEffect
<1>3. Sleep(s, "rest", "poll") => pc'[s] \in {"poll", "dead"}
  BY SleepEffect
<1>4. QED
  BY <1>1, <1>2, <1>3

LEMMA ControlCenterPcStep ==
    ASSUME PcTypeOK, ControlCenterStep
    PROVE  /\ \A u \in Section : pc'[u] = pc[u]
           /\ pc'[CC] = "pick" => pc[CC] = "top"
           /\ pc'[CC] \in {"idle", "logCleared", "reset"} =>
                 pc[CC] \in {"top", "idle", "logCleared"}
<1> USE ThreadMembers
<1>1. CASE Top
  <2>1. Goto(CC, "top", "idle") \/ Goto(CC, "top", "pick")
    BY <1>1 DEF Top
  <2>2. QED
    BY <2>1, GotoEffect
<1>2. CASE Idle
  <2>1. Goto(CC, "idle", "logCleared") \/ Goto(CC, "idle", "reset")
    BY <1>2 DEF Idle
  <2>2. QED
    BY <2>1, GotoEffect
<1>3. CASE LogCleared
  BY <1>3, GotoEffect DEF LogCleared
<1>4. CASE Reset
  BY <1>4, GotoEffect DEF Reset
<1>5. CASE Pick
  BY <1>5, GotoEffect DEF Pick
<1>6. CASE Copy
  BY <1>6 DEF Copy
<1>7. CASE PushEntry
  BY <1>7, GotoEffect DEF PushEntry
<1>8. CASE LogEntry
  <2>1. Goto(CC, "logEntry", "front") \/ Goto(CC, "logEntry", "back")
    BY <1>8 DEF LogEntry
  <2>2. QED
    BY <2>1, GotoEffect
<1>9. CASE Front
  <2>1. Sleep(CC, "front", "back") \/ Goto(CC, "front", "copy")
    BY <1>9 DEF Front
  <2>2. QED
    BY <2>1, GotoEffect, SleepEffect
<1>10. CASE Back
  BY <1>10, SleepEffect DEF Back
<1>11. CASE Exit
  BY <1>11, GotoEffect DEF Exit
<1>12. QED
  BY <1>1, <1>2, <1>3, <1>4, <1>5, <1>6, <1>7, <1>8, <1>9, <1>10, <1>11
     DEF ControlCenterStep

\* The locks: who holds them is decided by the program counters.
LEMMA LockSection ==
    ASSUME PcTypeOK, LockInv, NEW s \in Section, SectionStep(s)
    PROVE  LockInv'
<1> USE ThreadMembers, GotoEffect
<1>1. CASE Poll(s)
  BY <1>1 DEF Poll, LockInv, Holding, ccvars
<1>2. CASE Spin(s)
  BY <1>2 DEF Spin, LockInv, Holding, vars, ccvars, logvars
<1>3. CASE Gauge(s)
  <2>1. CASE Overloaded
    <3>1. Goto(s, "gauge", "announce") /\ trainMutex = 0 /\ trainMutex' = s
      BY <1>3, <2>1 DEF Gauge
    <3>2. QED
      BY <1>3, <3>1 DEF Gauge, LockInv, Holding, ccvars
  <2>2. CASE ~Overloaded
    <3>1. Goto(s, "gauge", "recheck") /\ trainMutex' = trainMutex
      BY <1>3, <2>2 DEF Gauge
    <3>2. QED
      BY <1>3, <3>1 DEF Gauge, LockInv, Holding, ccvars
  <2>3. QED
    BY <2>1, <2>2
<1>4. CASE Announce(s)
  <2>1. Goto(s, "announce", "raise") \/ Goto(s, "announce", "logging")
    BY <1>4 DEF Announce
  <2>2. /\ pc[s] = "announce" /\ pc'[s] \in {"raise", "logging"}
        /\ \A u \in Section : u # s => pc'[u] = pc[u]
    BY <2>1
  <2>3. pc'[CC] = pc[CC]
    BY <2>1
  <2>4. tunnelMutex' = tunnelMutex /\ trainMutex' = trainMutex
    BY <1>4 DEF Announce, ccvars
  <2>5. QED
    BY <2>2, <2>3, <2>4 DEF LockInv, Holding
<1>5. CASE LogOverload(s)
  BY <1>5 DEF LogOverload, LockInv, Holding, ccvars
<1>6. CASE Raise(s)
  <2>1. Goto(s, "raise", "recheck") /\ trainMutex' = 0
    BY <1>6 DEF Raise
  <2>2. pc[s] = "raise" /\ pc'[s] = "recheck" /\ \A u \in Section : u # s => pc'[u] = pc[u]
    BY <2>1
  <2>3. pc'[CC] = pc[CC] /\ tunnelMutex' = tunnelMutex
    BY <1>6, <2>1 DEF Raise, ccvars
  <2>4. QED
    BY <2>1, <2>2, <2>3 DEF LockInv, Holding
<1>7. CASE Recheck(s)
  BY <1>7 DEF Recheck, LockInv, Holding, ccvars
<1>8. CASE Number(s)
  <2>1. Goto(s, "number", "enqueue") /\ trainMutex' = s /\ trainMutex = 0
    BY <1>8 DEF Number
  <2>2. pc[s] = "number" /\ pc'[s] = "enqueue" /\ \A u \in Section : u # s => pc'[u] = pc[u]
    BY <2>1
  <2>3. pc'[CC] = pc[CC] /\ tunnelMutex' = tunnelMutex
    BY <1>8, <2>1 DEF Number, ccvars
  <2>4. QED
    BY <2>1, <2>2, <2>3 DEF LockInv, Holding
<1>9. CASE Enqueue(s)
  BY <1>9 DEF Enqueue, LockInv, Holding, ccvars
<1>10. CASE Record(s)
  <2>1. Goto(s, "record", "rest") /\ trainMutex' = 0
    BY <1>10 DEF Record
  <2>2. pc[s] = "record" /\ pc'[s] = "rest" /\ \A u \in Section : u # s => pc'[u] = pc[u]
    BY <2>1
  <2>3. pc'[CC] = pc[CC] /\ tunnelMutex' = tunnelMutex
    BY <1>10, <2>1 DEF Record, ccvars
  <2>4. QED
    BY <2>1, <2>2, <2>3 DEF LockInv, Holding
<1>11. CASE Rest(s)
  BY <1>11, SleepEffect DEF Rest, LockInv, Holding, ccvars
<1>12. QED
  BY <1>1, <1>2, <1>3, <1>4, <1>5, <1>6, <1>7, <1>8, <1>9, <1>10, <1>11
     DEF SectionStep

LEMMA LockControlCenter ==
    ASSUME PcTypeOK, LockInv, ControlCenterStep
    PROVE  LockInv'
<1> USE ThreadMembers, GotoEffect
<1>1. CASE Top
  BY <1>1 DEF Top, LockInv, Holding
<1>2. CASE Idle
  <2>1. Goto(CC, "idle", "logCleared") \/ Goto(CC, "idle", "reset")
    BY <1>2 DEF Idle
  <2>2. /\ pc[CC] = "idle" /\ pc'[CC] \in {"logCleared", "reset"}
        /\ \A u \in Section : pc'[u] = pc[u]
    BY <2>1
  <2>3. trainMutex' = trainMutex /\ tunnelMutex' = tunnelMutex
    BY <1>2 DEF Idle, ccvars
  <2>4. QED
    BY <2>2, <2>3 DEF LockInv, Holding
<1>3. CASE LogCleared
  BY <1>3 DEF LogCleared, LockInv, Holding, ccvars
<1>4. CASE Reset
  BY <1>4 DEF Reset, LockInv, Holding
<1>5. CASE Pick
  BY <1>5 DEF Pick, LockInv, Holding
<1>6. CASE Copy
  BY <1>6 DEF Copy, LockInv, Holding
<1>7. CASE PushEntry
  BY <1>7 DEF PushEntry, LockInv, Holding
<1>8. CASE LogEntry
  <2>1. Goto(CC, "logEntry", "front") \/ Goto(CC, "logEntry", "back")
    BY <1>8 DEF LogEntry
  <2>2. /\ pc[CC] = "logEntry" /\ pc'[CC] \in {"front", "back"}
        /\ \A u \in Section : pc'[u] = pc[u]
    BY <2>1
  <2>3. trainMutex' = trainMutex /\ tunnelMutex' = tunnelMutex
    BY <1>8 DEF LogEntry
  <2>4. QED
    BY <2>2, <2>3 DEF LockInv, Holding
<1>9. CASE Front
  BY <1>9, SleepEffect DEF Front, LockInv, Holding
<1>10. CASE Back
  BY <1>10, SleepEffect DEF Back, LockInv, Holding, ccvars
<1>11. CASE Exit
  BY <1>11 DEF Exit, LockInv, Holding
<1>12. QED
  BY <1>1, <1>2, <1>3, <1>4, <1>5, <1>6, <1>7, <1>8, <1>9, <1>10, <1>11
     DEF ControlCenterStep

\* The control center has a train exactly while it is in the tunnel.
LEMMA TunnelSection ==
    ASSUME PcTypeOK, TypeOK, PickNonEmpty, TunnelInv, NEW s \in Section, SectionStep(s)
    PROVE  TunnelInv'
<1> USE ThreadMembers, GotoEffect
<1>1. CASE Poll(s)
  BY <1>1 DEF Poll, TunnelInv, ccvars
<1>2. CASE Spin(s)
  BY <1>2 DEF Spin, TunnelInv, vars, ccvars, logvars
<1>3. CASE Gauge(s)
  BY <1>3 DEF Gauge, TunnelInv, ccvars
<1>4. CASE Announce(s)
  <2>1. pc'[CC] = pc[CC]
    <3>1. Goto(s, "announce", "raise") \/ Goto(s, "announce", "logging")
      BY <1>4 DEF Announce
    <3>2. QED
      BY <3>1
  <2>2. train' = train
    BY <1>4 DEF Announce, ccvars
  <2>3. QED
    BY <2>1, <2>2 DEF TunnelInv
<1>5. CASE LogOverload(s)
  BY <1>5 DEF LogOverload, TunnelInv, ccvars
<1>6. CASE Raise(s)
  BY <1>6 DEF Raise, TunnelInv, ccvars
<1>7. CASE Recheck(s)
  BY <1>7 DEF Recheck, TunnelInv, ccvars
<1>8. CASE Number(s)
  BY <1>8 DEF Number, TunnelInv, ccvars
<1>9. CASE Enqueue(s)
  BY <1>9 DEF Enqueue, TunnelInv, ccvars
<1>10. CASE Record(s)
  BY <1>10 DEF Record, TunnelInv, ccvars
<1>11. CASE Rest(s)
  BY <1>11, SleepEffect DEF Rest, TunnelInv, ccvars
<1>12. QED
  BY <1>1, <1>2, <1>3, <1>4, <1>5, <1>6, <1>7, <1>8, <1>9, <1>10, <1>11
     DEF SectionStep

LEMMA TunnelControlCenter ==
    ASSUME PcTypeOK, TypeOK, PickNonEmpty, TunnelInv, ControlCenterStep
    PROVE  TunnelInv'
<1> USE ThreadMembers, GotoEffect
<1>1. CASE Top
  BY <1>1 DEF Top, TunnelInv, NoTrain
<1>2. CASE Idle
  <2>1. Goto(CC, "idle", "logCleared") \/ Goto(CC, "idle", "reset")
    BY <1>2 DEF Idle
  <2>2. pc[CC] = "idle" /\ pc'[CC] \in {"logCleared", "reset"}
    BY <2>1
  <2>3. train' = train
    BY <1>2 DEF Idle, ccvars
  <2>4. QED
    BY <2>2, <2>3 DEF TunnelInv, NoTrain
<1>3. CASE LogCleared
  BY <1>3 DEF LogCleared, TunnelInv, NoTrain, ccvars
<1>4. CASE Reset
  BY <1>4 DEF Reset, TunnelInv, NoTrain
<1>5. CASE Pick
  <2>1. Goto(CC, "pick", "copy")
    BY <1>5 DEF Pick
  <2>2. PICK s \in Section : PickFrom(s)
    BY <1>5 DEF Pick, PickFrom
  <2>3. Head(queue[s]) \in Nat
    <3>1. queue[s] # <<>>
      BY <2>1, <2>2, CrowdedNonEmpty DEF PickNonEmpty, PickFrom
    <3>2. queue[s] \in Seq(Nat)
      BY DEF TypeOK
    <3>3. QED
      BY <3>1, <3>2
  <2>4. train' # NoTrain
    BY <2>2, <2>3 DEF PickFrom, NoTrain
  <2>5. QED
    BY <2>1, <2>4 DEF TunnelInv
<1>6. CASE Copy
  BY <1>6 DEF Copy, TunnelInv, NoTrain
<1>7. CASE PushEntry
  BY <1>7 DEF PushEntry, TunnelInv, NoTrain
<1>8. CASE LogEntry
  BY <1>8 DEF LogEntry, TunnelInv, NoTrain
<1>9. CASE Front
  BY <1>9, SleepEffect DEF Front, TunnelInv, NoTrain
<1>10. CASE Back
  BY <1>10, SleepEffect DEF Back, TunnelInv, NoTrain, ccvars
<1>11. CASE Exit
  BY <1>11 DEF Exit, TunnelInv, NoTrain
<1>12. QED
  BY <1>1, <1>2, <1>3, <1>4, <1>5, <1>6, <1>7, <1>8, <1>9, <1>10, <1>11
     DEF ControlCenterStep

-----------------------------------------------------------------------------
\* The control center is the only thread that takes trains from a queue.
LEMMA SectionKeepsTrains ==
    ASSUME TypeOK, NEW s \in Section, SectionStep(s), TypeOK'
    PROVE  \A r \in Section : Len(queue[r]) <= Len(queue'[r])
<1>1. CASE Enqueue(s)
  <2>1. queue' = [queue EXCEPT ![s] = Append(queue[s], train_id)]
    BY <1>1 DEF Enqueue
  <2>2. \A r \in Section : queue[r] \in Seq(Nat)
    BY DEF TypeOK
  <2>3. QED
    BY <2>1, <2>2 DEF TypeOK
<1>2. CASE ~Enqueue(s)
  <2>1. queue' = queue
    BY <1>2 DEF SectionStep, Poll, Spin, Gauge, Announce, LogOverload, Raise,
                Recheck, Number, Record, Rest, vars
  <2>2. QED
    BY <2>1, TotalType
<1>3. QED
  BY <1>1, <1>2

LEMMA PickSection ==
    ASSUME TypeOK, TypeOK', PickNonEmpty, NEW s \in Section, SectionStep(s)
    PROVE  PickNonEmpty'
<1>1. pc'[CC] = pc[CC]
  <2>1. PcTypeOK
    BY DEF TypeOK
  <2>2. \A u \in Thread : u # s => pc'[u] = pc[u]
    BY <2>1, SectionPcStep
  <2>3. QED
    BY <2>2, ThreadMembers
<1>2. Total <= Total'
  <2> DEFINE f == [r \in Section |-> Len(queue[r])]
             g == [r \in Section |-> Len(queue'[r])]
  <2>1. f \in [Section -> Nat] /\ g \in [Section -> Nat]
    BY TotalType DEF TypeOK
  <2>2. \A r \in Section : f[r] <= g[r]
    BY SectionKeepsTrains
  <2>3. Sum4(f) <= Sum4(g)
    BY <2>1, <2>2, SumLeq
  <2>4. QED
    BY <2>3 DEF Total
<1>3. Total \in Nat /\ Total' \in Nat
  <2>1. [r \in Section |-> Len(queue'[r])] \in [Section -> Nat]
    BY DEF TypeOK
  <2>2. QED
    BY <2>1, TotalType, SumType DEF Total
<1>4. QED
  BY <1>1, <1>2, <1>3 DEF PickNonEmpty

LEMMA PickControlCenter ==
    ASSUME TypeOK, ControlCenterStep
    PROVE  PickNonEmpty'
<1>1. CASE Top
  <2>1. CASE AllEmpty
    <3>1. Goto(CC, "top", "idle")
      BY <1>1, <2>1 DEF Top
    <3>2. QED
      BY <3>1, GotoEffect, ThreadMembers DEF TypeOK, PickNonEmpty
  <2>2. CASE ~AllEmpty
    <3>1. Total > 0
      BY <2>2, TotalType DEF AllEmpty
    <3>2. Total' = Total
      BY <1>1 DEF Top, Total
    <3>3. QED
      BY <3>1, <3>2 DEF PickNonEmpty
  <2>3. QED
    BY <2>1, <2>2
<1>2. CASE ~Top
  <2>1. pc[CC] # "top"
    BY <1>2, GotoEffect, SleepEffect
       DEF ControlCenterStep, Idle, LogCleared, Reset, Pick, Copy, PushEntry,
           LogEntry, Front, Back, Exit, Goto, Sleep
  <2>2. pc'[CC] # "pick"
    BY <2>1, ControlCenterPcStep DEF TypeOK
  <2>3. QED
    BY <2>2 DEF PickNonEmpty
<1>3. QED
  BY <1>1, <1>2

-----------------------------------------------------------------------------
\* Sums of waiting and pending trains.
LEMMA PendingType ==
    ASSUME TypeOK
    PROVE  /\ \A u \in Section : Pending(u) \in Nat
           /\ [u \in Section |-> Pending(u)] \in [Section -> Nat]
<1>1. ASSUME NEW u \in Section PROVE Pending(u) \in Nat
  <2>1. Len(queue[u]) \in Nat
    BY TotalType
  <2>2. One(WillPush(u)) \in Nat
    BY DEF One
  <2>3. QED
    BY <2>1, <2>2 DEF Pending
<1>2. QED
  BY <1>1

LEMMA RunningType ==
    /\ [u \in Section |-> One(u \in Running)] \in [Section -> Nat]
    /\ NumRunning \in Nat
<1>1. [u \in Section |-> One(u \in Running)] \in [Section -> Nat]
  BY DEF One
<1>2. QED
  BY <1>1, SumType DEF NumRunning

\* A thread adds at most one train to those that wait.
LEMMA PendingBound ==
    ASSUME TypeOK, \A u \in Section \ Running : pc[u] = "poll"
    PROVE  Sum4([u \in Section |-> Pending(u)]) <= Total + NumRunning
<1> DEFINE l == [u \in Section |-> Len(queue[u])]
           r == [u \in Section |-> One(u \in Running)]
           w == [u \in Section |-> Pending(u)]
<1>1. l \in [Section -> Nat] /\ r \in [Section -> Nat] /\ w \in [Section -> Nat]
  BY TotalType, RunningType, PendingType
<1>2. ASSUME NEW u \in Section PROVE w[u] <= l[u] + r[u]
  <2>1. Len(queue[u]) \in Nat
    BY TotalType
  <2>2. Pending(u) <= Len(queue[u]) + One(u \in Running)
    <3>1. WillPush(u) => u \in Running
      BY DEF WillPush, Committed, Doubtful
    <3>2. QED
      BY <2>1, <3>1 DEF Pending, One
  <2>3. QED
    BY <2>2
<1>3. Sum4(w) <= Sum4(l) + Sum4(r)
  <2> HIDE DEF w, l, r
  <2>1. QED
    BY <1>1, <1>2, SumBound
<1>4. QED
  BY <1>3 DEF Total, NumRunning

\* The same two facts of the next state.
LEMMA PendingTypeNext ==
    ASSUME TypeOK'
    PROVE  /\ \A u \in Section : Pending(u)' \in Nat
           /\ [u \in Section |-> Pending(u)]' \in [Section -> Nat]
<1>1. ASSUME NEW u \in Section PROVE Pending(u)' \in Nat
  <2>1. Len(queue'[u]) \in Nat
    BY DEF TypeOK
  <2>2. One(WillPush(u))' \in Nat
    BY DEF One
  <2>3. QED
    BY <2>1, <2>2 DEF Pending
<1>2. QED
  BY <1>1

LEMMA PendingBoundNext ==
    ASSUME TypeOK', \A u \in Section \ Running : pc'[u] = "poll"
    PROVE  Sum4([u \in Section |-> Pending(u)]') <= Total' + NumRunning
<1> DEFINE l == [u \in Section |-> Len(queue'[u])]
           r == [u \in Section |-> One(u \in Running)]
           w == [u \in Section |-> Pending(u)']
<1>1. l \in [Section -> Nat] /\ r \in [Section -> Nat] /\ w \in [Section -> Nat]
  BY PendingTypeNext, RunningType DEF TypeOK
<1>2. ASSUME NEW u \in Section PROVE w[u] <= l[u] + r[u]
  <2>1. Len(queue'[u]) \in Nat
    BY DEF TypeOK
  <2>2. Pending(u)' <= Len(queue'[u]) + One(u \in Running)
    <3>1. WillPush(u)' => u \in Running
      BY DEF WillPush, Committed, Doubtful
    <3>2. QED
      BY <2>1, <3>1 DEF Pending, One
  <2>3. QED
    BY <2>2
<1>3. Sum4(w) <= Sum4(l) + Sum4(r)
  <2> HIDE DEF w, l, r
  <2>1. QED
    BY <1>1, <1>2, SumBound
<1>4. QED
  BY <1>3 DEF Total, NumRunning

\* The part of OverloadInv that is not about sums.
AtPollOrGauged ==
    /\ \A s \in Section \ Running : pc[s] = "poll"
    /\ \A s \in Section : pc[s] \in {"announce", "logging", "raise"} => overload[s]

\* A step that adds to no section's pending trains keeps the bound.
LEMMA PendingFalls ==
    ASSUME TypeOK, TypeOK', OverloadInv,
           \A u \in Section : Pending(u)' <= Pending(u),
           AtPollOrGauged',
           StaleEmpty' => StaleEmpty
    PROVE  OverloadInv'
<1> DEFINE w == [u \in Section |-> Pending(u)]
           v == [u \in Section |-> Pending(u)']
<1>1. w \in [Section -> Nat]
  BY PendingType
<1>2. v \in [Section -> Nat]
  BY PendingTypeNext
<1>3. Sum4(v) <= Sum4(w)
  BY <1>1, <1>2, SumLeq
<1>4. Sum4(v) \in Nat /\ Sum4(w) \in Nat
  BY <1>1, <1>2, SumType
<1>5. Sum4(w) <= Threshold + NumRunning + (IF StaleEmpty THEN 0 ELSE NumRunning)
  BY DEF OverloadInv
<1> HIDE DEF w, v
<1>6. Sum4(v) <= Threshold + NumRunning + (IF StaleEmpty' THEN 0 ELSE NumRunning)
  BY <1>3, <1>4, <1>5, RunningType, ThresholdAssumption
<1>7. StaleEmpty' \in BOOLEAN /\ Sum4([u \in Section |-> Pending(u)])' = Sum4(v)
  BY DEF StaleEmpty, v
<1>8. QED
  BY <1>6, <1>7 DEF OverloadInv, AtPollOrGauged

\* When the queues hold no more than the threshold, so does the bound, whatever
\* the threads are committed to.
LEMMA PendingFew ==
    ASSUME TypeOK', AtPollOrGauged', Total' \in Nat, Total' <= Threshold
    PROVE  OverloadInv'
<1> DEFINE S == Sum4([u \in Section |-> Pending(u)]')
<1>1. S \in Nat
  BY PendingTypeNext, SumType
<1>2. S <= Total' + NumRunning
  BY PendingBoundNext DEF AtPollOrGauged
<1> HIDE DEF S
<1>3. S <= Threshold + NumRunning + (IF StaleEmpty' THEN 0 ELSE NumRunning)
  <2> DEFINE n == NumRunning
             t == Total'
  <2>1. n \in Nat /\ t \in Nat /\ t <= Threshold /\ S <= t + n /\ Threshold \in Nat
    BY <1>2, RunningType, ThresholdAssumption
  <2> HIDE DEF n, t
  <2>2. S <= Threshold + n + 0 /\ S <= Threshold + n + n
    BY <1>1, <2>1
  <2>3. QED
    BY <2>2 DEF n
<1>4. StaleEmpty' \in BOOLEAN /\ Sum4([u \in Section |-> Pending(u)])' = S
  BY DEF StaleEmpty, S
<1>5. QED
  BY <1>3, <1>4 DEF OverloadInv, AtPollOrGauged

LEMMA PendingLeq ==
    ASSUME NEW u \in Section, Len(queue[u]) \in Nat, Len(queue'[u]) = Len(queue[u]),
           WillPush(u)' => WillPush(u)
    PROVE  Pending(u)' <= Pending(u)
  BY DEF Pending, One

LEMMA OverloadSection ==
    ASSUME TypeOK, TypeOK', OverloadInv, NEW s \in Running, SectionStep(s)
    PROVE  OverloadInv'
<1> USE RunningAssumption, ThreadMembers
<1>1. PcTypeOK /\ s \in Section /\ s \in Thread
  BY DEF TypeOK
<1>2. \A u \in Thread : u # s => pc'[u] = pc[u]
  BY <1>1, SectionPcStep
<1>3. StaleEmpty' => StaleEmpty
  BY <1>2 DEF StaleEmpty
<1>4. \A u \in Section : Len(queue[u]) \in Nat
  BY TotalType
<1>5. ASSUME \A u \in Section : overload'[u] = overload[u],
             pc'[s] \in {"announce", "logging", "raise"} => overload'[s]
      PROVE  AtPollOrGauged'
  BY <1>2, <1>5 DEF OverloadInv, AtPollOrGauged
<1>6. ASSUME \A u \in Section : Len(queue'[u]) = Len(queue[u]),
             \A u \in Section : WillPush(u)' => WillPush(u),
             AtPollOrGauged'
      PROVE  OverloadInv'
  <2>1. \A u \in Section : Pending(u)' <= Pending(u)
    BY <1>4, <1>6, PendingLeq
  <2>2. QED
    BY <1>3, <1>6, <2>1, PendingFalls
\* Steps that commit no thread to a train.
<1>7. ASSUME queue' = queue, clearance' = clearance, overload' = overload,
             pc'[s] \notin {"number", "enqueue", "recheck"},
             pc'[s] \in {"announce", "logging", "raise"} => overload[s]
      PROVE  OverloadInv'
  <2>1. ASSUME NEW u \in Section PROVE WillPush(u)' => WillPush(u)
    <3>1. CASE u = s
      BY <1>7, <3>1 DEF WillPush, Committed, Doubtful
    <3>2. CASE u # s
      BY <1>2, <1>7, <3>2 DEF WillPush, Committed, Doubtful
    <3>3. QED
      BY <3>1, <3>2
  <2>2. AtPollOrGauged'
    BY <1>5, <1>7
  <2>3. QED
    BY <1>6, <1>7, <2>1, <2>2
<1>8. CASE Poll(s) \/ LogOverload(s) \/ Record(s)
  <2>1. queue' = queue /\ clearance' = clearance /\ overload' = overload
    BY <1>8 DEF Poll, LogOverload, Record
  <2>2. pc'[s] \in {"gauge", "rest"} \/ (pc'[s] = "raise" /\ pc[s] = "logging")
    <3>1. \/ Goto(s, "poll", "gauge")
          \/ Goto(s, "logging", "raise")
          \/ Goto(s, "record", "rest")
      BY <1>8 DEF Poll, LogOverload, Record
    <3>2. CASE Goto(s, "poll", "gauge")
      BY <1>1, <3>2, GotoEffect
    <3>3. CASE Goto(s, "logging", "raise")
      BY <1>1, <3>3, GotoEffect
    <3>4. CASE Goto(s, "record", "rest")
      BY <1>1, <3>4, GotoEffect
    <3>5. QED
      BY <3>1, <3>2, <3>3, <3>4
  <2>3. QED
    BY <1>1, <1>7, <2>1, <2>2 DEF OverloadInv
<1>9. CASE Announce(s)
  <2>1. queue' = queue /\ clearance' = clearance /\ overload' = overload
    BY <1>9 DEF Announce
  <2>2. Goto(s, "announce", "raise") \/ Goto(s, "announce", "logging")
    BY <1>9 DEF Announce
  <2>3. pc[s] = "announce" /\ pc'[s] \in {"raise", "logging"}
    BY <1>1, <2>2, GotoEffect
  <2>4. QED
    BY <1>1, <1>7, <2>1, <2>3 DEF OverloadInv
<1>10. CASE Rest(s)
  <2>1. queue' = queue /\ clearance' = clearance /\ overload' = overload
    BY <1>10 DEF Rest
  <2>2. pc'[s] \in {"poll", "dead"}
    BY <1>1, <1>10, SleepEffect DEF Rest
  <2>3. QED
    BY <1>7, <2>1, <2>2
<1>11. CASE Spin(s)
  <2>1. pc' = pc /\ queue' = queue /\ clearance' = clearance /\ overload' = overload
    BY <1>11 DEF Spin, vars
  <2>2. pc[s] = "poll"
    BY <1>11 DEF Spin
  <2>3. QED
    BY <1>7, <2>1, <2>2
<1>12. CASE Gauge(s)
  <2>1. queue' = queue /\ clearance' = clearance /\ overload' = [overload EXCEPT ![s] = Overloaded]
    BY <1>12 DEF Gauge
  <2>2. /\ \A u \in Section : u # s => overload'[u] = overload[u]
        /\ overload'[s] = Overloaded
    BY <1>1, <2>1 DEF TypeOK
  <2>3. CASE Overloaded
    <3>1. Goto(s, "gauge", "announce")
      BY <1>12, <2>3 DEF Gauge
    <3>2. pc'[s] = "announce"
      BY <1>1, <3>1, GotoEffect
    <3>3. ASSUME NEW u \in Section PROVE WillPush(u)' => WillPush(u)
      <4>1. CASE u = s
        BY <3>2, <4>1 DEF WillPush, Committed, Doubtful
      <4>2. CASE u # s
        BY <1>2, <2>1, <2>2, <4>2 DEF WillPush, Committed, Doubtful
      <4>3. QED
        BY <4>1, <4>2
    <3>4. AtPollOrGauged'
      BY <1>2, <2>2, <2>3 DEF OverloadInv, AtPollOrGauged
    <3>5. QED
      BY <1>6, <2>1, <3>3, <3>4
  <2>4. CASE ~Overloaded
    <3>1. Total <= Threshold /\ Total \in Nat
      BY <2>4, TotalType, ThresholdAssumption DEF Overloaded
    <3>2. Goto(s, "gauge", "recheck")
      BY <1>12, <2>4 DEF Gauge
    <3>3. pc'[s] = "recheck"
      BY <1>1, <3>2, GotoEffect
    <3>4. AtPollOrGauged'
      BY <1>1, <1>2, <2>2, <3>3 DEF OverloadInv, AtPollOrGauged
    <3>5. Total' = Total
      BY <2>1 DEF Total
    <3>6. QED
      BY <3>1, <3>4, <3>5, PendingFew
  <2>5. QED
    BY <2>3, <2>4
<1>13. CASE Raise(s)
  <2>1. queue' = queue /\ clearance' = TRUE /\ overload' = overload /\ Goto(s, "raise", "recheck")
    BY <1>13 DEF Raise
  <2>2. pc'[s] = "recheck" /\ pc[s] = "raise"
    BY <1>1, <2>1, GotoEffect
  \* A thread that raises clearance has gauged an overload.
  <2>3. overload[s]
    BY <1>1, <2>2 DEF OverloadInv
  <2>4. ASSUME NEW u \in Section PROVE WillPush(u)' => WillPush(u)
    <3>1. CASE u = s
      BY <2>1, <2>2, <2>3, <3>1 DEF WillPush, Committed, Doubtful
    <3>2. CASE u # s
      BY <1>2, <2>1, <3>2 DEF WillPush, Committed, Doubtful
    <3>3. QED
      BY <3>1, <3>2
  <2>5. AtPollOrGauged'
    BY <1>5, <2>1, <2>2
  <2>6. QED
    BY <1>6, <2>1, <2>4, <2>5
<1>14. CASE Recheck(s)
  <2>1. queue' = queue /\ clearance' = clearance /\ overload' = overload
    BY <1>14 DEF Recheck
  <2>2. \/ clearance /\ Goto(s, "recheck", "poll")
        \/ ~clearance /\ Goto(s, "recheck", "number")
        \/ Goto(s, "recheck", "rest")
    BY <1>14 DEF Recheck
  <2>3. CASE Goto(s, "recheck", "poll") \/ Goto(s, "recheck", "rest")
    <3>1. pc'[s] \in {"poll", "rest"}
      BY <1>1, <2>3, GotoEffect
    <3>2. QED
      BY <1>7, <2>1, <3>1
  <2>4. CASE ~clearance /\ Goto(s, "recheck", "number")
    <3>1. pc[s] = "recheck" /\ pc'[s] = "number"
      BY <1>1, <2>4, GotoEffect
    <3>2. ASSUME NEW u \in Section PROVE WillPush(u)' => WillPush(u)
      <4>1. CASE u = s
        BY <2>4, <3>1, <4>1 DEF WillPush, Committed, Doubtful
      <4>2. CASE u # s
        BY <1>2, <2>1, <4>2 DEF WillPush, Committed, Doubtful
      <4>3. QED
        BY <4>1, <4>2
    <3>3. AtPollOrGauged'
      BY <1>5, <2>1, <3>1
    <3>4. QED
      BY <1>6, <2>1, <3>2, <3>3
  <2>5. QED
    BY <2>2, <2>3, <2>4
<1>15. CASE Number(s)
  <2>1. queue' = queue /\ clearance' = clearance /\ overload' = overload /\ Goto(s, "number", "enqueue")
    BY <1>15 DEF Number
  <2>2. pc[s] = "number" /\ pc'[s] = "enqueue"
    BY <1>1, <2>1, GotoEffect
  <2>3. ASSUME NEW u \in Section PROVE WillPush(u)' => WillPush(u)
    <3>1. CASE u = s
      BY <2>2, <3>1 DEF WillPush, Committed, Doubtful
    <3>2. CASE u # s
      BY <1>2, <2>1, <3>2 DEF WillPush, Committed, Doubtful
    <3>3. QED
      BY <3>1, <3>2
  <2>4. AtPollOrGauged'
    BY <1>5, <2>1, <2>2
  <2>5. QED
    BY <1>6, <2>1, <2>3, <2>4
<1>16. CASE Enqueue(s)
  <2>1. /\ clearance' = clearance /\ overload' = overload /\ Goto(s, "enqueue", "record")
        /\ queue' = [queue EXCEPT ![s] = Append(queue[s], train_id)]
    BY <1>16 DEF Enqueue
  <2>2. pc[s] = "enqueue" /\ pc'[s] = "record"
    BY <1>1, <2>1, GotoEffect
  <2>3. Len(queue'[s]) = Len(queue[s]) + 1 /\ \A u \in Section : u # s => queue'[u] = queue[u]
    BY <1>1, <2>1 DEF TypeOK
  <2>4. WillPush(s) /\ ~WillPush(s)'
    BY <2>2 DEF WillPush, Committed, Doubtful
  <2>5. Pending(s)' <= Pending(s)
    BY <1>1, <1>4, <2>3, <2>4 DEF Pending, One
  <2>6. ASSUME NEW u \in Section, u # s PROVE Pending(u)' <= Pending(u)
    <3>1. WillPush(u)' => WillPush(u)
      BY <1>2, <2>1, <2>6 DEF WillPush, Committed, Doubtful
    <3>2. QED
      BY <1>4, <2>3, <2>6, <3>1, PendingLeq
  <2>7. AtPollOrGauged'
    BY <1>5, <2>1, <2>2
  <2>8. QED
    BY <1>3, <2>5, <2>6, <2>7, PendingFalls
<1>17. QED
  BY <1>8, <1>9, <1>10, <1>11, <1>12, <1>13, <1>14, <1>15, <1>16 DEF SectionStep

\* When clearance is taken back, each thread that was held back by it alone may
\* add one train; until then the bound has been the lower one.
LEMMA PendingReset ==
    ASSUME TypeOK, TypeOK', OverloadInv, pc[CC] = "reset", pc'[CC] = "top",
           AtPollOrGauged', queue' = queue, \A u \in Section : pc'[u] = pc[u]
    PROVE  OverloadInv'
<1> DEFINE v == [u \in Section |-> Pending(u)']
           w == [u \in Section |-> Pending(u)]
           r == [u \in Section |-> One(u \in Running)]
<1>1. v \in [Section -> Nat] /\ w \in [Section -> Nat] /\ r \in [Section -> Nat]
  BY PendingType, PendingTypeNext, RunningType
<1>2. ASSUME NEW u \in Section PROVE v[u] <= w[u] + r[u]
  <2>1. Len(queue[u]) \in Nat /\ queue'[u] = queue[u]
    BY TotalType
  <2>2. WillPush(u)' => u \in Running
    BY DEF WillPush, Committed, Doubtful, AtPollOrGauged
  <2>3. One(WillPush(u))' <= One(WillPush(u)) + One(u \in Running)
    BY <2>2 DEF One
  <2> DEFINE l == Len(queue[u])
             a == One(WillPush(u))
             b == One(WillPush(u))'
             c == One(u \in Running)
  <2>4. Pending(u)' = l + b /\ Pending(u) = l + a
    BY <2>1 DEF Pending
  <2>5. l \in Nat /\ a \in Nat /\ b \in Nat /\ c \in Nat /\ b <= a + c
    BY <2>1, <2>3 DEF One
  <2>6. v[u] = l + b /\ w[u] = l + a /\ r[u] = c
    BY <2>4
  <2> HIDE DEF v, w, r, l, a, b, c
  <2>7. QED
    BY <2>5, <2>6
<1>3. Sum4(v) <= Sum4(w) + NumRunning
  <2> HIDE DEF v, w
  <2>1. QED
    BY <1>1, <1>2, SumBound DEF NumRunning
<1>4. Sum4(w) <= Threshold + NumRunning + 0
  BY DEF OverloadInv, StaleEmpty
<1>5. Sum4(v) \in Nat /\ Sum4(w) \in Nat
  BY <1>1, SumType
<1>6. Sum4(v) <= Threshold + NumRunning + NumRunning
  <2> HIDE DEF v, w
  <2>1. QED
    BY <1>3, <1>4, <1>5, RunningType, ThresholdAssumption
<1>7. ~StaleEmpty' /\ Sum4([u \in Section |-> Pending(u)])' = Sum4(v)
  BY DEF StaleEmpty, v
<1>8. QED
  BY <1>6, <1>7 DEF OverloadInv, AtPollOrGauged

LEMMA OverloadControlCenter ==
    ASSUME TypeOK, TypeOK', PickNonEmpty, OverloadInv, ControlCenterStep
    PROVE  OverloadInv'
<1> USE ThreadMembers
<1>1. PcTypeOK
  BY DEF TypeOK
<1>2. \A u \in Section : pc'[u] = pc[u]
  BY <1>1, ControlCenterPcStep
<1>3. overload' = overload
  BY DEF ControlCenterStep, Top, Idle, LogCleared, Reset, Pick, Copy, PushEntry,
         LogEntry, Front, Back, Exit
<1>4. AtPollOrGauged'
  BY <1>2, <1>3 DEF OverloadInv, AtPollOrGauged
<1>5. \A u \in Section : Len(queue[u]) \in Nat
  BY TotalType
<1>6. CASE Top
  <2>1. queue' = queue /\ clearance' = clearance
    BY <1>6 DEF Top
  <2>2. CASE AllEmpty
    \* Whatever is pending, no train waits.
    <3>1. Total' = 0
      BY <2>1, <2>2 DEF Total, AllEmpty
    <3>2. Total' \in Nat /\ Total' <= Threshold
      BY <3>1, ThresholdAssumption
    <3>3. QED
      BY <1>4, <3>2, PendingFew
  <2>3. CASE ~AllEmpty
    <3>1. Goto(CC, "top", "pick")
      BY <1>6, <2>3 DEF Top
    <3>2. pc'[CC] = "pick"
      BY <1>1, <3>1, GotoEffect
    <3>3. \A u \in Section : Pending(u)' <= Pending(u)
      <4>1. ASSUME NEW u \in Section PROVE WillPush(u)' => WillPush(u)
        BY <1>2, <1>3, <2>1 DEF WillPush, Committed, Doubtful
      <4>2. QED
        BY <1>5, <2>1, <4>1, PendingLeq
    <3>4. QED
      BY <1>4, <3>2, <3>3, PendingFalls DEF StaleEmpty
  <2>4. QED
    BY <2>2, <2>3
<1>7. CASE Reset
  <2>1. queue' = queue /\ Goto(CC, "reset", "top")
    BY <1>7 DEF Reset
  <2>2. pc[CC] = "reset" /\ pc'[CC] = "top"
    BY <1>1, <2>1, GotoEffect
  <2>3. QED
    BY <1>2, <1>4, <2>1, <2>2, PendingReset
<1>8. CASE Pick
  <2>1. Goto(CC, "pick", "copy") /\ clearance' = clearance
    BY <1>8 DEF Pick
  <2>2. pc[CC] = "pick" /\ pc'[CC] = "copy"
    BY <1>1, <2>1, GotoEffect
  <2>3. PICK s \in Section : PickFrom(s)
    BY <1>8 DEF Pick, PickFrom
  <2>4. queue[s] \in Seq(Nat) /\ queue[s] # <<>>
    BY <2>2, <2>3, CrowdedNonEmpty DEF TypeOK, PickNonEmpty, PickFrom
  <2>5. Len(Tail(queue[s])) <= Len(queue[s]) /\ Len(Tail(queue[s])) \in Nat
    BY <2>4
  <2>6. \A u \in Section : queue'[u] = IF u = s THEN Tail(queue[s]) ELSE queue[u]
    BY <2>3 DEF PickFrom, TypeOK
  <2>7. ASSUME NEW u \in Section PROVE Pending(u)' <= Pending(u)
    <3>1. Len(queue'[u]) <= Len(queue[u]) /\ Len(queue'[u]) \in Nat
      <4>1. CASE u = s
        BY <2>5, <2>6, <4>1
      <4>2. CASE u # s
        BY <1>5, <2>6, <4>2
      <4>3. QED
        BY <4>1, <4>2
    <3>2. WillPush(u)' => WillPush(u)
      BY <1>2, <1>3, <2>1 DEF WillPush, Committed, Doubtful
    <3>3. One(WillPush(u))' <= One(WillPush(u)) /\ One(WillPush(u)) \in Nat /\ One(WillPush(u))' \in Nat
      BY <3>2 DEF One
    <3> DEFINE l == Len(queue[u])
               k == Len(queue'[u])
               a == One(WillPush(u))
               b == One(WillPush(u))'
    <3>4. l \in Nat /\ k \in Nat /\ a \in Nat /\ b \in Nat /\ k <= l /\ b <= a
      BY <1>5, <3>1, <3>3
    <3>5. Pending(u)' = k + b /\ Pending(u) = l + a
      BY DEF Pending
    <3> HIDE DEF l, k, a, b
    <3>6. QED
      BY <3>4, <3>5
  <2>8. QED
    BY <1>4, <2>2, <2>7, PendingFalls DEF StaleEmpty
<1>9. CASE ~Top /\ ~Reset /\ ~Pick
  <2>1. queue' = queue /\ clearance' = clearance
    BY <1>9 DEF ControlCenterStep, Idle, LogCleared, Copy, PushEntry, LogEntry,
                Front, Back, Exit
  <2>2. ASSUME NEW u \in Section PROVE Pending(u)' <= Pending(u)
    <3>1. WillPush(u)' => WillPush(u)
      BY <1>2, <1>3, <2>1 DEF WillPush, Committed, Doubtful
    <3>2. QED
      BY <1>5, <2>1, <3>1, PendingLeq
  <2>3. pc[CC] # "top"
    BY <1>9 DEF ControlCenterStep, Idle, LogCleared, Copy, PushEntry, LogEntry,
                Front, Back, Exit, Goto, Sleep
  <2>4. StaleEmpty' => StaleEmpty
    BY <1>1, <2>3, ControlCenterPcStep DEF StaleEmpty
  <2>5. QED
    BY <1>4, <2>2, <2>4, PendingFalls
<1>10. QED
  BY <1>6, <1>7, <1>8, <1>9

-----------------------------------------------------------------------------
\* The numbers given out, the rows of the map and the trains that wait.
LEMMA RecordedSame ==
    ASSUME Recorded, queue' = queue, train_id' = train_id, train' \in {train, NoTrain},
           DOMAIN trainsHashMap' = DOMAIN trainsHashMap,
           Creating' = Creating,
           \A s \in Section : pc[s] = "record" => pc'[s] = "record"
    PROVE  Recorded'
<1>1. Newest' = Newest
  BY DEF Newest
<1>2. TrainsWaiting' = TrainsWaiting
  BY DEF TrainsWaiting, InQueue
<1>3. QED
  BY <1>1, <1>2 DEF Recorded

\* Nobody is about to create a train when trainMutex is free or held by another.
LEMMA Exclusive ==
    ASSUME LockInv, NEW s \in Section, pc[s] \in {"enqueue", "record"},
           NEW u \in Section, u # s
    PROVE  pc[u] \notin {"enqueue", "record"}
  BY DEF LockInv, Holding

LEMMA FreeLock ==
    ASSUME LockInv, trainMutex = 0
    PROVE  ~Creating /\ \A s \in Section : pc[s] # "record"
  BY ThreadMembers DEF LockInv, Holding, Creating

LEMMA RecordedSection ==
    ASSUME TypeOK, LockInv, Recorded, NEW s \in Section, SectionStep(s)
    PROVE  Recorded'
<1> USE ThreadMembers
<1>1. PcTypeOK
  BY DEF TypeOK
<1>2. \A u \in Thread : u # s => pc'[u] = pc[u]
  BY <1>1, SectionPcStep
<1>3. CASE Number(s)
  <2>1. /\ Goto(s, "number", "enqueue") /\ trainMutex = 0 /\ train_id' = train_id + 1
        /\ queue' = queue /\ trainsHashMap' = trainsHashMap /\ train' = train
    BY <1>3 DEF Number, NextId, ccvars
  <2>2. pc'[s] = "enqueue"
    BY <1>1, <2>1, GotoEffect
  <2>3. Newest = train_id /\ \A u \in Section : pc[u] # "record"
    BY <2>1, FreeLock DEF Newest
  <2>4. Newest' = train_id
    BY <2>1, <2>2 DEF Newest, Creating, TypeOK
  <2>5. TrainsWaiting' = TrainsWaiting
    BY <2>1 DEF TrainsWaiting, InQueue
  <2>6. QED
    BY <2>1, <2>3, <2>4, <2>5 DEF Recorded
<1>4. CASE Enqueue(s)
  <2>1. /\ Goto(s, "enqueue", "record") /\ train_id' = train_id
        /\ queue' = [queue EXCEPT ![s] = Append(queue[s], train_id)]
        /\ trainsHashMap' = trainsHashMap /\ train' = train
    BY <1>4 DEF Enqueue, ccvars
  <2>2. pc[s] = "enqueue" /\ pc'[s] = "record"
    BY <1>1, <2>1, GotoEffect
  <2>3. Newest = train_id - 1 /\ Newest' = train_id - 1
    BY <2>1, <2>2 DEF Newest, Creating
  <2>4. \A u \in Section : pc[u] # "record"
    BY <2>2, Exclusive
  <2>5. \A u \in Section : InQueue(u)' \subseteq InQueue(u) \union {train_id}
    <3>1. ASSUME NEW u \in Section PROVE InQueue(u)' \subseteq InQueue(u) \union {train_id}
      <4>1. queue[u] \in Seq(Nat) /\ queue'[u] = IF u = s THEN Append(queue[u], train_id) ELSE queue[u]
        BY <2>1 DEF TypeOK
      <4>2. train_id \in Nat
        BY <2>3 DEF Recorded, TypeOK
      <4>3. \A i \in 1 .. Len(queue'[u]) : queue'[u][i] \in InQueue(u) \union {train_id}
        <5>1. CASE u = s
          <6>1. ASSUME NEW i \in 1 .. Len(Append(queue[u], train_id))
                PROVE  Append(queue[u], train_id)[i] \in InQueue(u) \union {train_id}
            <7>1. i \in 1 .. Len(queue[u]) \/ i = Len(queue[u]) + 1
              BY <4>1, <4>2
            <7>2. CASE i \in 1 .. Len(queue[u])
              <8>1. Append(queue[u], train_id)[i] = queue[u][i]
                BY <4>1, <4>2, <7>2
              <8>2. QED
                BY <7>2, <8>1 DEF InQueue
            <7>3. CASE i = Len(queue[u]) + 1
              BY <4>1, <4>2, <7>3
            <7>4. QED
              BY <7>1, <7>2, <7>3
          <6>2. QED
            BY <4>1, <5>1, <6>1
        <5>2. CASE u # s
          BY <4>1, <5>2 DEF InQueue
        <5>3. QED
          BY <5>1, <5>2
      <4>4. QED
        BY <4>3 DEF InQueue
    <3>2. QED
      BY <3>1
  <2>6. TrainsWaiting' \subseteq TrainsWaiting \union {train_id}
    BY <2>5 DEF TrainsWaiting
  <2>7. QED
    BY <2>1, <2>2, <2>3, <2>4, <2>6 DEF Recorded
<1>5. CASE Record(s)
  <2>1. /\ Goto(s, "record", "rest") /\ train_id' = train_id /\ queue' = queue /\ train' = train
        /\ DOMAIN trainsHashMap' = DOMAIN trainsHashMap \union {train_id}
    BY <1>5 DEF Record, ccvars
  <2>2. pc[s] = "record" /\ pc'[s] = "rest"
    BY <1>1, <2>1, GotoEffect
  <2>3. Newest = train_id - 1 /\ train_id \in Nat
    BY <2>2 DEF Newest, Creating, Recorded, TypeOK
  <2>4. \A u \in Section : pc'[u] \notin {"enqueue", "record"}
    <3>1. \A u \in Section : u # s => pc'[u] = pc[u]
      BY <1>2
    <3>2. \A u \in Section : u # s => pc[u] \notin {"enqueue", "record"}
      BY <2>2, Exclusive
    <3>3. QED
      BY <2>2, <3>1, <3>2
  <2>5. Newest' = train_id
    BY <2>1, <2>4 DEF Newest, Creating
  <2>6. TrainsWaiting' = TrainsWaiting
    BY <2>1 DEF TrainsWaiting, InQueue
  <2>7. 0 .. train_id = (0 .. train_id - 1) \union {train_id}
    BY <2>3
  <2>8. \A id \in TrainsWaiting : id <= train_id
    <3>1. TrainsWaiting \in SUBSET Nat
      BY WaitingType
    <3>2. QED
      BY <2>3, <3>1 DEF Recorded
  <2>9. QED
    BY <2>1, <2>3, <2>5, <2>6, <2>7, <2>8 DEF Recorded
<1>6. CASE ~Number(s) /\ ~Enqueue(s) /\ ~Record(s)
  <2>1. UNCHANGED <<queue, train_id, train, trainsHashMap>>
    BY <1>6 DEF SectionStep, Poll, Spin, Gauge, Announce, LogOverload, Raise,
                Recheck, Rest, vars, ccvars
  <2>2. pc[s] \notin {"enqueue", "record"}
    BY <1>6 DEF SectionStep, Poll, Spin, Gauge, Announce, LogOverload, Raise,
                Recheck, Rest, Goto, Sleep
  <2>3. pc'[s] \notin {"enqueue", "record"}
    BY <1>1, <1>6, SectionPcQuiet
  <2>4. Creating' = Creating
    BY <1>2, <2>2, <2>3 DEF Creating
  <2>5. QED
    BY <1>2, <2>1, <2>2, <2>4, RecordedSame
<1>7. QED
  BY <1>3, <1>4, <1>5, <1>6

LEMMA RecordedControlCenter ==
    ASSUME TypeOK, LockInv, PickNonEmpty, Recorded, ControlCenterStep
    PROVE  Recorded'
<1> USE ThreadMembers
<1>1. PcTypeOK
  BY DEF TypeOK
<1>2. \A u \in Section : pc'[u] = pc[u]
  BY <1>1, ControlCenterPcStep
<1>3. Creating' = Creating
  BY <1>2 DEF Creating
<1>4. train_id' = train_id
  BY DEF ControlCenterStep, Top, Idle, LogCleared, Reset, Pick, Copy, PushEntry,
         LogEntry, Front, Back, Exit
<1>5. CASE Pick
  <2>1. trainMutex = 0 /\ pc[CC] = "pick" /\ trainsHashMap' = trainsHashMap
    BY <1>5 DEF Pick, Goto
  <2>2. PICK s \in Section : PickFrom(s)
    BY <1>5 DEF Pick, PickFrom
  <2>3. queue[s] \in Seq(Nat) /\ queue[s] # <<>>
    BY <2>1, <2>2, CrowdedNonEmpty DEF TypeOK, PickNonEmpty, PickFrom
  <2>4. Head(queue[s]) \in InQueue(s)
    <3>1. Len(queue[s]) > 0 /\ Head(queue[s]) = queue[s][1] /\ Len(queue[s]) \in Nat
      BY <2>3
    <3>2. QED
      BY <3>1 DEF InQueue
  <2>5. Head(queue[s]) \in TrainsWaiting /\ Head(queue[s]) \in Nat
    BY <2>4, WaitingType DEF TrainsWaiting
  <2>6. Newest = train_id /\ \A u \in Section : pc[u] # "record"
    BY <2>1, FreeLock DEF Newest
  <2>7. Head(queue[s]) \in DOMAIN trainsHashMap
    <3>1. Head(queue[s]) <= Newest /\ Newest \in Int
      BY <2>5, <2>6 DEF Recorded, TypeOK
    <3>2. QED
      BY <2>5, <3>1 DEF Recorded
  <2>8. \A u \in Section : InQueue(u)' \subseteq InQueue(u)
    <3>1. ASSUME NEW u \in Section PROVE InQueue(u)' \subseteq InQueue(u)
      <4>1. queue'[u] = IF u = s THEN Tail(queue[s]) ELSE queue[u]
        BY <2>2 DEF PickFrom, TypeOK
      <4>2. CASE u = s
        <5>1. ASSUME NEW i \in 1 .. Len(Tail(queue[s])) PROVE Tail(queue[s])[i] \in InQueue(s)
          <6>1. Tail(queue[s])[i] = queue[s][i + 1] /\ i + 1 \in 1 .. Len(queue[s])
            BY <2>3
          <6>2. QED
            BY <6>1 DEF InQueue
        <5>2. QED
          BY <4>1, <4>2, <5>1 DEF InQueue
      <4>3. CASE u # s
        BY <4>1, <4>3 DEF InQueue
      <4>4. QED
        BY <4>2, <4>3
    <3>2. QED
      BY <3>1
  <2>9. TrainsWaiting' \subseteq TrainsWaiting
    BY <2>8 DEF TrainsWaiting
  <2>10. Newest' = Newest
    BY <1>3, <1>4 DEF Newest
  <2>11. QED
    BY <2>1, <2>2, <2>6, <2>7, <2>9, <2>10 DEF Recorded, PickFrom
<1>6. CASE ~Pick
  <2>1. queue' = queue /\ train' \in {train, NoTrain}
    BY <1>6 DEF ControlCenterStep, Top, Idle, LogCleared, Reset, Copy, PushEntry,
                LogEntry, Front, Back, Exit, ccvars
  <2>2. DOMAIN trainsHashMap' = DOMAIN trainsHashMap
    BY <1>6 DEF ControlCenterStep, Top, Idle, LogCleared, Reset, Copy, PushEntry,
                LogEntry, Front, Back, Exit, ccvars
  <2>3. QED
    BY <1>2, <1>3, <1>4, <2>1, <2>2, RecordedSame
<1>7. QED
  BY <1>5, <1>6

-----------------------------------------------------------------------------
(* The inductive invariant. *)

LEMMA InitIInv == Init => IInv
<1> SUFFICES ASSUME Init PROVE IInv
  OBVIOUS
<1> USE ThreadMembers
<1>1. /\ pc[CC] = "top" /\ \A s \in Section : pc[s] = "poll"
      /\ pc \in [Thread -> SectionPc \union CCPc]
  BY DEF Init, Thread, SectionPc, CCPc
<1>2. TypeOK
  <2>1. PcTypeOK
    BY <1>1 DEF PcTypeOK, SectionPc, CCPc
  <2>2. /\ queue \in [Section -> Seq(Nat)] /\ DOMAIN trainsHashMap \subseteq Nat
        /\ trainsHashMap \in [DOMAIN trainsHashMap -> Row]
    BY DEF Init
  <2>3. ControlLog!QTypeOK
    <3>1. <<>> \in Seq(ControlLog!Event) /\ 0 \in Nat
      OBVIOUS
    <3>2. QED
      BY <3>1 DEF Init, ControlLog!QInit, ControlLog!QTypeOK
  <2>4. /\ train_id \in Nat \union {-1}
        /\ trainMutex \in Section \union {0} /\ copied \in 0 .. 4
        /\ clearance \in BOOLEAN /\ tunnelMutex \in BOOLEAN
        /\ overload \in [Section -> BOOLEAN]
    <3>1. train_id \in Nat \union {-1} /\ trainMutex \in Section \union {0} /\ copied \in 0 .. 4
      BY DEF Init
    <3>2. clearance \in BOOLEAN /\ tunnelMutex \in BOOLEAN
      BY Zenon DEF Init
    <3>3. overload \in [Section -> BOOLEAN]
      BY Zenon DEF Init
    <3>4. QED
      BY <3>1, <3>2, <3>3
  <2>5. train \in Nat \union {NoTrain} /\ cancels \in 0 .. CC
    BY DEF Init
  <2>6. entry \in ControlLog!Event
    BY UnconstructedType DEF Init
  <2>7. QED
    BY <2>1, <2>2, <2>3, <2>4, <2>5, <2>6 DEF TypeOK
<1>3. LockInv
  BY <1>1 DEF LockInv, Holding, Init
<1>4. TunnelInv
  BY <1>1 DEF TunnelInv, Init
<1>5. ~Creating
  BY <1>1 DEF Creating
<1>6. Recorded
  <2>1. Newest = -1 /\ 0 .. -1 = {}
    BY <1>5 DEF Newest, Init
  <2>2. TrainsWaiting = {} /\ DOMAIN trainsHashMap = {}
    BY DEF TrainsWaiting, InQueue, Init
  <2>3. QED
    BY <2>1, <2>2 DEF Recorded, Init
<1>7. OverloadInv
  <2>1. Sum4([s \in Section |-> Pending(s)]) <= Total + NumRunning
    BY <1>1, <1>2, PendingBound
  <2>2. Total = 0
    BY DEF Total, Sum4, Init, Section
  <2>3. Sum4([s \in Section |-> Pending(s)]) \in Nat
    BY <1>2, PendingType, SumType
  <2>4. ~StaleEmpty
    BY <1>1 DEF StaleEmpty
  <2> DEFINE w == Sum4([s \in Section |-> Pending(s)])
             n == NumRunning
  <2>5. w <= Threshold + n + n
    <3>1. w \in Nat /\ n \in Nat /\ Threshold \in Nat /\ w <= 0 + n
      BY <2>1, <2>2, <2>3, RunningType, ThresholdAssumption
    <3> HIDE DEF w, n
    <3>2. QED
      BY <3>1
  <2>6. QED
    BY <1>1, <2>4, <2>5 DEF OverloadInv
<1>8. PickNonEmpty
  BY <1>1 DEF PickNonEmpty
<1>9. QED
  BY <1>2, <1>3, <1>4, <1>6, <1>7, <1>8 DEF IInv

\* cancels is in no other conjunct than its type.
LEMMA CancelIInv ==
    ASSUME IInv, cancels' \in 0 .. CC,
           UNCHANGED <<pc, queue, trainsHashMap, train_id, clearance, trainMutex,
                       overload, ccvars, logvars>>
    PROVE  IInv'
<1> USE DEF ccvars, logvars
<1>1. TypeOK'
  BY DEF IInv, TypeOK, PcTypeOK, ControlLog!QTypeOK
<1>2. LockInv' /\ TunnelInv'
  BY DEF IInv, LockInv, TunnelInv
<1>3. TrainsWaiting' = TrainsWaiting /\ Newest' = Newest /\ Total' = Total
  BY DEF TrainsWaiting, InQueue, Newest, Creating, Total
<1>4. Recorded'
  BY <1>3 DEF IInv, Recorded
<1>5. PickNonEmpty'
  BY <1>3 DEF IInv, PickNonEmpty
<1>6. OverloadInv'
  <2>1. StaleEmpty' = StaleEmpty /\ \A s \in Section : Pending(s)' = Pending(s)
    BY DEF StaleEmpty, Pending, WillPush, Committed, Doubtful
  <2>2. QED
    BY <2>1 DEF IInv, OverloadInv
<1>7. QED
  BY <1>1, <1>2, <1>4, <1>5, <1>6 DEF IInv

LEMMA NextIInv == IInv /\ [Next]_vars => IInv'
<1> SUFFICES ASSUME IInv, [Next]_vars PROVE IInv'
  OBVIOUS
<1>1. /\ TypeOK /\ PcTypeOK /\ LockInv /\ TunnelInv
      /\ Recorded /\ OverloadInv /\ PickNonEmpty
  BY DEF IInv, TypeOK
<1>2. ASSUME NEW s \in Running, SectionStep(s) PROVE IInv'
  <2>1. s \in Section
    BY RunningAssumption
  <2>2. TypeOK'
    BY <1>1, <1>2, <2>1, SectionTypeStep
  <2>3. LockInv'
    BY <1>1, <1>2, <2>1, LockSection
  <2>4. TunnelInv'
    BY <1>1, <1>2, <2>1, TunnelSection
  <2>5. Recorded'
    BY <1>1, <1>2, <2>1, RecordedSection
  <2>6. OverloadInv'
    BY <1>1, <1>2, <2>2, OverloadSection
  <2>7. PickNonEmpty'
    BY <1>1, <1>2, <2>1, <2>2, PickSection
  <2>8. QED
    BY <2>2, <2>3, <2>4, <2>5, <2>6, <2>7 DEF IInv
<1>3. CASE ControlCenterStep
  <2>1. TypeOK'
    BY <1>1, <1>3, ControlCenterTypeStep
  <2>2. LockInv'
    BY <1>1, <1>3, LockControlCenter
  <2>3. TunnelInv'
    BY <1>1, <1>3, TunnelControlCenter
  <2>4. Recorded'
    BY <1>1, <1>3, RecordedControlCenter
  <2>5. OverloadInv'
    BY <1>1, <1>3, <2>1, OverloadControlCenter
  <2>6. PickNonEmpty'
    BY <1>1, <1>3, PickControlCenter
  <2>7. QED
    BY <2>1, <2>2, <2>3, <2>4, <2>5, <2>6 DEF IInv
<1>4. CASE Cancel
  <2>1. cancels' \in 0 .. CC
    BY <1>4, RunningAssumption DEF Cancel, Section, CC
  <2>2. QED
    BY <1>4, <2>1, CancelIInv DEF Cancel
<1>5. CASE UNCHANGED vars
  <2>1. cancels' \in 0 .. CC
    BY <1>1, <1>5 DEF TypeOK, vars
  <2>2. QED
    BY <1>5, <2>1, CancelIInv DEF vars
<1>6. CASE Stopped
  BY <1>5, <1>6 DEF Stopped
<1>7. QED
  BY <1>2, <1>3, <1>4, <1>5, <1>6 DEF Next

\* The invariant of the thread model, for every number of section threads,
\* threshold and number of trains (main.cpp:101-266).
THEOREM MetroInvariant == Spec => []IInv
<1>1. QED
  BY InitIInv, NextIInv, PTL DEF Spec

\* The variables keep their types; in particular Head and Tail are never
\* applied to an empty queue (main.cpp:122-139).
THEOREM MetroTypeCorrect == Spec => []TypeOK
<1>1. IInv => TypeOK
  BY DEF IInv
<1>2. QED
  BY <1>1, MetroInvariant, PTL

\* The control center finds a train when it picks one, although it released
\* trainMutex after its test (main.cpp:108, 118).
THEOREM MetroPickNonEmpty == Spec => []PickNonEmpty
<1>1. IInv => PickNonEmpty
  BY DEF IInv
<1>2. QED
  BY <1>1, MetroInvariant, PTL

\* Every number given out has its row in trainsHashMap, and every train that
\* waits or is in the tunnel is among them (main.cpp:233, 243-254).
THEOREM MetroRecorded == Spec => []Recorded
<1>1. IInv => Recorded
  BY DEF IInv
<1>2. QED
  BY <1>1, MetroInvariant, PTL

\* The number of waiting trains overshoots the threshold by at most two for
\* each section thread (main.cpp:199, 211, 243-251).
THEOREM MetroOverloadBound == Spec => []OverloadBound
<1>1. IInv => OverloadBound
  <2> SUFFICES ASSUME IInv PROVE OverloadBound
    OBVIOUS
  <2> DEFINE l == [s \in Section |-> Len(queue[s])]
             w == [s \in Section |-> Pending(s)]
  <2>1. TypeOK /\ OverloadInv
    BY DEF IInv
  <2>2. l \in [Section -> Nat] /\ w \in [Section -> Nat]
    BY <2>1, TotalType, PendingType
  <2>3. ASSUME NEW s \in Section PROVE l[s] <= w[s]
    <3>1. Len(queue[s]) \in Nat /\ One(WillPush(s)) \in Nat
      BY <2>1, TotalType DEF One
    <3>2. QED
      BY <3>1 DEF Pending
  <2>4. Sum4(l) \in Nat /\ Sum4(w) \in Nat
    BY <2>2, SumType
  <2>5. Sum4(w) <= Threshold + NumRunning + (IF StaleEmpty THEN 0 ELSE NumRunning)
    BY <2>1 DEF OverloadInv
  <2>6. Total = Sum4(l)
    BY DEF Total
  <2> HIDE DEF l, w
  <2>7. Sum4(l) <= Sum4(w)
    BY <2>2, <2>3, SumLeq
  <2> DEFINE n == NumRunning
             a == Sum4(l)
             b == Sum4(w)
  <2>8. n \in Nat /\ Threshold \in Nat /\ a \in Nat /\ b \in Nat /\ a <= b
    BY <2>4, <2>7, RunningType, ThresholdAssumption
  <2>9. b <= Threshold + n + 0 \/ b <= Threshold + n + n
    BY <2>5
  <2> HIDE DEF n, a, b
  <2>10. a <= Threshold + 2 * n
    BY <2>8, <2>9
  <2>11. QED
    BY <2>6, <2>10 DEF OverloadBound, n, a
<1>2. QED
  BY <1>1, MetroInvariant, PTL
=============================================================================
