------------------------ MODULE MetroImplementsLine -------------------------
(***************************************************************************)
(* The threads of module Metro implement module MetroLine, and, with the   *)
(* order of the queues that follows from it, write the passings of each    *)
(* section to the control log in order.                                    *)
(***************************************************************************)
EXTENDS MetroProofs

\* What the refinement mapping substitutes for born.
Born == IF \E s \in Section : pc[s] = "enqueue" THEN train_id ELSE train_id + 1

\* The mapped state does not change.
Stutter ==
    queue' = queue /\ train' = train /\ Arrived' = Arrived /\ Born' = Born

LEMMA StutterStep == Stutter => UNCHANGED Line!lvars
  BY DEF Stutter, Line!lvars, Born

LEMMA SameMap ==
    ASSUME trainsHashMap' = trainsHashMap
    PROVE  Arrived' = Arrived
  BY DEF Arrived

\* born changes only when a section thread leaves the step that adds its train
\* to the queue.
LEMMA SameBorn ==
    ASSUME train_id' = train_id,
           \A s \in Section : pc[s] = "enqueue" <=> pc'[s] = "enqueue"
    PROVE  Born' = Born
  BY DEF Born

LEMMA InitLine == Init => Line!LInit
<1> SUFFICES ASSUME Init PROVE Line!LInit
  OBVIOUS
<1>1. \A s \in Section : pc[s] = "poll"
  BY ThreadMembers DEF Init
<1>2. Born = 0
  BY <1>1 DEF Init, Born
<1>3. Arrived = {}
  BY DEF Init, Arrived
<1>4. queue = [s \in Line!Section |-> <<>>] /\ train = NoTrain
  BY DEF Init, Section, Line!Section
<1>5. QED
  BY <1>2, <1>3, <1>4 DEF Line!LInit, Born, NoTrain, Line!NoTrain

LEMMA SectionLine ==
    ASSUME IInv, NEW s \in Section, SectionStep(s)
    PROVE  Line!Arrive(s) \/ Stutter
<1> USE ThreadMembers
<1>1. TypeOK /\ PcTypeOK /\ LockInv /\ Recorded
  BY DEF IInv, TypeOK
<1>2. \A u \in Thread : u # s => pc'[u] = pc[u]
  BY <1>1, SectionPcStep
<1>3. CASE Number(s)
  <2>1. /\ Goto(s, "number", "enqueue") /\ trainMutex = 0 /\ train_id' = train_id + 1
        /\ queue' = queue /\ trainsHashMap' = trainsHashMap /\ train' = train
    BY <1>3 DEF Number, NextId, ccvars
  <2>2. pc'[s] = "enqueue"
    BY <1>1, <2>1, GotoEffect
  <2>3. \A u \in Section : pc[u] # "enqueue"
    BY <1>1, <2>1, FreeLock DEF Creating
  <2>4. Born = train_id + 1 /\ Born' = train_id + 1
    BY <2>1, <2>2, <2>3 DEF Born
  <2>5. QED
    BY <2>1, <2>4, SameMap DEF Stutter
<1>4. CASE Enqueue(s)
  <2>1. /\ Goto(s, "enqueue", "record") /\ train_id' = train_id /\ train' = train
        /\ queue' = [queue EXCEPT ![s] = Append(@, train_id)]
        /\ trainsHashMap' = trainsHashMap
    BY <1>4 DEF Enqueue, ccvars
  <2>2. pc[s] = "enqueue" /\ pc'[s] = "record"
    BY <1>1, <2>1, GotoEffect
  <2>3. \A u \in Section : pc'[u] # "enqueue"
    <3>1. \A u \in Section : u # s => pc'[u] = pc[u]
      BY <1>2
    <3>2. \A u \in Section : u # s => pc[u] # "enqueue"
      BY <1>1, <2>2, Exclusive
    <3>3. QED
      BY <2>2, <3>1, <3>2
  <2>4. Born = train_id /\ Born' = train_id + 1
    BY <2>1, <2>2, <2>3 DEF Born
  <2>5. Arrived' = Arrived
    BY <2>1, SameMap
  <2>6. QED
    BY <2>1, <2>4, <2>5 DEF Line!Arrive, Born
<1>5. CASE Record(s)
  <2>1. /\ Goto(s, "record", "rest") /\ train_id' = train_id /\ queue' = queue /\ train' = train
        /\ trainsHashMap' = [id \in DOMAIN trainsHashMap \union {train_id} |->
                                IF id = train_id THEN NewRow(s) ELSE trainsHashMap[id]]
    BY <1>5 DEF Record, ccvars
  <2>2. pc[s] = "record" /\ pc'[s] = "rest"
    BY <1>1, <2>1, GotoEffect
  <2>3. train_id \notin DOMAIN trainsHashMap
    BY <1>1, <2>2 DEF Recorded, Newest, Creating, TypeOK
  <2>4. Arrived' = Arrived
    BY <2>1, <2>3 DEF Arrived, NewRow
  <2>5. Born' = Born
    BY <1>2, <2>1, <2>2, SameBorn
  <2>6. QED
    BY <2>1, <2>4, <2>5 DEF Stutter
<1>6. CASE ~Number(s) /\ ~Enqueue(s) /\ ~Record(s)
  <2>1. UNCHANGED <<queue, train_id, train, trainsHashMap>>
    BY <1>6 DEF SectionStep, Poll, Spin, Gauge, Announce, LogOverload, Raise,
                Recheck, Rest, vars, ccvars
  <2>2. pc[s] # "enqueue"
    BY <1>6 DEF SectionStep, Poll, Spin, Gauge, Announce, LogOverload, Raise,
                Recheck, Rest, Goto, Sleep
  <2>3. pc'[s] # "enqueue"
    BY <1>1, <1>6, SectionPcQuiet
  <2>4. Born' = Born
    BY <1>2, <2>1, <2>2, <2>3, SameBorn
  <2>5. QED
    BY <2>1, <2>4, SameMap DEF Stutter
<1>7. QED
  BY <1>3, <1>4, <1>5, <1>6

LEMMA ControlCenterLine ==
    ASSUME IInv, ControlCenterStep
    PROVE  (\E s \in Section : Line!Enter(s)) \/ Line!Leave \/ Stutter
<1> USE ThreadMembers
<1>1. TypeOK /\ PcTypeOK /\ TunnelInv /\ Recorded /\ PickNonEmpty
  BY DEF IInv, TypeOK
<1>2. \A u \in Section : pc'[u] = pc[u]
  BY <1>1, ControlCenterPcStep
<1>3. train_id' = train_id
  BY DEF ControlCenterStep, Top, Idle, LogCleared, Reset, Pick, Copy, PushEntry,
         LogEntry, Front, Back, Exit
<1>4. Born' = Born
  BY <1>2, <1>3, SameBorn
<1>5. CASE Pick
  <2>1. pc[CC] = "pick" /\ trainsHashMap' = trainsHashMap
    BY <1>5 DEF Pick, Goto
  <2>2. PICK s \in Section : PickFrom(s)
    BY <1>5 DEF Pick, PickFrom
  <2>3. queue[s] # <<>>
    BY <1>1, <2>1, <2>2, CrowdedNonEmpty DEF PickNonEmpty, PickFrom
  <2>4. train = NoTrain
    BY <1>1, <2>1 DEF TunnelInv
  <2>5. Line!Crowded(s)
    BY <2>2 DEF PickFrom, Crowded, Line!Crowded, Section, Line!Section
  <2>6. Arrived' = Arrived
    BY <2>1, SameMap
  <2>7. Line!Enter(s)
    BY <1>4, <2>2, <2>3, <2>4, <2>5, <2>6 DEF PickFrom, Line!Enter, Born, NoTrain, Line!NoTrain
  <2>8. QED
    BY <2>7
<1>6. CASE Exit
  <2>1. /\ pc[CC] = "exit" /\ queue' = queue /\ train' = NoTrain
        /\ trainsHashMap' = [trainsHashMap EXCEPT ![train].arrived = TRUE]
    BY <1>6 DEF Exit, Goto
  <2>2. train # NoTrain /\ train \in DOMAIN trainsHashMap
    BY <1>1, <2>1 DEF TunnelInv, Recorded
  <2>3. Arrived' = Arrived \union {train}
    <3>1. DOMAIN trainsHashMap' = DOMAIN trainsHashMap
      BY <2>1
    <3>2. \A id \in DOMAIN trainsHashMap : trainsHashMap[id] \in Row
      BY <1>1 DEF TypeOK
    <3>3. trainsHashMap'[train].arrived = TRUE
      BY <2>1, <2>2, <3>2 DEF Row
    <3>4. \A id \in DOMAIN trainsHashMap : id # train => trainsHashMap'[id] = trainsHashMap[id]
      BY <2>1
    <3>5. QED
      BY <2>2, <3>1, <3>3, <3>4 DEF Arrived
  <2>4. Line!Leave
    BY <1>4, <2>1, <2>2, <2>3 DEF Line!Leave, Born, NoTrain, Line!NoTrain
  <2>5. QED
    BY <2>4
<1>7. CASE ~Pick /\ ~Exit
  <2>1. UNCHANGED <<queue, train, trainsHashMap>>
    BY <1>7 DEF ControlCenterStep, Top, Idle, LogCleared, Reset, Copy, PushEntry,
                LogEntry, Front, Back, ccvars
  <2>2. QED
    BY <1>4, <2>1, SameMap DEF Stutter
<1>8. QED
  BY <1>5, <1>6, <1>7

LEMMA NextLine == IInv /\ [Next]_vars => [Line!LNext]_(Line!lvars)
<1> SUFFICES ASSUME IInv, [Next]_vars PROVE [Line!LNext]_(Line!lvars)
  OBVIOUS
<1>1. ASSUME NEW s \in Running, SectionStep(s) PROVE [Line!LNext]_(Line!lvars)
  <2>1. s \in Section /\ s \in Line!Section
    BY RunningAssumption DEF Section, Line!Section
  <2>2. Line!Arrive(s) \/ Stutter
    BY <1>1, <2>1, SectionLine
  <2>3. QED
    BY <2>1, <2>2, StutterStep DEF Line!LNext
<1>2. CASE ControlCenterStep
  <2>1. (\E s \in Section : Line!Enter(s)) \/ Line!Leave \/ Stutter
    BY <1>2, ControlCenterLine
  <2>2. Section = Line!Section
    BY DEF Section, Line!Section
  <2>3. QED
    BY <2>1, <2>2, StutterStep DEF Line!LNext
<1>3. CASE Cancel
  <2>1. Stutter
    BY <1>3, SameMap DEF Cancel, Stutter, Born, ccvars
  <2>2. QED
    BY <2>1, StutterStep
<1>4. CASE UNCHANGED vars
  <2>1. Stutter
    BY <1>4, SameMap DEF vars, Stutter, Born, ccvars
  <2>2. QED
    BY <2>1, StutterStep
<1>5. CASE Stopped
  BY <1>4, <1>5 DEF Stopped
<1>6. QED
  BY <1>1, <1>2, <1>3, <1>4, <1>5 DEF Next

\* The threads of the simulation take its trains through the tunnel as
\* MetroLine says: a train enters only when the tunnel is free and from the
\* most crowded section, and none is lost, whatever the interleaving of
\* sectionFunction, controlCenter and the cancellation (main.cpp:101-266).
THEOREM MetroImplements == Spec => LineSpec
<1>1. QED
  BY InitLine, NextLine, MetroInvariant, PTL DEF Spec, LineSpec, Line!LSpec

-----------------------------------------------------------------------------
\* What module MetroLineProofs proves of the abstract specification.
LineFacts == INSTANCE MetroLineProofs WITH
                 waiting <- queue, tunnel <- train, arrived <- Arrived, born <- Born

LEMMA SameLine == LineSpec => LineFacts!LSpec
<1>1. Line!LInit => LineFacts!LInit
  BY DEF Line!LInit, LineFacts!LInit, Born, Line!Section, LineFacts!Section,
         Line!NoTrain, LineFacts!NoTrain
<1>2. [Line!LNext]_(Line!lvars) => [LineFacts!LNext]_(LineFacts!lvars)
  BY DEF Line!LNext, LineFacts!LNext, Line!lvars, LineFacts!lvars, Born,
         Line!Section, LineFacts!Section, Line!Arrive, LineFacts!Arrive,
         Line!Enter, LineFacts!Enter, Line!Crowded, LineFacts!Crowded,
         Line!Leave, LineFacts!Leave, Line!NoTrain, LineFacts!NoTrain
<1>3. QED
  BY <1>1, <1>2, PTL DEF LineSpec, Line!LSpec, LineFacts!LSpec

\* No train is lost or in two places, whatever the interleaving of the threads.
THEOREM MetroOnePlace == Spec => []OnePlace
<1>1. LineFacts!OnePlace => OnePlace
  BY DEF OnePlace, LineFacts!OnePlace, Line!OnePlace, Born, LineFacts!Waiting, Line!Waiting,
         LineFacts!InQueue, Line!InQueue, Line!Section, LineFacts!Section,
         Line!NoTrain, LineFacts!NoTrain
<1>2. QED
  BY <1>1, MetroImplements, SameLine, LineFacts!LineOnePlace, PTL

\* Each section's queue is in the order of the numbers.
THEOREM MetroQueueOrder == Spec => []QueueOrder
<1>1. LineFacts!QueueOrder => QueueOrder
  BY DEF QueueOrder, LineFacts!QueueOrder, Line!QueueOrder, Line!Section, LineFacts!Section
<1>2. QED
  BY <1>1, MetroImplements, SameLine, LineFacts!LineQueueOrder, PTL

-----------------------------------------------------------------------------
(***************************************************************************)
(* The control log.  The queue of events is pushed to without a common     *)
(* lock, but two facts keep the passings in order: only one section thread *)
(* at a time pushes, because a push is inside trainMutex, and none does    *)
(* when the control center begins a passing, because Pick takes            *)
(* trainMutex.                                                             *)
(***************************************************************************)

\* The cells that hold a "Tunnel Passing" event.
OfPassing(e) == e.event = "Tunnel Passing"
PassingCells == {i \in DOMAIN cells : OfPassing(cells[i])}
Source(id) == trainsHashMap[id].source
Copying == pc[CC] = "copy" /\ OfPassing(entry)

\* What the finish pointer has been during a push.
SeenInv ==
    /\ \A s \in Section : seen[s] # {} => pc[s] = "logging"
    /\ Copying => \A s \in Section : seen[s] \subseteq {tail}

\* No increment leaves a passing behind the finish pointer.
BehindFinish ==
    /\ \A i \in PassingCells : \A t \in Thread : \A v \in seen[t] : i <= v + 1
    /\ \A i \in PassingCells : i <= tail \/ (i = tail + 1 /\ pc[CC] = "logEntry")

InOrder ==
    \A i, j \in PassingCells :
        i < j /\ Source(cells[i].train) = Source(cells[j].train)
            => cells[i].train < cells[j].train

\* The train comes before all that wait in its section.
AheadOfQueue(id) ==
    /\ id \in DOMAIN trainsHashMap
    /\ \A s \in Section : Source(id) = s => \A other \in InQueue(s) : id < other

Ahead ==
    /\ \A i \in PassingCells : AheadOfQueue(cells[i].train)
    /\ train # NoTrain => AheadOfQueue(train)
    /\ Copying => \A i \in PassingCells :
           Source(cells[i].train) = Source(train) => cells[i].train < train
    /\ pc[CC] = "copy" => entry.train = train

\* A train waits in the queue of the section that its row names.
OwnSection ==
    /\ \A s \in Section : \A id \in InQueue(s) :
           id \in DOMAIN trainsHashMap => Source(id) = s
    /\ \A r, s \in Section : pc[s] = "record" /\ train_id \in InQueue(r) => r = s

LogInv == SeenInv /\ BehindFinish /\ InOrder /\ Ahead /\ OwnSection /\ ListedTrainsWait

LEMMA PassingType == ControlLog!QTypeOK => PassingCells \subseteq Nat
<1> SUFFICES ASSUME ControlLog!QTypeOK PROVE PassingCells \subseteq Nat
  OBVIOUS
<1>1. cells \in Seq(ControlLog!Event)
  BY DEF ControlLog!QTypeOK
<1>2. DOMAIN cells \subseteq Nat
  BY <1>1
<1>3. QED
  BY <1>2 DEF PassingCells

\* What a push does to the passings.
LEMMA ConstructPassings ==
    ASSUME ControlLog!QTypeOK, NEW t \in Thread, NEW e \in ControlLog!Event,
           ControlLog!Construct(t, e), NEW i \in PassingCells'
    PROVE  \/ i \in PassingCells /\ i # tail + 1 /\ cells'[i] = cells[i]
           \/ i = tail + 1 /\ cells'[i] = e /\ OfPassing(e)
<1> DEFINE E == ControlLog!Event
<1>1. cells \in Seq(E) /\ e \in E /\ tail \in Nat
  BY DEF ControlLog!QTypeOK
<1>2. ~OfPassing(ControlLog!Unconstructed)
  BY DEF OfPassing, ControlLog!Unconstructed, ControlLog!LogEvent
<1>3. i \in DOMAIN cells' /\ OfPassing(cells'[i])
  BY DEF PassingCells, OfPassing
<1> HIDE DEF E
<1>4. CASE tail < Len(cells)
  <2>1. cells' = [cells EXCEPT ![tail + 1] = e]
    BY <1>4 DEF ControlLog!Construct
  <2>2. QED
    BY <1>1, <1>3, <1>4, <2>1 DEF PassingCells
<1>5. CASE ~(tail < Len(cells))
  <2>1. cells' = [j \in 1 .. tail + 1 |-> IF j = tail + 1 THEN e ELSE ControlLog!Cell(j)]
    BY <1>5 DEF ControlLog!Construct
  <2>2. i \in 1 .. tail + 1
    BY <1>3, <2>1
  <2>3. CASE i = tail + 1
    BY <1>3, <2>1, <2>2, <2>3
  <2>4. CASE i # tail + 1
    <3>1. cells'[i] = ControlLog!Cell(i)
      BY <2>1, <2>2, <2>4
    <3>2. QED
      BY <1>2, <1>3, <2>4, <3>1 DEF ControlLog!Cell, PassingCells
  <2>5. QED
    BY <2>3, <2>4
<1>6. QED
  BY <1>4, <1>5

LEMMA ConstructSeen ==
    ASSUME ControlLog!QTypeOK, NEW t \in Thread, NEW e, ControlLog!Construct(t, e)
    PROVE  /\ tail' = tail /\ seen'[t] = {tail}
           /\ \A u \in Thread : u # t => seen'[u] = seen[u]
  BY DEF ControlLog!QTypeOK, ControlLog!Construct

LEMMA AdvanceSeen ==
    ASSUME ControlLog!QTypeOK, NEW t \in Thread, ControlLog!Advance(t)
    PROVE  \E loaded \in seen[t] :
              /\ tail' = loaded + 1 /\ cells' = cells /\ seen'[t] = {}
              /\ \A u \in Thread :
                    seen'[u] = {} \/ (seen'[u] = seen[u] \union {loaded + 1} /\ seen[u] # {})
<1>1. PICK loaded \in seen[t] :
         /\ tail' = loaded + 1
         /\ seen' = [u \in Thread |->
                       CASE u = t -> {}
                         [] u # t /\ seen[u] = {} -> {}
                         [] OTHER -> seen[u] \union {loaded + 1}]
  BY DEF ControlLog!Advance
<1>2. cells' = cells
  BY DEF ControlLog!Advance
<1>3. seen'[t] = {}
  BY <1>1
<1>4. ASSUME NEW u \in Thread
      PROVE  seen'[u] = {} \/ (seen'[u] = seen[u] \union {loaded + 1} /\ seen[u] # {})
  <2>1. CASE u = t
    BY <1>3, <2>1
  <2>2. CASE u # t /\ seen[u] = {}
    BY <1>1, <2>2
  <2>3. CASE u # t /\ seen[u] # {}
    BY <1>1, <2>3
  <2>4. QED
    BY <2>1, <2>2, <2>3
<1>5. QED
  BY <1>1, <1>2, <1>3, <1>4

\* The pushes of the other threads have seen no other finish pointer.
OthersAt(t) == \A u \in Thread : u # t => seen[u] \subseteq {tail}

\* A push whose event is no passing, and any increment, leave no passing behind
\* the finish pointer.
LEMMA ConstructBehind ==
    ASSUME ControlLog!QTypeOK, BehindFinish, NEW t \in Thread, NEW e \in ControlLog!Event,
           ControlLog!Construct(t, e), ~OfPassing(e) \/ OthersAt(t)
    PROVE  \A i \in PassingCells' : \A u \in Thread : \A v \in seen'[u] : i <= v + 1
<1> SUFFICES ASSUME NEW i \in PassingCells', NEW u \in Thread, NEW v \in seen'[u]
             PROVE  i <= v + 1
  OBVIOUS
<1>1. tail \in Nat /\ seen[u] \in SUBSET Nat
  BY DEF ControlLog!QTypeOK
<1>2. tail' = tail /\ seen'[t] = {tail} /\ (u # t => seen'[u] = seen[u])
  BY ConstructSeen
<1>3. CASE i \in PassingCells
  <2>1. CASE u = t
    <3>1. i <= tail + 1
      <4>1. i <= tail \/ i = tail + 1
        BY <1>3 DEF BehindFinish
      <4>2. i \in Nat
        BY <1>3, PassingType
      <4>3. QED
        BY <1>1, <4>1, <4>2
    <3>2. QED
      BY <1>2, <2>1, <3>1
  <2>2. CASE u # t
    BY <1>2, <1>3, <2>2 DEF BehindFinish
  <2>3. QED
    BY <2>1, <2>2
<1>4. CASE i = tail + 1 /\ OfPassing(e)
  <2>1. seen[u] \subseteq {tail} \/ u = t
    BY <1>4 DEF OthersAt
  <2>2. v = tail
    BY <1>2, <2>1
  <2>3. QED
    BY <1>1, <1>4, <2>2
<1>5. QED
  BY <1>3, <1>4, ConstructPassings

LEMMA AdvanceBehind ==
    ASSUME ControlLog!QTypeOK, BehindFinish, NEW t \in Thread, ControlLog!Advance(t)
    PROVE  BehindFinish' /\ PassingCells' = PassingCells
<1>1. PICK loaded \in seen[t] :
         /\ tail' = loaded + 1 /\ cells' = cells /\ seen'[t] = {}
         /\ \A u \in Thread :
               seen'[u] = {} \/ (seen'[u] = seen[u] \union {loaded + 1} /\ seen[u] # {})
  BY AdvanceSeen
<1>2. PassingCells' = PassingCells
  BY <1>1 DEF PassingCells
<1>3. \A i \in PassingCells : i \in Nat /\ i <= loaded + 1
  BY PassingType DEF BehindFinish
<1>4. loaded \in Nat
  BY DEF ControlLog!QTypeOK
<1>5. ASSUME NEW i \in PassingCells, NEW u \in Thread, NEW v \in seen'[u] PROVE i <= v + 1
  <2>1. v \in seen[u] \/ v = loaded + 1
    BY <1>1
  <2>2. CASE v = loaded + 1
    BY <1>3, <1>4, <2>2
  <2>3. CASE v \in seen[u]
    BY <2>3 DEF BehindFinish
  <2>4. QED
    BY <2>1, <2>2, <2>3
<1>6. QED
  BY <1>1, <1>2, <1>3, <1>5 DEF BehindFinish

\* A step keeps the rows of the map, and adds to the queues only a train that
\* all of them precede.
RowsKept ==
    \A id \in DOMAIN trainsHashMap :
        id \in DOMAIN trainsHashMap' /\ Source(id)' = Source(id)
QueuesKept ==
    \A s \in Section : \A other \in InQueue(s)' :
        other \in InQueue(s) \/ \A id \in DOMAIN trainsHashMap : id < other

LEMMA AheadKept ==
    ASSUME RowsKept, QueuesKept, NEW id, AheadOfQueue(id)
    PROVE  AheadOfQueue(id)' /\ Source(id)' = Source(id)
  BY DEF RowsKept, QueuesKept, AheadOfQueue

\* When no cell changes, the passings stay in order.
LEMMA OrderKept ==
    ASSUME InOrder, Ahead, RowsKept, QueuesKept, cells' = cells
    PROVE  /\ InOrder' /\ \A i \in PassingCells' : AheadOfQueue(cells[i].train)'
           /\ PassingCells' = PassingCells
           /\ \A i \in PassingCells : Source(cells[i].train)' = Source(cells[i].train)
<1>1. PassingCells' = PassingCells
  BY DEF PassingCells
<1>2. \A i \in PassingCells : AheadOfQueue(cells[i].train)' /\ Source(cells[i].train)' = Source(cells[i].train)
  BY AheadKept DEF Ahead
<1>3. ASSUME NEW i \in PassingCells, NEW j \in PassingCells, i < j,
             Source(cells[i].train)' = Source(cells[j].train)'
      PROVE  cells[i].train < cells[j].train
  BY <1>2, <1>3 DEF InOrder
<1>4. InOrder'
  BY <1>1, <1>3 DEF InOrder
<1>5. QED
  BY <1>1, <1>2, <1>4

LEMMA AheadSame ==
    ASSUME TunnelInv, InOrder, Ahead, RowsKept, QueuesKept, cells' = cells, train' = train,
           entry' = entry, pc'[CC] = pc[CC]
    PROVE  InOrder' /\ Ahead'
<1>1. /\ InOrder' /\ PassingCells' = PassingCells
      /\ \A i \in PassingCells' : AheadOfQueue(cells[i].train)'
      /\ \A i \in PassingCells : Source(cells[i].train)' = Source(cells[i].train)
  BY OrderKept
<1>2. train # NoTrain => AheadOfQueue(train)' /\ Source(train)' = Source(train)
  BY AheadKept DEF Ahead
<1>3. Copying => train # NoTrain
  BY DEF Copying, TunnelInv
<1>4. Copying' = Copying
  BY DEF Copying
<1>5. ASSUME Copying, NEW i \in PassingCells, Source(cells[i].train)' = Source(train)'
      PROVE  cells[i].train < train
  BY <1>1, <1>2, <1>3, <1>5 DEF Ahead
<1>6. QED
  BY <1>1, <1>2, <1>4, <1>5 DEF Ahead

\* A step of a section thread changes the rows and the queues as it may.
LEMMA SectionRows ==
    ASSUME TypeOK, LockInv, Recorded, NEW s \in Section, SectionStep(s)
    PROVE  RowsKept /\ QueuesKept /\ train' = train /\ entry' = entry /\ pc'[CC] = pc[CC]
<1> USE ThreadMembers
<1>1. PcTypeOK
  BY DEF TypeOK
<1>2. pc'[CC] = pc[CC]
  BY <1>1, SectionPcStep
<1>3. train' = train /\ entry' = entry
  BY DEF SectionStep, Poll, Spin, Gauge, Announce, LogOverload, Raise,
         Recheck, Number, Enqueue, Record, Rest, vars, ccvars
<1>4. RowsKept
  <2>1. CASE Record(s)
    <3>1. pc[s] = "record" /\ trainsHashMap' = [id \in DOMAIN trainsHashMap \union {train_id} |->
                                IF id = train_id THEN NewRow(s) ELSE trainsHashMap[id]]
      BY <1>1, <2>1, GotoEffect DEF Record
    <3>2. train_id \notin DOMAIN trainsHashMap
      BY <3>1 DEF Recorded, Newest, Creating, TypeOK
    <3>3. QED
      BY <3>1, <3>2 DEF RowsKept, Source
  <2>2. CASE ~Record(s)
    <3>1. trainsHashMap' = trainsHashMap
      BY <2>2 DEF SectionStep, Poll, Spin, Gauge, Announce, LogOverload, Raise,
                  Recheck, Number, Enqueue, Rest, vars
    <3>2. QED
      BY <3>1 DEF RowsKept, Source
  <2>3. QED
    BY <2>1, <2>2
<1>5. QueuesKept
  <2>1. CASE Enqueue(s)
    <3>1. pc[s] = "enqueue" /\ queue' = [queue EXCEPT ![s] = Append(@, train_id)]
      BY <1>1, <2>1, GotoEffect DEF Enqueue
    <3>2. \A id \in DOMAIN trainsHashMap : id < train_id
      BY <3>1 DEF Recorded, Newest, Creating, TypeOK
    <3>3. ASSUME NEW r \in Section, NEW other \in InQueue(r)'
          PROVE  other \in InQueue(r) \/ other = train_id
      <4>1. PICK i \in 1 .. Len(queue'[r]) : other = queue'[r][i]
        BY <3>3 DEF InQueue
      <4>2. queue[r] \in Seq(Nat) /\ queue[s] \in Seq(Nat)
        BY DEF TypeOK
      <4>3. CASE r = s
        <5>1. queue'[s] = Append(queue[s], train_id)
          BY <3>1 DEF TypeOK
        <5>2. other = train_id \/ (i \in 1 .. Len(queue[s]) /\ other = queue[s][i])
          BY <4>1, <4>2, <4>3, <5>1
        <5>3. QED
          BY <4>3, <5>2 DEF InQueue
      <4>4. CASE r # s
        BY <3>1, <4>1, <4>4 DEF InQueue
      <4>5. QED
        BY <4>3, <4>4
    <3>4. QED
      BY <3>2, <3>3 DEF QueuesKept
  <2>2. CASE ~Enqueue(s)
    <3>1. queue' = queue
      BY <2>2 DEF SectionStep, Poll, Spin, Gauge, Announce, LogOverload, Raise,
                  Recheck, Number, Record, Rest, vars
    <3>2. QED
      BY <3>1 DEF QueuesKept, InQueue
  <2>3. QED
    BY <2>1, <2>2
<1>6. QED
  BY <1>2, <1>3, <1>4, <1>5

\* ... and never takes a train away.
LEMMA SectionWaiting ==
    ASSUME TypeOK, NEW s \in Section, SectionStep(s)
    PROVE  TrainsWaiting \subseteq TrainsWaiting'
<1>1. CASE Enqueue(s)
  <2>1. queue' = [queue EXCEPT ![s] = Append(queue[s], train_id)]
    BY <1>1 DEF Enqueue
  <2>2. ASSUME NEW r \in Section PROVE InQueue(r) \subseteq InQueue(r)'
    <3>1. queue[r] \in Seq(Nat) /\ queue'[r] \in {queue[r], Append(queue[r], train_id)}
      BY <2>1 DEF TypeOK
    <3>2. \A i \in 1 .. Len(queue[r]) : i \in 1 .. Len(queue'[r]) /\ queue'[r][i] = queue[r][i]
      BY <3>1
    <3>3. QED
      BY <3>2 DEF InQueue
  <2>3. QED
    BY <2>2 DEF TrainsWaiting
<1>2. CASE ~Enqueue(s)
  <2>1. queue' = queue
    BY <1>2 DEF SectionStep, Poll, Spin, Gauge, Announce, LogOverload, Raise,
                Recheck, Number, Record, Rest, vars
  <2>2. QED
    BY <2>1 DEF TrainsWaiting, InQueue
<1>3. QED
  BY <1>1, <1>2

LEMMA SectionLog ==
    ASSUME IInv, TypeOK', LogInv, NEW s \in Section, SectionStep(s)
    PROVE  LogInv'
<1> USE ThreadMembers
<1>1. TypeOK /\ PcTypeOK /\ LockInv /\ TunnelInv /\ Recorded /\ ControlLog!QTypeOK
  BY DEF IInv, TypeOK
<1>2. \A u \in Thread : u # s => pc'[u] = pc[u]
  BY <1>1, SectionPcStep
<1>3. RowsKept /\ QueuesKept /\ train' = train /\ entry' = entry /\ pc'[CC] = pc[CC]
  BY <1>1, SectionRows
<1>4. Copying' = Copying
  BY <1>3 DEF Copying
<1>5. ListedTrainsWait'
  BY <1>1, <1>3, SectionWaiting DEF LogInv, ListedTrainsWait
<1>6. OwnSection'
  <2>1. CASE Number(s)
    <3>1. queue' = queue /\ trainsHashMap' = trainsHashMap /\ train_id' = train_id + 1
      BY <2>1 DEF Number, NextId
    <3>2. trainMutex = 0 /\ pc'[s] = "enqueue"
      BY <1>1, <2>1, GotoEffect DEF Number
    <3>3. \A u \in Section : pc'[u] # "record"
      BY <1>1, <1>2, <3>2, FreeLock
    <3>4. QED
      BY <3>1, <3>3 DEF LogInv, OwnSection, InQueue, Source
  <2>2. CASE Enqueue(s)
    <3>1. /\ pc[s] = "enqueue" /\ pc'[s] = "record"
          /\ queue' = [queue EXCEPT ![s] = Append(@, train_id)]
          /\ trainsHashMap' = trainsHashMap /\ train_id' = train_id
      BY <1>1, <2>2, GotoEffect DEF Enqueue
    <3>2. \A id \in TrainsWaiting \union DOMAIN trainsHashMap : id < train_id
      <4>1. \A u \in Section : pc[u] # "record"
        BY <1>1, <3>1, Exclusive
      <4>2. Newest = train_id - 1 /\ train_id \in Int
        BY <1>1, <3>1 DEF Newest, Creating, TypeOK
      <4>3. \A id \in TrainsWaiting : id <= train_id - 1 /\ id \in Nat
        BY <1>1, <4>1, <4>2, WaitingType DEF Recorded
      <4>4. DOMAIN trainsHashMap = 0 .. train_id - 1
        BY <1>1, <4>2 DEF Recorded
      <4>5. QED
        BY <4>2, <4>3, <4>4
    <3>3. ASSUME NEW r \in Section, NEW id \in InQueue(r)'
          PROVE  id \in InQueue(r) \/ (r = s /\ id = train_id)
      <4>1. PICK i \in 1 .. Len(queue'[r]) : id = queue'[r][i]
        BY <3>3 DEF InQueue
      <4>2. queue[r] \in Seq(Nat) /\ queue[s] \in Seq(Nat)
        BY <1>1 DEF TypeOK
      <4>3. CASE r = s
        <5>1. queue'[s] = Append(queue[s], train_id)
          BY <1>1, <3>1 DEF TypeOK
        <5>2. id = train_id \/ (i \in 1 .. Len(queue[s]) /\ id = queue[s][i])
          BY <4>1, <4>2, <4>3, <5>1
        <5>3. QED
          BY <4>3, <5>2 DEF InQueue
      <4>4. CASE r # s
        BY <3>1, <4>1, <4>4 DEF InQueue
      <4>5. QED
        BY <4>3, <4>4
    <3>4. train_id \notin DOMAIN trainsHashMap /\ train_id \notin TrainsWaiting
      <4>1. train_id \in Int
        BY <1>1 DEF TypeOK
      <4>2. QED
        BY <3>2, <4>1
    <3>5. \A u \in Section : pc'[u] = "record" => u = s
      BY <1>1, <1>2, <3>1, Exclusive
    <3>6. \A r \in Section : train_id \in InQueue(r)' => r = s
      BY <3>3, <3>4 DEF TrainsWaiting
    <3>7. \A r \in Section : \A id \in InQueue(r)' :
              id \in DOMAIN trainsHashMap => Source(id) = r
      BY <3>3, <3>4 DEF LogInv, OwnSection
    <3>8. QED
      BY <3>1, <3>5, <3>6, <3>7 DEF OwnSection, Source
  <2>3. CASE Record(s)
    <3>1. /\ pc[s] = "record" /\ pc'[s] = "rest" /\ queue' = queue
          /\ trainsHashMap' = [id \in DOMAIN trainsHashMap \union {train_id} |->
                                IF id = train_id THEN NewRow(s) ELSE trainsHashMap[id]]
      BY <1>1, <2>3, GotoEffect DEF Record
    <3>2. \A u \in Section : pc'[u] # "record"
      BY <1>1, <1>2, <3>1, Exclusive
    <3>3. NewRow(s).source = s
      BY DEF NewRow
    <3>4. ASSUME NEW r \in Section, NEW id \in InQueue(r), id \in DOMAIN trainsHashMap'
          PROVE  trainsHashMap'[id].source = r
      <4>1. CASE id = train_id
        <5>1. r = s
          BY <3>1, <3>4, <4>1 DEF LogInv, OwnSection
        <5>2. trainsHashMap'[id] = NewRow(s)
          BY <3>1, <4>1
        <5>3. QED
          BY <3>3, <5>1, <5>2
      <4>2. CASE id # train_id
        <5>1. id \in DOMAIN trainsHashMap /\ trainsHashMap'[id] = trainsHashMap[id]
          BY <3>1, <3>4, <4>2
        <5>2. QED
          BY <5>1 DEF LogInv, OwnSection, Source
      <4>3. QED
        BY <4>1, <4>2
    <3>5. \A r \in Section : InQueue(r)' = InQueue(r)
      BY <3>1 DEF InQueue
    <3>6. \A r \in Section : \A id \in InQueue(r)' :
              id \in DOMAIN trainsHashMap' => Source(id)' = r
      BY <3>4, <3>5 DEF Source
    <3>7. QED
      BY <3>2, <3>6 DEF OwnSection
  <2>4. CASE ~Number(s) /\ ~Enqueue(s) /\ ~Record(s)
    <3>1. UNCHANGED <<queue, train_id, trainsHashMap>>
      BY <2>4 DEF SectionStep, Poll, Spin, Gauge, Announce, LogOverload, Raise,
                  Recheck, Rest, vars, ccvars
    <3>2. \A u \in Section : pc'[u] = "record" => pc[u] = "record"
      BY <1>1, <1>2, <2>4, SectionPcQuiet
    <3>3. QED
      BY <3>1, <3>2 DEF LogInv, OwnSection, InQueue, Source
  <2>5. QED
    BY <2>1, <2>2, <2>3, <2>4
<1>7. CASE Announce(s) /\ ~clearance
  <2> DEFINE e == ControlLog!LogEvent("System Overload", NoTrain, TrainsWaiting)
  <2>1. ControlLog!Construct(s, e) /\ pc[s] = "announce" /\ pc'[s] = "logging"
    BY <1>1, <1>7, GotoEffect DEF Announce
  <2>2. e \in ControlLog!Event
    <3>1. NoTrain \in Int /\ TrainsWaiting \in SUBSET Nat
      BY <1>1, WaitingType DEF NoTrain
    <3>2. QED
      BY <3>1, EventType
  <2>3. ~OfPassing(e)
    BY DEF OfPassing, ControlLog!LogEvent
  <2> HIDE DEF e
  <2>4. /\ tail' = tail /\ seen'[s] = {tail}
        /\ \A u \in Thread : u # s => seen'[u] = seen[u]
    BY <1>1, <2>1, ConstructSeen
  <2>5. \A i \in PassingCells' : i \in PassingCells /\ i # tail + 1 /\ cells'[i] = cells[i]
    BY <1>1, <2>1, <2>2, <2>3, ConstructPassings
  <2>6. SeenInv'
    BY <1>2, <1>4, <2>1, <2>4 DEF LogInv, SeenInv
  <2>7. BehindFinish'
    <3>1. \A i \in PassingCells' : \A u \in Thread : \A v \in seen'[u] : i <= v + 1
      BY <1>1, <2>1, <2>2, <2>3, ConstructBehind DEF LogInv
    <3>2. \A i \in PassingCells' : i <= tail' \/ (i = tail' + 1 /\ pc'[CC] = "logEntry")
      BY <2>4, <2>5 DEF LogInv, BehindFinish
    <3>3. QED
      BY <3>1, <3>2 DEF BehindFinish
  <2>8. trainsHashMap' = trainsHashMap /\ queue' = queue
    BY <1>7 DEF Announce
  <2>9. InOrder'
    BY <2>5, <2>8 DEF LogInv, InOrder, Source
  <2>10. Ahead'
    <3>1. \A i \in PassingCells' : AheadOfQueue(cells[i].train)
      BY <2>5 DEF LogInv, Ahead
    <3>2. \A i \in PassingCells' : AheadOfQueue(cells[i].train)'
      BY <2>5, <2>8, <3>1 DEF AheadOfQueue, Source, InQueue
    <3>3. Copying' => \A i \in PassingCells' :
              Source(cells[i].train)' = Source(train)' => cells'[i].train < train'
      BY <1>3, <1>4, <2>5, <2>8 DEF LogInv, Ahead, Source
    <3>4. train' # NoTrain => AheadOfQueue(train)'
      BY <1>3, <2>8 DEF LogInv, Ahead, AheadOfQueue, Source, InQueue
    <3>5. QED
      BY <1>3, <3>2, <3>3, <3>4 DEF LogInv, Ahead
  <2>11. QED
    BY <1>5, <1>6, <2>6, <2>7, <2>9, <2>10 DEF LogInv
<1>8. CASE LogOverload(s)
  <2>1. ControlLog!Advance(s) /\ pc[s] = "logging" /\ pc'[s] = "raise"
    BY <1>1, <1>8, GotoEffect DEF LogOverload
  <2>2. \A u \in Section : u # s => pc[u] # "logging"
    BY <1>1, <2>1 DEF LockInv, Holding
  <2>3. \A u \in Section : seen'[u] = {}
    <3>1. \A u \in Section : u # s => seen[u] = {}
      BY <2>2 DEF LogInv, SeenInv
    <3>2. QED
      BY <1>1, <2>1, <3>1, AdvanceSeen
  <2>4. SeenInv'
    BY <2>3 DEF SeenInv
  <2>5. BehindFinish' /\ PassingCells' = PassingCells
    BY <1>1, <2>1, AdvanceBehind DEF LogInv
  <2>6. cells' = cells
    BY <2>1 DEF ControlLog!Advance
  <2>7. QED
    BY <1>1, <1>3, <1>5, <1>6, <2>4, <2>5, <2>6, AheadSame DEF LogInv
<1>9. CASE ~(Announce(s) /\ ~clearance) /\ ~LogOverload(s)
  <2>1. UNCHANGED logvars
    BY <1>9 DEF SectionStep, Poll, Spin, Gauge, Announce, Raise, Recheck,
                Number, Enqueue, Record, Rest, vars
  <2>2. pc[s] # "logging"
    BY <1>9 DEF SectionStep, Poll, Spin, Gauge, Announce, Raise, Recheck,
                Number, Enqueue, Record, Rest, Goto, Sleep
  <2>3. SeenInv'
    BY <1>2, <1>4, <2>1, <2>2 DEF LogInv, SeenInv, logvars
  <2>4. BehindFinish'
    BY <1>3, <2>1 DEF LogInv, BehindFinish, PassingCells, logvars
  <2>5. cells' = cells
    BY <2>1 DEF logvars
  <2>6. QED
    BY <1>1, <1>3, <1>5, <1>6, <2>3, <2>4, <2>5, AheadSame DEF LogInv
<1>10. QED
  BY <1>7, <1>8, <1>9

\* A step of the control center that takes no train.
LEMMA ControlCenterRows ==
    ASSUME TypeOK, ControlCenterStep, ~Pick
    PROVE  /\ RowsKept /\ QueuesKept
           /\ \A s \in Section : pc'[s] = pc[s] /\ InQueue(s)' = InQueue(s)
           /\ train_id' = train_id
           /\ \A id \in DOMAIN trainsHashMap' : id \in DOMAIN trainsHashMap
<1>1. queue' = queue /\ train_id' = train_id
  BY DEF ControlCenterStep, Top, Idle, LogCleared, Reset, Copy, PushEntry,
         LogEntry, Front, Back, Exit, ccvars
<1>2. \A s \in Section : pc'[s] = pc[s]
  BY ControlCenterPcStep DEF TypeOK
<1>3. RowsKept /\ DOMAIN trainsHashMap' = DOMAIN trainsHashMap
  <2>1. CASE Exit
    <3>1. trainsHashMap' = [trainsHashMap EXCEPT ![train].arrived = TRUE]
      BY <2>1 DEF Exit
    <3>2. \A id \in DOMAIN trainsHashMap : trainsHashMap[id] \in Row
      BY DEF TypeOK
    <3>3. \A id \in DOMAIN trainsHashMap : trainsHashMap'[id].source = trainsHashMap[id].source
      BY <3>1, <3>2 DEF Row
    <3>4. QED
      BY <3>1, <3>3 DEF RowsKept, Source
  <2>2. CASE ~Exit
    <3>1. trainsHashMap' = trainsHashMap
      BY <2>2 DEF ControlCenterStep, Top, Idle, LogCleared, Reset, Copy, PushEntry,
                  LogEntry, Front, Back, ccvars
    <3>2. QED
      BY <3>1 DEF RowsKept, Source
  <2>3. QED
    BY <2>1, <2>2
<1>4. QED
  BY <1>1, <1>2, <1>3 DEF QueuesKept, InQueue

\* The train that the control center takes comes before the rest of its queue
\* and after every train of its section that has passed.
LEMMA PickLog ==
    ASSUME IInv, QueueOrder, LogInv, Pick
    PROVE  LogInv'
<1> USE ThreadMembers
<1>1. /\ TypeOK /\ PcTypeOK /\ LockInv /\ PickNonEmpty /\ Recorded
      /\ SeenInv /\ BehindFinish /\ InOrder /\ Ahead /\ OwnSection
  BY DEF IInv, TypeOK, LogInv
<1>2. /\ trainMutex = 0 /\ pc[CC] = "pick" /\ pc'[CC] = "copy"
      /\ \A s \in Section : pc'[s] = pc[s]
  BY <1>1, GotoEffect DEF Pick
<1>3. UNCHANGED <<trainsHashMap, train_id, cells, tail, seen>>
  BY DEF Pick, logvars
<1>4. PICK s \in Section : PickFrom(s)
  BY DEF Pick, PickFrom
<1>5. queue[s] \in Seq(Nat) /\ queue[s] # <<>>
  BY <1>1, <1>2, <1>4, CrowdedNonEmpty DEF TypeOK, PickNonEmpty, PickFrom
<1>6. train' = queue[s][1] /\ Len(queue[s]) \in Nat \ {0}
  BY <1>4, <1>5 DEF PickFrom
<1>7. train' \in InQueue(s) /\ train' \in Nat
  BY <1>5, <1>6 DEF InQueue
<1>8. ASSUME NEW r \in Section, NEW id \in InQueue(r)'
      PROVE  id \in InQueue(r) /\ (r = s => train' < id)
  <2>1. queue'[r] = IF r = s THEN Tail(queue[s]) ELSE queue[r]
    BY <1>1, <1>4 DEF PickFrom, TypeOK
  <2>2. PICK i \in 1 .. Len(queue'[r]) : id = queue'[r][i]
    BY <1>8 DEF InQueue
  <2>3. CASE r = s
    <3>1. i + 1 \in 2 .. Len(queue[s]) /\ id = queue[s][i + 1]
      <4>1. i \in 1 .. Len(Tail(queue[s])) /\ id = Tail(queue[s])[i]
        BY <2>1, <2>2, <2>3
      <4>2. Len(Tail(queue[s])) = Len(queue[s]) - 1
        BY <1>5
      <4>3. Tail(queue[s])[i] = queue[s][i + 1]
        BY <1>5, <4>1
      <4>4. QED
        BY <1>6, <4>1, <4>2, <4>3
    <3>2. s \in Line!Section /\ 1 \in 1 .. Len(queue[s]) /\ i + 1 \in 1 .. Len(queue[s]) /\ 1 < i + 1
      BY <1>6, <3>1 DEF Section, Line!Section
    <3>3. queue[s][1] < queue[s][i + 1]
      BY <3>2 DEF QueueOrder, Line!QueueOrder
    <3>4. QED
      BY <1>6, <2>3, <3>1, <3>2, <3>3 DEF InQueue
  <2>4. CASE r # s
    BY <2>1, <2>2, <2>4 DEF InQueue
  <2>5. QED
    BY <2>3, <2>4
<1>9. train' \in DOMAIN trainsHashMap
  <2>1. Newest = train_id /\ \A u \in Section : pc[u] # "record"
    BY <1>1, <1>2, FreeLock DEF Newest
  <2>2. train' <= Newest /\ Newest \in Int
    <3>1. train' \in TrainsWaiting
      BY <1>7 DEF TrainsWaiting
    <3>2. train' <= Newest
      BY <1>1, <2>1, <3>1 DEF Recorded
    <3>3. train_id \in Int
      BY <1>1 DEF TypeOK
    <3>4. QED
      BY <2>1, <3>2, <3>3
  <2>3. QED
    BY <1>1, <1>7, <2>2 DEF Recorded
<1>10. Source(train') = s
  BY <1>1, <1>7, <1>9 DEF OwnSection
<1>11. AheadOfQueue(train)'
  <2>1. ASSUME NEW r \in Section, Source(train') = r, NEW other \in InQueue(r)'
        PROVE  train' < other
    BY <1>8, <1>10, <2>1
  <2>2. QED
    BY <1>3, <1>9, <2>1 DEF AheadOfQueue, Source
<1>12. RowsKept /\ QueuesKept
  BY <1>3, <1>8 DEF RowsKept, QueuesKept, Source
<1>13. /\ InOrder' /\ PassingCells' = PassingCells
       /\ \A i \in PassingCells' : AheadOfQueue(cells[i].train)'
  BY <1>1, <1>3, <1>12, OrderKept
<1>14. \A i \in PassingCells : Source(cells[i].train) = s => cells[i].train < train'
  BY <1>1, <1>7 DEF Ahead, AheadOfQueue
<1>15. entry' = Passing(train') /\ entry'.train = train' /\ entry'.waiting = {}
  BY <1>4 DEF PickFrom, Passing, ControlLog!LogEvent
<1>16. Ahead'
  <2>1. \A i \in PassingCells' :
           Source(cells[i].train)' = Source(train)' => cells'[i].train < train'
    BY <1>3, <1>10, <1>13, <1>14 DEF Source
  <2>2. QED
    BY <1>11, <1>13, <1>15, <2>1 DEF Ahead
<1>17. SeenInv'
  <2>1. \A u \in Section : pc[u] # "logging"
    BY <1>1, <1>2 DEF LockInv, Holding
  <2>2. \A u \in Section : seen[u] = {}
    BY <1>1, <2>1 DEF SeenInv
  <2>3. QED
    BY <1>3, <2>2 DEF SeenInv
<1>18. BehindFinish'
  BY <1>1, <1>2, <1>3, <1>13 DEF BehindFinish
<1>19. OwnSection'
  BY <1>1, <1>2, <1>3, <1>8 DEF OwnSection, Source
<1>20. ListedTrainsWait'
  BY <1>15 DEF ListedTrainsWait
<1>21. QED
  BY <1>13, <1>16, <1>17, <1>18, <1>19, <1>20 DEF LogInv

\* Steps after which the control center is not copying.
LEMMA AheadOut ==
    ASSUME InOrder, Ahead, RowsKept, QueuesKept, cells' = cells,
           train' \in {train, NoTrain}, pc'[CC] # "copy"
    PROVE  InOrder' /\ Ahead'
<1>1. /\ InOrder' /\ PassingCells' = PassingCells
      /\ \A i \in PassingCells' : AheadOfQueue(cells[i].train)'
  BY OrderKept
<1>2. train' # NoTrain => AheadOfQueue(train)'
  <2>1. train' # NoTrain => train' = train /\ AheadOfQueue(train)
    BY DEF Ahead
  <2>2. QED
    BY <2>1, AheadKept
<1>3. ~Copying'
  BY DEF Copying
<1>4. QED
  BY <1>1, <1>2, <1>3 DEF Ahead

LEMMA ControlCenterLog ==
    ASSUME IInv, QueueOrder, LogInv, ControlCenterStep
    PROVE  LogInv'
<1> USE ThreadMembers
<1>1. /\ TypeOK /\ PcTypeOK /\ TunnelInv /\ ControlLog!QTypeOK
      /\ SeenInv /\ BehindFinish /\ InOrder /\ Ahead /\ OwnSection /\ ListedTrainsWait
  BY DEF IInv, TypeOK, LogInv
<1>2. CASE Pick
  BY <1>2, PickLog
<1> SUFFICES ASSUME ~Pick PROVE LogInv'
  BY <1>2
<1>3. /\ RowsKept /\ QueuesKept
      /\ \A s \in Section : pc'[s] = pc[s] /\ InQueue(s)' = InQueue(s)
      /\ train_id' = train_id
      /\ \A id \in DOMAIN trainsHashMap' : id \in DOMAIN trainsHashMap
  BY <1>1, ControlCenterRows
<1>4. OwnSection'
  BY <1>1, <1>3 DEF OwnSection, RowsKept
<1>5. TrainsWaiting' = TrainsWaiting
  BY <1>3 DEF TrainsWaiting
<1>6. CASE Copy
  <2>1. /\ pc' = pc /\ pc[CC] = "copy" /\ copied + 1 \in Section
        /\ entry' = [entry EXCEPT !.waiting = @ \union InQueue(copied + 1)]
        /\ UNCHANGED <<train, cells, tail, seen>>
    BY <1>1, <1>6 DEF Copy, logvars, TypeOK, Section
  <2>2. entry \in ControlLog!Event
    BY <1>1 DEF TypeOK
  <2>3. entry'.event = entry.event /\ entry'.train = entry.train
        /\ entry'.waiting = entry.waiting \union InQueue(copied + 1)
    BY <2>1, <2>2 DEF ControlLog!Event
  <2>4. Copying' = Copying
    BY <2>1, <2>3 DEF Copying, OfPassing
  <2>5. ListedTrainsWait'
    BY <1>1, <1>5, <2>1, <2>3 DEF ListedTrainsWait, TrainsWaiting
  <2>6. SeenInv' /\ BehindFinish'
    BY <1>1, <2>1, <2>4 DEF SeenInv, BehindFinish, PassingCells
  <2>7. InOrder' /\ PassingCells' = PassingCells
        /\ (\A i \in PassingCells' : AheadOfQueue(cells[i].train)')
        /\ \A i \in PassingCells : Source(cells[i].train)' = Source(cells[i].train)
    BY <1>1, <1>3, <2>1, OrderKept
  <2>8. train # NoTrain
    BY <1>1, <2>1 DEF TunnelInv
  <2>9. AheadOfQueue(train)' /\ Source(train)' = Source(train)
    BY <1>1, <1>3, <2>1, <2>8, AheadKept DEF Ahead
  <2>10. Ahead'
    BY <1>1, <2>1, <2>3, <2>4, <2>7, <2>9 DEF Ahead
  <2>11. QED
    BY <1>4, <2>5, <2>6, <2>7, <2>10 DEF LogInv
<1>7. CASE PushEntry
  <2>1. /\ pc[CC] = "copy" /\ pc'[CC] = "logEntry" /\ ControlLog!Construct(CC, entry)
        /\ UNCHANGED <<train, entry, queue, trainsHashMap>>
    BY <1>1, <1>7, GotoEffect DEF PushEntry
  <2>2. entry \in ControlLog!Event
    BY <1>1 DEF TypeOK
  <2>3. /\ tail' = tail /\ seen'[CC] = {tail}
        /\ \A u \in Section : seen'[u] = seen[u]
    BY <1>1, <2>1, ConstructSeen
  <2>4. \A i \in PassingCells' :
           \/ i \in PassingCells /\ i # tail + 1 /\ cells'[i] = cells[i]
           \/ i = tail + 1 /\ cells'[i] = entry /\ Copying
    BY <1>1, <2>1, <2>2, ConstructPassings DEF Copying
  <2>5. ~OfPassing(entry) \/ OthersAt(CC)
    <3>1. ASSUME OfPassing(entry), NEW u \in Thread, u # CC PROVE seen[u] \subseteq {tail}
      <4>1. u \in Section
        BY <3>1 DEF Thread, Section, CC
      <4>2. QED
        BY <1>1, <2>1, <3>1, <4>1 DEF SeenInv, Copying
    <3>2. QED
      BY <3>1 DEF OthersAt
  <2>6. SeenInv'
    BY <1>1, <1>3, <2>1, <2>3 DEF SeenInv, Copying
  <2>7. \A i \in PassingCells : i <= tail /\ i \in Nat
    BY <1>1, <2>1, PassingType DEF BehindFinish
  <2>8. tail \in Nat
    BY <1>1 DEF ControlLog!QTypeOK
  <2>9. BehindFinish'
    <3>1. \A i \in PassingCells' : \A u \in Thread : \A v \in seen'[u] : i <= v + 1
      BY <1>1, <2>1, <2>2, <2>5, ConstructBehind
    <3>2. \A i \in PassingCells' : i <= tail' \/ (i = tail' + 1 /\ pc'[CC] = "logEntry")
      BY <2>1, <2>3, <2>4, <2>7
    <3>3. QED
      BY <3>1, <3>2 DEF BehindFinish
  <2>10. entry.train = train /\ train # NoTrain
    BY <1>1, <2>1 DEF Ahead, TunnelInv
  <2>11. InOrder'
    <3>1. ASSUME NEW i \in PassingCells', NEW j \in PassingCells', i < j,
                 Source(cells'[i].train) = Source(cells'[j].train)
          PROVE  cells'[i].train < cells'[j].train
      <4>1. CASE i \in PassingCells /\ cells'[i] = cells[i]
        <5>1. CASE j \in PassingCells /\ cells'[j] = cells[j]
          BY <1>1, <3>1, <4>1, <5>1 DEF InOrder
        <5>2. CASE j = tail + 1 /\ cells'[j] = entry /\ Copying
          BY <1>1, <2>10, <3>1, <4>1, <5>2 DEF Ahead
        <5>3. QED
          BY <2>4, <5>1, <5>2
      <4>2. CASE i = tail + 1
        <5>1. j = tail + 1 \/ j <= tail
          BY <2>4, <2>7
        <5>2. QED
          BY <2>4, <2>7, <2>8, <3>1, <4>2, <5>1
      <4>3. QED
        BY <2>4, <4>1, <4>2
    <3>2. QED
      BY <2>1, <3>1 DEF InOrder, Source
  <2>12. Ahead'
    <3>1. ASSUME NEW i \in PassingCells' PROVE AheadOfQueue(cells'[i].train)
      BY <1>1, <2>4, <2>10 DEF Ahead
    <3>2. \A i \in PassingCells' : AheadOfQueue(cells[i].train)'
      BY <2>1, <3>1 DEF AheadOfQueue, Source, InQueue
    <3>3. AheadOfQueue(train)'
      BY <1>1, <2>1, <2>10 DEF Ahead, AheadOfQueue, Source, InQueue
    <3>4. ~Copying'
      BY <2>1 DEF Copying
    <3>5. QED
      BY <2>1, <3>2, <3>3, <3>4 DEF Ahead
  <2>13. ListedTrainsWait'
    BY <2>1 DEF ListedTrainsWait
  <2>14. QED
    BY <1>4, <2>6, <2>9, <2>11, <2>12, <2>13 DEF LogInv
<1>8. CASE Idle /\ clearance
  <2> DEFINE e == ControlLog!LogEvent("Tunnel Cleared", NoTrain, {})
  <2>1. /\ ControlLog!Construct(CC, e) /\ pc[CC] = "idle" /\ pc'[CC] = "logCleared"
        /\ UNCHANGED <<train, queue, trainsHashMap>>
    <3>1. ControlLog!Construct(CC, e)
      BY <1>8 DEF Idle
    <3>2. Goto(CC, "idle", "logCleared")
      BY <1>8 DEF Idle
    <3>3. pc[CC] = "idle" /\ pc'[CC] = "logCleared"
      BY <1>1, <3>2, GotoEffect
    <3>4. UNCHANGED <<train, queue, trainsHashMap>>
      BY <1>8 DEF Idle, ccvars
    <3>5. QED
      BY <3>1, <3>3, <3>4
  <2>2. e \in ControlLog!Event
    <3>1. NoTrain \in Int /\ {} \in SUBSET Nat
      BY DEF NoTrain
    <3>2. QED
      BY <3>1, EventType
  <2>3. ~OfPassing(e)
    BY DEF OfPassing, ControlLog!LogEvent
  <2> HIDE DEF e
  <2>4. /\ tail' = tail /\ seen'[CC] = {tail}
        /\ \A u \in Section : seen'[u] = seen[u]
    BY <1>1, <2>1, ConstructSeen
  <2>5. \A i \in PassingCells' : i \in PassingCells /\ i # tail + 1 /\ cells'[i] = cells[i]
    BY <1>1, <2>1, <2>2, <2>3, ConstructPassings
  <2>6. ~Copying'
    BY <2>1 DEF Copying
  <2>7. SeenInv'
    BY <1>1, <1>3, <2>4, <2>6 DEF SeenInv
  <2>8. BehindFinish'
    <3>1. \A i \in PassingCells' : \A u \in Thread : \A v \in seen'[u] : i <= v + 1
      BY <1>1, <2>1, <2>2, <2>3, ConstructBehind
    <3>2. \A i \in PassingCells' : i <= tail' \/ (i = tail' + 1 /\ pc'[CC] = "logEntry")
      BY <1>1, <2>1, <2>4, <2>5 DEF BehindFinish
    <3>3. QED
      BY <3>1, <3>2 DEF BehindFinish
  <2>9. InOrder'
    BY <1>1, <2>1, <2>5 DEF InOrder, Source
  <2>10. Ahead'
    <3>1. \A i \in PassingCells' : AheadOfQueue(cells'[i].train)
      BY <1>1, <2>5 DEF Ahead
    <3>2. \A i \in PassingCells' : AheadOfQueue(cells[i].train)'
      BY <2>1, <3>1 DEF AheadOfQueue, Source, InQueue
    <3>3. train' = NoTrain
      BY <1>1, <2>1 DEF TunnelInv
    <3>4. QED
      BY <2>1, <2>6, <3>2, <3>3 DEF Ahead
  <2>11. ListedTrainsWait'
    BY <2>1 DEF ListedTrainsWait
  <2>12. QED
    BY <1>4, <2>7, <2>8, <2>9, <2>10, <2>11 DEF LogInv
<1>9. CASE LogCleared \/ LogEntry
  <2>1. ControlLog!Advance(CC) /\ train' = train
    BY <1>9 DEF LogCleared, LogEntry, ccvars
  <2>2. pc'[CC] \in {"reset", "front", "back"}
    <3>1. Goto(CC, "logCleared", "reset") \/ Goto(CC, "logEntry", "front")
            \/ Goto(CC, "logEntry", "back")
      BY <1>9 DEF LogCleared, LogEntry
    <3>2. QED
      BY <1>1, <3>1, GotoEffect
  <2>3. BehindFinish' /\ cells' = cells
    BY <1>1, <2>1, AdvanceBehind DEF ControlLog!Advance
  <2>4. SeenInv'
    <3>1. \A u \in Section : seen'[u] # {} => seen[u] # {}
      BY <1>1, <2>1, AdvanceSeen
    <3>2. QED
      BY <1>1, <1>3, <2>2, <3>1 DEF SeenInv, Copying
  <2>5. InOrder' /\ Ahead'
    BY <1>1, <1>3, <2>1, <2>2, <2>3, AheadOut
  <2>6. ListedTrainsWait'
    BY <2>2 DEF ListedTrainsWait
  <2>7. QED
    BY <1>4, <2>3, <2>4, <2>5, <2>6 DEF LogInv
<1>10. CASE Front /\ pc'[CC] = "copy"
  <2>1. /\ pc[CC] = "front" /\ entry' = ControlLog!LogEvent("Breakdown", train, {})
        /\ UNCHANGED <<train, cells, tail, seen>>
    <3>1. \/ Sleep(CC, "front", "back")
          \/ /\ Goto(CC, "front", "copy")
             /\ entry' = ControlLog!LogEvent("Breakdown", train, {})
      BY <1>10 DEF Front
    <3>2. Sleep(CC, "front", "back") => pc'[CC] # "copy"
      BY <1>1, SleepEffect
    <3>3. QED
      BY <1>1, <1>10, <3>1, <3>2, GotoEffect DEF Front, logvars
  <2>2. entry'.train = train /\ entry'.waiting = {} /\ ~OfPassing(entry')
    BY <2>1 DEF ControlLog!LogEvent, OfPassing
  <2>3. ~Copying'
    BY <2>2 DEF Copying, OfPassing
  <2>4. SeenInv' /\ BehindFinish'
    BY <1>1, <1>3, <2>1, <2>3 DEF SeenInv, BehindFinish, PassingCells
  <2>5. InOrder' /\ PassingCells' = PassingCells
        /\ (\A i \in PassingCells' : AheadOfQueue(cells[i].train)')
    BY <1>1, <1>3, <2>1, OrderKept
  <2>6. AheadOfQueue(train)'
    <3>1. train # NoTrain
      BY <1>1, <2>1 DEF TunnelInv
    <3>2. QED
      BY <1>1, <1>3, <2>1, <3>1, AheadKept DEF Ahead
  <2>7. Ahead'
    BY <2>1, <2>2, <2>3, <2>5, <2>6 DEF Ahead
  <2>8. ListedTrainsWait'
    BY <2>2 DEF ListedTrainsWait
  <2>9. QED
    BY <1>4, <2>4, <2>5, <2>7, <2>8 DEF LogInv
<1>11. CASE /\ ~Copy /\ ~PushEntry /\ ~(Idle /\ clearance)
            /\ ~LogCleared /\ ~LogEntry /\ ~(Front /\ pc'[CC] = "copy")
  <2>1. /\ \/ Goto(CC, "top", "idle") \/ Goto(CC, "top", "pick")
           \/ Goto(CC, "idle", "reset") \/ Goto(CC, "reset", "top")
           \/ (Front /\ Sleep(CC, "front", "back")) \/ Sleep(CC, "back", "exit") \/ Goto(CC, "exit", "top")
           \/ (Front /\ Goto(CC, "front", "copy"))
        /\ UNCHANGED logvars /\ train' \in {train, NoTrain}
    BY <1>11 DEF ControlCenterStep, Top, Idle, Reset, Front, Back, Exit, ccvars
  <2>2. pc[CC] # "logEntry" /\ pc'[CC] # "copy"
    BY <1>1, <1>11, <2>1, GotoEffect, SleepEffect
  <2>3. UNCHANGED <<cells, tail, seen>>
    BY <2>1 DEF logvars
  <2>4. SeenInv' /\ BehindFinish'
    BY <1>1, <1>3, <2>2, <2>3 DEF SeenInv, BehindFinish, PassingCells, Copying
  <2>5. InOrder' /\ Ahead'
    BY <1>1, <1>3, <2>1, <2>2, <2>3, AheadOut
  <2>6. ListedTrainsWait'
    BY <2>2 DEF ListedTrainsWait
  <2>7. QED
    BY <1>4, <2>4, <2>5, <2>6 DEF LogInv
<1>12. QED
  BY <1>6, <1>7, <1>8, <1>9, <1>10, <1>11

\* Steps of main, and none.
LEMMA QuietLog ==
    ASSUME IInv, LogInv,
           UNCHANGED <<pc, queue, trainsHashMap, train_id, entry, train, cells, tail, seen>>
    PROVE  LogInv'
<1>1. TrainsWaiting' = TrainsWaiting /\ \A s \in Section : InQueue(s)' = InQueue(s)
  BY DEF TrainsWaiting, InQueue
<1>2. RowsKept /\ QueuesKept
  BY <1>1 DEF RowsKept, QueuesKept, Source
<1>3. InOrder' /\ Ahead'
  BY <1>2, AheadSame DEF LogInv, IInv
<1>4. SeenInv' /\ BehindFinish'
  BY DEF LogInv, SeenInv, BehindFinish, PassingCells, Copying
<1>5. OwnSection' /\ ListedTrainsWait'
  BY <1>1 DEF LogInv, OwnSection, ListedTrainsWait, Source
<1>6. QED
  BY <1>3, <1>4, <1>5 DEF LogInv

LEMMA NextLog == IInv /\ IInv' /\ QueueOrder /\ LogInv /\ [Next]_vars => LogInv'
<1> SUFFICES ASSUME IInv, IInv', QueueOrder, LogInv, [Next]_vars PROVE LogInv'
  OBVIOUS
<1>1. TypeOK'
  BY DEF IInv
<1>2. ASSUME NEW s \in Running, SectionStep(s) PROVE LogInv'
  BY <1>1, <1>2, SectionLog, RunningAssumption
<1>3. CASE ControlCenterStep
  BY <1>3, ControlCenterLog
<1>4. CASE Cancel
  BY <1>4, QuietLog DEF Cancel, ccvars, logvars
<1>5. CASE UNCHANGED vars
  BY <1>5, QuietLog DEF vars, ccvars, logvars
<1>6. CASE Stopped
  BY <1>5, <1>6 DEF Stopped
<1>7. QED
  BY <1>2, <1>3, <1>4, <1>5, <1>6 DEF Next

LEMMA InitLog == Init => LogInv
<1> SUFFICES ASSUME Init PROVE LogInv
  OBVIOUS
<1> USE ThreadMembers
<1>1. /\ pc[CC] = "top" /\ (\A s \in Section : pc[s] = "poll")
      /\ cells = <<>> /\ (\A t \in Thread : seen[t] = {})
      /\ train = NoTrain /\ trainsHashMap = <<>> /\ \A s \in Section : InQueue(s) = {}
  BY DEF Init, ControlLog!QInit, InQueue
<1>2. PassingCells = {}
  BY <1>1 DEF PassingCells
<1>3. QED
  BY <1>1, <1>2 DEF LogInv, SeenInv, BehindFinish, InOrder, Ahead, OwnSection,
                    ListedTrainsWait, Copying

\* The inductive invariant of the control log.
THEOREM MetroLogInvariant == Spec => []LogInv
<1>1. QED
  BY InitLog, NextLog, MetroInvariant, MetroQueueOrder, PTL DEF Spec

\* Two passings of one section are in the control log in the order of the
\* trains, and no train is there twice, whatever the unlocked pushes have
\* overwritten or skipped (main.cpp:113, 148, 204).
THEOREM MetroPassingOrder == Spec => []PassingOrder
<1>1. IInv /\ LogInv => PassingOrder
  <2> SUFFICES ASSUME IInv, LogInv, NEW i \in 1 .. tail, NEW j \in 1 .. tail, i < j,
                      IsPassing(i), IsPassing(j)
               PROVE  LET a == ControlLog!Cell(i).train
                          b == ControlLog!Cell(j).train
                      IN  /\ a # b
                          /\ trainsHashMap[a].source = trainsHashMap[b].source => a < b
    BY DEF PassingOrder
  <2>1. ASSUME NEW k, IsPassing(k) PROVE k \in PassingCells /\ ControlLog!Cell(k) = cells[k]
    BY <2>1 DEF IsPassing, PassingCells, OfPassing, ControlLog!Cell,
                ControlLog!Unconstructed, ControlLog!LogEvent
  <2>2. cells[i].train \in Int /\ cells[j].train \in Int
    <3>1. ControlLog!QTypeOK /\ i \in Nat /\ j \in Nat
      BY DEF IInv, TypeOK, ControlLog!QTypeOK
    <3>2. cells[i] \in ControlLog!Event /\ cells[j] \in ControlLog!Event
      BY <2>1, <3>1, CellType
    <3>3. QED
      BY <3>2 DEF ControlLog!Event
  <2>3. Source(cells[i].train) = Source(cells[j].train) => cells[i].train < cells[j].train
    BY <2>1 DEF LogInv, InOrder
  <2>4. cells[i].train # cells[j].train
    BY <2>2, <2>3
  <2>5. QED
    BY <2>1, <2>3, <2>4 DEF Source
<1>2. QED
  BY <1>1, MetroInvariant, MetroLogInvariant, PTL

\* What the control center has copied of the queues without trainMutex is still
\* true when it pushes the event (main.cpp:148, 161).
THEOREM MetroListedTrainsWait == Spec => []ListedTrainsWait
<1>1. LogInv => ListedTrainsWait
  BY DEF LogInv
<1>2. QED
  BY <1>1, MetroLogInvariant, PTL
=============================================================================
