-------------------------- MODULE MetroMainProofs ---------------------------
(***************************************************************************)
(* Proofs about module MetroMain.  The rows that the train log inserts     *)
(* into trainsHashMap are the only effect that main and the log threads    *)
(* have on the variables of module Metro; without these rows every step is *)
(* a step of Metro or a stutter, so that what is proved of Metro holds to  *)
(* the end of the program.                                                 *)
(***************************************************************************)
EXTENDS MetroMain, MetroProofs

\* The rows that a section thread has made.
Made == {id \in DOMAIN trainsHashMap : trainsHashMap[id] # Default}
MadeRows == [id \in Made |-> trainsHashMap[id]]

M == INSTANCE MetroImplementsLine WITH trainsHashMap <- MadeRows

LEMMA MadeAssumptions == M!RunningAssumption /\ M!ThresholdAssumption /\ M!MaxTrainsAssumption
  BY RunningAssumption, ThresholdAssumption, MaxTrainsAssumption
     DEF M!RunningAssumption, M!ThresholdAssumption, M!MaxTrainsAssumption, M!Section, Section

-----------------------------------------------------------------------------
(* What does not depend on the map is the same on both sides. *)

LEMMA SameThreads ==
    M!Section = Section /\ M!CC = CC /\ M!Thread = Thread /\ M!NoTrain = NoTrain
  BY DEF M!Section, Section, M!CC, CC, M!Thread, Thread, M!NoTrain, NoTrain

LEMMA SameCardinality ==
    ASSUME NEW S
    PROVE  M!Cardinality(S) = Cardinality(S)
  BY DEF M!Cardinality, Cardinality

LEMMA SameQueues ==
    /\ \A s \in Section : M!InQueue(s) = InQueue(s)
    /\ M!TrainsWaiting = TrainsWaiting /\ M!Total = Total
    /\ M!Overloaded = Overloaded /\ M!AllEmpty = AllEmpty
    /\ \A s \in Section : M!Crowded(s) <=> Crowded(s)
    /\ M!NextId = NextId /\ M!Created = Created
<1>1. \A s \in Section : M!InQueue(s) = InQueue(s)
  BY DEF M!InQueue, InQueue
<1>2. M!TrainsWaiting = TrainsWaiting
  BY <1>1, SameThreads DEF M!TrainsWaiting, TrainsWaiting
<1>3. M!Total = Total
  BY SameThreads DEF M!Total, Total, M!Sum4, Sum4
<1>4. M!Overloaded = Overloaded /\ M!AllEmpty = AllEmpty
  BY <1>3, Zenon DEF M!Overloaded, Overloaded, M!AllEmpty, AllEmpty
<1>5. \A s \in Section : M!Crowded(s) <=> Crowded(s)
  BY SameThreads DEF M!Crowded, Crowded
<1>6. M!NextId = NextId /\ M!Created = Created
  <2>1. {s \in M!Section : pc[s] = "number"} = {s \in Section : pc[s] = "number"}
    BY SameThreads
  <2>2. M!Created = Created
    BY <2>1, SameCardinality DEF M!Created, Created
  <2>3. QED
    BY <2>2 DEF M!NextId, NextId
<1>7. QED
  BY <1>1, <1>2, <1>3, <1>4, <1>5, <1>6

LEMMA SameJumps ==
    ASSUME NEW t, NEW from, NEW to
    PROVE  (M!Goto(t, from, to) <=> Goto(t, from, to)) /\ (M!Sleep(t, from, to) <=> Sleep(t, from, to))
  BY DEF M!Goto, Goto, M!Sleep, Sleep, M!Cancelled, Cancelled

LEMMA SameEvents ==
    ASSUME NEW e, NEW id, NEW w
    PROVE  /\ M!ControlLog!LogEvent(e, id, w) = ControlLog!LogEvent(e, id, w)
           /\ M!Passing(id) = Passing(id)
           /\ M!ControlLog!Unconstructed = ControlLog!Unconstructed
  BY DEF M!ControlLog!LogEvent, ControlLog!LogEvent, M!Passing, Passing,
         M!ControlLog!Unconstructed, ControlLog!Unconstructed

LEMMA SameLog ==
    ASSUME NEW t, NEW e
    PROVE  /\ M!ControlLog!Construct(t, e) <=> ControlLog!Construct(t, e)
           /\ M!ControlLog!Advance(t) <=> ControlLog!Advance(t)
<1>1. \A i : M!ControlLog!Cell(i) = ControlLog!Cell(i)
  BY SameEvents DEF M!ControlLog!Cell, ControlLog!Cell
<1>2. M!ControlLog!Construct(t, e) <=> ControlLog!Construct(t, e)
  BY <1>1 DEF M!ControlLog!Construct, ControlLog!Construct
<1>3. M!ControlLog!Advance(t) <=> ControlLog!Advance(t)
  BY SameThreads, Zenon DEF M!ControlLog!Advance, ControlLog!Advance
<1>4. QED
  BY <1>2, <1>3

LEMMA MInitMade == MInit => M!Init
<1> SUFFICES ASSUME MInit PROVE M!Init
  OBVIOUS
<1>1. Init
  BY DEF MInit
<1>2. MadeRows = <<>>
  BY <1>1 DEF Init, MadeRows, Made
<1>3. M!ControlLog!QInit
  BY <1>1, SameThreads DEF Init, M!ControlLog!QInit, ControlLog!QInit
<1>4. /\ pc = [t \in M!Thread |-> IF t = M!CC THEN "top" ELSE "poll"]
      /\ queue = [s \in M!Section |-> <<>>] /\ overload = [s \in M!Section |-> FALSE]
      /\ train = M!NoTrain /\ entry = M!ControlLog!Unconstructed
      /\ train_id = -1 /\ clearance = FALSE /\ trainMutex = 0 /\ tunnelMutex = FALSE
      /\ copied = 0 /\ cancels = 0
  BY <1>1, SameThreads, SameEvents DEF Init
<1>5. QED
  BY <1>2, <1>3, <1>4 DEF M!Init

-----------------------------------------------------------------------------
(* Every step of a section thread and of the control center is one of the  *)
(* threads of M.                                                           *)

LEMMA MadeSame ==
    ASSUME trainsHashMap' = trainsHashMap
    PROVE  MadeRows' = MadeRows
  BY DEF MadeRows, Made

\* The new row is never the one that the train log inserts.
LEMMA MadeRecord ==
    ASSUME NEW s \in Section, Record(s)
    PROVE  MadeRows' = [id \in DOMAIN MadeRows \union {train_id} |->
                           IF id = train_id THEN NewRow(s) ELSE MadeRows[id]]
<1>1. trainsHashMap' = [id \in DOMAIN trainsHashMap \union {train_id} |->
                           IF id = train_id THEN NewRow(s) ELSE trainsHashMap[id]]
  BY DEF Record
<1>2. NewRow(s) # Default
  BY DEF NewRow, Default
<1>3. Made' = Made \union {train_id}
  BY <1>1, <1>2 DEF Made
<1>4. MadeRows' = [id \in Made \union {train_id} |->
                      IF id = train_id THEN NewRow(s) ELSE trainsHashMap[id]]
  BY <1>1, <1>3 DEF MadeRows, Made
<1>5. DOMAIN MadeRows = Made /\ \A id \in Made : MadeRows[id] = trainsHashMap[id]
  BY DEF MadeRows
<1>6. QED
  BY <1>4, <1>5

LEMMA MadeExit ==
    ASSUME M!IInv, Exit
    PROVE  MadeRows' = [MadeRows EXCEPT ![train].arrived = TRUE]
<1>1. trainsHashMap' = [trainsHashMap EXCEPT ![train].arrived = TRUE] /\ pc[CC] = "exit"
  BY DEF Exit, Goto
<1>2. train \in Made /\ trainsHashMap[train] \in M!Row
  <2>1. train # M!NoTrain
    BY <1>1, SameThreads DEF M!IInv, M!TunnelInv
  <2>2. train \in DOMAIN MadeRows
    BY <2>1 DEF M!IInv, M!Recorded
  <2>3. MadeRows[train] \in M!Row
    BY <2>2 DEF M!IInv, M!TypeOK
  <2>4. QED
    BY <2>2, <2>3 DEF MadeRows
<1>3. DOMAIN trainsHashMap' = DOMAIN trainsHashMap
  BY <1>1
<1>4. trainsHashMap'[train] = [trainsHashMap[train] EXCEPT !.arrived = TRUE]
  BY <1>1, <1>2 DEF Made
<1>5. trainsHashMap'[train].source \in Section
  BY <1>2, <1>4, SameThreads DEF M!Row
<1>6. trainsHashMap'[train] # Default
  BY <1>5 DEF Default, Section
<1>7. \A id \in DOMAIN trainsHashMap : id # train => trainsHashMap'[id] = trainsHashMap[id]
  BY <1>1
<1>8. Made' = Made
  BY <1>2, <1>3, <1>6, <1>7 DEF Made
<1>9. MadeRows' = [id \in Made |-> trainsHashMap'[id]]
  BY <1>8 DEF MadeRows
<1>10. QED
  BY <1>2, <1>4, <1>7, <1>9 DEF MadeRows, Made

LEMMA SectionMade ==
    ASSUME NEW s \in Section, SectionStep(s)
    PROVE  M!SectionStep(s)
<1> USE SameJumps DEF M!SectionStep
<1>1. CASE Poll(s)
  BY <1>1, MadeSame DEF Poll, M!Poll, ccvars, M!ccvars, logvars, M!logvars
<1>2. CASE Spin(s)
  BY <1>2, MadeSame DEF Spin, M!Spin, vars, M!vars, ccvars, M!ccvars, logvars, M!logvars
<1>3. CASE Gauge(s)
  <2>1. M!Overloaded = Overloaded
    BY SameQueues
  <2>2. QED
    BY <1>3, <2>1, MadeSame DEF Gauge, M!Gauge, ccvars, M!ccvars, logvars, M!logvars
<1>4. CASE Announce(s)
  BY <1>4, MadeSame, SameQueues, SameLog, SameEvents, SameThreads DEF Announce, M!Announce, ccvars, M!ccvars, logvars, M!logvars
<1>5. CASE LogOverload(s)
  BY <1>5, MadeSame, SameLog DEF LogOverload, M!LogOverload, ccvars, M!ccvars, logvars, M!logvars
<1>6. CASE Raise(s)
  BY <1>6, MadeSame DEF Raise, M!Raise, ccvars, M!ccvars, logvars, M!logvars
<1>7. CASE Recheck(s)
  BY <1>7, MadeSame, SameQueues DEF Recheck, M!Recheck, ccvars, M!ccvars, logvars, M!logvars
<1>8. CASE Number(s)
  BY <1>8, MadeSame, SameQueues DEF Number, M!Number, ccvars, M!ccvars, logvars, M!logvars
<1>9. CASE Enqueue(s)
  BY <1>9, MadeSame DEF Enqueue, M!Enqueue, ccvars, M!ccvars, logvars, M!logvars
<1>10. CASE Record(s)
  BY <1>10, MadeRecord DEF Record, M!Record, NewRow, M!NewRow, ccvars, M!ccvars, logvars, M!logvars
<1>11. CASE Rest(s)
  BY <1>11, MadeSame DEF Rest, M!Rest, ccvars, M!ccvars, logvars, M!logvars
<1>12. QED
  BY <1>1, <1>2, <1>3, <1>4, <1>5, <1>6, <1>7, <1>8, <1>9, <1>10, <1>11 DEF SectionStep

LEMMA ControlCenterMade ==
    ASSUME M!IInv, ControlCenterStep
    PROVE  M!ControlCenterStep
<1> USE SameJumps, SameThreads DEF M!ControlCenterStep
<1>1. CASE Top
  BY <1>1, MadeSame, SameQueues DEF Top, M!Top, ccvars, M!ccvars, logvars, M!logvars
<1>2. CASE Idle
  BY <1>2, MadeSame, SameLog, SameEvents DEF Idle, M!Idle, ccvars, M!ccvars, logvars, M!logvars
<1>3. CASE LogCleared
  BY <1>3, MadeSame, SameLog DEF LogCleared, M!LogCleared, ccvars, M!ccvars, logvars, M!logvars
<1>4. CASE Reset
  BY <1>4, MadeSame DEF Reset, M!Reset, ccvars, M!ccvars, logvars, M!logvars
<1>5. CASE Pick
  BY <1>5, MadeSame, SameQueues, SameEvents DEF Pick, M!Pick, ccvars, M!ccvars, logvars, M!logvars
<1>6. CASE Copy
  <2>1. copied + 1 \in Section
    BY <1>6 DEF Copy, M!IInv, M!TypeOK, Section
  <2>2. M!InQueue(copied + 1) = InQueue(copied + 1)
    BY <2>1, SameQueues
  <2>3. QED
    BY <1>6, <2>2, MadeSame DEF Copy, M!Copy, ccvars, M!ccvars, logvars, M!logvars
<1>7. CASE PushEntry
  BY <1>7, MadeSame, SameLog DEF PushEntry, M!PushEntry, ccvars, M!ccvars, logvars, M!logvars
<1>8. CASE LogEntry
  BY <1>8, MadeSame, SameLog, SameEvents DEF LogEntry, M!LogEntry, ccvars, M!ccvars, logvars, M!logvars
<1>9. CASE Front
  BY <1>9, MadeSame, SameEvents DEF Front, M!Front, ccvars, M!ccvars, logvars, M!logvars, Cancelled, M!Cancelled
<1>10. CASE Back
  BY <1>10, MadeSame DEF Back, M!Back, ccvars, M!ccvars, logvars, M!logvars
<1>11. CASE Exit
  BY <1>11, MadeExit DEF Exit, M!Exit, ccvars, M!ccvars, logvars, M!logvars
<1>12. QED
  BY <1>1, <1>2, <1>3, <1>4, <1>5, <1>6, <1>7, <1>8, <1>9, <1>10, <1>11 DEF ControlCenterStep

-----------------------------------------------------------------------------
(* main and the log threads stutter. *)

LEMMA StutterMade ==
    ASSUME UNCHANGED vars
    PROVE  UNCHANGED M!vars
  BY MadeSame DEF vars, M!vars, ccvars, M!ccvars, logvars, M!logvars

LEMMA TrainRowMade ==
    ASSUME TrainRow
    PROVE  MadeRows' = MadeRows
<1> DEFINE id == Len(rows)
<1>1. CASE id \in DOMAIN trainsHashMap
  BY <1>1, MadeSame DEF TrainRow
<1>2. CASE id \notin DOMAIN trainsHashMap
  <2>1. trainsHashMap' = [i \in DOMAIN trainsHashMap \union {id} |->
                             IF i = id THEN Default ELSE trainsHashMap[i]]
    BY <1>2 DEF TrainRow
  <2>2. Made' = Made
    BY <1>2, <2>1 DEF Made
  <2>3. MadeRows' = [i \in Made |-> trainsHashMap'[i]]
    BY <2>2 DEF MadeRows
  <2>4. \A i \in Made : trainsHashMap'[i] = trainsHashMap[i]
    BY <1>2, <2>1 DEF Made
  <2>5. QED
    BY <2>3, <2>4 DEF MadeRows
<1>3. QED
  BY <1>1, <1>2

LEMMA MNextMade == M!IInv /\ [MNext]_allvars => [M!Next]_(M!vars)
<1> SUFFICES ASSUME M!IInv, [MNext]_allvars PROVE [M!Next]_(M!vars)
  OBVIOUS
<1>1. ASSUME NEW s \in Running, SectionStep(s) PROVE [M!Next]_(M!vars)
  BY <1>1, SectionMade, RunningAssumption DEF M!Next
<1>2. CASE ControlCenterStep
  BY <1>2, ControlCenterMade DEF M!Next
<1>3. CASE Cancel
  <2>1. M!Cancel
    BY <1>3, MadeSame, SameThreads DEF Cancel, M!Cancel, ccvars, M!ccvars, logvars, M!logvars
  <2>2. QED
    BY <2>1 DEF M!Next
<1>4. CASE UNCHANGED vars
  BY <1>4, StutterMade
<1>5. CASE TrainRow
  <2>1. UNCHANGED M!vars
    BY <1>5, TrainRowMade DEF TrainRow, M!vars, ccvars, M!ccvars, logvars, M!logvars
  <2>2. QED
    BY <2>1
<1>6. \/ \E s \in Running : SectionStep(s)
      \/ ControlCenterStep \/ Cancel \/ TrainRow \/ UNCHANGED vars
  BY DEF MNext, MainStep, CreateControlLog, CreateTrainLog, Return, ControlLogStep,
         PopEvent, Overrun, EndControlLog, TrainLogStep, EndTrainLog, allvars
<1>7. QED
  BY <1>1, <1>2, <1>3, <1>4, <1>5, <1>6

LEMMA MadeInit == M!Init => M!IInv
  BY MadeAssumptions, M!InitIInv

LEMMA MadeNext == M!IInv /\ [M!Next]_(M!vars) => M!IInv'
  BY MadeAssumptions, M!NextIInv

LEMMA MadeInvariant == MSpec => []M!IInv
<1>1. MInit => M!IInv
  BY MInitMade, MadeInit
<1>2. M!IInv /\ [MNext]_allvars => M!IInv'
  BY MNextMade, MadeNext
<1>3. QED
  BY <1>1, <1>2, PTL DEF MSpec

\* With main and the log threads, which share trainsHashMap with them, the
\* section threads and the control center still do what module Metro says
\* (main.cpp:296-447).
THEOREM MetroMainImplementsMetro == MSpec => M!Spec
<1>1. QED
  BY MInitMade, MNextMade, MadeInvariant, PTL DEF MSpec, M!Spec

\* The order of the passings holds to the end of the program, although the
\* train log inserts rows while threads that main has cancelled still push
\* (main.cpp:148, 315).
THEOREM MainPassingOrder == MSpec => []PassingOrder
<1>1. M!Spec => []M!LogInv
  BY MadeAssumptions, M!MetroLogInvariant
<1>2. M!Spec => []M!PassingOrder
  BY MadeAssumptions, M!MetroPassingOrder
<1>3. M!LogInv /\ M!PassingOrder => PassingOrder
  <2> SUFFICES ASSUME M!LogInv, M!PassingOrder, NEW i \in 1 .. tail, NEW j \in 1 .. tail,
                      i < j, IsPassing(i), IsPassing(j)
               PROVE  LET a == ControlLog!Cell(i).train
                          b == ControlLog!Cell(j).train
                      IN  /\ a # b
                          /\ trainsHashMap[a].source = trainsHashMap[b].source => a < b
    BY DEF PassingOrder
  <2>1. \A k : M!ControlLog!Cell(k) = ControlLog!Cell(k)
    BY SameEvents DEF M!ControlLog!Cell, ControlLog!Cell
  <2>2. \A k : M!IsPassing(k) <=> IsPassing(k)
    BY <2>1 DEF M!IsPassing, IsPassing
  <2>3. ASSUME NEW k, IsPassing(k)
        PROVE  ControlLog!Cell(k).train \in Made
    <3>1. k \in M!PassingCells /\ ControlLog!Cell(k) = cells[k]
      BY <2>3 DEF IsPassing, M!PassingCells, M!OfPassing, ControlLog!Cell,
                  ControlLog!Unconstructed, ControlLog!LogEvent
    <3>2. cells[k].train \in DOMAIN MadeRows
      BY <3>1 DEF M!LogInv, M!Ahead, M!AheadOfQueue
    <3>3. QED
      BY <3>1, <3>2 DEF MadeRows
  <2>4. LET a == ControlLog!Cell(i).train
            b == ControlLog!Cell(j).train
        IN  /\ a # b
            /\ MadeRows[a].source = MadeRows[b].source => a < b
    BY <2>1, <2>2 DEF M!PassingOrder
  <2>5. QED
    BY <2>3, <2>4 DEF MadeRows
<1>4. QED
  BY <1>1, <1>2, <1>3, MetroMainImplementsMetro, PTL

LEMMA MTypeNext == M!IInv /\ MTypeOK /\ [MNext]_allvars /\ M!IInv' => MTypeOK'
<1> SUFFICES ASSUME M!IInv, MTypeOK, [MNext]_allvars, M!IInv' PROVE MTypeOK'
  OBVIOUS
<1>1. \A id \in DOMAIN trainsHashMap' :
         \/ trainsHashMap'[id] \in [source : Section, arrived : BOOLEAN]
         \/ trainsHashMap'[id].source = 0 /\ trainsHashMap'[id].arrived
  <2> SUFFICES ASSUME NEW id \in DOMAIN trainsHashMap', id \in Made'
               PROVE  trainsHashMap'[id] \in [source : Section, arrived : BOOLEAN]
    BY DEF Made, Default
  <2>1. MadeRows'[id] \in M!Row
    BY DEF M!IInv, M!TypeOK, MadeRows
  <2>2. QED
    BY <2>1, SameThreads DEF MadeRows, M!Row
<1>2. /\ mainPc \in {"simulate", "create", "join", "exited", "crashed"}
      /\ logging \subseteq {"control", "train"} /\ head \in Nat /\ rows \in Seq({"time", "#"})
  BY DEF MTypeOK
<1>3. mainPc' \in {"simulate", "create", "join", "exited", "crashed"}
  BY <1>2 DEF MNext, mvars, MainStep, CreateControlLog, CreateTrainLog, Return, ControlLogStep,
         PopEvent, Overrun, EndControlLog, TrainLogStep, TrainRow, EndTrainLog, allvars
<1>4. logging' \subseteq {"control", "train"}
  BY <1>2 DEF MNext, mvars, MainStep, CreateControlLog, CreateTrainLog, Return, ControlLogStep,
         PopEvent, Overrun, EndControlLog, TrainLogStep, TrainRow, EndTrainLog, allvars
<1>5. head' \in Nat
  BY <1>2 DEF MNext, mvars, MainStep, CreateControlLog, CreateTrainLog, Return, ControlLogStep,
         PopEvent, Overrun, EndControlLog, TrainLogStep, TrainRow, EndTrainLog, allvars
<1>6. rows' \in Seq({"time", "#"})
  <2>1. CASE TrainRow
    <3>1. rows' = Append(rows, "time") \/ rows' = Append(rows, "#")
      BY <2>1 DEF TrainRow
    <3>2. QED
      BY <1>2, <3>1
  <2>2. CASE ~TrainRow
    <3>1. rows' = rows
      BY <2>2 DEF MNext, mvars, MainStep, CreateControlLog, CreateTrainLog, Return, ControlLogStep,
             PopEvent, Overrun, EndControlLog, TrainLogStep, EndTrainLog, allvars
    <3>2. QED
      BY <1>2, <3>1
  <2>3. QED
    BY <2>1, <2>2
<1>7. QED
  BY <1>1, <1>3, <1>4, <1>5, <1>6 DEF MTypeOK

\* The state of main and the log threads; each row of the map is one that a
\* section thread made or that an access by number inserted (main.cpp:315).
THEOREM MainTypeCorrect == MSpec => []MTypeOK
<1>1. MInit => MTypeOK
  <2> SUFFICES ASSUME MInit PROVE MTypeOK
    OBVIOUS
  <2>1. DOMAIN trainsHashMap = {} /\ <<>> \in Seq({"time", "#"})
    BY DEF MInit, Init
  <2>2. QED
    BY <2>1 DEF MInit, MTypeOK
<1>2. QED
  BY <1>1, MTypeNext, MadeInvariant, PTL DEF MSpec

-----------------------------------------------------------------------------
(* No late arrival. *)

\* The train in the tunnel was taken after the cancellation, and will meet the
\* sleep that ends its thread before it leaves: its passing is not logged yet,
\* or that sleep is the next step.
PassingEntry == entry.event = "Tunnel Passing"
MeetsSleep ==
    \/ pc[CC] \in {"front", "dead"}
    \/ pc[CC] \in {"copy", "logEntry"} /\ PassingEntry

LateInv ==
    /\ late \subseteq Nat
    /\ late # {} => Cancelled(CC)
    /\ late \intersect Reached = {}
    /\ train \in late => MeetsSleep

LEMMA MadeArrived == M!Arrived = Reached /\ M!Arrived' = Reached'
  BY DEF M!Arrived, MadeRows, Made, Reached, Arrived

\* A train is in one place.
LEMMA MadeOnePlace ==
    ASSUME M!IInv, M!OnePlace
    PROVE  /\ TrainsWaiting \subseteq Nat /\ TrainsWaiting \intersect Reached = {}
           /\ train \notin TrainsWaiting \union Reached
<1>1. M!Line!Waiting = TrainsWaiting
  BY DEF M!Line!Waiting, M!Line!InQueue, M!Line!Section, TrainsWaiting, InQueue, Section
<1>2. TrainsWaiting \subseteq Nat
  BY SameThreads DEF M!IInv, M!TypeOK, TrainsWaiting, InQueue
<1>3. QED
  BY <1>1, <1>2, MadeArrived DEF M!OnePlace, M!Line!OnePlace

\* The arrival column changes only when the control center leaves the tunnel.
LEMMA SectionReached ==
    ASSUME M!IInv, NEW s \in Section, SectionStep(s)
    PROVE  Reached' = Reached
<1>1. M!SectionStep(s) /\ s \in M!Section
  BY SectionMade, SameThreads
<1>2. M!Line!Arrive(s) \/ M!Stutter
  BY <1>1, MadeAssumptions, M!SectionLine
<1>3. M!Arrived' = M!Arrived
  BY <1>2 DEF M!Line!Arrive, M!Stutter
<1>4. QED
  BY <1>3, MadeArrived

LEMMA ControlCenterReached ==
    ASSUME M!IInv, ControlCenterStep
    PROVE  Reached' \subseteq Reached \union {train} /\ (~Exit => Reached' = Reached)
<1>1. CASE Exit
  <2>1. MadeRows' = [MadeRows EXCEPT ![train].arrived = TRUE]
    BY <1>1, MadeExit
  <2>2. M!Arrived' \subseteq M!Arrived \union {train}
    BY <2>1 DEF M!Arrived
  <2>3. QED
    BY <1>1, <2>2, MadeArrived
<1>2. CASE ~Exit
  <2>1. trainsHashMap' = trainsHashMap
    BY <1>2 DEF ControlCenterStep, Top, Idle, LogCleared, Reset, Pick, Copy,
                PushEntry, LogEntry, Front, Back, ccvars
  <2>2. QED
    BY <2>1 DEF Reached, Arrived
<1>3. QED
  BY <1>1, <1>2

\* What late becomes in one step.
LateStep == late' = IF Cancelled(CC) THEN late \union TrainsWaiting ELSE late

LEMMA LateGrows ==
    ASSUME LateInv, LateStep, M!IInv, M!OnePlace, cancels' \in Int, cancels' >= cancels
    PROVE  /\ late' \subseteq Nat /\ (late' # {} => Cancelled(CC) /\ Cancelled(CC)')
           /\ late' \subseteq late \union TrainsWaiting
           /\ late' \intersect Reached = {}
           /\ train \in late' => MeetsSleep
<1>1. cancels \in Int /\ cancels' \in Int /\ cancels' >= cancels
  BY DEF M!IInv, M!TypeOK
<1>2. late' \subseteq late \union TrainsWaiting
  BY DEF LateStep
<1>3. late' # {} => Cancelled(CC)
  BY DEF LateStep, LateInv
<1>4. Cancelled(CC) => Cancelled(CC)'
  <2>1. CC <= cancels => CC <= cancels'
    BY <1>1 DEF CC
  <2>2. QED
    BY <2>1 DEF Cancelled
<1>5. QED
  BY <1>2, <1>3, <1>4, MadeOnePlace DEF LateInv

\* A step that is not the control center's.
LEMMA LateOther ==
    ASSUME LateInv, LateStep, M!IInv, M!OnePlace, cancels' \in Int, cancels' >= cancels,
           Reached' = Reached, train' = train, entry' = entry, pc'[CC] = pc[CC]
    PROVE  LateInv'
<1>1. MeetsSleep' <=> MeetsSleep
  BY DEF MeetsSleep, PassingEntry
<1>2. QED
  BY <1>1, LateGrows DEF LateInv

LEMMA LateControlCenter ==
    ASSUME LateInv, LateStep, M!IInv, M!OnePlace, ControlCenterStep
    PROVE  LateInv'
<1> USE ThreadMembers
<1>1. PcTypeOK
  BY SameThreads DEF M!IInv, M!TypeOK, M!PcTypeOK, PcTypeOK, M!SectionPc, SectionPc, M!CCPc, CCPc
<1>2. cancels' = cancels /\ cancels \in Int
  <2>1. cancels \in Int
    BY DEF M!IInv, M!TypeOK, M!CC
  <2>2. cancels' = cancels
    BY DEF ControlCenterStep, Top, Idle, LogCleared, Reset, Pick, Copy,
           PushEntry, LogEntry, Front, Back, Exit
  <2>3. QED
    BY <2>1, <2>2
<1>3. /\ late' \subseteq Nat /\ (late' # {} => Cancelled(CC) /\ Cancelled(CC)')
      /\ late' \subseteq late \union TrainsWaiting
      /\ late' \intersect Reached = {}
      /\ train \in late' => MeetsSleep
  BY <1>2, LateGrows
<1>4. NoTrain \notin Nat
  BY DEF NoTrain
<1>5. CASE Exit
  <2>1. pc[CC] = "exit" /\ train' = NoTrain
    BY <1>1, <1>5, GotoEffect DEF Exit
  <2>2. train \notin late'
    BY <1>3, <2>1 DEF MeetsSleep
  <2>3. Reached' \subseteq Reached \union {train}
    BY ControlCenterReached
  <2>4. QED
    BY <1>3, <1>4, <2>1, <2>2, <2>3 DEF LateInv
<1>6. CASE Pick
  <2>1. pc'[CC] = "copy" /\ PassingEntry'
    <3>1. PICK s \in Section : entry' = Passing(Head(queue[s]))
      BY <1>6 DEF Pick
    <3>2. PassingEntry'
      <4>1. entry'.event = "Tunnel Passing"
        BY <3>1 DEF Passing, ControlLog!LogEvent
      <4>2. QED
        BY <4>1 DEF PassingEntry
    <3>3. QED
      BY <1>1, <1>6, <3>2, GotoEffect DEF Pick
  <2>2. ~Exit
    BY <1>1, <1>6, <2>1, GotoEffect DEF Exit
  <2>3. QED
    BY <1>3, <2>1, <2>2, ControlCenterReached DEF LateInv, MeetsSleep
<1>7. CASE ~Exit /\ ~Pick
  <2>1. train' = train /\ Reached' = Reached
    BY <1>7, ControlCenterReached
       DEF ControlCenterStep, Top, Idle, LogCleared, Reset, Copy, PushEntry, LogEntry,
           Front, Back, ccvars
  <2>2. ASSUME train \in late' PROVE MeetsSleep'
    <3>1. MeetsSleep /\ Cancelled(CC)
      BY <1>3, <2>2
    <3>2. Copy \/ PushEntry \/ LogEntry \/ Front
      <4>1. Top => pc[CC] = "top"
        BY DEF Top, Goto
      <4>2. Idle => pc[CC] = "idle"
        BY DEF Idle, Goto
      <4>3. LogCleared => pc[CC] = "logCleared"
        BY DEF LogCleared, Goto
      <4>4. Reset => pc[CC] = "reset"
        BY DEF Reset, Goto
      <4>5. Back => pc[CC] = "back"
        BY <1>1, SleepEffect DEF Back
      <4>6. QED
        BY <1>7, <3>1, <4>1, <4>2, <4>3, <4>4, <4>5 DEF ControlCenterStep, MeetsSleep
    <3>3. CASE Copy
      <4>1. pc' = pc /\ entry' = [entry EXCEPT !.waiting = @ \union InQueue(copied + 1)]
        BY <3>3 DEF Copy
      <4>2. entry \in M!ControlLog!Event
        BY DEF M!IInv, M!TypeOK
      <4>3. entry'.event = entry.event
        BY <4>1, <4>2 DEF M!ControlLog!Event
      <4>4. PassingEntry' <=> PassingEntry
        BY <4>3 DEF PassingEntry
      <4>5. QED
        BY <3>1, <4>1, <4>4 DEF MeetsSleep
    <3>4. CASE PushEntry
      <4>1. pc[CC] = "copy" /\ pc'[CC] = "logEntry" /\ entry' = entry
        BY <1>1, <3>4, GotoEffect DEF PushEntry
      <4>2. PassingEntry' <=> PassingEntry
        BY <4>1 DEF PassingEntry
      <4>3. QED
        BY <3>1, <4>1, <4>2 DEF MeetsSleep
    <3>5. CASE LogEntry
      <4>1. IF PassingEntry THEN Goto(CC, "logEntry", "front") ELSE Goto(CC, "logEntry", "back")
        BY <3>5 DEF LogEntry, PassingEntry
      <4>2. pc[CC] = "logEntry"
        BY <4>1 DEF Goto
      <4>3. PassingEntry
        BY <3>1, <4>2 DEF MeetsSleep
      <4>4. pc'[CC] = "front"
        BY <1>1, <4>1, <4>3, GotoEffect
      <4>5. QED
        BY <4>4 DEF MeetsSleep
    <3>6. CASE Front
      <4>1. Sleep(CC, "front", "back")
        BY <3>1, <3>6 DEF Front
      <4>2. Goto(CC, "front", "dead")
        BY <3>1, <4>1 DEF Sleep
      <4>3. pc'[CC] = "dead"
        BY <1>1, <4>2, GotoEffect
      <4>4. QED
        BY <4>3 DEF MeetsSleep
    <3>7. QED
      BY <3>2, <3>3, <3>4, <3>5, <3>6
  <2>3. QED
    BY <1>3, <2>1, <2>2 DEF LateInv
<1>8. QED
  BY <1>5, <1>6, <1>7

LEMMA LateNext == M!IInv /\ M!OnePlace /\ LateInv /\ [MNext]_allvars => LateInv'
<1> SUFFICES ASSUME M!IInv, M!OnePlace, LateInv, [MNext]_allvars PROVE LateInv'
  OBVIOUS
<1> USE ThreadMembers
<1>1. cancels \in Int
  BY DEF M!IInv, M!TypeOK, M!CC
<1>2. CASE UNCHANGED allvars
  <2>1. Reached' = Reached /\ (Cancelled(CC)' <=> Cancelled(CC)) /\ (MeetsSleep' <=> MeetsSleep)
    BY <1>2 DEF allvars, vars, ccvars, Reached, Arrived, Cancelled, MeetsSleep, PassingEntry
  <2>2. QED
    BY <1>2, <2>1 DEF allvars, vars, ccvars, LateInv
<1>3. CASE ~Ended /\ MNext
  <2>1. LateStep
    BY <1>3 DEF MNext, LateStep
  <2>2. ASSUME NEW s \in Running, SectionStep(s) PROVE LateInv'
    <3>1. s \in Section
      BY RunningAssumption
    <3>2. PcTypeOK
      BY SameThreads DEF M!IInv, M!TypeOK, M!PcTypeOK, PcTypeOK, M!SectionPc, SectionPc, M!CCPc, CCPc
    <3>3. pc'[CC] = pc[CC]
      BY <2>2, <3>1, <3>2, SectionPcStep
    <3>4. train' = train /\ entry' = entry /\ cancels' = cancels
      BY <2>2 DEF SectionStep, Poll, Spin, Gauge, Announce, LogOverload, Raise,
             Recheck, Number, Enqueue, Record, Rest, vars, ccvars
    <3>5. Reached' = Reached
      BY <2>2, <3>1, SectionReached
    <3>6. QED
      BY <1>1, <2>1, <3>3, <3>4, <3>5, LateOther
  <2>3. CASE ControlCenterStep
    BY <2>1, <2>3, LateControlCenter
  <2>4. CASE Cancel
    <3>1. cancels' \in Int /\ cancels' >= cancels
      BY <1>1, <2>4, RunningAssumption DEF Cancel, Section, CC
    <3>2. UNCHANGED <<pc, trainsHashMap, train, entry>>
      BY <2>4 DEF Cancel, ccvars
    <3>3. Reached' = Reached
      BY <3>2 DEF Reached, Arrived
    <3>4. QED
      BY <2>1, <3>1, <3>2, <3>3, LateOther
  <2>5. CASE UNCHANGED vars
    <3>1. UNCHANGED <<pc, trainsHashMap, train, entry, cancels>>
      BY <2>5 DEF vars, ccvars
    <3>2. Reached' = Reached
      BY <3>1 DEF Reached, Arrived
    <3>3. QED
      BY <1>1, <2>1, <3>1, <3>2, LateOther
  <2>6. CASE TrainRow
    <3>1. UNCHANGED <<pc, train, entry, cancels>>
      BY <2>6 DEF TrainRow, ccvars
    <3>2. M!Arrived' = M!Arrived
      BY <2>6, TrainRowMade DEF M!Arrived
    <3>3. Reached' = Reached
      BY <3>2, MadeArrived
    <3>4. QED
      BY <1>1, <2>1, <3>1, <3>3, LateOther
  <2>7. \/ \E s \in Running : SectionStep(s)
        \/ ControlCenterStep \/ Cancel \/ TrainRow \/ UNCHANGED vars
    BY <1>3 DEF MNext, MainStep, CreateControlLog, CreateTrainLog, Return, ControlLogStep,
           PopEvent, Overrun, EndControlLog, TrainLogStep, EndTrainLog
  <2>8. QED
    BY <2>2, <2>3, <2>4, <2>5, <2>6, <2>7
<1>4. QED
  BY <1>2, <1>3 DEF MNext

\* No train that waits after the control center has been cancelled ever
\* arrives: a sleep, where the cancellation takes effect, is between taking a
\* train and its arrival time (main.cpp:152, 166, 175, 424).
THEOREM MainNoLateArrival == MSpec => []NoLateArrival
<1>1. MInit => LateInv
  <2> SUFFICES ASSUME MInit PROVE LateInv
    OBVIOUS
  <2>1. late = {}
    BY DEF MInit
  <2>2. QED
    BY <2>1 DEF LateInv
<1>2. MSpec => []M!OnePlace
  <2>1. M!Spec => []M!OnePlace
    BY MadeAssumptions, M!MetroOnePlace
  <2>2. QED
    BY <2>1, MetroMainImplementsMetro, PTL
<1>3. LateInv => NoLateArrival
  BY DEF LateInv, NoLateArrival
<1>4. QED
  BY <1>1, <1>2, <1>3, LateNext, MadeInvariant, PTL DEF MSpec
=============================================================================
