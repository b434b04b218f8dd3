------------------------------- MODULE Metro --------------------------------
(***************************************************************************)
(* The threads of project-2-metro-simulation/main.cpp: four section        *)
(* threads that create trains (sectionFunction), the control center that   *)
(* takes trains through the tunnel (controlCenter), and main, which        *)
(* cancels them when the simulation time is over.  One action is one step  *)
(* between two accesses to data that another thread may touch; what a      *)
(* thread does to data that trainMutex protects while it holds trainMutex  *)
(* is one step.                                                            *)
(*                                                                         *)
(* clearance and controlLogQueue are read and written by both kinds of     *)
(* thread without a common lock, and trainsWaiting copies the section      *)
(* queues without trainMutex when the control center calls it: those       *)
(* accesses are steps of their own.  Clock values, lengths, destinations   *)
(* and debug output are left out.                                          *)
(***************************************************************************)
EXTENDS Integers, Sequences, FiniteSets

CONSTANTS Running,    \* the sections whose thread is scheduled at all
          Threshold,  \* trains that may wait before the system is overloaded
          MaxTrains   \* bound on the trains created

NoTrain == -1

\* Sections A, B, E and F; queue[i] is section<i>Queue.
Section == 1 .. 4
CC == 5
Thread == Section \union {CC}

ASSUME RunningAssumption == Running \subseteq Section
ASSUME ThresholdAssumption == Threshold \in Nat
ASSUME MaxTrainsAssumption == MaxTrains \in Nat

VARIABLES pc, queue, trainsHashMap, train_id, clearance,
          trainMutex,  \* the section thread that holds it, or 0
          tunnelMutex, \* does the control center hold it?
          overload,    \* the local of each section thread
          train,       \* the control center's local: the train it took
          entry,       \* the event the control center is about to push
          copied,      \* queues that its trainsWaiting has copied so far
          cancels,     \* the last thread that main has cancelled, or 0
          cells, tail, seen

ControlLog == INSTANCE EventQueue

logvars == <<cells, tail, seen>>
ccvars == <<tunnelMutex, train, entry, copied>>
vars == <<pc, queue, trainsHashMap, train_id, clearance, trainMutex, overload,
          cancels, ccvars, logvars>>

InQueue(s) == {queue[s][i] : i \in 1 .. Len(queue[s])}
TrainsWaiting == UNION {InQueue(s) : s \in Section}
Sum4(f) == f[1] + f[2] + f[3] + f[4]
Total == Sum4([s \in Section |-> Len(queue[s])])
Arrived == {id \in DOMAIN trainsHashMap : trainsHashMap[id].arrived}

\* pthread_cancel has been called for the thread.
Cancelled(t) == t <= cancels

Goto(t, from, to) == pc[t] = from /\ pc' = [pc EXCEPT ![t] = to]

\* Each operator whose name ends in "Fault" is a plausible error in the next.

\* A sum that may reach the threshold and one more.
OverloadedFault == Total > Threshold + 1
Overloaded == Total > Threshold

\* The test is nested in that of clearance; clearance mode makes the control
\* center wait instead of work.
AllEmptyNestedFault == clearance /\ Total = 0
AllEmptyOrFault == clearance \/ Total = 0
AllEmpty == Total = 0

\* A tie goes to the last of the longest queues, not the first.
CrowdedFault(s) ==
    /\ \A r \in Section : Len(queue[r]) <= Len(queue[s])
    /\ \A r \in s + 1 .. 4 : Len(queue[r]) < Len(queue[s])
Crowded(s) ==
    /\ \A r \in Section : Len(queue[r]) <= Len(queue[s])
    /\ \A r \in 1 .. s - 1 : Len(queue[r]) < Len(queue[s])

\* The number is that of the waiting trains.
NextIdFault == Total
NextId == train_id + 1

\* The row is recorded before it is filled in.
NewRowFault(s) == [source |-> 0, arrived |-> FALSE]
NewRow(s) == [source |-> s, arrived |-> FALSE]

\* The list of waiting trains has the one that enters the tunnel.
PassingFault(id) == ControlLog!LogEvent("Tunnel Passing", id, {id})
Passing(id) == ControlLog!LogEvent("Tunnel Passing", id, {})

\* sleep is the only cancellation point of the threads.
SleepFault(t, from, to) == Goto(t, from, to)
Sleep(t, from, to) ==
    IF Cancelled(t) THEN Goto(t, from, "dead") ELSE Goto(t, from, to)

\* Trains created, and those that threads are committed to create.
Created == train_id + 1 + Cardinality({s \in Section : pc[s] = "number"})

Init ==
    /\ pc = [t \in Thread |-> IF t = CC THEN "top" ELSE "poll"]
    /\ queue = [s \in Section |-> <<>>]
    /\ trainsHashMap = <<>>
    /\ train_id = -1
    /\ clearance = FALSE
    /\ trainMutex = 0
    /\ tunnelMutex = FALSE
    /\ overload = [s \in Section |-> FALSE]
    /\ train = NoTrain
    /\ entry = ControlLog!Unconstructed
    /\ copied = 0
    /\ cancels = 0
    /\ ControlLog!QInit

-----------------------------------------------------------------------------
(* sectionFunction *)

\* if (clearance) continue;
Poll(s) ==
    /\ ~clearance
    /\ Goto(s, "poll", "gauge")
    /\ UNCHANGED <<queue, trainsHashMap, train_id, clearance, trainMutex,
                   overload, cancels, ccvars, logvars>>

Spin(s) ==
    /\ pc[s] = "poll"
    /\ clearance
    /\ UNCHANGED vars

\* Under trainMutex: is the system overloaded?  If not, the lock is released.
Gauge(s) ==
    /\ trainMutex = 0
    /\ overload' = [overload EXCEPT ![s] = Overloaded]
    /\ IF Overloaded
       THEN Goto(s, "gauge", "announce") /\ trainMutex' = s
       ELSE Goto(s, "gauge", "recheck") /\ UNCHANGED trainMutex
    /\ UNCHANGED <<queue, trainsHashMap, train_id, clearance, cancels,
                   ccvars, logvars>>

\* if (!clearance) push "System Overload"; the push ends in LogOverload.
Announce(s) ==
    /\ IF clearance
       THEN Goto(s, "announce", "raise") /\ UNCHANGED logvars
       ELSE /\ Goto(s, "announce", "logging")
            /\ ControlLog!Construct(s,
                   ControlLog!LogEvent("System Overload", NoTrain, TrainsWaiting))
    /\ UNCHANGED <<queue, trainsHashMap, train_id, clearance, trainMutex,
                   overload, cancels, ccvars>>

LogOverload(s) ==
    /\ Goto(s, "logging", "raise")
    /\ ControlLog!Advance(s)
    /\ UNCHANGED <<queue, trainsHashMap, train_id, clearance, trainMutex,
                   overload, cancels, ccvars>>

\* clearance = true; unlock.
Raise(s) ==
    /\ Goto(s, "raise", "recheck")
    /\ clearance' = TRUE
    /\ trainMutex' = 0
    /\ UNCHANGED <<queue, trainsHashMap, train_id, overload, cancels,
                   ccvars, logvars>>

\* if (!clearance), now without the lock; then chance decides about a train.
Recheck(s) ==
    /\ \/ clearance /\ Goto(s, "recheck", "poll")
       \/ ~clearance /\ Created < MaxTrains /\ Goto(s, "recheck", "number")
       \/ ~clearance /\ Goto(s, "recheck", "rest")
    /\ UNCHANGED <<queue, trainsHashMap, train_id, clearance, trainMutex,
                   overload, cancels, ccvars, logvars>>

\* Lock trainMutex; train.id = ++train_id.
Number(s) ==
    /\ trainMutex = 0
    /\ Goto(s, "number", "enqueue")
    /\ trainMutex' = s
    /\ train_id' = NextId
    /\ UNCHANGED <<queue, trainsHashMap, clearance, overload, cancels,
                   ccvars, logvars>>

\* Fault: the train is put before those that wait.
EnqueueFault(s) ==
    /\ Goto(s, "enqueue", "record")
    /\ queue' = [queue EXCEPT ![s] = <<train_id>> \o @]
    /\ UNCHANGED <<trainsHashMap, train_id, clearance, trainMutex, overload,
                   cancels, ccvars, logvars>>

Enqueue(s) ==
    /\ Goto(s, "enqueue", "record")
    /\ queue' = [queue EXCEPT ![s] = Append(@, train_id)]
    /\ UNCHANGED <<trainsHashMap, train_id, clearance, trainMutex, overload,
                   cancels, ccvars, logvars>>

\* trainsHashMap[train.id] = train; unlock.
Record(s) ==
    /\ Goto(s, "record", "rest")
    /\ trainsHashMap' = [id \in DOMAIN trainsHashMap \union {train_id} |->
                            IF id = train_id
                            THEN NewRow(s) ELSE trainsHashMap[id]]
    /\ trainMutex' = 0
    /\ UNCHANGED <<queue, train_id, clearance, overload, cancels,
                   ccvars, logvars>>

\* sleep(1)
Rest(s) ==
    /\ Sleep(s, "rest", "poll")
    /\ UNCHANGED <<queue, trainsHashMap, train_id, clearance, trainMutex,
                   overload, cancels, ccvars, logvars>>

SectionStep(s) ==
    \/ Poll(s) \/ Spin(s) \/ Gauge(s) \/ Announce(s) \/ LogOverload(s)
    \/ Raise(s) \/ Recheck(s) \/ Number(s) \/ Enqueue(s) \/ Record(s)
    \/ Rest(s)

-----------------------------------------------------------------------------
(* controlCenter *)

\* Lock tunnelMutex; under trainMutex, are all the queues empty?
Top ==
    /\ trainMutex = 0
    /\ tunnelMutex' = TRUE
    /\ IF AllEmpty THEN Goto(CC, "top", "idle") ELSE Goto(CC, "top", "pick")
    /\ UNCHANGED <<queue, trainsHashMap, train_id, clearance, trainMutex,
                   overload, cancels, train, entry, copied, logvars>>

\* if (clearance) push "Tunnel Cleared"; the push ends in LogCleared.
Idle ==
    /\ IF clearance
       THEN /\ Goto(CC, "idle", "logCleared")
            /\ ControlLog!Construct(CC,
                   ControlLog!LogEvent("Tunnel Cleared", NoTrain, {}))
       ELSE Goto(CC, "idle", "reset") /\ UNCHANGED logvars
    /\ UNCHANGED <<queue, trainsHashMap, train_id, clearance, trainMutex,
                   overload, cancels, ccvars>>

LogCleared ==
    /\ Goto(CC, "logCleared", "reset")
    /\ ControlLog!Advance(CC)
    /\ UNCHANGED <<queue, trainsHashMap, train_id, clearance, trainMutex,
                   overload, cancels, ccvars>>

\* Fault: clearance is never taken back.
ResetFault ==
    /\ Goto(CC, "reset", "top")
    /\ tunnelMutex' = FALSE
    /\ UNCHANGED <<queue, trainsHashMap, train_id, clearance, trainMutex,
                   overload, cancels, train, entry, copied, logvars>>

\* clearance = false, whatever has happened since Top; unlock tunnelMutex.
Reset ==
    /\ Goto(CC, "reset", "top")
    /\ clearance' = FALSE
    /\ tunnelMutex' = FALSE
    /\ UNCHANGED <<queue, trainsHashMap, train_id, trainMutex, overload,
                   cancels, train, entry, copied, logvars>>

\* Under trainMutex: take the first train of the most crowded section.
Pick ==
    /\ trainMutex = 0
    /\ Goto(CC, "pick", "copy")
    /\ \E s \in Section :
          /\ Crowded(s)
          /\ train' = Head(queue[s])
          /\ queue' = [queue EXCEPT ![s] = Tail(@)]
          /\ entry' = Passing(Head(queue[s]))
    /\ UNCHANGED <<trainsHashMap, train_id, clearance, trainMutex, tunnelMutex,
                   overload, copied, cancels, logvars>>

\* trainsWaiting() copies one queue after the other, without trainMutex.
Copy ==
    /\ pc[CC] = "copy"
    /\ copied < 4
    /\ copied' = copied + 1
    /\ entry' = [entry EXCEPT !.waiting = @ \union InQueue(copied + 1)]
    /\ UNCHANGED <<pc, queue, trainsHashMap, train_id, clearance, trainMutex,
                   tunnelMutex, overload, train, cancels, logvars>>

PushEntry ==
    /\ copied = 4
    /\ Goto(CC, "copy", "logEntry")
    /\ copied' = 0
    /\ ControlLog!Construct(CC, entry)
    /\ UNCHANGED <<queue, trainsHashMap, train_id, clearance, trainMutex,
                   tunnelMutex, overload, train, entry, cancels>>

LogEntry ==
    /\ IF entry.event = "Tunnel Passing"
       THEN Goto(CC, "logEntry", "front")
       ELSE Goto(CC, "logEntry", "back")
    /\ ControlLog!Advance(CC)
    /\ entry' = ControlLog!Unconstructed
    /\ UNCHANGED <<queue, trainsHashMap, train_id, clearance, trainMutex,
                   tunnelMutex, overload, train, copied, cancels>>

\* sleep(1); then the train may break down.
Front ==
    /\ \/ Sleep(CC, "front", "back") /\ UNCHANGED entry
       \/ /\ ~Cancelled(CC)
          /\ Goto(CC, "front", "copy")
          /\ entry' = ControlLog!LogEvent("Breakdown", train, {})
    /\ UNCHANGED <<queue, trainsHashMap, train_id, clearance, trainMutex,
                   tunnelMutex, overload, train, copied, cancels, logvars>>

\* The second sleep, until the train's back has left the tunnel.
Back ==
    /\ Sleep(CC, "back", "exit")
    /\ UNCHANGED <<queue, trainsHashMap, train_id, clearance, trainMutex,
                   overload, ccvars, cancels, logvars>>

\* Under trainMutex: set the arrival time; unlock tunnelMutex.
Exit ==
    /\ trainMutex = 0
    /\ Goto(CC, "exit", "top")
    /\ trainsHashMap' = [trainsHashMap EXCEPT ![train].arrived = TRUE]
    /\ train' = NoTrain
    /\ tunnelMutex' = FALSE
    /\ UNCHANGED <<queue, train_id, clearance, trainMutex, overload, entry,
                   copied, cancels, logvars>>

ControlCenterStep ==
    \/ Top \/ Idle \/ LogCleared \/ Reset \/ Pick \/ Copy \/ PushEntry
    \/ LogEntry \/ Front \/ Back \/ Exit

-----------------------------------------------------------------------------
\* main, at the end of the simulation: cancel A, B, E, F, then the control
\* center.  It waits for none of them.  (A thread outside Running is skipped.)
Cancel ==
    /\ cancels' \in Running \union {CC}
    /\ cancels' > cancels
    /\ \A t \in Running : t <= cancels \/ t >= cancels'
    /\ UNCHANGED <<pc, queue, trainsHashMap, train_id, clearance, trainMutex,
                   overload, ccvars, logvars>>

\* Nothing is left to run.
Stopped ==
    /\ \A t \in Running \union {CC} : pc[t] = "dead"
    /\ UNCHANGED vars

Next ==
    \/ \E s \in Running : SectionStep(s)
    \/ ControlCenterStep
    \/ Cancel
    \/ Stopped

Spec == Init /\ [][Next]_vars

\* Every thread that can run is run in the end; main need not cancel.
Fairness ==
    /\ \A s \in Running : WF_vars(SectionStep(s))
    /\ WF_vars(ControlCenterStep)

FairSpec == Spec /\ Fairness

-----------------------------------------------------------------------------
(* Properties *)

SectionPc == {"poll", "gauge", "announce", "logging", "raise", "recheck",
              "number", "enqueue", "record", "rest", "dead"}
CCPc == {"top", "idle", "logCleared", "reset", "pick", "copy", "logEntry",
         "front", "back", "exit", "dead"}

Row == [source : Section, arrived : BOOLEAN]

PcTypeOK ==
    /\ pc \in [Thread -> SectionPc \union CCPc]
    /\ pc[CC] \in CCPc
    /\ \A s \in Section : pc[s] \in SectionPc

TypeOK ==
    /\ PcTypeOK
    /\ queue \in [Section -> Seq(Nat)]
    /\ DOMAIN trainsHashMap \subseteq Nat
    /\ trainsHashMap \in [DOMAIN trainsHashMap -> Row]
    /\ train_id \in Nat \union {-1}
    /\ clearance \in BOOLEAN
    /\ trainMutex \in Section \union {0}
    /\ tunnelMutex \in BOOLEAN
    /\ overload \in [Section -> BOOLEAN]
    /\ train \in Nat \union {NoTrain}
    /\ entry \in ControlLog!Event
    /\ copied \in 0 .. 4
    /\ cancels \in 0 .. CC
    /\ ControlLog!QTypeOK

\* trainMutex is held by exactly the section thread that is in one of its
\* critical sections, and tunnelMutex by the control center in its loop body:
\* no early exit of the code (continue, cancellation) leaves a lock behind,
\* except tunnelMutex when the control center dies.
Holding == {"announce", "logging", "raise", "enqueue", "record"}
LockInv ==
    /\ \A s \in Section : pc[s] \in Holding <=> trainMutex = s
    /\ tunnelMutex <=> pc[CC] # "top"

One(b) == IF b THEN 1 ELSE 0
NumRunning == Sum4([s \in Section |-> One(s \in Running)])

\* Section threads bound to create a train, and those that gauged an overload
\* and create one only if the control center takes clearance back.
Committed(s) == \/ pc[s] \in {"number", "enqueue"}
                \/ pc[s] = "recheck" /\ ~overload[s]
Doubtful(s) == pc[s] = "recheck" /\ overload[s]

WillPush(s) == Committed(s) \/ (Doubtful(s) /\ ~clearance)

\* The trains that wait in a section or that its thread will still add,
\* whatever the others do.
Pending(s) == Len(queue[s]) + One(WillPush(s))

\* The control center acts on its test that all queues were empty.
StaleEmpty == pc[CC] \in {"idle", "logCleared", "reset"}

\* The inductive form of OverloadBound.
OverloadInv ==
    /\ \A s \in Section \ Running : pc[s] = "poll"
    /\ \A s \in Section : pc[s] \in {"announce", "logging", "raise"} => overload[s]
    /\ Sum4([s \in Section |-> Pending(s)])
         <= Threshold + NumRunning + (IF StaleEmpty THEN 0 ELSE NumRunning)

\* How far the number of waiting trains can overshoot the threshold of 10
\* (main.cpp:199) although it is tested before each train: the test and the
\* push are two critical sections, so every thread may add a train after the
\* last test that succeeded, and once more after the control center has taken
\* back, on a stale test, the clearance that followed.
OverloadBound == Total <= Threshold + 2 * NumRunning

\* The control center never calls front() or pop() on an empty queue although
\* it releases trainMutex between its test (main.cpp:108) and its choice
\* (main.cpp:118): no other thread removes trains.
PickNonEmpty == pc[CC] = "pick" => Total > 0

\* Outside the critical section that creates a train, the map holds exactly
\* the numbers given out, so that none is skipped (main.cpp:233), and every
\* train that waits or is in the tunnel has its row there.
Creating == \E s \in Section : pc[s] \in {"enqueue", "record"}
Newest == IF Creating THEN train_id - 1 ELSE train_id
Recorded ==
    /\ Newest >= -1
    /\ DOMAIN trainsHashMap = 0 .. Newest
    /\ \A id \in TrainsWaiting :
          \/ id <= Newest
          \/ id = train_id /\ \E s \in Section : pc[s] = "record"
    /\ train # NoTrain => train \in DOMAIN trainsHashMap

\* A "Tunnel Passing" or "Breakdown" event lists only trains that still wait:
\* trainsWaiting copies the queues without trainMutex, but a train that it has
\* seen stays until the control center itself takes it.
ListedTrainsWait == pc[CC] = "copy" => entry.waiting \subseteq TrainsWaiting

\* The train in the tunnel is the control center's from Pick to Exit.
TunnelInv ==
    train # NoTrain <=>
        pc[CC] \in {"copy", "logEntry", "front", "back", "exit", "dead"}

\* The inductive invariant.
IInv == TypeOK /\ LockInv /\ TunnelInv /\ Recorded /\ OverloadInv /\ PickNonEmpty

\* The trains wait, enter the tunnel and arrive as MetroLine says.  A train is
\* born when it is numbered, and that and its push are one critical section.
Line == INSTANCE MetroLine WITH
            waiting <- queue, tunnel <- train, arrived <- Arrived,
            born <- IF \E s \in Section : pc[s] = "enqueue"
                    THEN train_id ELSE train_id + 1
LineSpec == Line!LSpec

\* No train is lost and none is in two places, although pushes and pops are in
\* different threads: every number that has been queued is in one queue, in the
\* tunnel, or has arrived (main.cpp:118-178, 233-254).
OnePlace == Line!OnePlace

\* A section's trains wait in the order of their numbers, which two critical
\* sections of one thread give out and queue (main.cpp:233-254).
QueueOrder == Line!QueueOrder

\* Two passings of one section are in the log in the order of the trains, and
\* no train is there twice, whatever the racing pushes have overwritten.
IsPassing(i) == ControlLog!Cell(i).event = "Tunnel Passing"
PassingOrder ==
    \A i, j \in 1 .. tail :
        LET a == ControlLog!Cell(i).train
            b == ControlLog!Cell(j).train
        IN i < j /\ IsPassing(i) /\ IsPassing(j) =>
               /\ a # b
               /\ trainsHashMap[a].source = trainsHashMap[b].source => a < b

\* The control log has the passing of every train that went into the tunnel.
LogComplete ==
    \A id \in DOMAIN trainsHashMap :
        \/ id \in TrainsWaiting
        \/ id = train /\ pc[CC] \in {"copy", "logEntry"}
        \/ \E i \in 1 .. tail : IsPassing(i) /\ ControlLog!Cell(i).train = id

\* Clearance mode lasts until all trains have cleared the tunnel (Report.pdf,
\* Part II).
ClearanceHeld == [][clearance /\ ~clearance' => Total = 0 /\ train = NoTrain]_vars

\* Clearance mode ends: the control center empties the queues, because the
\* section threads stop adding trains.  Only its cancellation prevents it.
ClearanceEnds == clearance ~> (~clearance \/ pc[CC] = "dead")

\* In clearance mode every section is emptied in the end, however short its
\* queue beside those served first (main.cpp:124-139), with any number of
\* trains still to come.  Except when the control center is past its test that
\* all queues were empty: what it takes back then (main.cpp:115) may be the
\* clearance of trains that came after the test, and without clearance a
\* section whose queue never is the longest can wait for ever.
NoStarvation ==
    \A s \in Section :
        clearance /\ ~StaleEmpty /\ queue[s] # <<>>
            ~> (queue[s] = <<>> \/ pc[CC] = "dead")
=============================================================================
