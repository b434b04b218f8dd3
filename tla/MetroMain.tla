----------------------------- MODULE MetroMain ------------------------------
(***************************************************************************)
(* The end of the simulation: main cancels the threads of module Metro,    *)
(* creates one thread for each log file, joins these two, destroys the     *)
(* mutexes and returns, which ends every thread that is left.  main does   *)
(* not join the cancelled threads, so the log threads read controlLogQueue *)
(* and trainsHashMap, without a lock, while those threads may still be on  *)
(* their way to the next cancellation point.                               *)
(*                                                                         *)
(* What insertions into one unordered_map from two threads can do to its   *)
(* buckets is not modelled: each access is one step.                       *)
(***************************************************************************)
EXTENDS Metro

VARIABLES mainPc,
          logging,   \* the log threads that run: "control", "train"
          head,      \* events that controlLog has popped
          rows,      \* the arrival column of train.log, one row per train
          late       \* what happened, for NoLateArrival: the trains that
                     \* waited after the control center had been cancelled

mvars == <<mainPc, logging, head, rows>>
allvars == <<vars, mvars, late>>

\* Fault: -1 is the default of arrival_time.
DefaultFault == [source |-> 0, arrived |-> FALSE]

\* The row that trainsHashMap[i] inserts for a number it does not hold: all
\* zero, hence with an arrival time that is not -1.
Default == [source |-> 0, arrived |-> TRUE]

\* Trains that the control center has given an arrival time.
Reached == {id \in Arrived : trainsHashMap[id] # Default}

Ended == mainPc \in {"exited", "crashed"}

MInit ==
    /\ Init
    /\ mainPc = "simulate"
    /\ logging = {}
    /\ head = 0
    /\ rows = <<>>
    /\ late = {}

CreateControlLog ==
    /\ mainPc = "simulate" /\ mainPc' = "create"
    /\ Cancelled(CC)
    /\ logging' = {"control"}
    /\ UNCHANGED <<vars, head, rows>>

CreateTrainLog ==
    /\ mainPc = "create" /\ mainPc' = "join"
    /\ logging' = logging \union {"train"}
    /\ UNCHANGED <<vars, head, rows>>

\* Both joins return; main destroys the mutexes and returns.
Return ==
    /\ mainPc = "join" /\ mainPc' = "exited"
    /\ logging = {}
    /\ UNCHANGED <<vars, logging, head, rows>>

-----------------------------------------------------------------------------
\* Fault: front() without pop().
PopEventFault ==
    /\ "control" \in logging
    /\ head < tail
    /\ UNCHANGED <<vars, mvars>>

\* while (!controlLogQueue.empty()) front, pop.
PopEvent ==
    /\ "control" \in logging
    /\ head < tail
    /\ head' = head + 1
    /\ UNCHANGED <<vars, mainPc, logging, rows>>

\* A push that stored an old finish pointer has taken the end of the queue back
\* behind its start: the loop reads on beyond the deque.
Overrun ==
    /\ "control" \in logging
    /\ head > tail
    /\ mainPc' = "crashed"
    /\ UNCHANGED <<vars, logging, head, rows>>

EndControlLog ==
    /\ "control" \in logging
    /\ head = tail
    /\ logging' = logging \ {"control"}
    /\ UNCHANGED <<vars, mainPc, head, rows>>

\* trainsHashMap[i], for i up to the train_id of now.
TrainRow ==
    /\ "train" \in logging
    /\ Len(rows) < train_id + 1
    /\ LET id == Len(rows)
           map == IF id \in DOMAIN trainsHashMap THEN trainsHashMap
                  ELSE [i \in DOMAIN trainsHashMap \union {id} |->
                           IF i = id THEN Default ELSE trainsHashMap[i]]
       IN /\ trainsHashMap' = map
          /\ rows' = Append(rows, IF map[id].arrived THEN "time" ELSE "#")
    /\ UNCHANGED <<pc, queue, train_id, clearance, trainMutex, overload,
                   cancels, ccvars, logvars, mainPc, logging, head>>

EndTrainLog ==
    /\ "train" \in logging
    /\ Len(rows) >= train_id + 1
    /\ logging' = logging \ {"train"}
    /\ UNCHANGED <<vars, mainPc, head, rows>>

MainStep ==
    \/ Cancel /\ UNCHANGED mvars
    \/ CreateControlLog
    \/ CreateTrainLog
    \/ Return
ControlLogStep == PopEvent \/ Overrun \/ EndControlLog
TrainLogStep == TrainRow \/ EndTrainLog

MNext ==
    \/ /\ ~Ended
       /\ late' = IF Cancelled(CC) THEN late \union TrainsWaiting ELSE late
       /\ \/ /\ \E s \in Running : SectionStep(s)
             /\ UNCHANGED mvars
          \/ /\ ControlCenterStep
             /\ UNCHANGED mvars
          \/ MainStep
          \/ ControlLogStep
          \/ TrainLogStep
    \/ Ended /\ UNCHANGED allvars

MSpec == MInit /\ [][MNext]_allvars

\* The clock goes on and the threads of main's own making are scheduled; no
\* assumption on the section threads and the control center.
MFairness ==
    /\ WF_<<vars, mvars>>(~Ended /\ MainStep)
    /\ WF_<<vars, mvars>>(~Ended /\ ControlLogStep)
    /\ WF_<<vars, mvars>>(~Ended /\ TrainLogStep)

FairMSpec == MSpec /\ MFairness

-----------------------------------------------------------------------------
MTypeOK ==
    /\ mainPc \in {"simulate", "create", "join", "exited", "crashed"}
    /\ logging \subseteq {"control", "train"}
    /\ head \in Nat
    /\ rows \in Seq({"time", "#"})
    /\ \A id \in DOMAIN trainsHashMap :
          \/ trainsHashMap[id] \in [source : Section, arrived : BOOLEAN]
          \/ trainsHashMap[id].source = 0 /\ trainsHashMap[id].arrived

\* The program ends, although it neither waits for the threads it cancels nor
\* stops them from pushing events and creating trains while it logs.
Terminates == <>Ended

\* When the control center has been cancelled, no train that still waits ever
\* arrives: the sleeps in the tunnel are the cancellation points.
NoLateArrival == late \intersect Reached = {}
=============================================================================
