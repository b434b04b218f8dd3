----------------------------- MODULE MetroLine ------------------------------
(***************************************************************************)
(* What the metro simulation promises about its trains, without threads,   *)
(* locks, logs or clearance mode: trains are numbered as they arrive, wait *)
(* in the order of their arrival in the queue of their section, enter the  *)
(* single-lane tunnel one at a time from the most crowded section, and     *)
(* reach their destination.  Module Metro implements it.                   *)
(***************************************************************************)
EXTENDS Integers, Sequences

NoTrain == -1   \* the tunnel is empty

\* Sections A-C, B-C, D-E and D-F, in the order that breaks ties.
Section == 1 .. 4

VARIABLES waiting,  \* the queue of each section
          tunnel,   \* the train in the tunnel
          arrived,  \* trains that have left the tunnel
          born      \* the number of trains so far

lvars == <<waiting, tunnel, arrived, born>>

InQueue(s) == {waiting[s][i] : i \in 1 .. Len(waiting[s])}
Waiting == UNION {InQueue(s) : s \in Section}

\* The section whose turn it is: none is longer, and no earlier one is as long.
Crowded(s) ==
    /\ \A r \in Section : Len(waiting[r]) <= Len(waiting[s])
    /\ \A r \in 1 .. s - 1 : Len(waiting[r]) < Len(waiting[s])

LInit ==
    /\ waiting = [s \in Section |-> <<>>]
    /\ tunnel = NoTrain
    /\ arrived = {}
    /\ born = 0

Arrive(s) ==
    /\ waiting' = [waiting EXCEPT ![s] = Append(@, born)]
    /\ born' = born + 1
    /\ UNCHANGED <<tunnel, arrived>>

Enter(s) ==
    /\ tunnel = NoTrain
    /\ waiting[s] # <<>>
    /\ Crowded(s)
    /\ tunnel' = Head(waiting[s])
    /\ waiting' = [waiting EXCEPT ![s] = Tail(@)]
    /\ UNCHANGED <<arrived, born>>

Leave ==
    /\ tunnel # NoTrain
    /\ arrived' = arrived \union {tunnel}
    /\ tunnel' = NoTrain
    /\ UNCHANGED <<waiting, born>>

LNext ==
    \/ \E s \in Section : Arrive(s) \/ Enter(s)
    \/ Leave

LSpec == LInit /\ [][LNext]_lvars

-----------------------------------------------------------------------------
LTypeOK ==
    /\ waiting \in [Section -> Seq(Nat)]
    /\ tunnel \in Nat \union {NoTrain}
    /\ arrived \in SUBSET Nat
    /\ born \in Nat

\* No train is lost and none is in two places: every number given out is in
\* exactly one of the queues, the tunnel and the set of arrived trains.
OnePlace ==
    /\ Waiting \union arrived \union ({tunnel} \ {NoTrain}) = 0 .. born - 1
    /\ Waiting \intersect arrived = {}
    /\ tunnel \notin Waiting \union arrived
    /\ \A r, s \in Section : r # s => InQueue(r) \intersect InQueue(s) = {}

\* Each section is served first come, first served: its queue is in the order
\* of the numbers, which is the order of arrival.
QueueOrder ==
    \A s \in Section : \A i, j \in 1 .. Len(waiting[s]) :
        i < j => waiting[s][i] < waiting[s][j]
=============================================================================
