------------------------------- MODULE MCMetro ------------------------------
(* Module Metro for TLC. *)
EXTENDS Metro

\* One thread, A; two, A and B; or all four.
OneSection == {1}
TwoSections == {1, 2}
AllSections == Section

\* Without the control log, which no step reads: two states that differ in it
\* alone satisfy the same of the properties that do not name it.
WithoutLog == <<pc, queue, trainsHashMap, train_id, clearance, trainMutex,
                overload, cancels, tunnelMutex, train, entry, copied>>

\* Nor the numbers of the trains: no step but the bound MaxTrains depends on
\* more of a queue than its length, or on more of the map than its last row.
\* With a MaxTrains that no reached state comes near, arrivals never end.
Lengths == <<pc, [s \in Section |-> Len(queue[s])], clearance, trainMutex,
             cancels, train = NoTrain, entry.event, copied>>

\* The simulation time is not over.
Simulating == cancels = 0
=============================================================================
