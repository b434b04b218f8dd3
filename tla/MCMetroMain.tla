----------------------------- MODULE MCMetroMain ----------------------------
(* Module MetroMain for TLC. *)
EXTENDS MetroMain

OneSection == {1}

\* Without what no step and no property here reads of the events: the trains
\* that wait, and everything of an event that is no passing.
Passed(e) == IF e.event = "Tunnel Passing" THEN e.train ELSE -1
WithoutWaiting == <<pc, queue, trainsHashMap, train_id, clearance, trainMutex,
                    overload, cancels, tunnelMutex, train, entry.event,
                    Passed(entry), copied, [i \in DOMAIN cells |-> Passed(cells[i])],
                    tail, seen, mvars, late>>
=============================================================================
