----------------------------- MODULE EventQueue -----------------------------
(***************************************************************************)
(* The std::queue<Event> that main.cpp declares as controlLogQueue.  It is *)
(* pushed to by several threads that share no lock, so a push is not       *)
(* atomic: libstdc++ first constructs the event in the cell that the       *)
(* finish pointer names and then increments that pointer with a load and a *)
(* store.  Two pushes that overlap can construct in the same cell, and     *)
(* either lose an increment or leave a cell nobody constructed.            *)
(*                                                                         *)
(* Two events constructed in one cell at a time are one of the two here,   *)
(* not a mixture of their strings.                                         *)
(*                                                                         *)
(* The allocation of the deque's chunks is not modelled: a race on it      *)
(* could also leak a chunk or end the process.                             *)
(***************************************************************************)
EXTENDS Integers, Sequences

CONSTANTS Thread    \* the threads that push

VARIABLES cells,    \* what has been constructed, by cell number
          tail,     \* the finish pointer: the number of cells in the queue
          seen      \* [Thread -> SUBSET Nat], the values that the finish
                    \* pointer has had since the thread's push began; {}
                    \* for a thread that is not pushing

qvars == <<cells, tail, seen>>

Event == [event : {"Tunnel Passing", "Breakdown", "System Overload",
                   "Tunnel Cleared", "unconstructed"},
          train : Int, waiting : SUBSET Nat]

LogEvent(e, id, w) == [event |-> e, train |-> id, waiting |-> w]

\* A cell inside the queue that no push has constructed.
Unconstructed == LogEvent("unconstructed", -1, {})

Cell(i) == IF i \in DOMAIN cells THEN cells[i] ELSE Unconstructed

QInit ==
    /\ cells = <<>>
    /\ tail = 0
    /\ seen = [t \in Thread |-> {}]

\* Fault: the event goes before the first one.
ConstructFault(t, e) ==
    /\ cells' = <<e>> \o cells
    /\ seen' = [seen EXCEPT ![t] = {tail}]
    /\ UNCHANGED tail

\* The first half of push: the event goes to the cell after the last one.
Construct(t, e) ==
    /\ cells' = IF tail < Len(cells) THEN [cells EXCEPT ![tail + 1] = e]
               ELSE [i \in 1 .. tail + 1 |-> IF i = tail + 1 THEN e ELSE Cell(i)]
    /\ seen' = [seen EXCEPT ![t] = {tail}]
    /\ UNCHANGED tail

\* Fault: the increment is forgotten.
AdvanceFault(t) ==
    /\ seen' = [seen EXCEPT ![t] = {}]
    /\ UNCHANGED <<cells, tail>>

\* The second half: ++finish.  Its load may have come at any time since the
\* construction; its store comes now, and the other pushes see it.
Advance(t) ==
    /\ \E loaded \in seen[t] :
          /\ tail' = loaded + 1
          /\ seen' = [u \in Thread |->
                        CASE u = t -> {}
                          [] u # t /\ seen[u] = {} -> {}
                          [] OTHER -> seen[u] \union {loaded + 1}]
    /\ UNCHANGED cells

\* The events between the start of the deque and the finish pointer, with
\* those that a reader has popped.
Logged == {Cell(i) : i \in 1 .. tail}

QTypeOK ==
    /\ cells \in Seq(Event)
    /\ tail \in Nat
    /\ seen \in [Thread -> SUBSET Nat]
=============================================================================
