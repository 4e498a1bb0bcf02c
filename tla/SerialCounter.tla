--------------------------- MODULE SerialCounter ---------------------------
(***************************************************************************)
(* What Mutex_synchronize_thread promises its user: a log of the values    *)
(* of a counter that goes up by one per entry, every worker contributing   *)
(* at most Turns entries.  There is no thread, mutex or memory in it.      *)
(***************************************************************************)
EXTENDS Naturals, Sequences

CONSTANTS Workers,   \* the threads
          Turns      \* increments each of them makes

VARIABLES log,       \* the lines printed so far: <<worker, value>>
          turn       \* how many of them each worker has printed

Init == /\ log = << >>
        /\ turn = [w \in Workers |-> 0]

Step(w) == /\ turn[w] < Turns
           /\ turn' = [turn EXCEPT ![w] = @ + 1]
           /\ log' = Append(log, <<w, Len(log) + 1>>)

Next == \E w \in Workers : Step(w)

Spec == Init /\ [][Next]_<<log, turn>>
=============================================================================
