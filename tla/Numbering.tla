----------------------------- MODULE Numbering -----------------------------
(***************************************************************************)
(* What Signal_synchronize_processes promises about output.txt: the lines  *)
(* are numbered consecutively; within a run of the program the two         *)
(* processes take turns, and a later run goes on where the last one ended. *)
(***************************************************************************)
EXTENDS Integers

CONSTANTS Runs,   \* successive executions of the program
          Wrap    \* line numbers are taken modulo Wrap

VARIABLES last,   \* the number in the last line, 0 for an empty file
          writer  \* <<run, process>> that wrote it, <<0, "B">> at first

Init == last = 0 /\ writer = <<0, "B">>

Line(r, p) == /\ \/ writer[1] = r /\ writer[2] # p
                 \/ writer[1] < r /\ p = "A"
              /\ writer' = <<r, p>>
              /\ last' = (last + 1) % Wrap

Next == \E r \in Runs, p \in {"A", "B"} : Line(r, p)

Spec == Init /\ [][Next]_<<last, writer>>
=============================================================================
