--------------------------- MODULE MatrixThreads ---------------------------
(***************************************************************************)
(* Processes_and_Threads/Matrix_multi_thread: the product of an            *)
(* Rows x Inner and an Inner x Cols matrix, first by one thread            *)
(* (multiply_matrix) and then by NumThreads threads, each of which         *)
(* computes a range of rows of the result.                                 *)
(***************************************************************************)
EXTENDS Integers

CONSTANTS Rows, Inner, Cols,  \* sizes of the matrices
          NumThreads,         \* the number the user has entered
          A, B,               \* the matrices, as functions of the indices
          Dot                 \* Dot[<<i, j, k>>]: the sum of the first k terms of cell i, j

RowIndex == 0 .. Rows - 1
ColIndex == 0 .. Cols - 1
InnerIndex == 0 .. Inner - 1

\* get_matrix_size and main let only positive sizes and counts through.
ASSUME SizesAssumption == {Rows, Inner, Cols, NumThreads} \subseteq Nat \ {0}
ASSUME MatrixAssumption == /\ A \in [RowIndex \X InnerIndex -> Int]
                           /\ B \in [InnerIndex \X ColIndex -> Int]
ASSUME DotAssumption ==
  /\ Dot \in [RowIndex \X ColIndex \X (0 .. Inner) -> Int]
  /\ \A i \in RowIndex, j \in ColIndex : Dot[<<i, j, 0>>] = 0
  /\ \A i \in RowIndex, j \in ColIndex, k \in InnerIndex :
       Dot[<<i, j, k + 1>>] = Dot[<<i, j, k>>] + A[<<i, k>>] * B[<<k, j>>]

Threads == 0 .. NumThreads - 1

VARIABLES main,        \* "single", "create", "join", "done" or "crashed"
          i,           \* main's loop index
          start, end,  \* start_row and end_row of the next thread
          from, to,    \* thread_args[t].start_row and end_row
          pc,          \* thread -> "none", "runs" or "exited"
          row, col, k, \* thread -> the indices of its loops
          sum,         \* thread -> sum
          result,      \* result->m_data; a cell not yet written is anything
          failed       \* threads that pthread_create did not create

mainVars == <<main, i, start, end, from, to, failed>>
threadVars == <<pc, row, col, k, sum, result>>
vars == <<mainVars, threadVars>>

Init == /\ main = "single" /\ i = 0
        /\ start = 0 /\ end = (Rows \div NumThreads) - 1
        /\ from = [t \in Threads |-> 0] /\ to = from
        /\ pc = [t \in Threads |-> "none"]
        /\ row = [t \in Threads |-> 0] /\ col = row /\ k = row /\ sum = row
        /\ result = [c \in RowIndex \X ColIndex |-> 0]
        /\ failed = {}

-----------------------------------------------------------------------------
(* main and multiply_matrix_multi_thread *)

\* multiply_matrix has rows of Inner cells and writes Cols cells in each: it
\* may end the process when they do not fit.
Single == /\ main = "single"
          /\ \/ main' = "create"
             \/ Cols > Inner /\ main' = "crashed"
          /\ UNCHANGED <<i, start, end, from, to, failed, threadVars>>

\* Mutated NextRange: the ranges overlap by one row.
NextRangeOverlapping ==
  /\ start' = end
  /\ end' = IF i = NumThreads - 2 THEN Rows - 1 ELSE end + (Rows \div NumThreads)

\* The ranges follow each other; the last one ends with the last row.
NextRange == /\ start' = end + 1
             /\ end' = IF i = NumThreads - 2 THEN Rows - 1
                                             ELSE end + (Rows \div NumThreads)

\* thread_args[i] is filled in and the thread created; whether it could be
\* created is not looked at.
Create == /\ main = "create"
          /\ from' = [from EXCEPT ![i] = start]
          /\ to' = [to EXCEPT ![i] = end]
          /\ NextRange
          /\ IF i = NumThreads - 1 THEN main' = "join" /\ i' = 0
                                   ELSE i' = i + 1 /\ UNCHANGED main
          /\ \/ /\ pc' = [pc EXCEPT ![i] = "runs"]
                /\ row' = [row EXCEPT ![i] = start]
                /\ UNCHANGED failed
             \/ /\ failed' = failed \cup {i}
                /\ UNCHANGED <<pc, row>>
          /\ UNCHANGED <<col, k, sum, result>>

\* Mutated Join: main waits for the last thread only.
JoinLast == /\ main = "join"
            /\ i = NumThreads - 1 /\ i \notin failed => pc[i] = "exited"
            /\ \/ IF i = NumThreads - 1 THEN main' = "done" /\ UNCHANGED i
                                        ELSE i' = i + 1 /\ UNCHANGED main
               \/ i \in failed /\ main' = "crashed" /\ UNCHANGED i
            /\ UNCHANGED <<start, end, from, to, failed, threadVars>>

\* pthread_join; on the uninitialized handle of a thread that could not be
\* created it may fault or return at once.
Join == /\ main = "join"
        /\ i \notin failed => pc[i] = "exited"
        /\ \/ IF i = NumThreads - 1 THEN main' = "done" /\ UNCHANGED i
                                    ELSE i' = i + 1 /\ UNCHANGED main
           \/ i \in failed /\ main' = "crashed" /\ UNCHANGED i
        /\ UNCHANGED <<start, end, from, to, failed, threadVars>>

Main == Single \/ Create \/ Join

-----------------------------------------------------------------------------
(* multiply *)

Active(t) == main # "crashed" /\ pc[t] = "runs" /\ row[t] <= to[t]

AddTerm(t) == /\ Active(t) /\ k[t] < Inner
              /\ sum' = [sum EXCEPT ![t] = @ + A[<<row[t], k[t]>>] * B[<<k[t], col[t]>>]]
              /\ k' = [k EXCEPT ![t] = @ + 1]
              /\ UNCHANGED <<mainVars, pc, row, col, result>>

StoreCell(t) ==
  /\ Active(t) /\ k[t] = Inner
  /\ result' = [result EXCEPT ![<<row[t], col[t]>>] = sum[t]]
  /\ sum' = [sum EXCEPT ![t] = 0]
  /\ k' = [k EXCEPT ![t] = 0]
  /\ IF col[t] = Cols - 1
     THEN col' = [col EXCEPT ![t] = 0] /\ row' = [row EXCEPT ![t] = @ + 1]
     ELSE col' = [col EXCEPT ![t] = @ + 1] /\ UNCHANGED row
  /\ UNCHANGED <<mainVars, pc>>

Exit(t) == /\ main # "crashed" /\ pc[t] = "runs" /\ row[t] > to[t]
           /\ pc' = [pc EXCEPT ![t] = "exited"]
           /\ UNCHANGED <<mainVars, row, col, k, sum, result>>

Thread(t) == AddTerm(t) \/ StoreCell(t) \/ Exit(t)

Ended == main \in {"done", "crashed"} /\ UNCHANGED vars

Next == Main \/ (\E t \in Threads : Thread(t)) \/ Ended

Spec == Init /\ [][Next]_vars

-----------------------------------------------------------------------------
(* Properties *)

TypeOK == /\ main \in {"single", "create", "join", "done", "crashed"}
          /\ i \in Threads
          /\ start \in 0 .. Rows
          /\ end \in Int
          /\ from \in [Threads -> 0 .. Rows]
          /\ to \in [Threads -> -1 .. Rows - 1]
          /\ pc \in [Threads -> {"none", "runs", "exited"}]
          /\ row \in [Threads -> 0 .. Rows]
          /\ col \in [Threads -> ColIndex]
          /\ k \in [Threads -> 0 .. Inner]
          /\ sum \in [Threads -> Int]
          /\ result \in [RowIndex \X ColIndex -> Int]
          /\ failed \subseteq Threads

Range(t) == from[t] .. to[t]

\* No two threads have a row in common, so none writes a cell of another.
RangesDisjoint == \A t, u \in Threads :
  t # u /\ pc[t] # "none" /\ pc[u] # "none" => Range(t) \cap Range(u) = {}

\* When multiply_matrix_multi_thread returns and every thread could be
\* created, each cell of the result is the product's, for any number of
\* threads, also more than there are rows.
ProductCorrect == main = "done" /\ failed = {} =>
  \A r \in RowIndex, c \in ColIndex : result[<<r, c>>] = Dot[<<r, c, Inner>>]

=============================================================================
