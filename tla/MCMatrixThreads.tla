-------------------------- MODULE MCMatrixThreads --------------------------
(* Instances of MatrixThreads for TLC: distinct entries. *)
EXTENDS MatrixThreads

MCA == [p \in RowIndex \X InnerIndex |-> 1 + p[1] + Rows * p[2]]
MCB == [p \in InnerIndex \X ColIndex |-> 2 + 5 * p[1] - p[2]]
MCDot ==
  LET dot[p \in RowIndex \X ColIndex \X (0 .. Inner)] ==
        IF p[3] = 0 THEN 0
        ELSE dot[p[1], p[2], p[3] - 1] + MCA[p[1], p[3] - 1] * MCB[p[3] - 1, p[2]]
  IN  dot
=============================================================================
