------------------------ MODULE MatrixThreadsProofs ------------------------
(***************************************************************************)
(* Proofs about MatrixThreads, for matrices of every size and every number *)
(* of threads.                                                             *)
(***************************************************************************)
EXTENDS MatrixThreads, TLAPS

Quota == Rows \div NumThreads

\* The threads whose range has been handed out.
Made == {t \in Threads : pc[t] # "none"} \cup failed

\* The rows that are left are enough for the threads that are left.
QuotaInv == main \in {"single", "create"} =>
  /\ start <= end + 1 /\ end <= Rows - 1
  /\ end + 1 + (NumThreads - 1 - i) * Quota <= Rows
  /\ i = NumThreads - 1 => end = Rows - 1

\* Main hands the ranges out in order and then waits for the threads.
MainInv ==
  /\ main = "single" => i = 0 /\ start = 0
  /\ main \in {"single", "create"} => \A t \in Threads : t \in Made <=> t < i
  /\ main \in {"join", "done"} => start = Rows
  /\ main = "join" => \A t \in Threads : t < i /\ t \notin failed => pc[t] = "exited"
  /\ main = "done" => \A t \in Threads : t \notin failed => pc[t] = "exited"

\* The ranges handed out follow each other and cover the rows up to start.
RangeInv ==
  /\ \A t \in Made : from[t] <= to[t] + 1 /\ to[t] < start
  /\ \A t, u \in Made : t < u => to[t] < from[u]
  /\ \A r \in RowIndex : r < start => \E t \in Made : from[t] <= r /\ r <= to[t]

\* A thread is within its range, and its sum is that of the terms so far.
LoopFor(t) ==
  /\ pc[t] # "none" => from[t] <= row[t] /\ row[t] <= to[t] + 1
  /\ pc[t] = "exited" => row[t] > to[t]
  /\ pc[t] = "none" => col[t] = 0 /\ k[t] = 0 /\ sum[t] = 0
  /\ row[t] \in RowIndex => sum[t] = Dot[<<row[t], col[t], k[t]>>]
  /\ row[t] \notin RowIndex => k[t] = 0 /\ sum[t] = 0
LoopInv == \A t \in Threads : LoopFor(t)

\* The cells a thread has passed hold the product.
CellInv == \A t \in Threads : pc[t] # "none" =>
  \A r \in RowIndex, c \in ColIndex :
    from[t] <= r /\ (r < row[t] \/ (r = row[t] /\ r <= to[t] /\ c < col[t]))
      => result[<<r, c>>] = Dot[<<r, c, Inner>>]

Inv == TypeOK /\ QuotaInv /\ MainInv /\ RangeInv /\ LoopInv /\ CellInv

-----------------------------------------------------------------------------
(* Arithmetic *)

LEMMA QuotaFits ==
  /\ Quota \in Nat /\ NumThreads * Quota <= Rows
  /\ NumThreads = 1 => Quota = Rows
BY SizesAssumption DEF Quota

\* One thread fewer takes one quota fewer.
LEMMA QuotaStep ==
  ASSUME NEW n \in Int, NEW q \in Int
  PROVE  (n - 1) * q = n * q - q
OBVIOUS

LEMMA QuotaPositive ==
  ASSUME NEW n \in Nat, NEW q \in Nat
  PROVE  n * q \in Nat
OBVIOUS

-----------------------------------------------------------------------------
(* The invariant is inductive *)

LEMMA InitInv == Init => Inv
<1> SUFFICES ASSUME Init PROVE Inv
  OBVIOUS
<1>1. TypeOK
  <2>1. end \in Int
    BY QuotaFits DEF Init, Quota
  <2>2. i \in Threads /\ start \in 0 .. Rows /\ 0 \in ColIndex
    BY SizesAssumption DEF Init, Threads, ColIndex
  <2>3. /\ from \in [Threads -> 0 .. Rows] /\ to \in [Threads -> -1 .. Rows - 1]
        /\ row \in [Threads -> 0 .. Rows]
    BY SizesAssumption DEF Init
  <2>4. k \in [Threads -> 0 .. Inner] /\ sum \in [Threads -> Int]
    BY SizesAssumption DEF Init
  <2> QED BY <2>1, <2>2, <2>3, <2>4 DEF Init, TypeOK
<1>2. QuotaInv
  <2>1. end + 1 = Quota /\ start = 0 /\ i = 0
    BY QuotaFits DEF Init, Quota
  <2>2. (NumThreads - 1) * Quota = NumThreads * Quota - Quota
    BY QuotaFits, QuotaStep, SizesAssumption
  <2>3. (NumThreads - 1) * Quota \in Nat
    BY QuotaFits, QuotaPositive, SizesAssumption
  <2> HIDE DEF Quota
  <2> QED BY <2>1, <2>2, <2>3, QuotaFits, SizesAssumption DEF QuotaInv, Init
<1>3. MainInv /\ RangeInv /\ CellInv
  BY SizesAssumption DEF Init, MainInv, RangeInv, CellInv, Made, Threads, RowIndex
<1>4. LoopInv
  BY SMTT(30), SizesAssumption, DotAssumption DEF Init, LoopInv, LoopFor, Threads, RowIndex, ColIndex
<1> QED BY <1>1, <1>2, <1>3, <1>4 DEF Inv

LEMMA SingleStep == Inv /\ Single => Inv'
<1> SUFFICES ASSUME Inv, Single PROVE Inv'
  OBVIOUS
<1> USE DEF Inv, Single, threadVars
<1>1. TypeOK' /\ QuotaInv' /\ MainInv'
  BY DEF TypeOK, QuotaInv, MainInv, Made, Quota
<1>2. RangeInv' /\ LoopInv' /\ CellInv'
  BY DEF RangeInv, LoopInv, LoopFor, CellInv, Made
<1> QED BY <1>1, <1>2

\* Handing out a range leaves enough rows for the threads to come.
LEMMA NextRangeFits ==
  ASSUME Inv, main = "create", i \in Threads, NextRange,
         IF i = NumThreads - 1 THEN main' = "join" /\ i' = 0 ELSE i' = i + 1 /\ main' = main
  PROVE  QuotaInv' /\ end' \in Int /\ start' \in 0 .. Rows
<1>1. /\ start <= end + 1 /\ end <= Rows - 1 /\ end \in Int /\ start \in 0 .. Rows
      /\ end + 1 + (NumThreads - 1 - i) * Quota <= Rows
  BY DEF Inv, QuotaInv, TypeOK
<1>2. Quota \in Nat /\ i \in 0 .. NumThreads - 1 /\ NumThreads \in Nat \ {0} /\ Rows \in Nat
  BY QuotaFits, SizesAssumption DEF Threads
<1>3. start' = end + 1 /\ end' = IF i = NumThreads - 2 THEN Rows - 1 ELSE end + Quota
  BY DEF NextRange, Quota
<1> HIDE DEF Quota
<1>4. CASE i = NumThreads - 1
  BY <1>1, <1>2, <1>3, <1>4 DEF QuotaInv
<1>5. CASE i = NumThreads - 2
  <2>1. i' = NumThreads - 1 /\ end' = Rows - 1 /\ NumThreads - 1 - i' = 0
    BY <1>2, <1>3, <1>5
  <2>2. (NumThreads - 1 - i') * Quota = 0
    BY <2>1, <1>2
  <2> QED BY <1>1, <1>2, <1>3, <2>1, <2>2 DEF QuotaInv
<1>6. CASE i < NumThreads - 2
  <2>1. i' = i + 1 /\ end' = end + Quota /\ NumThreads - 1 - i \in Nat
        /\ NumThreads - 1 - i' = (NumThreads - 1 - i) - 1
    BY <1>2, <1>3, <1>6
  <2>2. (NumThreads - 1 - i') * Quota = (NumThreads - 1 - i) * Quota - Quota
    BY <2>1, <1>2, QuotaStep
  <2>3. (NumThreads - 1 - i') * Quota \in Nat
    BY <2>1, <1>2, <1>6, QuotaPositive
  <2>4. end' + 1 + (NumThreads - 1 - i') * Quota <= Rows
    BY <1>1, <1>2, <2>1, <2>2, <2>3
  <2> QED BY <1>1, <1>2, <1>3, <1>6, <2>1, <2>3, <2>4 DEF QuotaInv
<1> QED BY <1>2, <1>4, <1>5, <1>6

LEMMA CreateStep == Inv /\ Create => Inv'
<1> SUFFICES ASSUME Inv, Create PROVE Inv'
  OBVIOUS
<1>1. /\ i \in Threads /\ i \notin Made /\ pc[i] = "none" /\ i \notin failed
      /\ \A t \in Threads : t \in Made <=> t < i
  BY DEF Inv, TypeOK, MainInv, Create, Made, Threads
<1>2. /\ start \in 0 .. Rows /\ end \in Int /\ start <= end + 1 /\ end <= Rows - 1
      /\ i = NumThreads - 1 => end = Rows - 1
  BY DEF Inv, TypeOK, QuotaInv, Create
<1>3. QuotaInv' /\ end' \in Int /\ start' \in 0 .. Rows /\ start' = end + 1
  BY <1>1, NextRangeFits DEF Create, NextRange
<1>4. /\ from' = [from EXCEPT ![i] = start] /\ to' = [to EXCEPT ![i] = end]
      /\ UNCHANGED <<col, k, sum, result>>
  BY DEF Create
<1>5. \/ pc' = [pc EXCEPT ![i] = "runs"] /\ row' = [row EXCEPT ![i] = start] /\ failed' = failed
      \/ pc' = pc /\ row' = row /\ failed' = failed \cup {i}
  BY DEF Create
<1>6. Made' = Made \cup {i} /\ Made \subseteq Threads
  BY <1>1, <1>5 DEF Made, Inv, TypeOK
<1>7. TypeOK'
  <2>1. main' \in {"create", "join"} /\ i' \in Threads
    BY <1>1, SizesAssumption DEF Create, Threads
  <2>2. from' \in [Threads -> 0 .. Rows] /\ to' \in [Threads -> -1 .. Rows - 1]
    BY <1>1, <1>2, <1>4 DEF Inv, TypeOK
  <2>3. /\ pc' \in [Threads -> {"none", "runs", "exited"}] /\ row' \in [Threads -> 0 .. Rows]
        /\ failed' \subseteq Threads
    BY <1>1, <1>2, <1>5 DEF Inv, TypeOK
  <2> QED BY <2>1, <2>2, <2>3, <1>3, <1>4 DEF Inv, TypeOK
<1>8. MainInv'
  <2>1. CASE i = NumThreads - 1
    BY <2>1, <1>2, <1>3, SizesAssumption DEF Create, MainInv, Threads
  <2>2. CASE i # NumThreads - 1
    BY <2>2, <1>1, <1>6 DEF Create, MainInv, Threads
  <2> QED BY <2>1, <2>2
<1>9. RangeInv'
  <2>1. /\ \A t \in Made : from'[t] = from[t] /\ to'[t] = to[t] /\ t < i
        /\ from'[i] = start /\ to'[i] = end /\ start' = end + 1
    BY <1>1, <1>3, <1>4, <1>6 DEF Inv, TypeOK
  <2>2. \A t \in Made : from[t] <= to[t] + 1 /\ to[t] < start
    BY DEF Inv, RangeInv
  <2>3. \A t \in Made : from[t] \in Int /\ to[t] \in Int /\ t \in Int
    BY <1>6 DEF Inv, TypeOK, Threads
  <2>4. \A t \in Made' : from'[t] <= to'[t] + 1 /\ to'[t] < start'
    BY <1>2, <1>6, <2>1, <2>2, <2>3
  <2>5. \A t, u \in Made' : t < u => to'[t] < from'[u]
    <3> SUFFICES ASSUME NEW t \in Made', NEW u \in Made', t < u PROVE to'[t] < from'[u]
      OBVIOUS
    <3>1. CASE t \in Made /\ u \in Made
      BY <3>1, <2>1 DEF Inv, RangeInv
    <3>2. CASE t \in Made /\ u = i
      BY <3>2, <2>1, <2>2
    <3>3. CASE t = i
      BY <3>3, <2>1, <2>3, <1>1, <1>6 DEF Threads
    <3> QED BY <3>1, <3>2, <3>3, <1>6
  <2>6. \A r \in RowIndex : r < start' => \E t \in Made' : from'[t] <= r /\ r <= to'[t]
    <3> SUFFICES ASSUME NEW r \in RowIndex, r < start'
                 PROVE  \E t \in Made' : from'[t] <= r /\ r <= to'[t]
      OBVIOUS
    <3>1. CASE r < start
      BY <3>1, <2>1, <1>6 DEF Inv, RangeInv
    <3>2. CASE start <= r
      BY <3>2, <2>1, <1>2, <1>6 DEF RowIndex
    <3> QED BY <3>1, <3>2, <1>2 DEF RowIndex
  <2> QED BY <2>4, <2>5, <2>6 DEF RangeInv
<1>10. LoopInv'
  <2> SUFFICES ASSUME NEW t \in Threads PROVE LoopFor(t)'
    BY DEF LoopInv
  <2>1. CASE t # i
    BY <2>1, <1>4, <1>5 DEF Inv, TypeOK, LoopInv, LoopFor
  <2>2. CASE t = i
    <3>1. col[i] = 0 /\ k[i] = 0 /\ sum[i] = 0 /\ 0 \in ColIndex
      <4>1. LoopFor(i)
        BY <1>1 DEF Inv, LoopInv
      <4>2. 0 \in ColIndex
        BY SizesAssumption DEF ColIndex
      <4> QED BY <1>1, <4>1, <4>2 DEF LoopFor
    <3>2. from'[i] = start /\ to'[i] = end
      BY <1>1, <1>4 DEF Inv, TypeOK
    <3>3. CASE pc' = [pc EXCEPT ![i] = "runs"] /\ row' = [row EXCEPT ![i] = start]
      <4>1. pc'[i] = "runs" /\ row'[i] = start
        BY <1>1, <3>3 DEF Inv, TypeOK
      <4> QED BY <2>2, <3>1, <3>2, <4>1, <1>2, <1>4, DotAssumption DEF LoopFor
    <3>4. CASE pc' = pc /\ row' = row
      BY <2>2, <3>4, <1>1, <1>4 DEF Inv, LoopInv, LoopFor
    <3> QED BY <3>3, <3>4, <1>5
  <2> QED BY <2>1, <2>2
<1>11. CellInv'
  <2> SUFFICES ASSUME NEW t \in Threads, pc'[t] # "none", NEW r \in RowIndex, NEW c \in ColIndex,
                      from'[t] <= r, r < row'[t] \/ (r = row'[t] /\ r <= to'[t] /\ c < col'[t])
               PROVE  result'[<<r, c>>] = Dot[<<r, c, Inner>>]
    BY DEF CellInv
  <2>1. CASE t # i
    BY <2>1, <1>4, <1>5 DEF Inv, TypeOK, CellInv
  <2>2. CASE t = i
    <3>1. from'[i] = start /\ row'[i] = start /\ col'[i] = 0
      BY <2>2, <1>1, <1>4, <1>5 DEF Inv, TypeOK, LoopInv, LoopFor
    <3> QED BY <2>2, <3>1, <1>2 DEF RowIndex, ColIndex
  <2> QED BY <2>1, <2>2
<1> QED BY <1>3, <1>7, <1>8, <1>9, <1>10, <1>11 DEF Inv

LEMMA JoinStep == Inv /\ Join => Inv'
<1> SUFFICES ASSUME Inv, Join PROVE Inv'
  OBVIOUS
<1>1. /\ UNCHANGED <<start, end, from, to, failed, pc, row, col, k, sum, result>>
      /\ main = "join" /\ main' \in {"join", "done", "crashed"} /\ i' \in Threads
  <2>1. /\ UNCHANGED <<start, end, from, to, failed, pc, row, col, k, sum, result>>
        /\ main = "join" /\ main' \in {"join", "done", "crashed"}
        /\ i' = i \/ (i # NumThreads - 1 /\ i' = i + 1)
    BY DEF Join, threadVars
  <2>2. i \in Threads
    BY DEF Inv, TypeOK
  <2> QED BY <2>1, <2>2, SizesAssumption DEF Threads
<1>2. TypeOK' /\ QuotaInv' /\ RangeInv' /\ LoopInv' /\ CellInv'
  BY <1>1 DEF Inv, TypeOK, QuotaInv, RangeInv, LoopInv, LoopFor, CellInv, Made
<1>3. MainInv'
  <2>1. /\ start = Rows /\ i \in Threads
        /\ \A t \in Threads : t < i /\ t \notin failed => pc[t] = "exited"
        /\ i \notin failed => pc[i] = "exited"
    BY <1>1 DEF Inv, TypeOK, MainInv, Join
  <2>2. CASE i = NumThreads - 1
    BY <2>1, <2>2, <1>1, SizesAssumption DEF MainInv, Join, Threads
  <2>3. CASE i # NumThreads - 1
    BY <2>1, <2>3, <1>1, SizesAssumption DEF MainInv, Join, Threads
  <2> QED BY <2>2, <2>3
<1> QED BY <1>2, <1>3 DEF Inv

\* A step of thread t leaves main and the other threads alone.
LEMMA ThreadKeeps ==
  ASSUME Inv, UNCHANGED mainVars, NEW t \in Threads, pc[t] = "runs",
         \/ pc' = pc
         \/ pc' = [pc EXCEPT ![t] = "exited"]
  PROVE  QuotaInv' /\ MainInv' /\ RangeInv' /\ Made' = Made
<1>1. pc'[t] # "none" /\ \A u \in Threads : u # t => pc'[u] = pc[u]
  BY DEF Inv, TypeOK
<1>2. Made' = Made
  BY <1>1 DEF Made, mainVars
<1>3. MainInv'
  BY <1>1, <1>2 DEF Inv, MainInv, mainVars
<1> QED BY <1>2, <1>3 DEF Inv, QuotaInv, RangeInv, mainVars, Quota

\* A running thread with rows to do is at a cell of the result.
LEMMA AtCell ==
  ASSUME Inv, NEW t \in Threads, Active(t)
  PROVE  /\ row[t] \in RowIndex /\ col[t] \in ColIndex /\ k[t] \in 0 .. Inner
         /\ sum[t] = Dot[<<row[t], col[t], k[t]>>] /\ pc[t] = "runs" /\ t \in Made
BY SizesAssumption DEF Inv, TypeOK, LoopInv, LoopFor, Active, RowIndex, Made

LEMMA AddTermStep ==
  ASSUME Inv, NEW t \in Threads, AddTerm(t)
  PROVE  Inv'
<1>1. /\ UNCHANGED <<mainVars, pc, row, col, result>> /\ k[t] < Inner
      /\ sum' = [sum EXCEPT ![t] = sum[t] + A[<<row[t], k[t]>>] * B[<<k[t], col[t]>>]]
      /\ k' = [k EXCEPT ![t] = k[t] + 1]
  BY DEF AddTerm
<1>2. /\ row[t] \in RowIndex /\ col[t] \in ColIndex /\ k[t] \in InnerIndex
      /\ sum[t] = Dot[<<row[t], col[t], k[t]>>] /\ pc[t] = "runs"
  BY <1>1, AtCell, SizesAssumption DEF AddTerm, InnerIndex
<1>3. QuotaInv' /\ MainInv' /\ RangeInv'
  BY <1>1, <1>2, ThreadKeeps
<1>4. sum'[t] = Dot[<<row[t], col[t], k[t] + 1>>] /\ k'[t] = k[t] + 1
  BY SMTT(60), <1>1, <1>2, DotAssumption DEF Inv, TypeOK
<1>5. TypeOK'
  <2>1. Dot[<<row[t], col[t], k[t] + 1>>] \in Int /\ k[t] + 1 \in 0 .. Inner
    BY <1>2, DotAssumption, SizesAssumption DEF InnerIndex
  <2>2. sum' = [sum EXCEPT ![t] = Dot[<<row[t], col[t], k[t] + 1>>]]
    BY <1>1, <1>4 DEF Inv, TypeOK
  <2>3. sum' \in [Threads -> Int] /\ k' \in [Threads -> 0 .. Inner]
    BY <1>1, <2>1, <2>2 DEF Inv, TypeOK
  <2> QED BY <1>1, <2>3 DEF Inv, TypeOK, mainVars
<1>6. LoopInv'
  <2> SUFFICES ASSUME NEW u \in Threads PROVE LoopFor(u)'
    BY DEF LoopInv
  <2>1. CASE u # t
    <3>1. sum'[u] = sum[u] /\ k'[u] = k[u]
      BY <1>1, <2>1 DEF Inv, TypeOK
    <3> QED BY <1>1, <3>1 DEF Inv, LoopInv, LoopFor, mainVars
  <2>2. CASE u = t
    BY <1>1, <1>2, <1>4, <2>2 DEF Inv, LoopInv, LoopFor, mainVars
  <2> QED BY <2>1, <2>2
<1>7. CellInv'
  BY <1>1 DEF Inv, CellInv, mainVars
<1> QED BY <1>3, <1>5, <1>6, <1>7 DEF Inv

\* Storing cell (i, j) does not touch the rows of the other threads.
LEMMA StoreElsewhere ==
  ASSUME Inv, NEW t \in Threads, Active(t), NEW u \in Threads, u # t, pc[u] # "none",
         NEW r \in RowIndex, from[u] <= r, r < row[u] \/ (r = row[u] /\ r <= to[u])
  PROVE  r # row[t]
<1>1. /\ from[t] <= row[t] /\ row[t] <= to[t] /\ r <= to[u]
      /\ t \in Made /\ u \in Made
  <2>1. LoopFor(t) /\ LoopFor(u) /\ pc[t] = "runs" /\ row[t] <= to[t]
    BY DEF Inv, LoopInv, Active
  <2>2. to[u] \in Int /\ row[u] \in Int /\ r \in Int
    BY DEF Inv, TypeOK, RowIndex
  <2> QED BY <2>1, <2>2 DEF LoopFor, Made
<1>2. \/ t < u /\ to[t] < from[u]
      \/ u < t /\ to[u] < from[t]
  BY <1>1 DEF Inv, RangeInv, Threads
<1>3. {from[t], to[t], row[t], from[u], to[u], r} \subseteq Int
  BY DEF Inv, TypeOK, RowIndex
<1> QED BY <1>1, <1>2, <1>3

LEMMA StoreCellStep ==
  ASSUME Inv, NEW t \in Threads, StoreCell(t)
  PROVE  Inv'
<1>1. /\ UNCHANGED <<mainVars, pc>> /\ k[t] = Inner /\ Active(t)
      /\ result' = [result EXCEPT ![<<row[t], col[t]>>] = sum[t]]
      /\ sum' = [sum EXCEPT ![t] = 0] /\ k' = [k EXCEPT ![t] = 0]
      /\ IF col[t] = Cols - 1
         THEN col' = [col EXCEPT ![t] = 0] /\ row' = [row EXCEPT ![t] = row[t] + 1]
         ELSE col' = [col EXCEPT ![t] = col[t] + 1] /\ row' = row
  BY DEF StoreCell
<1>2. /\ row[t] \in RowIndex /\ col[t] \in ColIndex /\ pc[t] = "runs" /\ row[t] <= to[t]
      /\ sum[t] = Dot[<<row[t], col[t], Inner>>] /\ sum[t] \in Int
  BY <1>1, AtCell DEF Active, Inv, TypeOK
<1>3. QuotaInv' /\ MainInv' /\ RangeInv'
  BY <1>1, <1>2, ThreadKeeps
<1>4. /\ sum'[t] = 0 /\ k'[t] = 0
      /\ IF col[t] = Cols - 1 THEN col'[t] = 0 /\ row'[t] = row[t] + 1
                              ELSE col'[t] = col[t] + 1 /\ row'[t] = row[t]
      /\ \A u \in Threads : u # t => /\ sum'[u] = sum[u] /\ k'[u] = k[u]
                                     /\ col'[u] = col[u] /\ row'[u] = row[u]
  BY <1>1 DEF Inv, TypeOK
<1>5. \A r \in RowIndex, c \in ColIndex :
        result'[<<r, c>>] = IF r = row[t] /\ c = col[t] THEN sum[t] ELSE result[<<r, c>>]
  BY <1>1 DEF Inv, TypeOK
<1>6. col'[t] \in ColIndex /\ row'[t] \in 0 .. Rows
  BY <1>2, <1>4, SizesAssumption DEF ColIndex, RowIndex
<1>7. TypeOK'
  <2>1. sum' \in [Threads -> Int] /\ k' \in [Threads -> 0 .. Inner]
    BY <1>1, SizesAssumption DEF Inv, TypeOK
  <2>2. col' \in [Threads -> ColIndex] /\ row' \in [Threads -> 0 .. Rows]
    BY <1>1, <1>4, <1>6 DEF Inv, TypeOK
  <2>3. result' \in [RowIndex \X ColIndex -> Int]
    BY <1>1, <1>2 DEF Inv, TypeOK
  <2> QED BY <1>1, <2>1, <2>2, <2>3 DEF Inv, TypeOK, mainVars
<1>8. LoopInv'
  <2> SUFFICES ASSUME NEW u \in Threads PROVE LoopFor(u)'
    BY DEF LoopInv
  <2>1. CASE u # t
    BY <1>1, <1>4, <2>1 DEF Inv, LoopInv, LoopFor, mainVars
  <2>2. CASE u = t
    <3>1. row'[t] \in RowIndex => Dot[<<row'[t], col'[t], 0>>] = 0
      BY <1>6, DotAssumption
    <3>2. from[t] <= row[t] /\ from[t] \in Int /\ to[t] \in Int /\ row[t] \in Int
      <4>1. LoopFor(t)
        BY DEF Inv, LoopInv
      <4>2. from[t] \in Int /\ to[t] \in Int /\ row[t] \in Int
        BY DEF Inv, TypeOK
      <4> QED BY <1>2, <4>1, <4>2 DEF LoopFor
    <3>3. from[t] <= row'[t] /\ row'[t] <= to[t] + 1
      BY <1>2, <1>4, <3>2
    <3> QED BY <1>1, <1>2, <1>4, <2>2, <3>1, <3>3 DEF LoopFor, mainVars
  <2> QED BY <2>1, <2>2
<1>9. CellInv'
  <2> SUFFICES ASSUME NEW u \in Threads, pc[u] # "none", NEW r \in RowIndex, NEW c \in ColIndex,
                      from[u] <= r, r < row'[u] \/ (r = row'[u] /\ r <= to[u] /\ c < col'[u])
               PROVE  result'[<<r, c>>] = Dot[<<r, c, Inner>>]
    BY <1>1 DEF CellInv, mainVars
  <2>1. CASE u # t
    <3>1. r # row[t]
      BY <2>1, <1>1, <1>4, StoreElsewhere
    <3> QED BY <2>1, <3>1, <1>4, <1>5 DEF Inv, CellInv
  <2>2. CASE u = t /\ r = row[t] /\ c = col[t]
    BY <2>2, <1>2, <1>5
  <2>3. CASE u = t /\ ~ (r = row[t] /\ c = col[t])
    <3>1. r < row[t] \/ (r = row[t] /\ r <= to[t] /\ c < col[t])
      BY <2>3, <1>2, <1>4 DEF RowIndex, ColIndex
    <3> QED BY <2>3, <3>1, <1>5 DEF Inv, CellInv
  <2> QED BY <2>1, <2>2, <2>3
<1> QED BY <1>3, <1>7, <1>8, <1>9 DEF Inv

LEMMA ExitStep ==
  ASSUME Inv, NEW t \in Threads, Exit(t)
  PROVE  Inv'
<1>1. /\ UNCHANGED <<mainVars, row, col, k, sum, result>> /\ pc[t] = "runs" /\ row[t] > to[t]
      /\ pc' = [pc EXCEPT ![t] = "exited"]
  BY DEF Exit
<1>2. QuotaInv' /\ MainInv' /\ RangeInv'
  BY <1>1, ThreadKeeps
<1>3. TypeOK'
  BY <1>1 DEF Inv, TypeOK, mainVars
<1>4. pc'[t] = "exited" /\ \A u \in Threads : u # t => pc'[u] = pc[u]
  BY <1>1 DEF Inv, TypeOK
<1>5. LoopInv'
  BY <1>1, <1>4 DEF Inv, LoopInv, LoopFor, mainVars
<1>6. CellInv'
  BY <1>1, <1>4 DEF Inv, CellInv, mainVars
<1> QED BY <1>2, <1>3, <1>5, <1>6 DEF Inv

LEMMA InvInductive == Inv /\ [Next]_vars => Inv'
<1> SUFFICES ASSUME Inv, [Next]_vars PROVE Inv'
  OBVIOUS
<1>1. CASE Main
  BY <1>1, SingleStep, CreateStep, JoinStep DEF Main
<1>2. CASE \E t \in Threads : Thread(t)
  BY <1>2, AddTermStep, StoreCellStep, ExitStep DEF Thread
<1>3. CASE UNCHANGED vars
  BY <1>3 DEF Inv, TypeOK, QuotaInv, MainInv, RangeInv, LoopInv, LoopFor, CellInv, Made,
     vars, mainVars, threadVars, Quota
<1> QED BY <1>1, <1>2, <1>3 DEF Next, Ended

LEMMA Invariance == Spec => []Inv
BY InitInv, InvInductive, PTL DEF Spec

-----------------------------------------------------------------------------
(* Theorems *)

\* Every variable keeps its type: row ranges stay within the matrix, and the
\* cells that are read and written exist.
THEOREM TypeCorrect == Spec => []TypeOK
<1>1. Inv => TypeOK
  BY DEF Inv
<1> QED BY <1>1, Invariance, PTL

\* The ranges multiply_matrix_multi_thread gives to its threads never share a
\* row, for any number of rows and of threads.
THEOREM RangesNeverMeet == Spec => []RangesDisjoint
<1>1. Inv => RangesDisjoint
  <2> SUFFICES ASSUME Inv, NEW t \in Threads, NEW u \in Threads, t # u,
                      pc[t] # "none", pc[u] # "none"
               PROVE  Range(t) \cap Range(u) = {}
    BY DEF RangesDisjoint
  <2>1. to[t] < from[u] \/ to[u] < from[t]
    BY DEF Inv, RangeInv, Made, Threads
  <2>2. {from[t], to[t], from[u], to[u]} \subseteq Int
    BY DEF Inv, TypeOK
  <2> QED BY <2>1, <2>2 DEF Range
<1> QED BY <1>1, Invariance, PTL

\* With all threads created, the product of every two matrices is right for
\* every number of threads, also for one and for more than there are rows.
THEOREM ProductIsCorrect == Spec => []ProductCorrect
<1>1. Inv => ProductCorrect
  <2> SUFFICES ASSUME Inv, main = "done", failed = {}, NEW r \in RowIndex, NEW c \in ColIndex
               PROVE  result[<<r, c>>] = Dot[<<r, c, Inner>>]
    BY DEF ProductCorrect
  <2>1. PICK t \in Made : from[t] <= r /\ r <= to[t]
    BY SizesAssumption DEF Inv, MainInv, RangeInv, RowIndex
  <2>2. t \in Threads /\ pc[t] = "exited" /\ row[t] > to[t]
    BY <2>1 DEF Inv, MainInv, LoopInv, LoopFor, Made
  <2>3. r < row[t]
    BY <2>1, <2>2 DEF Inv, TypeOK, RowIndex
  <2> QED BY <2>1, <2>2, <2>3 DEF Inv, CellInv
<1> QED BY <1>1, Invariance, PTL
=============================================================================
