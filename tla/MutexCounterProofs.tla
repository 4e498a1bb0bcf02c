------------------------- MODULE MutexCounterProofs -------------------------
(***************************************************************************)
(* Proofs about MutexCounter, for every number of threads and of turns.    *)
(***************************************************************************)
EXTENDS MutexCounter, FiniteSetTheorems, TLAPS

\* The holder of the mutex is the one thread in the critical section.
HolderInv == \A t \in Threads : pc[t] \in Critical <=> mutex = t

\* Between its load and its store a thread's register is not stale.
RegisterInv == \A t \in Threads : pc[t] = "store" => reg[t] = shared

\* The value that has been stored but not yet printed is counted apart.
LengthInv ==
  /\ (\E t \in Threads : pc[t] = "print") => Len(output) = shared - 1
  /\ (\A t \in Threads : pc[t] # "print") => Len(output) = shared

\* Loop counters agree with the control state.
LoopInv == \A t \in Threads : /\ pc[t] \in Critical => i[t] < Turns
                              /\ pc[t] = "exited" => i[t] = Turns

\* Threads that main has not reached are not created, those it has joined
\* have exited.
MainInv ==
  /\ main = "create" => \A t \in Threads : t >= next => pc[t] = "none"
  /\ main = "join" => \A t \in Threads : t < next => pc[t] = "exited"
  /\ main \in {"destroy", "done"} => \A t \in Threads : pc[t] = "exited"
  /\ mutex = Destroyed <=> main = "done"

\* Increment k of thread t, for every one that has been stored.
Incremented(t) == i[t] + (IF pc[t] \in {"print", "unlock"} THEN 1 ELSE 0)
Counted == {p \in Threads \X (0 .. Turns - 1) : p[2] < Incremented(p[1])}
CountInv == shared = Cardinality(Counted)

Inv == /\ TypeOK /\ HolderInv /\ RegisterInv /\ LengthInv /\ LoopInv
       /\ MainInv /\ CountInv /\ OutputConsecutive

-----------------------------------------------------------------------------
(* Counting *)

\* The set of all increments is finite, and so are its subsets.
LEMMA AllIncrements ==
  /\ IsFiniteSet(Threads \X (0 .. Turns - 1))
  /\ Cardinality(Threads \X (0 .. Turns - 1)) = NumThreads * Turns
<1>1. /\ IsFiniteSet(Threads) /\ Cardinality(Threads) = NumThreads
  BY FS_Interval, NumThreadsAssumption DEF Threads
<1>2. /\ IsFiniteSet(0 .. Turns - 1) /\ Cardinality(0 .. Turns - 1) = Turns
  BY FS_Interval, TurnsAssumption
<1> QED BY <1>1, <1>2, FS_Product

\* Counted is always a finite set.
LEMMA CountedFinite == IsFiniteSet(Counted)
<1>1. Counted \in SUBSET (Threads \X (0 .. Turns - 1))
  BY DEF Counted
<1> QED BY <1>1, AllIncrements, FS_Subset

-----------------------------------------------------------------------------
(* The invariant is inductive: one lemma per group of actions *)

LEMMA InitInv == Init => Inv
<1> SUFFICES ASSUME Init PROVE Inv
  OBVIOUS
<1> USE NumThreadsAssumption, TurnsAssumption
<1>1. TypeOK
  BY DEF Init, TypeOK, Threads, Critical, Free, Destroyed
<1>2. HolderInv /\ RegisterInv /\ LoopInv /\ MainInv
  BY DEF Init, HolderInv, RegisterInv, LoopInv, MainInv, Threads, Critical, Free, Destroyed
<1>3. LengthInv /\ OutputConsecutive
  <2>1. output = << >> /\ shared = 0 /\ ~ \E t \in Threads : pc[t] = "print"
    BY DEF Init
  <2>2. Len(output) = 0 /\ DOMAIN output = {}
    BY <2>1
  <2> QED BY <2>1, <2>2 DEF LengthInv, OutputConsecutive
<1>4. CountInv
  <2>1. Counted = {}
    BY DEF Init, Counted, Incremented
  <2> QED BY <2>1, FS_EmptySet DEF CountInv, Init
<1> QED BY <1>1, <1>2, <1>3, <1>4 DEF Inv

\* A step that leaves the increments stored so far as they were keeps the
\* counting part of the invariant.
LEMMA CountUnchanged ==
  ASSUME shared' = shared, \A t \in Threads : Incremented(t)' = Incremented(t), CountInv
  PROVE  CountInv'
<1>1. Counted' = Counted
  BY DEF Counted
<1> QED BY <1>1 DEF CountInv

\* What one turn of main's loops does to its index and control state.
LEMMA NextThreadStep ==
  ASSUME NEW from, NEW to, next \in Threads, NextThread(from, to)
  PROVE  /\ next' \in Threads
         /\ \/ next = NumThreads - 1 /\ next' = 0 /\ main' = to
            \/ next' = next + 1 /\ main' = from
BY NumThreadsAssumption DEF NextThread, Threads

\* main's steps preserve the invariant.
LEMMA MainStep == Inv /\ Main => Inv'
<1> SUFFICES ASSUME Inv, Main PROVE Inv'
  OBVIOUS
<1> USE NumThreadsAssumption, TurnsAssumption DEF Inv, Threads
<1>1. CASE Create
  <2>1. \A t \in Threads : pc'[t] = pc[t] \/ (pc[t] = "none" /\ pc'[t] = "loop")
    BY SMTT(30), <1>1 DEF Create, MainInv, TypeOK
  <2>2. UNCHANGED <<i, reg, shared, output, mutex>>
    BY <1>1 DEF Create, threadVars
  <2>a. main = "create" /\ next \in Threads /\ NextThread("create", "join")
    BY <1>1 DEF Create, TypeOK
  <2>b. /\ next' \in Threads
        /\ \/ next = NumThreads - 1 /\ next' = 0 /\ main' = "join"
           \/ next' = next + 1 /\ main' = "create"
    BY <2>a, NextThreadStep
  <2>c. pc' \in [Threads -> {"none", "loop", "exited"} \cup Critical]
    BY <1>1 DEF Create, TypeOK
  <2>3. TypeOK'
    BY <2>b, <2>c, <2>2 DEF TypeOK
  <2>4. HolderInv' /\ RegisterInv' /\ LoopInv'
    BY <2>1, <2>2 DEF HolderInv, RegisterInv, LoopInv, Critical
  <2>5. LengthInv' /\ OutputConsecutive'
    BY <2>1, <2>2 DEF LengthInv, OutputConsecutive
  <2>6. MainInv'
    <3>1. ASSUME main' = "create", NEW t \in Threads, t >= next' PROVE pc'[t] = "none"
      <4>1. next' = next + 1 /\ t # next /\ t >= next
        BY <2>a, <2>b, <3>1
      <4>2. pc'[t] = pc[t]
        BY <1>1, <4>1 DEF Create, TypeOK
      <4> QED BY <2>a, <4>1, <4>2 DEF MainInv
    <3>2. ASSUME main' = "join", NEW t \in Threads PROVE ~ (t < next')
      BY <2>a, <2>b, <3>2
    <3>3. main' \in {"create", "join"} /\ main # "done"
      BY <2>a, <2>b
    <3> QED BY ZenonT(30), <2>2, <3>1, <3>2, <3>3 DEF MainInv
  <2>7. CountInv'
    BY <2>1, <2>2, CountUnchanged DEF Incremented
  <2> QED BY <2>3, <2>4, <2>5, <2>6, <2>7
<1>2. CASE Join
  <2>1. UNCHANGED <<i, reg, shared, output, mutex, pc>>
    BY <1>2 DEF Join, threadVars
  <2>a. main = "join" /\ next \in Threads
    BY <1>2 DEF Join, TypeOK
  <2>b. \/ /\ pc[next] = "exited"
           /\ next' \in Threads
           /\ \/ next = NumThreads - 1 /\ next' = 0 /\ main' = "destroy"
              \/ next' = next + 1 /\ main' = "join"
        \/ main' = "crashed" /\ next' = next
    BY <1>2, <2>a, NextThreadStep DEF Join
  <2>2. TypeOK'
    BY <2>a, <2>b, <2>1 DEF TypeOK
  <2>5. MainInv'
    <3>1. CASE main' = "crashed"
      BY <2>a, <2>1, <3>1 DEF MainInv
    <3>2. CASE main' = "join" /\ pc[next] = "exited" /\ next' = next + 1
      BY <2>a, <2>1, <3>2 DEF MainInv
    <3>3. CASE main' = "destroy" /\ pc[next] = "exited" /\ next = NumThreads - 1
      BY <2>a, <2>1, <3>3 DEF MainInv
    <3> QED BY <2>b, <3>1, <3>2, <3>3
  <2>3. HolderInv' /\ RegisterInv' /\ LoopInv' /\ LengthInv' /\ OutputConsecutive'
    BY <2>1 DEF HolderInv, RegisterInv, LoopInv, LengthInv, OutputConsecutive
  <2>4. CountInv'
    BY <2>1, CountUnchanged DEF Incremented
  <2> QED BY <2>2, <2>3, <2>4, <2>5
<1>3. CASE DestroyMutex
  <2>1. UNCHANGED <<i, reg, shared, output, pc, next>>
    BY <1>3 DEF DestroyMutex, threadVars
  <2>2. TypeOK' /\ MainInv'
    BY <1>3, <2>1 DEF DestroyMutex, TypeOK, MainInv
  <2>3. HolderInv'
    BY <1>3, <2>1 DEF DestroyMutex, HolderInv, MainInv, Critical, Destroyed
  <2>4. RegisterInv' /\ LoopInv' /\ LengthInv' /\ OutputConsecutive'
    BY <2>1 DEF RegisterInv, LoopInv, LengthInv, OutputConsecutive
  <2>5. CountInv'
    BY <2>1, CountUnchanged DEF Incremented
  <2> QED BY <2>2, <2>3, <2>4, <2>5
<1> QED BY <1>1, <1>2, <1>3 DEF Main

\* Storing thread t's increment adds one element to Counted.
LEMMA StoreCounts ==
  ASSUME Inv, NEW t \in Threads, Store(t)
  PROVE  Cardinality(Counted') = Cardinality(Counted) + 1
<1> USE NumThreadsAssumption, TurnsAssumption DEF Inv
<1>1. i[t] \in 0 .. Turns - 1
  BY DEF Store, Goto, LoopInv, TypeOK, Critical
<1>2. /\ Incremented(t) = i[t] /\ Incremented(t)' = i[t] + 1
      /\ \A u \in Threads \ {t} : Incremented(u)' = Incremented(u)
  BY <1>1 DEF Store, Goto, TypeOK, Incremented
<1>3. \A u \in Threads : Incremented(u) \in Int
  BY DEF TypeOK, Incremented
<1>4. Counted' = Counted \cup {<<t, i[t]>>}
  <2>1. ASSUME NEW p \in Threads \X (0 .. Turns - 1)
        PROVE  p \in Counted' <=> p \in Counted \/ p = <<t, i[t]>>
    <3>1. CASE p[1] = t
      BY <1>1, <1>2, <3>1 DEF Counted
    <3>2. CASE p[1] # t
      BY <1>2, <3>2 DEF Counted
    <3> QED BY <3>1, <3>2
  <2>2. <<t, i[t]>> \in Threads \X (0 .. Turns - 1)
    BY <1>1
  <2> QED BY <2>1, <2>2 DEF Counted
<1>5. <<t, i[t]>> \notin Counted
  BY <1>2 DEF Counted
<1> QED BY <1>4, <1>5, CountedFinite, FS_AddElement

\* A thread's steps preserve the invariant.
LEMMA ThreadStep ==
  ASSUME Inv, NEW t \in Threads, Thread(t)
  PROVE  Inv'
<1> USE NumThreadsAssumption, TurnsAssumption DEF Inv
<1>a. \A u \in Threads : u # Free /\ u # Destroyed
  BY DEF Threads, Free, Destroyed
<1>1. CASE Lock(t)
  <2> USE <1>1 DEF Lock, Goto, threadVars
  <2>1. TypeOK'
    BY DEF TypeOK, Critical
  <2>2. HolderInv'
    BY <1>a DEF HolderInv, Critical, TypeOK
  <2>5. RegisterInv' /\ LoopInv'
    BY DEF RegisterInv, LoopInv, Critical, TypeOK
  <2>6. main # "done" /\ t # Destroyed
    BY <1>a DEF MainInv, TypeOK, Free, Destroyed
  <2>7. MainInv'
    BY <2>6 DEF MainInv, TypeOK
  <2>3. LengthInv' /\ OutputConsecutive'
    BY DEF LengthInv, OutputConsecutive, TypeOK
  <2>4. CountInv'
    BY CountUnchanged DEF Incremented, TypeOK
  <2> QED BY <2>1, <2>2, <2>3, <2>4, <2>5, <2>7
<1>2. CASE Load(t)
  <2> USE <1>2 DEF Load, Goto
  <2>1. TypeOK'
    BY DEF TypeOK, Critical
  <2>2. HolderInv' /\ LoopInv'
    BY <1>a DEF HolderInv, LoopInv, Critical, TypeOK
  <2>5. RegisterInv'
    BY DEF RegisterInv, TypeOK
  <2>6. MainInv'
    BY DEF MainInv, TypeOK
  <2>3. LengthInv' /\ OutputConsecutive'
    BY DEF LengthInv, OutputConsecutive, TypeOK
  <2>4. CountInv'
    BY CountUnchanged DEF Incremented, TypeOK
  <2> QED BY <2>1, <2>2, <2>3, <2>4, <2>5, <2>6
<1>3. CASE Store(t)
  <2> USE <1>3 DEF Store, Goto
  <2>0. /\ \A u \in Threads : u # t => pc[u] \notin Critical
        /\ reg[t] = shared /\ pc'[t] = "print"
    BY DEF HolderInv, RegisterInv, Critical, TypeOK
  <2>1. TypeOK'
    BY DEF TypeOK, Critical
  <2>2. HolderInv' /\ RegisterInv' /\ LoopInv' /\ MainInv'
    BY <1>a, <2>0 DEF HolderInv, RegisterInv, LoopInv, MainInv, Critical, TypeOK
  <2>3. LengthInv' /\ OutputConsecutive'
    BY <2>0 DEF LengthInv, OutputConsecutive, TypeOK, Critical
  <2>4. CountInv'
    BY <2>0, StoreCounts DEF CountInv
  <2> QED BY <2>1, <2>2, <2>3, <2>4
<1>4. CASE Report(t)
  <2> USE <1>4 DEF Report, Goto
  <2>0. /\ \A u \in Threads : u # t => pc[u] \notin Critical
        /\ Len(output) = shared - 1 /\ output \in Seq(Threads \X Nat)
        /\ shared \in Nat
        /\ output' = Append(output, <<t, shared>>)
    BY DEF HolderInv, LengthInv, Critical, TypeOK
  <2>1. TypeOK'
    BY <2>0 DEF TypeOK, Critical
  <2>2. HolderInv' /\ RegisterInv' /\ LoopInv' /\ MainInv'
    BY <1>a, <2>0 DEF HolderInv, RegisterInv, LoopInv, MainInv, Critical, TypeOK
  <2>5. Len(output') = shared
    BY <2>0
  <2>3. LengthInv'
    BY <2>0, <2>5 DEF LengthInv, TypeOK, Critical
  <2>6. OutputConsecutive'
    <3> SUFFICES ASSUME NEW k \in 1 .. shared PROVE output'[k][2] = k
      BY <2>0, <2>5 DEF OutputConsecutive
    <3>1. CASE k = shared
      BY <2>0, <3>1
    <3>2. CASE k < shared
      BY <2>0, <3>2 DEF OutputConsecutive
    <3> QED BY <2>0, <3>1, <3>2
  <2>4. CountInv'
    BY CountUnchanged DEF Incremented, TypeOK
  <2> QED BY <2>1, <2>2, <2>3, <2>4, <2>6
<1>5. CASE Unlock(t)
  <2> USE <1>5 DEF Unlock, Goto
  <2>0. \A u \in Threads : u # t => pc[u] \notin Critical
    BY DEF HolderInv, Critical, TypeOK
  <2>1. TypeOK'
    BY SMTT(30) DEF TypeOK, Critical, LoopInv
  <2>2. HolderInv'
    BY <1>a, <2>0 DEF HolderInv, Critical, TypeOK, Threads, Free
  <2>5. RegisterInv' /\ LoopInv'
    BY <2>0 DEF RegisterInv, LoopInv, Critical, TypeOK
  <2>6. mutex = t /\ main # "done" /\ mutex' # Destroyed
    BY DEF MainInv, HolderInv, Critical, Free, Destroyed, TypeOK
  <2>7. MainInv'
    BY <2>6 DEF MainInv, TypeOK
  <2>3. LengthInv' /\ OutputConsecutive'
    BY DEF LengthInv, OutputConsecutive, TypeOK
  <2>4. CountInv'
    BY CountUnchanged DEF Incremented, TypeOK
  <2> QED BY <2>1, <2>2, <2>3, <2>4, <2>5, <2>7
<1>6. CASE Exit(t)
  <2> USE <1>6 DEF Exit, Goto, threadVars
  <2>1. TypeOK'
    BY DEF TypeOK, Critical
  <2>2. HolderInv' /\ RegisterInv' /\ LoopInv' /\ MainInv'
    BY <1>a DEF HolderInv, RegisterInv, LoopInv, MainInv, Critical, TypeOK
  <2>3. LengthInv' /\ OutputConsecutive'
    BY DEF LengthInv, OutputConsecutive, TypeOK
  <2>4. CountInv'
    BY CountUnchanged DEF Incremented, TypeOK
  <2> QED BY <2>1, <2>2, <2>3, <2>4
<1> QED BY <1>1, <1>2, <1>3, <1>4, <1>5, <1>6 DEF Thread

LEMMA InvInductive == Inv /\ [Next]_vars => Inv'
<1> SUFFICES ASSUME Inv, [Next]_vars PROVE Inv'
  OBVIOUS
<1>1. CASE Main
  BY <1>1, MainStep
<1>2. CASE \E t \in Threads : Thread(t)
  BY <1>2, ThreadStep
<1>3. CASE UNCHANGED vars
  BY <1>3 DEF vars, Inv, TypeOK, HolderInv, RegisterInv, LengthInv, LoopInv, MainInv,
              CountInv, Counted, Incremented, OutputConsecutive
<1> QED BY <1>1, <1>2, <1>3 DEF Next, Ended

LEMMA Invariance == Spec => []Inv
BY InitInv, InvInductive, PTL DEF Spec

-----------------------------------------------------------------------------
(* Theorems *)

\* Every variable keeps its type.
THEOREM TypeCorrect == Spec => []TypeOK
<1>1. Inv => TypeOK
  BY DEF Inv
<1> QED BY <1>1, Invariance, PTL

\* No increment is lost or repeated: line k printed by the program reads k,
\* for any number of threads.
THEOREM OutputIsConsecutive == Spec => []OutputConsecutive
<1>1. Inv => OutputConsecutive
  BY DEF Inv
<1> QED BY <1>1, Invariance, PTL

\* When main returns, shared_resource is the number of threads times the
\* number of turns.
THEOREM FinalTotalCorrect == Spec => []FinalTotal
<1>1. Inv => FinalTotal
  <2> SUFFICES ASSUME Inv, main = "done" PROVE shared = NumThreads * Turns
    BY DEF FinalTotal
  <2>1. \A t \in Threads : pc[t] = "exited" /\ Incremented(t) = Turns
    BY TurnsAssumption DEF Inv, MainInv, LoopInv, TypeOK, Incremented
  <2>2. Counted = Threads \X (0 .. Turns - 1)
    BY <2>1, TurnsAssumption DEF Counted
  <2> QED BY <2>2, AllIncrements DEF Inv, CountInv
<1> QED BY <1>1, Invariance, PTL

\* The mutex is destroyed after its last use.
THEOREM DestroyIsLast == Spec => []DestroyedUnused
<1>1. Inv => DestroyedUnused
  BY DEF Inv, MainInv, DestroyedUnused
<1> QED BY <1>1, Invariance, PTL

\* Only Report writes to the log, and it is a step of the serial counter.
LEMMA SerialStep ==
  ASSUME Inv, [Next]_vars
  PROVE  [Serial!Next]_<<output, [t \in Threads |-> Printed(t)]>>
<1> DEFINE turn == [t \in Threads |-> Printed(t)]
<1> USE DEF Inv
<1>1. ASSUME output' = output, \A t \in Threads : Printed(t)' = Printed(t)
      PROVE  UNCHANGED <<output, turn>>
  BY <1>1
<1>2. CASE Main
  <2>1. output' = output /\ i' = i
    BY <1>2 DEF Main, Create, Join, DestroyMutex, threadVars
  <2>2. \A t \in Threads : pc'[t] = "unlock" <=> pc[t] = "unlock"
    <3>1. CASE Create
      <4>1. pc[next] = "none" /\ next \in Threads
        BY <3>1, NumThreadsAssumption DEF Create, MainInv, TypeOK, Threads
      <4> QED BY <3>1, <4>1 DEF Create, TypeOK
    <3>2. CASE Join \/ DestroyMutex
      BY <3>2 DEF Join, DestroyMutex
    <3> QED BY <1>2, <3>1, <3>2 DEF Main
  <2> QED BY <1>1, <2>1, <2>2 DEF Printed
<1>3. ASSUME NEW t \in Threads, Thread(t)
      PROVE  [Serial!Next]_<<output, turn>>
  <2>1. CASE Lock(t) \/ Load(t) \/ Store(t) \/ Exit(t)
    BY <1>1, <2>1 DEF Lock, Load, Store, Exit, Goto, threadVars, Printed, TypeOK
  <2>2. CASE Unlock(t)
    <3>1. output' = output /\ \A u \in Threads : Printed(u)' = Printed(u)
      BY <2>2 DEF Unlock, Goto, Printed, TypeOK
    <3> QED BY <1>1, <3>1
  <2>3. CASE Report(t)
    <3>1. turn[t] < Turns
      BY <2>3, TurnsAssumption DEF Report, Goto, Printed, LoopInv, TypeOK, Critical
    <3>2. \A u \in Threads : Printed(u)' = IF u = t THEN Printed(t) + 1 ELSE Printed(u)
      BY SMTT(30), <2>3 DEF Report, Goto, Printed, TypeOK
    <3>3. turn' = [turn EXCEPT ![t] = @ + 1]
      BY <3>2
    <3>4. Len(output) + 1 = shared
      BY <2>3 DEF Report, Goto, LengthInv, TypeOK
    <3>5. output' = Append(output, <<t, Len(output) + 1>>)
      BY <2>3, <3>4 DEF Report
    <3> QED BY <3>1, <3>3, <3>5 DEF Serial!Next, Serial!Step
  <2> QED BY <1>3, <2>1, <2>2, <2>3 DEF Thread
<1>4. CASE UNCHANGED vars
  BY <1>1, <1>4 DEF vars, Printed
<1> QED BY <1>2, <1>3, <1>4 DEF Next, Ended

\* The threads, the mutex and the memory implement the serial counter.
THEOREM ImplementsSerialCounter == Spec => SerialSpec
<1>1. Init => Serial!Init
  BY DEF Init, Serial!Init, Printed
<1>2. Inv /\ [Next]_vars => [Serial!Next]_<<output, [t \in Threads |-> Printed(t)]>>
  BY SerialStep
<1> QED BY <1>1, <1>2, Invariance, PTL DEF Spec, SerialSpec, Serial!Spec
=============================================================================
