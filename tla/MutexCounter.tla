---------------------------- MODULE MutexCounter ----------------------------
(***************************************************************************)
(* IPC_Synchronization/Mutex_synchronize_thread: main creates NumThreads   *)
(* threads, each of which increments shared_resource Turns times inside    *)
(* one mutex and prints the value; main joins them and destroys the mutex. *)
(* shared_resource++ is a load and a store.  The results of pthread_create *)
(* are ignored by the code: a thread that could not be created leaves a    *)
(* zero handle behind, on which pthread_join faults.                       *)
(***************************************************************************)
EXTENDS Integers, Sequences, FiniteSets

CONSTANTS NumThreads,  \* NUM_THREADS
          Turns        \* the 5 of thread_function's loop

ASSUME NumThreadsAssumption == NumThreads \in Nat \ {0}
ASSUME TurnsAssumption == Turns \in Nat

Threads == 0 .. NumThreads - 1
Free == -1
Destroyed == -2

VARIABLES main,    \* where main is: creating, joining, destroying, ended
          next,    \* the index i of main's current loop
          pc,      \* where each thread is
          i,       \* each thread's loop counter
          reg,     \* the register of each thread's shared_resource++
          mutex,   \* the holder, Free or Destroyed
          shared,  \* shared_resource
          output   \* the lines printed: <<thread_id, value>>

vars == <<main, next, pc, i, reg, mutex, shared, output>>
threadVars == <<i, reg, shared, output>>

Init == /\ main = "create" /\ next = 0
        /\ pc = [t \in Threads |-> "none"]
        /\ i = [t \in Threads |-> 0]
        /\ reg = [t \in Threads |-> 0]
        /\ mutex = Free
        /\ shared = 0
        /\ output = << >>

-----------------------------------------------------------------------------
(* main *)

\* Leave index next of a loop over the threads that runs in state `from`.
NextThread(from, to) ==
  IF next + 1 = NumThreads THEN next' = 0 /\ main' = to
                           ELSE next' = next + 1 /\ main' = from

Create == /\ main = "create"
          /\ pc' \in {[pc EXCEPT ![next] = "loop"], pc}
          /\ NextThread("create", "join")
          /\ UNCHANGED <<threadVars, mutex>>

Join == /\ main = "join"
        /\ \/ pc[next] = "exited" /\ NextThread("join", "destroy")
           \/ pc[next] = "none" /\ main' = "crashed" /\ UNCHANGED next
        /\ UNCHANGED <<threadVars, pc, mutex>>

DestroyMutex == /\ main = "destroy"
                /\ main' = "done"
                /\ mutex' = Destroyed
                /\ UNCHANGED <<threadVars, next, pc>>

-----------------------------------------------------------------------------
(* thread_function *)

Goto(t, from, to) == /\ main # "crashed"
                     /\ pc[t] = from
                     /\ pc' = [pc EXCEPT ![t] = to]
                     /\ UNCHANGED <<main, next>>

Lock(t) == /\ Goto(t, "loop", "load")
           /\ i[t] < Turns
           /\ mutex = Free
           /\ mutex' = t
           /\ UNCHANGED threadVars

\* Mutated Load: the mutex is released between the load and the store.
LoadAndUnlock(t) == /\ Goto(t, "load", "store")
                    /\ reg' = [reg EXCEPT ![t] = shared]
                    /\ mutex' = Free
                    /\ UNCHANGED <<i, shared, output>>

Load(t) == /\ Goto(t, "load", "store")
           /\ reg' = [reg EXCEPT ![t] = shared]
           /\ UNCHANGED <<i, shared, output, mutex>>

Store(t) == /\ Goto(t, "store", "print")
            /\ shared' = reg[t] + 1
            /\ UNCHANGED <<i, reg, output, mutex>>

\* Mutated Report: the value printed is the one from before the increment.
ReportOldValue(t) == /\ Goto(t, "print", "unlock")
                     /\ output' = Append(output, <<t, reg[t]>>)
                     /\ UNCHANGED <<i, reg, shared, mutex>>

Report(t) == /\ Goto(t, "print", "unlock")
             /\ output' = Append(output, <<t, shared>>)
             /\ UNCHANGED <<i, reg, shared, mutex>>

Unlock(t) == /\ Goto(t, "unlock", "loop")
             /\ mutex' = Free
             /\ i' = [i EXCEPT ![t] = @ + 1]
             /\ UNCHANGED <<reg, shared, output>>

Exit(t) == /\ Goto(t, "loop", "exited")
           /\ i[t] = Turns
           /\ UNCHANGED <<threadVars, mutex>>

Thread(t) == Lock(t) \/ Load(t) \/ Store(t) \/ Report(t) \/ Unlock(t) \/ Exit(t)

\* The process has ended; nothing runs any more.
Ended == main \in {"done", "crashed"} /\ UNCHANGED vars

Main == Create \/ Join \/ DestroyMutex

Next == Main \/ (\E t \in Threads : Thread(t)) \/ Ended

Spec == Init /\ [][Next]_vars

-----------------------------------------------------------------------------
(* Properties *)

Critical == {"load", "store", "print", "unlock"}

\* Types of the variables.
TypeOK == /\ main \in {"create", "join", "destroy", "done", "crashed"}
          /\ next \in Threads
          /\ pc \in [Threads -> {"none", "loop", "exited"} \cup Critical]
          /\ i \in [Threads -> 0 .. Turns]
          /\ reg \in [Threads -> Nat]
          /\ mutex \in Threads \cup {Free, Destroyed}
          /\ shared \in Nat
          /\ output \in Seq(Threads \X Nat)

\* The k-th line the program prints carries the value k, whichever threads
\* print: no increment is lost or printed twice (thread_function's critical
\* section, load and store of shared_resource++ being separate steps).
OutputConsecutive == \A k \in DOMAIN output : output[k][2] = k

\* When main returns, every increment of every thread is in shared_resource.
FinalTotal == main = "done" => shared = NumThreads * Turns

\* destroy_mutex runs only after the last use of the mutex.
DestroyedUnused == mutex = Destroyed => \A t \in Threads : pc[t] = "exited"

\* The increments thread t has printed.
Printed(t) == i[t] + (IF pc[t] = "unlock" THEN 1 ELSE 0)

\* The threads, the mutex and the memory implement the serial counter.
Serial == INSTANCE SerialCounter
            WITH Workers <- Threads, log <- output,
                 turn <- [t \in Threads |-> Printed(t)]
SerialSpec == Serial!Spec

=============================================================================
