--------------------------- MODULE SemaphoreFiles ---------------------------
(***************************************************************************)
(* IPC_Synchronization/Semaphore_synchronize_thread: every thread, Turns   *)
(* times, picks one of two files, waits for that file's semaphore,         *)
(* increments common_variable, prints it and appends it to the file.  The  *)
(* variable is shared by both files; a semaphore protects only one.        *)
(***************************************************************************)
EXTENDS Integers, Sequences

CONSTANTS NumThreads,  \* NUM_THREADS
          Turns        \* the 10 of thread_function's loop

ASSUME SizesAssumption == NumThreads \in Nat \ {0} /\ Turns \in Nat

Threads == 1 .. NumThreads
Files == {1, 2}

VARIABLES main,    \* where main is, or how the process ended
          next,    \* main's loop index
          pc,      \* where each thread is
          i,       \* each thread's loop counter
          file,    \* each thread's rand: the file it has picked
          reg,     \* the register of each thread's common_variable++
          arg,     \* the value each thread has read to pass to write_to_file
          sem,     \* the values of sem1 and sem2, -1 when destroyed
          common,  \* common_variable
          out      \* the two output files

mainVars == <<main, next>>
fileVars == <<sem, common, out>>
vars == <<mainVars, pc, i, file, reg, arg, fileVars>>

Init == /\ main = "create" /\ next = 1
        /\ pc = [t \in Threads |-> "none"]
        /\ i = [t \in Threads |-> 0]
        /\ file = [t \in Threads |-> 1]
        /\ reg = [t \in Threads |-> 0]
        /\ arg = [t \in Threads |-> 0]
        /\ sem = [f \in Files |-> 1]
        /\ common = 0
        /\ out = [f \in Files |-> << >>]

-----------------------------------------------------------------------------
(* main *)

Running == main \notin {"done", "failed"}

\* pthread_create: when it fails, the whole process exits.
Create == /\ main = "create"
          /\ \/ /\ pc' = [pc EXCEPT ![next] = "loop"]
                /\ IF next = NumThreads THEN main' = "join" /\ next' = 1
                                        ELSE next' = next + 1 /\ UNCHANGED main
             \/ main' = "failed" /\ UNCHANGED <<next, pc>>
          /\ UNCHANGED <<i, file, reg, arg, fileVars>>

Join == /\ main = "join" /\ pc[next] = "exited"
        /\ IF next = NumThreads THEN main' = "free" /\ UNCHANGED next
                                ELSE next' = next + 1 /\ UNCHANGED main
        /\ UNCHANGED <<pc, i, file, reg, arg, fileVars>>

FreeSemaphore == /\ main = "free" /\ main' = "done"
                 /\ sem' = [f \in Files |-> -1]
                 /\ UNCHANGED <<next, pc, i, file, reg, arg, common, out>>

Main == Create \/ Join \/ FreeSemaphore

-----------------------------------------------------------------------------
(* thread_function *)

Goto(t, from, to) == Running /\ pc[t] = from /\ pc' = [pc EXCEPT ![t] = to]

PickFile(t) == /\ Goto(t, "loop", "wait") /\ i[t] < Turns
               /\ \E f \in Files : file' = [file EXCEPT ![t] = f]
               /\ UNCHANGED <<mainVars, i, reg, arg, fileVars>>

\* Mutated SemWait: one thread too many is let in.
SemWaitTwice(t) == /\ Goto(t, "wait", "load")
                   /\ sem[file[t]] >= 0
                   /\ sem' = [sem EXCEPT ![file[t]] = @ - 1]
                   /\ UNCHANGED <<mainVars, i, file, reg, arg, common, out>>

SemWait(t) == /\ Goto(t, "wait", "load")
              /\ sem[file[t]] > 0
              /\ sem' = [sem EXCEPT ![file[t]] = @ - 1]
              /\ UNCHANGED <<mainVars, i, file, reg, arg, common, out>>

Load(t) == /\ Goto(t, "load", "store")
           /\ reg' = [reg EXCEPT ![t] = common]
           /\ UNCHANGED <<mainVars, i, file, arg, fileVars>>

Store(t) == /\ Goto(t, "store", "print")
            /\ common' = reg[t] + 1
            /\ reg' = [reg EXCEPT ![t] = 0]
            /\ UNCHANGED <<mainVars, i, file, arg, sem, out>>

\* printf, and then the evaluation of write_to_file's argument.
ReadAgain(t) == /\ Goto(t, "print", "write")
                /\ arg' = [arg EXCEPT ![t] = common]
                /\ UNCHANGED <<mainVars, i, file, reg, fileVars>>

WriteToFile(t) == /\ Goto(t, "write", "post")
                  /\ out' = [out EXCEPT ![file[t]] = Append(@, arg[t])]
                  /\ arg' = [arg EXCEPT ![t] = 0]
                  /\ UNCHANGED <<mainVars, i, file, reg, sem, common>>

\* fprintf faults when fopen has failed.
WriteFaults(t) == /\ Running /\ pc[t] = "write"
                  /\ main' = "failed"
                  /\ UNCHANGED <<next, pc, i, file, reg, arg, fileVars>>

\* Mutated SemPost: sem1 is posted, whatever the file was.
SemPostFirst(t) == /\ Goto(t, "post", "loop")
                   /\ sem' = [sem EXCEPT ![1] = @ + 1]
                   /\ i' = [i EXCEPT ![t] = @ + 1]
                   /\ UNCHANGED <<mainVars, file, reg, arg, common, out>>

SemPost(t) == /\ Goto(t, "post", "loop")
              /\ sem' = [sem EXCEPT ![file[t]] = @ + 1]
              /\ i' = [i EXCEPT ![t] = @ + 1]
              /\ UNCHANGED <<mainVars, file, reg, arg, common, out>>

Exit(t) == /\ Goto(t, "loop", "exited") /\ i[t] = Turns
           /\ UNCHANGED <<mainVars, i, file, reg, arg, fileVars>>

Thread(t) == \/ PickFile(t) \/ SemWait(t) \/ Load(t) \/ Store(t) \/ ReadAgain(t)
             \/ WriteToFile(t) \/ WriteFaults(t) \/ SemPost(t) \/ Exit(t)

Ended == ~ Running /\ UNCHANGED vars

Next == Main \/ (\E t \in Threads : Thread(t)) \/ Ended

Spec == Init /\ [][Next]_vars
FairSpec == Spec /\ WF_vars(Main) /\ \A t \in Threads : WF_vars(Thread(t))

-----------------------------------------------------------------------------
(* Properties *)

Section == {"load", "store", "print", "write", "post"}
InSection(f) == {t \in Threads : pc[t] \in Section /\ file[t] = f}

TypeOK == /\ main \in {"create", "join", "free", "done", "failed"}
          /\ next \in Threads
          /\ pc \in [Threads -> Section \cup {"none", "loop", "wait", "exited"}]
          /\ i \in [Threads -> 0 .. Turns]
          /\ file \in [Threads -> Files]
          /\ reg \in [Threads -> Nat] /\ arg \in [Threads -> Nat]
          /\ sem \in [Files -> {-1, 0, 1}]
          /\ common \in Nat
          /\ out \in [Files -> Seq(Nat)]

\* One thread at a time appends to a file.
FileExclusive == \A f \in Files : \A t, u \in InSection(f) : t = u

\* While only one of the two files is used, its lines are numbered 1, 2, ...:
\* the increments that are lost are lost between the files.
OneFileConsecutive == \A f \in Files :
  out[3 - f] = << >> /\ InSection(3 - f) = {} =>
    \A k \in DOMAIN out[f] : out[f][k] = k

\* The process ends: main returns, exits, or a thread faults.
Termination == <>(~ Running)
=============================================================================
