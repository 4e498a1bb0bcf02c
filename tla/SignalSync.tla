----------------------------- MODULE SignalSync -----------------------------
(***************************************************************************)
(* IPC_Synchronization/Signal_synchronize_processes: process A forks B;    *)
(* in turns each reads the last line number of output.txt, appends the     *)
(* next line, sends SIGUSR1 to the other and pauses until it is signalled. *)
(* The program can be stopped and run again over the same file.            *)
(*                                                                         *)
(* A signal takes effect at once: it ends a process that has not called    *)
(* signal() yet, resumes one that is inside pause(), and is otherwise      *)
(* consumed by the empty handler.  The file is the number in its last line *)
(* and the author of that line.                                            *)
(***************************************************************************)
EXTENDS Integers

CONSTANTS MaxRuns,   \* executions of the program, one after the other
          Wrap       \* line numbers are taken modulo Wrap

ASSUME RunsAssumption == MaxRuns \in Nat \ {0} /\ Wrap \in Nat \ {0}

Runs == 1 .. MaxRuns
Roles == {"A", "B"}
Other(p) == IF p = "A" THEN "B" ELSE "A"

VARIABLES pc,      \* run -> process -> where it is
          num,     \* run -> process -> num_a, num_b
          last,    \* number in the last line of output.txt
          writer,  \* <<run, process>> that wrote that line
          orphan,  \* run -> lines B has written since A was killed alone
          faults   \* what may go wrong in this behaviour

vars == <<pc, num, last, writer, orphan, faults>>
fileVars == <<last, writer>>

Turn == {"sleep", "read", "write", "kill"}
Places == Turn \cup {"none", "create", "fork", "register", "enter", "pause", "dead"}

LoneKill == "kill" \in faults  \* A may be killed alone, not only with its group
IoFails == "io" \in faults     \* opening output.txt may fail
Prompt == "late" \notin faults \* a sleep(1) is long enough for the other process
                               \* to reach its pause()

Init == /\ faults \in SUBSET {"kill", "io", "late"}
        /\ pc = [r \in Runs |-> [p \in Roles |-> "none"]]
        /\ num = [r \in Runs |-> [p \in Roles |-> 0]]
        /\ last = 0 /\ writer = <<0, "B">>
        /\ orphan = [r \in Runs |-> 0]

Goto(r, p, from, to) == /\ pc[r][p] = from
                        /\ pc' = [pc EXCEPT ![r][p] = to]

\* The user starts the program when the run before has lost its A.
Start(r) == /\ \A q \in Runs : q < r => pc[q]["A"] = "dead"
            /\ Goto(r, "A", "none", "create")
            /\ UNCHANGED <<num, fileVars, orphan>>

-----------------------------------------------------------------------------
(* process_a up to its loop, process_b up to its loop *)

CreateFile(r) == /\ \/ Goto(r, "A", "create", "fork")
                    \/ IoFails /\ Goto(r, "A", "create", "dead")
                 /\ UNCHANGED <<num, fileVars, orphan>>

Fork(r) == /\ pc[r]["A"] = "fork"
           /\ \/ pc' = [pc EXCEPT ![r] = [p \in Roles |-> "register"]]
              \/ pc' = [pc EXCEPT ![r]["A"] = "dead"]
           /\ UNCHANGED <<num, fileVars, orphan>>

\* Mutated Register: both processes begin with a turn.
RegisterTurn(r, p) == /\ Goto(r, p, "register", "sleep")
                      /\ UNCHANGED <<num, fileVars, orphan>>

\* signal(SIGUSR1, signal_handler); A begins with a turn, B with a pause.
Register(r, p) == /\ Goto(r, p, "register", IF p = "A" THEN "sleep" ELSE "enter")
                  /\ UNCHANGED <<num, fileVars, orphan>>

-----------------------------------------------------------------------------
(* The loops *)

\* Where a process is after a SIGUSR1 that reaches it at place w.
AfterSignal(w) == CASE w = "register" -> "dead"
                    [] w = "pause" -> "sleep"
                    [] OTHER -> w

\* The other process has nothing to do but to wait.
Waiting(w) == w \in {"none", "pause", "dead"}

Sleep(r, p) == /\ Prompt => Waiting(pc[r][Other(p)])
               /\ Goto(r, p, "sleep", "read")
               /\ UNCHANGED <<num, fileVars, orphan>>

\* get_last_line_number, which returns -1 when it cannot open the file.
Read(r, p) == /\ Goto(r, p, "read", "write")
              /\ \E n \in {last} \cup (IF IoFails THEN {-1} ELSE {}) :
                   num' = [num EXCEPT ![r][p] = (n + 1) % Wrap]
              /\ UNCHANGED <<fileVars, orphan>>

\* write_to_file_process, which exits when it cannot open the file.
Write(r, p) ==
  \/ /\ Goto(r, p, "write", "kill")
     /\ last' = num[r][p]
     /\ writer' = <<r, p>>
     /\ orphan' = IF p = "B" /\ pc[r]["A"] = "dead" THEN [orphan EXCEPT ![r] = @ + 1]
                                                    ELSE orphan
     /\ UNCHANGED num
  \/ /\ IoFails
     /\ Goto(r, p, "write", "dead")
     /\ UNCHANGED <<num, fileVars, orphan>>

\* Mutated Kill: the loop goes on without pause().
KillNoPause(r, p) ==
  /\ pc[r][p] = "kill"
  /\ pc' = [pc EXCEPT ![r] = [q \in Roles |-> IF q = p THEN "sleep" ELSE AfterSignal(@[q])]]
  /\ UNCHANGED <<num, fileVars, orphan>>

\* Mutated Kill: B does not signal its parent.
KillChildOnly(r, p) ==
  /\ pc[r][p] = "kill"
  /\ pc' = [pc EXCEPT ![r] = [q \in Roles |-> IF q = p THEN "enter"
                                              ELSE IF p = "A" THEN AfterSignal(@[q]) ELSE @[q]]]
  /\ UNCHANGED <<num, fileVars, orphan>>

\* kill(pid_B, SIGUSR1), kill(getppid(), SIGUSR1): an orphan's parent is
\* another process, which ignores it.
Kill(r, p) ==
  /\ pc[r][p] = "kill"
  /\ pc' = [pc EXCEPT ![r] = [q \in Roles |-> IF q = p THEN "enter" ELSE AfterSignal(@[q])]]
  /\ UNCHANGED <<num, fileVars, orphan>>

\* The process is inside pause(): from here on a signal resumes it.
EnterPause(r, p) == /\ Goto(r, p, "enter", "pause")
                    /\ UNCHANGED <<num, fileVars, orphan>>

Process(r, p) == \/ Register(r, p) \/ Sleep(r, p) \/ Read(r, p) \/ Write(r, p)
                 \/ Kill(r, p) \/ EnterPause(r, p)

-----------------------------------------------------------------------------
(* The user stops a run, with Ctrl-C or by killing A *)

Stop(r) == /\ pc[r]["A"] \notin {"none", "dead"}
           /\ pc' = [pc EXCEPT ![r] = [p \in Roles |-> "dead"]]
           /\ UNCHANGED <<num, fileVars, orphan>>

KillA(r) == /\ LoneKill
            /\ pc[r]["A"] \notin {"none", "dead"}
            /\ pc' = [pc EXCEPT ![r]["A"] = "dead"]
            /\ UNCHANGED <<num, fileVars, orphan>>

\* Every run has ended; orphans may be paused for ever.
Over == /\ \A r \in Runs : pc[r]["A"] = "dead" /\ pc[r]["B"] \in {"none", "dead", "pause"}
        /\ UNCHANGED vars

Next == /\ \/ \E r \in Runs : Start(r) \/ CreateFile(r) \/ Fork(r) \/ Stop(r) \/ KillA(r)
           \/ \E r \in Runs, p \in Roles : Process(r, p)
           \/ Over
        /\ UNCHANGED faults

Spec == Init /\ [][Next]_vars

\* Every process that can run does run; users need not stop or start.
Fairness ==
  /\ \A r \in Runs : WF_vars((CreateFile(r) \/ Fork(r)) /\ UNCHANGED faults)
  /\ \A r \in Runs, p \in Roles : WF_vars(Process(r, p) /\ UNCHANGED faults)
FairSpec == Spec /\ Fairness

-----------------------------------------------------------------------------
(* Properties *)

TypeOK == /\ faults \subseteq {"kill", "io", "late"}
          /\ pc \in [Runs -> [Roles -> Places]]
          /\ num \in [Runs -> [Roles -> 0 .. Wrap - 1]]
          /\ last \in 0 .. Wrap - 1
          /\ writer \in (Runs \cup {0}) \X Roles
          /\ orphan \in [Runs -> Nat]

\* A and B of one run are never both in their critical sections, whatever
\* signals are lost, processes killed or files not opened.
TurnExclusive == \A r \in Runs : ~ (pc[r]["A"] \in Turn /\ pc[r]["B"] \in Turn)

\* If every file can be opened and A is not killed alone, output.txt is
\* numbered consecutively, by turns, across the runs: no number read from the
\* file is stale when it is written back, even when signals come too early.
Tame == ~ LoneKill /\ ~ IoFails
NumberingSpec == INSTANCE Numbering
                   WITH last <- IF Tame THEN last ELSE 0,
                        writer <- IF Tame THEN writer ELSE <<0, "B">>
Numbered == NumberingSpec!Spec

\* If nothing goes wrong and a run is not stopped, its processes go on writing
\* in turns: A begins, and each line of one is followed by a line of the other.
Progress == \A r \in Runs, p \in Roles :
  faults = {} /\ (pc[r]["A"] \in Turn \/ writer = <<r, Other(p)>>)
    ~> (writer = <<r, p>> \/ pc[r]["A"] = "dead")

\* A B whose A was killed alone finishes its turn, and then waits for ever:
\* it appends at most one line while a new run may be using the file.
OrphanBound == \A r \in Runs : orphan[r] <= 1

\* "Signal to resume pause() function" (signal_handler): the signal with
\* which A ends its turn makes B take one, also when B is not there in time.
SignalResumes == faults = {"late"} /\ pc[1]["A"] = "kill" ~> (pc[1]["B"] \in Turn \/ pc[1]["A"] = "dead")
=============================================================================
