-------------------------- MODULE SpeedTestEngine --------------------------
(***************************************************************************)
(* The measuring engine of Mini_project: run() measures a download and     *)
(* then an upload.  In each phase a statistics thread prints the speed     *)
(* every half second, and the main thread keeps ThreadNum slots of the     *)
(* array thread[] filled with worker threads until 20 s of CPU time are    *)
(* used; it then sets thread_all_stop, sleeps two seconds and clears the   *)
(* flag for the upload.  Nothing is ever joined.                           *)
(*                                                                         *)
(* A chunk is what one recv or send transfers.  Time passes in ticks of    *)
(* half a second for the two sleeps whose lengths the code relies on; a    *)
(* thread whose sleep is over runs before the next tick.                   *)
(***************************************************************************)
EXTENDS Integers

CONSTANTS ThreadNum,    \* slots in use, the -t option
          ThreadLimit,  \* threads the system lets the process create, none
                        \* of which is joined or detached
          Chunks,       \* chunks of a downloaded file, buffers of an upload
          PollTicks,    \* ticks in usleep(500000)
          SettleTicks   \* ticks in sleep(2)

ASSUME CountsAssumption == /\ ThreadNum \in Nat /\ ThreadLimit \in Nat
                           /\ Chunks \in Nat \ {0}
ASSUME TicksAssumption == /\ PollTicks \in Nat /\ SettleTicks \in Nat
                          /\ PollTicks < SettleTicks

Slots == 1 .. ThreadNum
Workers == 1 .. ThreadLimit
Phases == {"download", "upload"}
NoWorker == 0

VARIABLES main,       \* where the main thread is
          phase,      \* the measurement it is running
          slot,       \* its loop index i
          mainWait,   \* ticks left of its sleep(2)
          stop,       \* thread_all_stop
          running,    \* thread[i].running
          request,    \* what thread[i].request_url asks for
          spawned,    \* workers created so far
          kind,       \* worker -> download_thread or upload_thread
          home,       \* worker -> its slot
          pc,         \* worker -> where it is
          left,       \* worker -> chunks to come or to send; -1 after the end
          sent,       \* worker -> what its request asked for
          reg,        \* worker -> the register of its total += size
          late,       \* worker -> chunks it counted while the flag was set
          mutex,      \* the holder of pthread_mutex
          total,      \* total_dl_size and total_ul_size
          counted,    \* chunks the workers have added (history)
          stats,      \* statistics threads
          statsWait   \* ticks left of their usleep

mainVars == <<main, phase, slot, mainWait>>
slotVars == <<running, request, spawned, kind, home>>
workVars == <<pc, left, sent, reg, late, mutex, total, counted>>
timeVars == <<stats, statsWait>>
vars == <<mainVars, stop, slotVars, workVars, timeVars>>

Init == /\ main = "start" /\ phase = "download" /\ slot = 1 /\ mainWait = 0
        /\ stop = 0
        /\ running = [s \in Slots |-> 0]
        /\ request = [s \in Slots |-> "none"]
        /\ spawned = 0
        /\ kind = [t \in Workers |-> "download"]
        /\ home = [t \in Workers |-> 0]
        /\ pc = [t \in Workers |-> "none"]
        /\ left = [t \in Workers |-> Chunks]
        /\ sent = [t \in Workers |-> "none"]
        /\ reg = [t \in Workers |-> 0]
        /\ late = [t \in Workers |-> 0]
        /\ mutex = NoWorker
        /\ total = [p \in Phases |-> 0]
        /\ counted = [p \in Phases |-> 0]
        /\ stats = [p \in Phases |-> "none"]
        /\ statsWait = [p \in Phases |-> 0]

Live(t) == pc[t] \notin {"none", "done"}

-----------------------------------------------------------------------------
(* The main thread: run, speedtest_download and speedtest_upload *)

StartStats == /\ main = "start"
              /\ main' = "clock"
              /\ stats' = [stats EXCEPT ![phase] = "print"]
              /\ UNCHANGED <<phase, slot, mainWait, stop, slotVars, workVars, statsWait>>

\* The CPU time used is compared with SPEEDTEST_DURATION.
ReadClock(elapsed) == /\ main = "clock"
                      /\ main' = "fill"
                      /\ slot' = 1
                      /\ stop' = IF elapsed THEN 1 ELSE stop
                      /\ UNCHANGED <<phase, mainWait, slotVars, workVars, timeVars>>

\* The memcpy's into thread[slot] begin.  They are not synchronised with a
\* worker that reads the slot: until FillSlot it sees a mixture, unless the
\* bytes written are those already there.
WriteRequest == /\ main = "fill" /\ slot <= ThreadNum
                /\ main' = "write"
                /\ request' = [request EXCEPT ![slot] = IF @ = phase THEN @ ELSE "mixed"]
                /\ UNCHANGED <<phase, slot, mainWait, stop, running, spawned, kind,
                               home, workVars, timeVars>>

\* pthread_create on a slot marked running; its result is ignored.
Spawn(s) ==
  IF spawned < ThreadLimit
  THEN LET t == spawned + 1
       IN  /\ spawned' = t
           /\ kind' = [kind EXCEPT ![t] = phase]
           /\ home' = [home EXCEPT ![t] = s]
           /\ pc' = [pc EXCEPT ![t] = "connect"]
  ELSE UNCHANGED <<spawned, kind, home, pc>>

\* Mutated FillSlot: the worker is created before the slot is written.
FillSlotLate ==
  /\ main = "write" /\ main' = "fill" /\ slot' = slot + 1
  /\ running' = [running EXCEPT ![slot] = 1]
  /\ IF running[slot] = 0
     THEN Spawn(slot) /\ UNCHANGED request
     ELSE /\ request' = [request EXCEPT ![slot] = phase]
          /\ UNCHANGED <<spawned, kind, home, pc>>
  /\ UNCHANGED <<phase, mainWait, stop, left, sent, reg, late, mutex, total, counted,
                 timeVars>>

FillSlot == /\ main = "write"
            /\ main' = "fill"
            /\ slot' = slot + 1
            /\ request' = [request EXCEPT ![slot] = phase]
            /\ IF running[slot] = 0
               THEN /\ running' = [running EXCEPT ![slot] = 1]
                    /\ Spawn(slot)
               ELSE UNCHANGED <<running, spawned, kind, home, pc>>
            /\ UNCHANGED <<phase, mainWait, stop, left, sent, reg, late, mutex, total,
                           counted, timeVars>>

\* Mutated EndOfRound: the flag is cleared without sleep(2).
EndOfRoundNoSleep ==
  /\ main = "fill" /\ slot > ThreadNum
  /\ main' = IF stop = 0 THEN "clock" ELSE IF phase = "download" THEN "settle" ELSE "exit"
  /\ UNCHANGED <<phase, slot, mainWait, stop, slotVars, workVars, timeVars>>

EndOfRound ==
  /\ main = "fill" /\ slot > ThreadNum
  /\ IF stop = 0
     THEN main' = "clock" /\ UNCHANGED mainWait
     ELSE IF phase = "download"
          THEN main' = "settle" /\ mainWait' = SettleTicks
          ELSE main' = "exit" /\ UNCHANGED mainWait
  /\ UNCHANGED <<phase, slot, stop, slotVars, workVars, timeVars>>

\* Mutated StopAllThread: the upload begins with all slots marked free.
StopAllThreadFreeing ==
  /\ main = "settle" /\ mainWait = 0 /\ main' = "start" /\ phase' = "upload"
  /\ stop' = 0
  /\ late' = [t \in Workers |-> 0]
  /\ running' = [s \in Slots |-> 0]
  /\ UNCHANGED <<slot, mainWait, request, spawned, kind, home, pc, left, sent, reg,
                 mutex, total, counted, timeVars>>

\* sleep(2) is over: stop_all_thread clears the flag, and the upload begins.
StopAllThread == /\ main = "settle" /\ mainWait = 0
                 /\ main' = "start" /\ phase' = "upload"
                 /\ stop' = 0
                 /\ late' = [t \in Workers |-> 0]
                 /\ UNCHANGED <<slot, mainWait, slotVars, pc, left, sent, reg, mutex,
                                total, counted, timeVars>>

Main == \/ StartStats \/ WriteRequest \/ FillSlot \/ EndOfRound \/ StopAllThread
        \/ \E elapsed \in BOOLEAN : ReadClock(elapsed)

-----------------------------------------------------------------------------
(* The workers: download_thread and upload_thread *)

\* Worker t moves from one place to another; the process is still there.
Goto(t, from, to) == /\ main # "exit"
                     /\ pc[t] = from
                     /\ pc' = [pc EXCEPT ![t] = to]
                     /\ UNCHANGED <<mainVars, stop, timeVars, request, spawned, kind, home>>

\* Mutated Connect: a failed connect returns without giving the slot back.
ConnectNoErr(t) == /\ \E to \in {"request", "done"} : Goto(t, "connect", to)
                   /\ UNCHANGED <<running, left, sent, reg, late, mutex, total, counted>>

\* socket and connect, either of which may fail.
Connect(t) == /\ \E to \in {"request", "close"} : Goto(t, "connect", to)
              /\ UNCHANGED <<running, left, sent, reg, late, mutex, total, counted>>

\* The request is formatted from the slot and sent, or send fails.
SendRequest(t) ==
  /\ \/ Goto(t, "request", "close") /\ UNCHANGED sent
     \/ /\ Goto(t, "request", IF kind[t] = "download" THEN "select" ELSE "lock")
        /\ sent' = [sent EXCEPT ![t] = request[home[t]]]
  /\ UNCHANGED <<running, left, reg, late, mutex, total, counted>>

\* select finds the socket readable: recv returns data, the end or an error.
Receive(t) ==
  /\ \/ /\ left[t] > 0 /\ Goto(t, "select", "lock")
        /\ left' = [left EXCEPT ![t] = @ - 1]
     \/ Goto(t, "select", "close") /\ UNCHANGED left
  /\ UNCHANGED <<running, sent, reg, late, mutex, total, counted>>

\* select times out after 3 s; recv then waits for what comes, and what it
\* returns is not looked at: neither the size nor the stop flag.
ReceiveLate(t) ==
  /\ left[t] >= 0 /\ Goto(t, "select", "select")
  /\ left' \in {[left EXCEPT ![t] = @ - 1], [left EXCEPT ![t] = -1]}
  /\ UNCHANGED <<running, sent, reg, late, mutex, total, counted>>

\* Mutated LockTotal: no mutex around the addition.
LockTotalUnguarded(t) == /\ Goto(t, "lock", "add")
                         /\ mutex' = t
                         /\ reg' = [reg EXCEPT ![t] = total[kind[t]]]
                         /\ UNCHANGED <<running, left, sent, late, total, counted>>

\* pthread_mutex_lock and the load of total += size.
LockTotal(t) == /\ mutex = NoWorker /\ Goto(t, "lock", "add")
                /\ mutex' = t
                /\ reg' = [reg EXCEPT ![t] = total[kind[t]]]
                /\ UNCHANGED <<running, left, sent, late, total, counted>>

\* The store of total += size and pthread_mutex_unlock.  The header of an
\* upload is counted too, and is not followed by a look at the flag.
AddToTotal(t) ==
  /\ Goto(t, "add", IF kind[t] = "upload" /\ left[t] = Chunks THEN "send" ELSE "check")
  /\ mutex' = NoWorker
  /\ total' = [total EXCEPT ![kind[t]] = reg[t] + 1]
  /\ counted' = [counted EXCEPT ![kind[t]] = @ + 1]
  /\ late' = [late EXCEPT ![t] = @ + stop]
  /\ reg' = [reg EXCEPT ![t] = 0]
  /\ UNCHANGED <<running, left, sent>>

\* Mutated CheckStop: a worker ends only with its file or its buffers.
CheckStopIgnored(t) ==
  /\ Goto(t, "check", IF kind[t] = "download" THEN "select"
                      ELSE IF left[t] > 0 THEN "send" ELSE "reply")
  /\ UNCHANGED <<running, left, sent, reg, late, mutex, total, counted>>

\* if (thread_all_stop); an upload also ends its loop over the buffers.
CheckStop(t) ==
  /\ Goto(t, "check", IF stop = 1 THEN "close"
                      ELSE IF kind[t] = "download" THEN "select"
                      ELSE IF left[t] > 0 THEN "send" ELSE "reply")
  /\ UNCHANGED <<running, left, sent, reg, late, mutex, total, counted>>

\* One send of UL_BUFFER_SIZE bytes, or its failure.
SendBuffer(t) ==
  /\ \/ /\ Goto(t, "send", "lock")
        /\ left' = [left EXCEPT ![t] = @ - 1]
     \/ Goto(t, "send", "close") /\ UNCHANGED left
  /\ UNCHANGED <<running, sent, reg, late, mutex, total, counted>>

\* The upload's reply has been read to its end or to an error.
ReadReply(t) == /\ Goto(t, "reply", "close")
                /\ UNCHANGED <<running, left, sent, reg, late, mutex, total, counted>>

\* err: close the socket and give the slot back.  The thread's own variables
\* are gone.
Close(t) == /\ Goto(t, "close", "done")
            /\ running' = [running EXCEPT ![home[t]] = 0]
            /\ left' = [left EXCEPT ![t] = Chunks]
            /\ sent' = [sent EXCEPT ![t] = "none"]
            /\ late' = [late EXCEPT ![t] = 0]
            /\ UNCHANGED <<reg, mutex, total, counted>>

Worker(t) == \/ Connect(t) \/ SendRequest(t) \/ Receive(t) \/ ReceiveLate(t)
             \/ LockTotal(t) \/ AddToTotal(t) \/ CheckStop(t) \/ SendBuffer(t)
             \/ ReadReply(t) \/ Close(t)

-----------------------------------------------------------------------------
(* The statistics threads: calculate_dl_speed_thread, calculate_ul_speed_thread *)

PrintSpeed(p) == /\ main # "exit" /\ stats[p] = "print"
                 /\ stats' = [stats EXCEPT ![p] = "sleep"]
                 /\ statsWait' = [statsWait EXCEPT ![p] = PollTicks]
                 /\ UNCHANGED <<mainVars, stop, slotVars, workVars>>

PollStop(p) == /\ main # "exit" /\ stats[p] = "sleep" /\ statsWait[p] = 0
               /\ stats' = [stats EXCEPT ![p] = IF stop = 1 THEN "done" ELSE "print"]
               /\ UNCHANGED <<mainVars, stop, slotVars, workVars, statsWait>>

Stats(p) == PrintSpeed(p) \/ PollStop(p)

Decremented(n) == IF n > 0 THEN n - 1 ELSE 0

\* Half a second passes: not before the threads that are due have run.
Tick == /\ main # "exit"
        /\ \A p \in Phases : /\ stats[p] # "print"
                             /\ stats[p] = "sleep" => statsWait[p] > 0
        /\ main = "settle" => mainWait > 0
        /\ \/ main = "settle"
           \/ \E p \in Phases : stats[p] = "sleep"
        /\ mainWait' = Decremented(mainWait)
        /\ statsWait' = [p \in Phases |-> Decremented(statsWait[p])]
        /\ UNCHANGED <<main, phase, slot, stop, slotVars, workVars, stats>>

\* main has returned from run: the process is gone, with all its threads.
Exited == main = "exit" /\ UNCHANGED vars

Next == \/ Main \/ Tick \/ Exited
        \/ \E t \in Workers : Worker(t)
        \/ \E p \in Phases : Stats(p)

Spec == Init /\ [][Next]_vars

-----------------------------------------------------------------------------
(* Properties *)

TypeOK ==
  /\ main \in {"start", "clock", "fill", "write", "settle", "exit"}
  /\ phase \in Phases
  /\ slot \in 1 .. ThreadNum + 1
  /\ mainWait \in 0 .. SettleTicks
  /\ stop \in {0, 1}
  /\ running \in [Slots -> {0, 1}]
  /\ request \in [Slots -> Phases \cup {"none", "mixed"}]
  /\ spawned \in 0 .. ThreadLimit
  /\ kind \in [Workers -> Phases]
  /\ home \in [Workers -> Slots \cup {0}]
  /\ pc \in [Workers -> {"none", "connect", "request", "select", "lock", "add",
                         "check", "send", "reply", "close", "done"}]
  /\ left \in [Workers -> -1 .. Chunks]
  /\ sent \in [Workers -> Phases \cup {"none", "mixed"}]
  /\ reg \in [Workers -> Nat]
  /\ late \in [Workers -> Nat]
  /\ mutex \in Workers \cup {NoWorker}
  /\ total \in [Phases -> Nat]
  /\ counted \in [Phases -> Nat]
  /\ stats \in [Phases -> {"none", "print", "sleep", "done"}]
  /\ statsWait \in [Phases -> 0 .. PollTicks]

\* thread[i] belongs to one worker at a time, also across the change of
\* phase: two threads never use the same servinfo, request_url and running.
SlotExclusive == \A t, u \in Workers :
  Live(t) /\ Live(u) /\ home[t] = home[u] => t = u

\* A slot marked running has its worker, until the system refuses to create
\* another thread (pthread_create's result is ignored, and no thread is
\* joined): the slots are not lost before.
SlotOwned == \A s \in Slots :
  running[s] = 1 /\ spawned < ThreadLimit => \E t \in Workers : Live(t) /\ home[t] = s

\* No worker's addition to total_dl_size or total_ul_size is lost.
TotalsExact == total = counted

\* A worker asks the server for what its own phase is about.  The one
\* exception is a download worker that has outlived the download: main may
\* be rewriting its slot for the upload.
RequestOfPhase == \A t \in Workers :
  sent[t] \in {"none", kind[t]} \/ (kind[t] = "download" /\ phase = "upload")

Stage == IF main = "exit" THEN "over" ELSE phase
Job == [t \in Workers |-> IF Live(t) THEN [lane |-> home[t], kind |-> kind[t]]
                                     ELSE [lane |-> 0, kind |-> "none"]]

Meter == INSTANCE Measurement WITH
           Lanes <- Slots, Agents <- Workers, stage <- Stage, job <- Job, volume <- total

\* The threads, the flag, the slots and the totals are a measurement on ThreadNum
\* lanes: a slot has one worker at a time, also across the change of phase, and a
\* total changes only by one chunk of a worker of its own measurement at a time.
MeterSpec == Meter!Spec

\* The download's statistics thread has seen the flag and ended before the
\* upload's starts, although the flag is cleared without a join.
StatsSerial == stats["upload"] # "none" => stats["download"] = "done"

\* After the flag is set a worker counts no more than what it was about to
\* receive, or the header and the first buffer of an upload.
OvershootBounded == \A t \in Workers :
  stop = 1 => late[t] <= IF kind[t] = "download" THEN 1 ELSE 2
=============================================================================
