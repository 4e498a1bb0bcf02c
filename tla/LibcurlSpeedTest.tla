-------------------------- MODULE LibcurlSpeedTest --------------------------
(***************************************************************************)
(* run_speed_test of Mini_project_libcurl with test_upload_speed,          *)
(* test_download_speed and their threads (speed_test.c).  The array of     *)
(* servers is sorted (LibcurlServers); a server is its index, from 0.      *)
(* A speed is scaled by test_time: what is stored is the sum.              *)
(***************************************************************************)
EXTENDS Integers

CONSTANTS MaxServers, MaxThreads,  \* bounds: server_num and num_thread
          MaxRounds,               \* bound: transfers in the time of one test
          Speeds                   \* what CURLINFO_SPEED can say

\* What the constants must satisfy.
Sizes == /\ MaxServers \in Nat /\ MaxThreads \in Nat
         /\ MaxRounds \in Nat \ {0} /\ Speeds \subseteq Nat

NaN == -1   \* 0.0 / 0
None == -1

Threads == 1 .. MaxThreads

VARIABLES pc,           \* "pick", "create", "join", "return" or "done"
          auto,         \* auto_pick_server
          server_num, num_thread,
          timed,        \* test_time > 0
          index,        \* count, or choose under -m
          phase,        \* "up" or "down": which of the two tests runs
          upFrom, downFrom, \* the servers of the last tests, None if not run
          next,         \* the loop variable of the two loops over the threads
          total,        \* total_upload_speed or total_download_speed
          thread,       \* "none", "perform", "lock", "store", "unlock", "done"
          rounds, speed, \* of each thread: the transfers made, the local sum
          avg_speed,    \* of each element of thread_data
          mutex,        \* the thread that holds it
          failed,       \* the servers given up (history)
          measured      \* of each thread: the sum of all its speeds (history)

options == <<auto, server_num, num_thread, timed>>
mainVars == <<pc, index, phase, upFrom, downFrom, next, total, failed>>
threadVars == <<thread, rounds, speed, avg_speed, mutex, measured>>
vars == <<options, mainVars, threadVars>>

Zeros == [t \in Threads |-> 0]

Init == /\ pc = "pick" /\ auto \in BOOLEAN /\ timed \in BOOLEAN
        /\ server_num \in -1 .. MaxServers /\ num_thread \in 0 .. MaxThreads
        /\ index = 0 /\ phase = "up" /\ upFrom = None /\ downFrom = None
        /\ next = 1 /\ total = 0 /\ failed = {}
        /\ thread = [t \in Threads |-> "none"]
        /\ rounds = Zeros /\ speed = Zeros /\ avg_speed = Zeros
        /\ mutex = None /\ measured = Zeros

-----------------------------------------------------------------------------
(* The threads of one test *)

\* Mutated Added: an upload keeps the last speed only.
AddedLast(old, s) == s

\* download_speed is overwritten by curl_easy_getinfo, upload_speed added to.
Added(old, s) == IF phase = "up" THEN old + s ELSE s

\* One curl_easy_perform, which returns within CURLOPT_TIMEOUT; the loop goes
\* on while less than test_time seconds have passed.  (The download's first
\* transfer, before the clock is read, counts for nothing.)
Perform(t) ==
  /\ thread[t] = "perform" /\ rounds[t] < MaxRounds
  /\ \/ UNCHANGED <<speed, measured>>  \* res # CURLE_OK
     \/ \E s \in Speeds : /\ speed' = [speed EXCEPT ![t] = Added(@, s)]
                          /\ measured' = [measured EXCEPT ![t] = @ + s]
  /\ rounds' = [rounds EXCEPT ![t] = @ + 1]
  /\ \/ timed /\ rounds'[t] < MaxRounds /\ UNCHANGED thread
     \/ thread' = [thread EXCEPT ![t] = "lock"]
  /\ UNCHANGED <<options, mainVars, avg_speed, mutex>>

\* curl_easy_init may fail: nothing is transferred.
InitFails(t) == /\ thread[t] = "perform" /\ rounds[t] = 0
                /\ thread' = [thread EXCEPT ![t] = "lock"]
                /\ UNCHANGED <<options, mainVars, rounds, speed, avg_speed, mutex, measured>>

Lock(t) == /\ thread[t] = "lock" /\ mutex = None
           /\ mutex' = t /\ thread' = [thread EXCEPT ![t] = "store"]
           /\ UNCHANGED <<options, mainVars, rounds, speed, avg_speed, measured>>

Quotient(s) == IF ~ timed /\ s = 0 THEN NaN ELSE s

Store(t) ==
  /\ thread[t] = "store" /\ thread' = [thread EXCEPT ![t] = "unlock"]
  /\ avg_speed' = [avg_speed EXCEPT ![t] = Quotient(speed[t])]
  /\ UNCHANGED <<options, mainVars, rounds, speed, mutex, measured>>

Unlock(t) == /\ thread[t] = "unlock" /\ thread' = [thread EXCEPT ![t] = "done"]
             /\ mutex' = None
             /\ UNCHANGED <<options, mainVars, rounds, speed, avg_speed, measured>>

Thread(t) == Perform(t) \/ InitFails(t) \/ Lock(t) \/ Store(t) \/ Unlock(t)

-----------------------------------------------------------------------------
(* test_upload_speed and test_download_speed *)

Create ==
  /\ pc = "create" /\ next <= num_thread
  /\ thread' = [thread EXCEPT ![next] = "perform"]
  /\ rounds' = [rounds EXCEPT ![next] = 0] /\ speed' = [speed EXCEPT ![next] = 0]
  /\ avg_speed' = [avg_speed EXCEPT ![next] = 0]
  /\ measured' = [measured EXCEPT ![next] = 0]
  /\ next' = next + 1
  /\ UNCHANGED <<options, pc, index, phase, upFrom, downFrom, total, failed, mutex>>

AllCreated == /\ pc = "create" /\ next > num_thread
              /\ pc' = "join" /\ next' = 1 /\ total' = 0
              /\ UNCHANGED <<options, index, phase, upFrom, downFrom, failed, threadVars>>

Plus(a, b) == IF NaN \in {a, b} THEN NaN ELSE a + b

\* Mutated Join: the result is read before the thread is joined.
JoinNotWaiting ==
  /\ pc = "join" /\ next <= num_thread
  /\ total' = Plus(total, avg_speed[next]) /\ next' = next + 1
  /\ UNCHANGED <<options, pc, index, phase, upFrom, downFrom, failed, threadVars>>

Join ==
  /\ pc = "join" /\ next <= num_thread /\ thread[next] = "done"
  /\ total' = Plus(total, avg_speed[next]) /\ next' = next + 1
  /\ UNCHANGED <<options, pc, index, phase, upFrom, downFrom, failed, threadVars>>

\* total / num_thread: its sign is that of total, but for no threads.
AllJoined ==
  /\ pc = "join" /\ next > num_thread /\ pc' = "return"
  /\ total' = IF num_thread = 0 THEN NaN ELSE total
  /\ UNCHANGED <<options, index, phase, upFrom, downFrom, next, failed, threadVars>>

-----------------------------------------------------------------------------
(* run_speed_test *)

\* The user is asked until the answer is a number from min to max.
InputInt(min, max) == min .. max

Picked == IF auto THEN {index} \cap 0 .. server_num - 1 ELSE InputInt(0, server_num - 1)

StartUpload ==
  /\ pc = "pick"
  /\ \E s \in Picked : index' = s /\ upFrom' = s
  /\ pc' = "create" /\ phase' = "up" /\ next' = 1
  /\ UNCHANGED <<options, downFrom, total, failed, threadVars>>

\* get_input_int(&choose, 0, -1) asks for ever.
NoServer == /\ pc = "pick" /\ Picked = {}
            /\ IF auto THEN pc' = "done" ELSE UNCHANGED pc
            /\ UNCHANGED <<options, index, phase, upFrom, downFrom, next, total,
                           failed, threadVars>>

\* NaN <= 0 is false.
Fails(r) == r # NaN /\ r <= 0

\* Under -m the download uses count, which is 0, and not choose.
DownloadServer == IF auto THEN index ELSE 0

StartDownload ==
  /\ pc = "return" /\ phase = "up" /\ ~ Fails(total)
  /\ phase' = "down" /\ downFrom' = DownloadServer /\ pc' = "create" /\ next' = 1
  /\ UNCHANGED <<options, index, upFrom, total, failed, threadVars>>

\* Either test fails: the next server, or another choice.
TestFails ==
  /\ pc = "return" /\ Fails(total)
  /\ failed' = failed \cup {index}
  /\ IF auto THEN /\ index' = index + 1
                  /\ pc' = IF index' >= server_num THEN "done" ELSE "pick"
             ELSE pc' = "pick" /\ UNCHANGED index
  /\ UNCHANGED <<options, phase, upFrom, downFrom, next, total, threadVars>>

Finish == /\ pc = "return" /\ phase = "down" /\ ~ Fails(total) /\ pc' = "done"
          /\ UNCHANGED <<options, index, phase, upFrom, downFrom, next, total,
                         failed, threadVars>>

Main == \/ StartUpload \/ NoServer \/ Create \/ AllCreated \/ Join \/ AllJoined
        \/ StartDownload \/ TestFails \/ Finish

Ended == pc = "done" /\ UNCHANGED vars

Next == Main \/ (\E t \in Threads : Thread(t)) \/ Ended

Spec == Init /\ [][Next]_vars

-----------------------------------------------------------------------------
(* Properties *)

Active(t) == thread[t] \notin {"none", "done"}

\* thread_data and the mutex live in the frame of the function that measures:
\* no thread uses them when it returns.
FrameOutlivesThreads == pc \notin {"create", "join"} => \A t \in Threads : ~ Active(t)

\* The sums of f over the first threads, up to n of them.
SumTo(f) == LET sum[n \in 0 .. MaxThreads] == IF n = 0 THEN 0 ELSE sum[n - 1] + f[n]
            IN  sum

\* What the function returns is the sum of what its threads have measured, an
\* upload's over all its transfers.
UploadExact == pc = "return" /\ phase = "up" /\ timed /\ num_thread > 0 =>
  total = SumTo(measured)[num_thread]

\* Without -m the measurement ends with the first server neither of whose tests
\* was reported as failed (NaN is not <= 0, and passes), or with none.
AutoFirstWorking == pc = "done" /\ auto =>
  /\ failed = 0 .. index - 1
  /\ index >= server_num \/ (upFrom = index /\ downFrom = index)

=============================================================================
