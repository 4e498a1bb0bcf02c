----------------------------- MODULE LibcurlMain -----------------------------
(***************************************************************************)
(* main of Mini_project_libcurl: the options are read one after the other  *)
(* into the settings, then run_speed_test fetches and sorts the list of    *)
(* servers (LibcurlServers) and measures with it (LibcurlSpeedTest).       *)
(***************************************************************************)
EXTENDS Integers, Sequences

CONSTANTS MaxRequested, MaxTokens, Latencies,    \* of LibcurlServers
          MaxThreads, MaxRounds, Speeds,         \* of LibcurlSpeedTest
          MaxMeasured  \* bound: the servers that are measured, not only sorted

VARIABLES stage,  \* "args", "list", "measure", or how main has ended
          \* the settings
          https, g_max_server, auto, num_thread, timed,
          \* LibcurlServers
          listPc, tokens, servers, i, count, j,
          \* LibcurlSpeedTest
          testPc, server_num, index, phase, upFrom, downFrom, next, total, failed,
          thread, rounds, speed, avg_speed, mutex, measured

List == INSTANCE LibcurlServers WITH pc <- listPc
Test == INSTANCE LibcurlSpeedTest WITH pc <- testPc, MaxServers <- MaxMeasured

ASSUME PartsAssumption == List!Sizes /\ Test!Sizes

listVars == <<listPc, tokens, servers, i, count, j>>
testVars == <<testPc, server_num, index, phase, upFrom, downFrom, next, total,
              failed, thread, rounds, speed, avg_speed, mutex, measured>>
settings == <<https, g_max_server, auto, num_thread, timed>>
vars == <<stage, settings, listVars, testVars>>

\* The defaults of -t, -s and -td are the largest values of the instance.
Init == /\ stage = "args" /\ List!Init /\ Test!Init
        /\ ~ https /\ g_max_server = MaxRequested
        /\ auto /\ num_thread = MaxThreads /\ timed /\ server_num = 0

-----------------------------------------------------------------------------
(* main *)

Manual == /\ auto' = FALSE
          /\ UNCHANGED <<https, g_max_server, num_thread, timed>>

Protocol == /\ https' \in BOOLEAN
            /\ UNCHANGED <<g_max_server, auto, num_thread, timed>>

\* What is_integer takes; the max of every option is 100.
IsInteger(min, max) == min .. max

ThreadNum == /\ num_thread' \in IsInteger(0, MaxThreads)
             /\ UNCHANGED <<https, g_max_server, auto, timed>>
ServerNum == /\ g_max_server' \in IsInteger(0, MaxRequested)
             /\ UNCHANGED <<https, auto, num_thread, timed>>
TestTime == /\ timed' \in BOOLEAN
            /\ UNCHANGED <<https, g_max_server, auto, num_thread>>
TimeOut == UNCHANGED settings

Option == /\ stage = "args"
          /\ Manual \/ Protocol \/ ThreadNum \/ ServerNum \/ TestTime \/ TimeOut
          /\ UNCHANGED <<stage, listVars, testVars>>

\* --help, an unknown option, a missing or bad number, an unknown protocol.
Usage == /\ stage = "args" /\ stage' = "usage"
         /\ UNCHANGED <<settings, listVars, testVars>>

\* strcmp with null: -p without a value, and an option without a name.
BadOption == /\ stage = "args" /\ stage' = "crashed"
             /\ UNCHANGED <<settings, listVars, testVars>>

EndOfOptions == /\ stage = "args" /\ stage' = "list"
                /\ UNCHANGED <<settings, listVars, testVars>>

-----------------------------------------------------------------------------
(* run_speed_test *)

GetServers == /\ stage = "list"
              /\ List!Next
              /\ UNCHANGED <<stage, auto, num_thread, timed, testVars>>

\* Mutated Measure: the servers are counted before the filter.
MeasureAll == /\ stage = "list" /\ listPc = "sorted"
              /\ Len(tokens) <= MaxMeasured
              /\ stage' = "measure" /\ server_num' = Len(tokens)
              /\ UNCHANGED <<settings, listVars, testPc, index, phase, upFrom, downFrom,
                             next, total, failed, thread, rounds, speed, avg_speed,
                             mutex, measured>>

\* What parse_server_data has returned is server_num from here on.
Measure == /\ stage = "list" /\ listPc = "sorted"
           /\ Len(tokens) <= MaxMeasured
           /\ stage' = "measure" /\ server_num' = i
           /\ UNCHANGED <<settings, listVars, testPc, index, phase, upFrom, downFrom,
                          next, total, failed, thread, rounds, speed, avg_speed,
                          mutex, measured>>

RunTest == /\ stage = "measure"
           /\ Test!Next
           /\ UNCHANGED <<stage, https, g_max_server, listVars>>

Ended == stage \in {"usage", "crashed"} /\ UNCHANGED vars

Next == Option \/ Usage \/ BadOption \/ EndOfOptions \/ GetServers \/ Measure \/ RunTest \/ Ended

Spec == Init /\ [][Next]_vars

-----------------------------------------------------------------------------
(* Properties *)

\* What is served is a prefix of the answer's servers of the protocol that was
\* asked for, each once, see LibcurlServers.
ListServed == List!ListServed

\* thread_data and the mutex live in the frame of the function that measures: no
\* thread uses them when it returns.
FrameOutlivesThreads == Test!FrameOutlivesThreads

\* What test_upload_speed returns is the sum of what its threads have measured.
UploadExact == Test!UploadExact

\* sort_servers_by_latency puts the servers in order, those without a latency
\* last.  Without -m the result is that of the first one in this order neither of
\* whose tests was reported as failed: of those the one that answered fastest,
\* and of the protocol that was asked for.
FastestWorking ==
  /\ List!LatencySorted
  /\ stage = "measure" /\ testPc = "done" /\ auto =>
       /\ Test!AutoFirstWorking
       /\ index < server_num =>
            /\ servers[index].url # 0
            /\ tokens[servers[index].url] = IF https THEN "https" ELSE "http"
            /\ \A s \in 0 .. server_num - 1 \ ({index} \cup failed) :
                 servers[s].lat # List!None =>
                   servers[index].lat # List!None /\ servers[index].lat <= servers[s].lat
=============================================================================
