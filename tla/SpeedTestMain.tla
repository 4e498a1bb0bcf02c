--------------------------- MODULE SpeedTestMain ---------------------------
(***************************************************************************)
(* main and run of Mini_project up to the measurement: the options, the    *)
(* two files that are fetched (HttpFile), and the table of servers with    *)
(* its probes (ServerTable), the first of which is a fetch in full, too.   *)
(* The measurement with the chosen server is SpeedTestEngine.              *)
(***************************************************************************)
EXTENDS Integers, Sequences, SequencesExt

CONSTANTS HdrLen, BodyLen, EndLen, BufSize, Contents,  \* of HttpFile
          NearestNum,  \* Slots of ServerTable: NEAREST_SERVERS_NUM
          MaxListed, Distances, Latencies,         \* of ServerTable
          MaxDetailed  \* bound: the longest list whose first probe is in full

VARIABLES stage,  \* "args", "config", "servers", "run", or how main has ended
          fetch,  \* "none", "file" or "latency": get_http_file is running for it
          answer, \* what the probed server has in its latency.txt
          https,  \* protocol
          \* HttpFile
          tls, content, httpPc, ready, pos, file, server, httpSent, record, httpOdd,
          \* ServerTable
          tablePc, auto, listed, table, i, latFile, line, elapsed, best, index,
          refused, answered, tableOdd

Http == INSTANCE HttpFile WITH pc <- httpPc, sent <- httpSent, odd <- httpOdd
Table == INSTANCE ServerTable WITH Slots <- NearestNum, pc <- tablePc, odd <- tableOdd

ASSUME PartsAssumption == Http!Sizes /\ Http!BodyContents /\ Table!Sizes
ASSUME DetailAssumption == MaxDetailed \in Nat /\ BodyLen > 0

httpVars == <<tls, content, httpPc, ready, pos, file, server, httpSent, record, httpOdd>>
tableVars == <<tablePc, auto, listed, table, i, latFile, line, elapsed, best,
               index, refused, answered, tableOdd>>
runVars == <<stage, fetch, answer, https>>
programVars == <<runVars, httpVars, tableVars>>

MainInit == /\ stage = "args" /\ fetch = "none" /\ answer = "other"
            /\ Http!Init /\ ~ tls /\ content = Http!Plain
            /\ Table!Init /\ auto /\ https = TRUE

-----------------------------------------------------------------------------
(* main *)

Manual == /\ auto' = FALSE
          /\ UNCHANGED <<https, tablePc, listed, table, i, latFile, line, elapsed,
                         best, index, refused, answered, tableOdd>>

Protocol == https' \in BOOLEAN /\ UNCHANGED tableVars

\* The number of threads is a constant of SpeedTestEngine.  What is no option
\* of the program is passed over.
ThreadNumOption == UNCHANGED <<https, tableVars>>

Option == /\ stage = "args"
          /\ Manual \/ Protocol \/ ThreadNumOption
          /\ UNCHANGED <<stage, fetch, answer, httpVars>>

\* --help, a number that is none or not in 0 .. 100, an unknown protocol.
Usage == /\ stage = "args" /\ stage' = "usage"
         /\ UNCHANGED <<fetch, answer, https, httpVars, tableVars>>

\* strcmp with null: -p without a value, and an argument without a name.
BadOption == /\ stage = "args" /\ stage' = "crashed"
             /\ UNCHANGED <<fetch, answer, https, httpVars, tableVars>>

EndOfOptions == /\ stage = "args" /\ stage' = "config"
                /\ UNCHANGED <<fetch, answer, https, httpVars, tableVars>>

-----------------------------------------------------------------------------
(* The two files that run fetches *)

Busy == fetch # "none"

\* Run goes on with the next file, or with the table.
NextFile == IF stage = "config" THEN stage' = "servers" /\ UNCHANGED tableVars
            ELSE stage' = "run" /\ Table!FetchLists /\ tablePc' = "list"

\* A name that cannot be resolved is no reason to stop: whatever an earlier
\* execution has left in the file is read.
SkipFile == /\ stage \in {"config", "servers"} /\ ~ Busy
            /\ NextFile
            /\ UNCHANGED <<fetch, answer, https, httpVars>>

StartFetch == /\ stage \in {"config", "servers"} /\ ~ Busy
              /\ fetch' = "file" /\ tls' = https /\ content' \in Contents
              /\ UNCHANGED <<stage, answer, https, httpPc, ready, pos, file, server,
                             httpSent, record, httpOdd, tableVars>>

FetchStep == /\ Busy
             /\ Http!Server \/ Http!Client
             /\ UNCHANGED <<runVars, tableVars>>

\* The function's locals, its socket and its connection are gone.
Forgotten == /\ fetch' = "none" /\ tls' = FALSE /\ content' = Http!Plain /\ httpPc' = "connect"
             /\ ready' = FALSE /\ pos' = 0 /\ file' = << >> /\ server' = "waits"
             /\ httpSent' = 0 /\ record' = 0 /\ httpOdd' = {}

EndFetch == /\ fetch = "file" /\ httpPc \in {"ok", "failed"}
            /\ IF httpPc = "ok" THEN NextFile
               ELSE stage' = "run" /\ Table!FetchLists /\ tablePc' = "failed"
            /\ Forgotten
            /\ UNCHANGED <<answer, https>>

-----------------------------------------------------------------------------
(* The table and its probes *)

\* get_best_server always asks by http.
StartProbe == /\ stage = "run" /\ ~ Busy
              /\ tablePc = "probe" /\ i = 1 /\ Len(listed) <= MaxDetailed
              /\ fetch' = "latency" /\ tls' = FALSE
              /\ answer' \in {"test", "other"}
              /\ content' \in IF answer' = "test" THEN {Http!Plain} ELSE Contents
              /\ UNCHANGED <<stage, https, httpPc, ready, pos, file, server, httpSent,
                             record, httpOdd, tableVars>>

WholeBody == [k \in 1 .. BodyLen |-> HdrLen + k]

\* What latency.txt may hold after the fetch: fopen has emptied it, unless the
\* connection or the request had failed before.  What is left of another answer,
\* when something special happened to its bytes, may be the expected text.
LatencyFiles == IF server = "waits" THEN {latFile}
                ELSE IF file = << >> THEN {"empty"}
                ELSE IF answer = "test"
                     THEN {IF IsPrefix(WholeBody, file) THEN "test" ELSE "other"}
                ELSE IF httpOdd = {} THEN {"other"} ELSE {"test", "other"}

EndProbe == /\ fetch = "latency" /\ httpPc \in {"ok", "failed"}
            /\ \E f \in LatencyFiles, e \in Latencies :
                 Table!AfterFetch(f, e, server # "waits" /\ f = "test")
            /\ Forgotten /\ answer' = "other"
            /\ UNCHANGED <<stage, https>>

\* The other probes are those of ServerTable, by their results.
Probe == /\ Table!Probe
         /\ i # 1 \/ Len(listed) > MaxDetailed

TableStep == /\ stage = "run" /\ ~ Busy
             /\ \/ Table!NearestServer \/ Table!EndOfList \/ Table!Unresolved
                \/ Probe \/ Table!Sort \/ Table!SelectBest \/ Table!Choose
                \/ Table!CheckAccepts \/ Table!CheckRefuses
             /\ UNCHANGED <<runVars, httpVars>>

Ended == /\ stage \in {"usage", "crashed"} \/ tablePc \in {"measure", "failed"}
         /\ UNCHANGED programVars

MainNext == \/ Option \/ Usage \/ BadOption \/ EndOfOptions
            \/ SkipFile \/ StartFetch \/ FetchStep \/ EndFetch
            \/ StartProbe \/ EndProbe \/ TableStep \/ Ended

MainSpec == MainInit /\ [][MainNext]_programVars

\* The program runs whenever it can, and the server that is asked ends the
\* connection at last.
ClientStep == Busy /\ Http!Client /\ UNCHANGED <<runVars, tableVars>>
CloseStep == Busy /\ Http!CloseServer /\ UNCHANGED <<runVars, tableVars>>
MainFairSpec == /\ MainSpec
                /\ WF_programVars(ClientStep) /\ WF_programVars(CloseStep)
                /\ WF_programVars(EndFetch) /\ WF_programVars(EndProbe)

-----------------------------------------------------------------------------
(* Properties *)

\* A fetched file is the body of the response, except for a connection that was
\* closed early, a chunk that came after select's timeout, a full buffer, a header
\* split over two chunks, and the blank line or the NUL of a body that is taken
\* for the end of a header or of rbuf: HttpFile, here for each of run's fetches.
FileIsBody == Http!FileIsBody

\* Once the server ends the connection, a fetch that run has started ends.
Returns == Busy ~> ~ Busy

\* The table holds the nearest servers of the list, see ServerTable.
NearestKept == Table!NearestKept

\* A latency is one's own unless a file was left behind or an answer was empty.
LatencyEarned == Table!LatencyEarned

\* The automatic choice is the best server that accepts, see ServerTable.
AutoLeastLatency == Table!AutoLeastLatency

\* A probe during which nothing special happened to the bytes gives a server a
\* latency exactly when its latency.txt is the text that is expected: whatever
\* the chunks, whatever was in the file and in fgets's buffer before.
AnswerCounts ==
  [][fetch = "latency" /\ ~ Busy' /\ httpPc = "ok" /\ httpOdd = {} =>
       (table'[i].lat = Table!None <=> answer = "other")]_programVars
=============================================================================
