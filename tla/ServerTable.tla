---------------------------- MODULE ServerTable ----------------------------
(***************************************************************************)
(* run of Mini_project up to the measurement: the list of servers is       *)
(* fetched, the nearest ones are kept in a sorted table, each is probed    *)
(* for its latency, and one is picked (speed_test_server.c, speed_test.c). *)
(* A listed server is the number of its line; the entry 0 is an empty url. *)
(***************************************************************************)
EXTENDS Integers, Sequences, SequencesExt, FiniteSetsExt

CONSTANTS Slots,      \* NEAREST_SERVERS_NUM
          MaxListed,  \* bound: the lines "<server" in the list
          Distances,  \* the distances that occur
          Latencies   \* the times that a probe may take

\* What the constants must satisfy.
Sizes == /\ Slots \in Nat \ {0} /\ MaxListed \in Nat
         /\ Distances \subseteq Nat /\ 0 \in Distances
         /\ Latencies \subseteq Nat \ {0} /\ Latencies # {}

None == -1  \* a latency of -1, and no index

VARIABLES pc,       \* "fetch", "list", "probe", "sort", "pick", "check", ...
          auto,     \* auto_pick_server
          listed,   \* the distance that was computed for each line
          table,    \* nearest_servers: the url, distance and latency of each
          i,        \* the entry get_best_server is at
          latFile,  \* /tmp/latency.txt: "absent", "empty", "test" or "other"
          line,     \* what get_best_server's line begins with
          elapsed,  \* tv2 - tv1
          best,     \* best_server_index
          index,    \* count, or choose: the entry that run asks
          refused,  \* the entries check_server has refused (history)
          answered, \* the servers whose own answer was "test=test" (history)
          odd       \* why a latency need not be the server's (history)

listVars == <<auto, listed, table>>
probeVars == <<i, latFile, line, elapsed>>
pickVars == <<best, index, refused>>
vars == <<pc, listVars, probeVars, pickVars, answered, odd>>

Empty == [url |-> 0, dist |-> 0, lat |-> 0]
Entries == 1 .. Slots

\* An earlier execution that was stopped has left its latency.txt behind;
\* tv1 and tv2 are not initialized.
Init == /\ pc = "fetch" /\ auto \in BOOLEAN
        /\ listed = << >> /\ table = [k \in Entries |-> Empty]
        /\ i = 1 /\ latFile \in {"absent", "test"} /\ line = "zero"
        /\ elapsed \in Latencies
        /\ best = None /\ index = None /\ refused = {} /\ answered = {}
        /\ odd = IF latFile = "test" THEN {"left behind"} ELSE {}

-----------------------------------------------------------------------------
(* The list of servers *)

\* A lookup that fails is not an error: run goes on with the file of an
\* earlier execution.  Whatever the files hold is read by NearestServer.
FetchLists == /\ pc = "fetch" /\ pc' \in {"list", "failed"}
              /\ UNCHANGED <<listVars, probeVars, pickVars, answered, odd>>

\* The first entry that is empty or not nearer than distance d.
Places(t, d) == {k \in Entries : t[k].url = 0 \/ d <= t[k].dist}

\* Mutated Insert: the entries behind the place are not moved.
InsertOver(t, e) ==
  IF Places(t, e.dist) = {} THEN t ELSE [t EXCEPT ![Min(Places(t, e.dist))] = e]

Insert(t, e) ==
  IF Places(t, e.dist) = {} THEN t
  ELSE SubSeq(InsertAt(t, Min(Places(t, e.dist)), e), 1, Slots)

\* One line of the list.  A position that sscanf cannot read is that of the
\* line before, and of the first line (0, 0), which is any distance away.
NearestServer ==
  /\ pc = "list" /\ Len(listed) < MaxListed
  /\ \E d \in Distances :
       /\ listed' = Append(listed, d)
       /\ table' = Insert(table, [url |-> Len(listed) + 1, dist |-> d, lat |-> 0])
  /\ UNCHANGED <<pc, auto, probeVars, pickVars, answered, odd>>

EndOfList == /\ pc = "list"
             /\ pc' = IF listed = << >> THEN "failed" ELSE "probe"
             /\ UNCHANGED <<listVars, probeVars, pickVars, answered, odd>>

-----------------------------------------------------------------------------
(* get_best_server *)

\* What get_http_file leaves in latency.txt: nothing new when the socket, the
\* connection or the request fails, else what it was sent.
Fetched == {latFile, "empty", "test", "other"}

\* The line that fgets leaves in the buffer: an empty file leaves it alone.
LineAfter(f) == IF f = "empty" THEN line ELSE f

\* Mutated Measured: fgets's buffer is not compared with "test=test".
MeasuredAlways(f, e) == IF f = "absent" THEN None ELSE e

Measured(f, e) ==
  IF f # "absent" /\ LineAfter(f) = "test" THEN e ELSE None

\* What the loop makes of a fetch that has left f and has taken the time e; own
\* says that f is the server's own answer (history).
AfterFetch(f, e, own) ==
  /\ elapsed' = e
  /\ table' = [table EXCEPT ![i].lat = Measured(f, e)]
  /\ line' = IF f = "absent" THEN line ELSE LineAfter(f)
  /\ answered' = IF own THEN answered \cup {table[i].url} ELSE answered
  /\ odd' = IF f = "empty" THEN odd \cup {"no line"} ELSE odd
  /\ latFile' = "absent"
  /\ i' = i + 1
  /\ pc' = IF i = Slots THEN "sort" ELSE "probe"
  /\ UNCHANGED <<auto, listed, pickVars>>

\* A name that cannot be resolved leaves tv1 and tv2 alone; that of an empty
\* entry is the null pointer, which getaddrinfo takes for this machine.
Unresolved == /\ pc = "probe" /\ table[i].url # 0
              /\ AfterFetch(latFile, elapsed, FALSE)

Probe ==
  /\ pc = "probe"
  /\ \E f \in Fetched : \E e \in Latencies :
     \E own \in IF f = "test" THEN {TRUE, latFile # "test"} ELSE {FALSE} :
       AfterFetch(f, e, own)

\* Mutated CompareLatency: -1 is compared as a latency.
CompareRaw(a, b) == a.lat - b.lat

CompareLatency(a, b) == CASE a.lat = None /\ b.lat = None -> 0
                          [] a.lat = None /\ b.lat # None -> 1
                          [] a.lat # None /\ b.lat = None -> -1
                          [] OTHER -> a.lat - b.lat

\* qsort keeps no order between entries that compare as equal.
Sort ==
  /\ pc = "sort" /\ pc' = "pick"
  /\ \E order \in [Entries -> Entries] :
       LET t == [k \in Entries |-> table[order[k]]] IN
       /\ IsInjective(order)
       /\ \A k \in 1 .. Slots - 1 : CompareLatency(t[k], t[k + 1]) <= 0
       /\ table' = t
  /\ UNCHANGED <<auto, listed, probeVars, pickVars, answered, odd>>

WithLatency == {k \in Entries : table[k].lat # None}
SelectBest ==
  /\ pc = "pick"
  /\ best' = IF WithLatency = {} THEN None ELSE Min(WithLatency)
  /\ IF best' = None THEN pc' = "failed" /\ UNCHANGED index
     ELSE IF auto THEN pc' = "check" /\ index' = 1
     ELSE pc' = "choose" /\ UNCHANGED index
  /\ UNCHANGED <<listVars, probeVars, refused, answered, odd>>

-----------------------------------------------------------------------------
(* run *)

\* The user is asked until the answer is a number from min to max.
InputInt(min, max) == min .. max

\* From 0 to NEAREST_SERVERS_NUM in the code, here counted from 1.
Choose == /\ pc = "choose" /\ pc' = "check"
          /\ index' \in InputInt(1, Slots + 1)
          /\ UNCHANGED <<listVars, probeVars, best, refused, answered, odd>>

CheckAccepts == /\ pc = "check" /\ pc' = "measure"
                /\ UNCHANGED <<listVars, probeVars, pickVars, answered, odd>>

CheckRefuses ==
  /\ pc = "check"
  /\ refused' = refused \cup {index}
  /\ IF auto /\ index < Slots THEN index' = index + 1 /\ UNCHANGED pc
                              ELSE pc' = "failed" /\ UNCHANGED index
  /\ UNCHANGED <<listVars, probeVars, best, answered, odd>>

Returned == pc \in {"measure", "failed"} /\ UNCHANGED vars

Run == \/ FetchLists \/ NearestServer \/ EndOfList \/ Unresolved \/ Probe
       \/ Sort \/ SelectBest \/ Choose \/ CheckAccepts \/ CheckRefuses

Next == Run \/ Returned

Spec == Init /\ [][Next]_vars

-----------------------------------------------------------------------------
(* Properties *)

InTable == {table[k].url : k \in Entries} \ {0}
Listed == 1 .. Len(listed)

\* The reference for get_nearest_server: line a goes before line b when it is
\* nearer or, at the same distance, later in the list.
Nearer(a, b) == listed[a] < listed[b] \/ (listed[a] = listed[b] /\ a > b)

\* Whatever the order of the list, the table holds the nearest servers of it,
\* each once, from the first line read to the choice: neither an insertion nor
\* the sort by latency loses or repeats one.  Until that sort it is in order and
\* no line's distance is mixed up.
NearestKept ==
  /\ InTable = {a \in Listed :
                  Cardinality({b \in Listed \ {a} : Nearer(b, a)}) < Slots}
  /\ pc \in {"list", "probe"} => \A k \in Entries : LET e == table[k] IN
       /\ e.url # 0 => e.dist = listed[e.url]
       /\ k > 1 /\ e.url # 0 => Nearer(table[k - 1].url, e.url)

\* get_best_server takes a server for measured without an answer of its own
\* only through a latency.txt left behind or through an empty answer.
LatencyEarned == odd = {} =>
  \A k \in Entries : table[k].lat \in Latencies => table[k].url \in answered

\* With auto_pick_server the measurement goes to an entry that accepted its
\* check, and every entry with a smaller latency has refused it.
AutoLeastLatency == pc = "measure" /\ auto =>
  /\ index \notin refused /\ best # None
  /\ \A k \in WithLatency \ refused :
       table[index].lat # None /\ table[index].lat <= table[k].lat

=============================================================================
