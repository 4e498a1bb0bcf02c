--------------------------- MODULE LibcurlServers ---------------------------
(***************************************************************************)
(* servers.c of Mini_project_libcurl: the answer of the server API is cut  *)
(* into tokens, parsed into the array servers, filtered by protocol,       *)
(* probed for latencies and sorted.  A server is the number of its token;  *)
(* 0 is a zeroed entry.  Indices count from 0, as in the code.             *)
(***************************************************************************)
EXTENDS Integers, Sequences, SequencesExt, FiniteSetsExt

CONSTANTS MaxRequested,  \* bound: the largest -s that is tried (100 in main)
          MaxTokens,     \* bound: the servers in the API's answer
          Latencies      \* the latencies that can be measured

\* What the constants must satisfy.
Sizes == /\ MaxRequested \in Nat /\ MaxTokens \in Nat
         /\ Latencies \subseteq Nat /\ \E l \in Latencies : \A m \in Latencies : m <= l

None == -1  \* a latency of -1

VARIABLES pc,            \* "fetch", "parse", "filter", "format", "latency", ...
          https,         \* -p
          g_max_server,  \* -s
          tokens,        \* the protocol of each server in the answer, or "cut"
          servers,       \* the url and the latency of each entry
          i, count, j    \* the loop variables; i is the result of the parser

vars == <<pc, https, g_max_server, tokens, servers, i, count, j>>
config == <<https, g_max_server>>

Indices == 0 .. MaxRequested
Zeroed == [url |-> 0, lat |-> 0]

Init == /\ pc = "fetch" /\ https \in BOOLEAN /\ g_max_server \in Indices
        /\ tokens = << >> /\ servers = [s \in Indices |-> Zeroed]
        /\ i = 0 /\ count = 0 /\ j = 0

-----------------------------------------------------------------------------
(* find_best_server *)

\* The one line of the answer that is read.  Its last token may name no server:
\* the buffer has cut it, the list is "[]", or the line is no list at all.
Answers == UNION {[1 .. n -> {"http", "https", "cut"}] : n \in 0 .. MaxTokens}
FindBestServer ==
  /\ pc = "fetch"
  /\ \E answer \in Answers : /\ "cut" \notin Range(Front(<<"http">> \o answer))
                             /\ tokens' = answer
                             /\ pc' = IF answer = << >> THEN "filter" ELSE "parse"
  /\ UNCHANGED <<config, servers, i, count, j>>

-----------------------------------------------------------------------------
(* parse_server_data *)

\* The url that sscanf finds in the token: none leaves the entry zeroed.
UrlOf(k) == IF tokens[k] = "cut" THEN 0 ELSE k

\* The loop is left only behind the entry g_max_server.
ParseToken ==
  /\ pc = "parse"
  /\ servers' = [servers EXCEPT ![i].url = UrlOf(i + 1)]
  /\ LET full == i + 1 > g_max_server IN
       /\ i' = IF full THEN i ELSE i + 1
       /\ pc' = IF full \/ i + 1 = Len(tokens) THEN "filter" ELSE "parse"
  /\ UNCHANGED <<config, tokens, count, j>>

IsHttps(e) == e.url # 0 /\ tokens[e.url] = "https"

\* The entries up to g_max_server - 1 move down, the entry g_max_server does
\* not; an index of g_max_server deletes nothing.
DeleteServerByIndex(s) ==
  IF s >= g_max_server THEN servers
  ELSE [k \in Indices |-> IF k < s \/ k >= g_max_server THEN servers[k]
                          ELSE IF k = g_max_server - 1 THEN Zeroed
                          ELSE servers[k + 1]]

\* Mutated FilterEntry: the entry that moves into the place of a deleted one is
\* skipped.
FilterEntrySkipping ==
  /\ pc = "filter" /\ count <= i
  /\ IF IsHttps(servers[count]) # https
     THEN servers' = DeleteServerByIndex(count) /\ i' = i - 1
     ELSE UNCHANGED <<servers, i>>
  /\ count' = count + 1
  /\ UNCHANGED <<pc, config, tokens, j>>

\* The zeroed entry behind the last server is looked at as well.
FilterEntry ==
  /\ pc = "filter" /\ count <= i
  /\ IF IsHttps(servers[count]) # https
     THEN servers' = DeleteServerByIndex(count) /\ i' = i - 1 /\ UNCHANGED count
     ELSE count' = count + 1 /\ UNCHANGED <<servers, i>>
  /\ UNCHANGED <<pc, config, tokens, j>>

\* From here on i is server_num, and count is the loop variable.
EndFilter == /\ pc = "filter" /\ count > i
             /\ i' = IF https THEN i + 1 ELSE i
             /\ pc' = "format" /\ count' = 0
             /\ UNCHANGED <<config, tokens, servers, j>>

-----------------------------------------------------------------------------
(* format_url, get_servers_latency, sort_servers_by_latency *)

\* strtok finds nothing in an empty url, and strcpy from null ends the process.
FormatUrl == /\ pc = "format" /\ count < i
             /\ IF servers[count].url = 0
                THEN pc' = "crashed" /\ UNCHANGED count
                ELSE count' = count + 1 /\ UNCHANGED pc
             /\ UNCHANGED <<config, tokens, servers, i, j>>

EndFormat == /\ pc = "format" /\ count >= i
             /\ pc' = "latency" /\ count' = 0
             /\ UNCHANGED <<config, tokens, servers, i, j>>

MeasureLatency ==
  /\ pc = "latency" /\ count < i
  /\ \E l \in Latencies \cup {None} : servers' = [servers EXCEPT ![count].lat = l]
  /\ count' = count + 1
  /\ UNCHANGED <<pc, config, tokens, i, j>>

EndLatency == /\ pc = "latency" /\ count >= i
              /\ pc' = "sort" /\ count' = 0
              /\ UNCHANGED <<config, tokens, servers, i, j>>

\* Mutated SortKey: -1 is compared as a latency.
SortKeyRaw(e) == e.lat

\* -1 counts as 9999999999.
SortKey(e) == IF e.lat = None THEN Max(Latencies) + 1 ELSE e.lat

Swapped(k) == [servers EXCEPT ![k] = servers[k + 1], ![k + 1] = servers[k]]

\* count is the pass, j the place.
CompareAndSwap ==
  /\ pc = "sort" /\ count < i - 1 /\ j < i - count - 1
  /\ servers' = IF SortKey(servers[j]) > SortKey(servers[j + 1])
                THEN Swapped(j) ELSE servers
  /\ j' = j + 1
  /\ UNCHANGED <<pc, config, tokens, i, count>>

NextPass == /\ pc = "sort" /\ count < i - 1 /\ j >= i - count - 1
            /\ count' = count + 1 /\ j' = 0
            /\ UNCHANGED <<pc, config, tokens, servers, i>>

EndSort == /\ pc = "sort" /\ count >= i - 1
           /\ pc' = "sorted"
           /\ UNCHANGED <<config, tokens, servers, i, count, j>>

Ended == pc \in {"sorted", "crashed"} /\ UNCHANGED vars

Next == \/ FindBestServer \/ ParseToken \/ FilterEntry \/ EndFilter
        \/ FormatUrl \/ EndFormat \/ MeasureLatency \/ EndLatency
        \/ CompareAndSwap \/ NextPass \/ EndSort \/ Ended

Spec == Init /\ [][Next]_vars

-----------------------------------------------------------------------------
(* Properties *)

Parsed == pc \in {"format", "latency", "sort", "sorted"}
Wanted(k) == tokens[k] = IF https THEN "https" ELSE "http"

\* The servers of the wanted protocol among the first n of the answer.
FirstWanted(n) == {k \in DOMAIN tokens : k <= n /\ Wanted(k)}

Served == {servers[s].url : s \in 0 .. i - 1}

\* Unless the answer is cut, what is served is a prefix of its servers of the
\* wanted protocol, none twice, whatever deletions were made and until the end of
\* the sort; all of them when the answer is not longer than g_max_server, and
\* otherwise at most one more or one less than g_max_server allows.
ListServed == Parsed /\ "cut" \notin Range(tokens) =>
  LET wanted == FirstWanted(g_max_server + 1)
      excess == i - Cardinality(FirstWanted(g_max_server)) IN
    /\ \A s, t \in 0 .. i - 1 : servers[s].url = servers[t].url => s = t
    /\ Served \subseteq wanted
    /\ \A k \in Served, w \in wanted : w < k => w \in Served
    /\ excess \in {-1, 0, 1}
    /\ Len(tokens) <= g_max_server => excess = 0

\* sort_servers_by_latency puts the servers in order, those without a latency
\* behind all others; no server's latency goes to another one on the way.
LatencySorted == pc = "sorted" =>
  \A s \in 0 .. i - 2 : \/ servers[s + 1].lat = None
                        \/ servers[s].lat # None /\ servers[s].lat <= servers[s + 1].lat
=============================================================================
