------------------------------ MODULE HttpFile ------------------------------
(***************************************************************************)
(* get_http_file and, with tls, get_https_file (speed_test_utils.c): ask   *)
(* for a file over a stream and write what comes behind the header into    *)
(* FILE_DIRECTORY_PATH.  The response is the bytes 1 .. Total, the first   *)
(* HdrLen of which are the header with the blank line that ends it; the    *)
(* body may hold further blank lines, and bytes that are NUL.              *)
(***************************************************************************)
EXTENDS Integers, Sequences, SequencesExt

CONSTANTS HdrLen, BodyLen,  \* the server's response
          EndLen,           \* the length of the blank line "\r\n\r\n"
          BufSize,          \* sizeof(rbuf)
          Contents          \* bodies: where their blank lines end, and their NULs

\* What the constants must satisfy.
Sizes == /\ HdrLen \in Nat /\ BodyLen \in Nat
         /\ EndLen \in 1 .. HdrLen /\ BufSize \in Nat \ {0}

Total == HdrLen + BodyLen
InBody == HdrLen + 1 .. Total

\* A body of plain text, and what bodies may hold.
Plain == [blanks |-> {}, nuls |-> {}]
BodyContents == /\ Contents \subseteq [blanks : SUBSET InBody, nuls : SUBSET InBody]
                /\ Plain \in Contents
Min2(a, b) == IF a <= b THEN a ELSE b

VARIABLES tls,     \* which function: SSL_read instead of recv
          content, \* what this response's body holds, of Contents
          pc,      \* "connect", "send", "select", "recv", "ok" or "failed"
          ready,   \* what select has said: the descriptor is readable
          pos,     \* bytes of the response recv has returned
          file,    \* what has been written; a byte of the memory behind rbuf is 0
          server,  \* "waits", "sends", "closed" or "reset"
          sent,    \* bytes that have reached the socket
          record,  \* bytes decrypted by SSL_read and not yet returned (tls)
          odd      \* why the file need not be the body (history)

clientVars == <<pc, ready, pos, file, odd>>
serverVars == <<server, sent>>
fetched == <<tls, content>>
vars == <<fetched, clientVars, serverVars, record>>

Init == /\ tls \in BOOLEAN /\ content \in Contents
        /\ pc = "connect" /\ ready = FALSE /\ pos = 0 /\ file = << >>
        /\ server = "waits" /\ sent = 0 /\ record = 0 /\ odd = {}

-----------------------------------------------------------------------------
(* The server and the network *)

Deliver == /\ server = "sends"
           /\ \E n \in sent + 1 .. Total : sent' = n
           /\ UNCHANGED <<server, clientVars, record, fetched>>

\* The server closes the connection, usually after the last byte.
CloseServer == /\ server = "sends" /\ server' = "closed"
               /\ odd' = IF sent < Total THEN odd \cup {"cut"} ELSE odd
               /\ UNCHANGED <<sent, pc, ready, pos, file, record, fetched>>

Reset == /\ server = "sends" /\ server' = "reset"
         /\ UNCHANGED <<sent, clientVars, record, fetched>>

Server == Deliver \/ CloseServer \/ Reset

-----------------------------------------------------------------------------
(* socket, connect (and SSL_connect), the request, fopen *)

Connect == /\ pc = "connect" /\ server = "waits"
           /\ pc' \in {"send", "failed"}
           /\ UNCHANGED <<ready, pos, file, odd, serverVars, record, fetched>>

SendRequest == /\ pc = "send"
               /\ \/ pc' = "select" /\ server' = "sends"
                  \/ pc' = "failed" /\ UNCHANGED server
               /\ UNCHANGED <<ready, pos, file, odd, sent, record, fetched>>

-----------------------------------------------------------------------------
(* The loop *)

\* Bytes in the socket, which an SSL_read before may have taken out of it.
InSocket == sent - pos - record
Ended == server \in {"closed", "reset"}

\* select looks at the socket only, and gives up after three seconds.
Select == /\ pc = "select" /\ pc' = "recv"
          /\ ready' = (InSocket > 0 \/ Ended)
          /\ UNCHANGED <<pos, file, odd, serverVars, record, fetched>>

\* The bytes behind a up to b, and the n bytes that one recv or SSL_read returns.
Segment(a, b) == [k \in 1 .. b - a |-> a + k]
Chunk(n) == Segment(pos, pos + n)

\* strstr and strlen see rbuf up to the first NUL.
Nuls(n) == {z \in content.nuls : pos < z /\ z <= pos + n}
Seen(n) == IF Nuls(n) = {} THEN pos + n ELSE Min(Nuls(n)) - 1

\* The ends of the blank lines that lie in what is seen of a chunk: strstr looks
\* for one in every chunk, and finds the first.
BlankLines(n) == {e \in {HdrLen} \cup content.blanks : pos + EndLen <= e /\ e <= Seen(n)}

\* A full rbuf without a NUL is not terminated: strlen counts what lies behind
\* it, and strstr may find the blank line of the request there (UB of the code).
Full(n) == n = BufSize /\ Nuls(n) = {}
Overrun(s) == {s, s \o <<0>>}
Stored(n) ==
  LET rest == Segment(Min(BlankLines(n)), Seen(n)) IN
  IF BlankLines(n) # {} THEN IF Full(n) THEN Overrun(rest) ELSE {rest}
  ELSE IF Full(n) THEN {Chunk(n), << >>} ELSE {Chunk(n)}

\* What is special about a chunk (history): a blank line of the body's is taken
\* for the header's end, or a NUL for the end of what is behind a blank line.
Oddities(n) == (IF ready THEN {} ELSE {"late"})
  \cup (IF Full(n) THEN {"full"} ELSE {})
  \cup (IF pos < HdrLen /\ HdrLen \notin BlankLines(n) THEN {"split"} ELSE {})
  \cup (IF BlankLines(n) # {} /\ HdrLen \notin BlankLines(n) THEN {"blank"} ELSE {})
  \cup (IF BlankLines(n) # {} /\ Nuls(n) # {} THEN {"nul"} ELSE {})

\* Mutated StoreChunk: ptr is not moved behind the header.
StoreChunkWithHeader(n) == file' = file \o Chunk(n)

\* A chunk that arrives between select's timeout and recv is dropped.
StoreChunk(n) == IF ready THEN \E s \in Stored(n) : file' = file \o s
                          ELSE UNCHANGED file

\* recv returns any part of what has arrived.
ReceivePlain ==
  /\ InSocket > 0
  /\ \E n \in 1 .. Min2(BufSize, InSocket) :
       /\ StoreChunk(n)
       /\ odd' = odd \cup Oddities(n)
       /\ pos' = pos + n
  /\ UNCHANGED record

\* SSL_read takes a whole record out of the socket and returns what fits; it
\* returns the rest of a record without a look at the socket.
ReceiveTls ==
  \E r \in IF record > 0 THEN {record} ELSE 1 .. InSocket :
    LET n == Min2(BufSize, r) IN
    /\ StoreChunk(n)
    /\ odd' = odd \cup Oddities(n)
    /\ pos' = pos + n
    /\ record' = r - n

Receive == /\ pc = "recv" /\ pc' = "select"
           /\ IF tls THEN ReceiveTls ELSE ReceivePlain
           /\ UNCHANGED <<ready, serverVars, fetched>>

\* Mutated EndOfStream: 0 is no reason to stop.
EndOfStreamIgnored == /\ pc = "recv" /\ InSocket = 0 /\ record = 0
                      /\ server = "closed"
                      /\ pc' = "select"
                      /\ UNCHANGED <<ready, pos, file, odd, serverVars, record, fetched>>

\* recv returns 0: the loop ends when select had said so, else it goes round.
\* SSL_read may also report a connection that was cut as an error.
EndOfStream == /\ pc = "recv" /\ InSocket = 0 /\ record = 0
               /\ server = "closed"
               /\ \/ pc' = IF ready THEN "ok" ELSE "select"
                  \/ tls /\ ready /\ "cut" \in odd /\ pc' = "failed"
               /\ UNCHANGED <<ready, pos, file, odd, serverVars, record, fetched>>

\* recv returns -1, once the reset has thrown away what was in the socket.
ReceiveFails == /\ pc = "recv" /\ record = 0 /\ server = "reset"
                /\ IF ready THEN pc' = "failed" /\ UNCHANGED server
                            ELSE pc' = "select" /\ server' = "closed"
                /\ sent' = pos
                /\ odd' = IF pos < Total THEN odd \cup {"cut"} ELSE odd
                /\ UNCHANGED <<ready, pos, file, record, fetched>>

Client == \/ Connect \/ SendRequest \/ Select \/ Receive
          \/ EndOfStream \/ ReceiveFails

Returned == pc \in {"ok", "failed"} /\ UNCHANGED vars

Next == Server \/ Client \/ Returned

Spec == Init /\ [][Next]_vars

-----------------------------------------------------------------------------
(* Properties *)

\* What can spoil a file is exactly: a connection closed early, a chunk that
\* came after select's timeout, a full buffer, a header split over chunks, a
\* blank line in a chunk of the body, or a NUL behind a blank line in a chunk.
FileIsBody == pc = "ok" /\ odd = {} => file = Segment(HdrLen, Total)

=============================================================================
