----------------------------- MODULE EchoServer -----------------------------
(***************************************************************************)
(* The concurrent TCP servers, Socket/src/server.c and the older           *)
(* Presentation_code/Concurrent_TCP_echo_Server.c (presentation):          *)
(* main accepts connections and starts a thread for each, handing it the   *)
(* address of its own variable connfd; the thread answers every chunk it   *)
(* reads until its client leaves.  The clients are Socket/src/client.c     *)
(* and the presentation's Concurrent_TCP_echo_Client.c; the network is     *)
(* TCP: bytes arrive in order, in chunks of any size.                      *)
(***************************************************************************)
EXTENDS Integers, Sequences, FiniteSets, SequencesExt

CONSTANTS Clients,      \* the client processes
          None,         \* no client, no descriptor
          Fds,          \* the descriptors the server has for connections
          MaxMsgs,      \* bound: messages a client sends
          Lengths,      \* bound: the numbers of bytes a message may have
          MaxErrors,    \* bound: accept and pthread_create calls that fail
          Setups        \* the pairs <<presentation, split>> that are tried

ASSUME BoundsAssumption == /\ MaxMsgs \in Nat /\ Lengths \subseteq Nat
                           /\ MaxErrors \in Nat /\ IsFiniteSet(Clients)
                           /\ IsFiniteSet(Fds) /\ Fds = 1 .. Cardinality(Fds)
ASSUME NoneAssumption == None \notin Clients \cup Fds
ASSUME SetupsAssumption == Setups \subseteq BOOLEAN \X BOOLEAN

Threads == 1 .. Cardinality(Clients) + MaxErrors

VARIABLES presentation, \* which program: it ends on a failed call and does
                        \* not reverse its answers
          split,    \* TCP delivers any part of what was written, in this
                    \* execution; else each write arrives as a whole
          server,   \* where main is: "accept", "create" or "dead"
          connfd,   \* main's variable, which the threads read through arg
          who,      \* the client main has just accepted (history)
          made,     \* threads created
          errors,   \* calls that have failed
          backlog,  \* connections that wait for accept
          table,    \* the client behind each descriptor
          pc, fd, buf,  \* each thread: place, connfd, recv_buff
          mine,     \* the client each thread was created for (history)
          cl,       \* each client: "new", "type", "wait" or "left"
          up, down, \* the bytes under way to and from the server
          closed,   \* connections the server has closed
          rst,      \* connections the client's end has reset
          asked, replies, \* what each client has written and read (history)
          overtaken \* main has gone on to its next connection before a thread
                    \* it had created has read connfd (history)

mainVars == <<server, connfd, who, made, errors, backlog>>
threadVars == <<pc, fd, buf, mine>>
clientVars == <<cl, asked, replies>>
netVars == <<up, down, closed, rst>>
setup == <<presentation, split>>
vars == <<mainVars, table, threadVars, clientVars, netVars, setup, overtaken>>

Init == /\ \E s \in Setups : presentation = s[1] /\ split = s[2]
        /\ server = "accept" /\ connfd = None /\ who = None
        /\ made = 0 /\ errors = 0 /\ backlog = << >>
        /\ table = [f \in Fds |-> None]
        /\ pc = [t \in Threads |-> "none"]
        /\ fd = [t \in Threads |-> None]
        /\ buf = [t \in Threads |-> << >>]
        /\ mine = [t \in Threads |-> None]
        /\ cl = [c \in Clients |-> "new"]
        /\ up = [c \in Clients |-> << >>] /\ down = up
        /\ closed = [c \in Clients |-> FALSE] /\ rst = closed
        /\ asked = up /\ replies = up /\ overtaken = FALSE

\* The chunks a read may return of the bytes b under way.
Chunks(b) == {SubSeq(b, 1, n) : n \in IF split THEN 1 .. Len(b) ELSE {Len(b)} \ {0}}
Rest(b, chunk) == SubSeq(b, Len(chunk) + 1, Len(b))

-----------------------------------------------------------------------------
(* main of the server *)

Free == {f \in Fds : table[f] = None}

Dies == server' = "dead" /\ UNCHANGED <<connfd, who, made, backlog>>

\* accept: the kernel takes the lowest free descriptor.
Accept ==
  /\ server = "accept" /\ backlog # << >> /\ Free # {}
  /\ connfd' = CHOOSE f \in Free : \A g \in Free : f <= g
  /\ who' = Head(backlog) /\ backlog' = Tail(backlog)
  /\ table' = [table EXCEPT ![connfd'] = who']
  /\ server' = "create"
  /\ UNCHANGED <<made, errors, threadVars, clientVars, netVars>>

\* server.c does not look at accept's result: it starts a thread on -1.
AcceptFails ==
  /\ server = "accept"
  /\ errors < MaxErrors /\ errors' = errors + 1
  /\ IF presentation THEN Dies
                    ELSE /\ connfd' = None /\ who' = None /\ server' = "create"
                         /\ UNCHANGED <<made, backlog>>
  /\ UNCHANGED <<table, threadVars, clientVars, netVars>>

CreateThread ==
  /\ server = "create" /\ server' = "accept"
  /\ made' = made + 1
  /\ pc' = [pc EXCEPT ![made'] = "begin"]
  /\ mine' = [mine EXCEPT ![made'] = who]
  /\ UNCHANGED <<connfd, who, errors, backlog, table, fd, buf, clientVars, netVars>>

\* close(f), by main or by a thread.
CloseFd(f) ==
  IF f = None \/ table[f] = None THEN UNCHANGED <<table, closed>>
  ELSE /\ table' = [table EXCEPT ![f] = None]
       /\ closed' = [closed EXCEPT ![table[f]] = TRUE]

\* Mutated CreateFails: the connection is not closed.
CreateFailsLeaking ==
  /\ server = "create"
  /\ errors < MaxErrors /\ errors' = errors + 1
  /\ IF presentation THEN Dies
                    ELSE server' = "accept" /\ UNCHANGED <<connfd, who, made, backlog>>
  /\ UNCHANGED <<table, closed, threadVars, clientVars, up, down, rst>>

CreateFails ==
  /\ server = "create"
  /\ errors < MaxErrors /\ errors' = errors + 1
  /\ IF presentation
     THEN Dies /\ UNCHANGED <<table, closed>>
     ELSE /\ CloseFd(connfd) /\ server' = "accept"
          /\ UNCHANGED <<connfd, who, made, backlog>>
  /\ UNCHANGED <<threadVars, clientVars, up, down, rst>>

\* Nothing makes main wait until the thread has copied connfd.
Overtakes == overtaken' = (overtaken \/ \E t \in Threads : pc[t] = "begin")

Main == /\ \/ (Accept \/ AcceptFails) /\ Overtakes
           \/ (CreateThread \/ CreateFails) /\ UNCHANGED overtaken
        /\ UNCHANGED setup

-----------------------------------------------------------------------------
(* handle_client *)

Goto(t, from, to) ==
  server # "dead" /\ pc[t] = from /\ pc' = [pc EXCEPT ![t] = to]

\* The client at the other end of the thread's descriptor, if it is open.
Peer(t) == IF fd[t] = None THEN None ELSE table[fd[t]]

Begin(t) == /\ Goto(t, "begin", "read")
            /\ fd' = [fd EXCEPT ![t] = connfd]
            /\ UNCHANGED <<mainVars, table, buf, mine, clientVars, netVars>>

\* Mutated Read: the thread goes back to *arg, main's connfd, for its descriptor.
ReadThroughArg(t) ==
  /\ Goto(t, "read", "write")
  /\ connfd # None /\ table[connfd] # None
  /\ fd' = [fd EXCEPT ![t] = connfd]
  /\ \E chunk \in Chunks(up[table[connfd]]) :
       /\ buf' = [buf EXCEPT ![t] = chunk]
       /\ up' = [up EXCEPT ![table[connfd]] = Rest(@, chunk)]
  /\ UNCHANGED <<mainVars, table, mine, clientVars, down, closed, rst>>

\* Mutated Read: what the buffer does not take is dropped, as of a datagram.
ReadAsDatagram(t) ==
  /\ Goto(t, "read", "write")
  /\ Peer(t) # None
  /\ \E chunk \in Chunks(up[Peer(t)]) : buf' = [buf EXCEPT ![t] = chunk]
  /\ up' = [up EXCEPT ![Peer(t)] = << >>]
  /\ UNCHANGED <<mainVars, table, fd, mine, clientVars, down, closed, rst>>

Read(t) ==
  /\ Goto(t, "read", "write")
  /\ Peer(t) # None
  /\ \E chunk \in Chunks(up[Peer(t)]) :
       /\ buf' = [buf EXCEPT ![t] = chunk]
       /\ up' = [up EXCEPT ![Peer(t)] = Rest(@, chunk)]
  /\ UNCHANGED <<mainVars, table, fd, mine, clientVars, down, closed, rst>>

\* read returns 0 or -1: the client has left or the descriptor is no longer open.
ReadEnds(t) ==
  /\ Goto(t, "read", "close")
  /\ Peer(t) # None => cl[Peer(t)] = "left" /\ up[Peer(t)] = << >>
  /\ UNCHANGED <<mainVars, table, fd, buf, mine, clientVars, netVars>>

Answer(chunk) == IF presentation THEN chunk ELSE Reverse(chunk)
Send(t) == down' = [down EXCEPT ![Peer(t)] = @ \o Answer(buf[t])]

Write(t) ==
  /\ Goto(t, "write", "read")
  /\ buf' = [buf EXCEPT ![t] = << >>]
  /\ IF Peer(t) = None THEN UNCHANGED <<down, rst>>
     ELSE IF cl[Peer(t)] = "left"
          THEN rst' = [rst EXCEPT ![Peer(t)] = TRUE] /\ UNCHANGED down
          ELSE Send(t) /\ UNCHANGED rst
  /\ (presentation => Peer(t) # None)
  /\ UNCHANGED <<mainVars, table, fd, mine, clientVars, up, closed>>

\* SIGPIPE, or exit after a failed send: the whole server ends.
WriteKills(t) ==
  /\ server # "dead" /\ pc[t] = "write"
  /\ IF Peer(t) = None THEN presentation ELSE rst[Peer(t)]
  /\ Dies
  /\ UNCHANGED <<errors, table, threadVars, clientVars, netVars>>

\* Mutated Close: the descriptor stays open.
CloseForgotten(t) ==
  /\ Goto(t, "close", "done")
  /\ UNCHANGED <<table, closed, mainVars, fd, buf, mine, clientVars, up, down, rst>>

Close(t) ==
  /\ Goto(t, "close", "done")
  /\ CloseFd(fd[t])
  /\ UNCHANGED <<mainVars, fd, buf, mine, clientVars, up, down, rst>>

Thread(t) == /\ \/ Begin(t) \/ Read(t) \/ ReadEnds(t)
                \/ Write(t) \/ WriteKills(t) \/ Close(t)
             /\ UNCHANGED <<setup, overtaken>>

-----------------------------------------------------------------------------
(* The clients *)

ServerGone(c) == server = "dead" \/ closed[c]

Connect(c) ==
  /\ cl[c] = "new" /\ server # "dead"
  /\ cl' = [cl EXCEPT ![c] = "type"]
  /\ backlog' = Append(backlog, c)
  /\ UNCHANGED <<server, connfd, who, made, errors, table, threadVars,
                 asked, replies, netVars>>

ConnectFails(c) == /\ cl[c] = "new" /\ server = "dead"
                   /\ cl' = [cl EXCEPT ![c] = "left"]
                   /\ UNCHANGED <<mainVars, table, threadVars, asked, replies, netVars>>

\* A message of n bytes; each byte is named by its client and its number.
Message(c, n) ==
  LET sent == Len(FlattenSeq(asked[c])) IN [k \in 1 .. n |-> <<c, sent + k>>]

\* What fgets has left in the buffer, whatever fgets returned: a line, at the
\* end of the input the line before once more, and no byte at all when there has
\* been no line or it begins with a NUL.
WriteMessage(c) ==
  /\ cl[c] = "type" /\ Len(asked[c]) < MaxMsgs
  /\ cl' = [cl EXCEPT ![c] = "wait"]
  /\ \E n \in Lengths :
       /\ asked' = [asked EXCEPT ![c] = Append(@, Message(c, n))]
       /\ up' = IF ServerGone(c) THEN up ELSE [up EXCEPT ![c] = @ \o Message(c, n)]
  /\ UNCHANGED <<mainVars, table, threadVars, replies, down, closed, rst>>

\* Mutated Receive: the client may type on before the answer is there.
ReceiveOrTypeOn(c) ==
  /\ cl[c] = "wait"
  /\ cl' = [cl EXCEPT ![c] = "type"]
  /\ \/ \E chunk \in Chunks(down[c]) :
          /\ replies' = [replies EXCEPT ![c] = Append(@, chunk)]
          /\ down' = [down EXCEPT ![c] = Rest(@, chunk)]
     \/ down[c] = << >> /\ UNCHANGED <<replies, down>>
  /\ UNCHANGED <<mainVars, table, threadVars, asked, up, closed, rst>>

\* One read takes what has arrived as the answer.  client.c stops when there is
\* nothing more to come; the presentation's client only when the connection has
\* been reset, else it asks for the next message.
Receive(c) ==
  /\ cl[c] = "wait"
  /\ \/ /\ cl' = [cl EXCEPT ![c] = "type"]
        /\ \E chunk \in Chunks(down[c]) :
             /\ replies' = [replies EXCEPT ![c] = Append(@, chunk)]
             /\ down' = [down EXCEPT ![c] = Rest(@, chunk)]
     \/ /\ down[c] = << >> /\ ServerGone(c)
        /\ \E place \in {"left"} \cup (IF presentation THEN {"type"} ELSE {}) :
             cl' = [cl EXCEPT ![c] = place]
        /\ UNCHANGED <<replies, down>>
  /\ UNCHANGED <<mainVars, table, threadVars, asked, up, closed, rst>>

\* The client is killed; an answer it has not read makes its kernel reset.
Leave(c) == /\ cl[c] \in {"type", "wait"}
            /\ cl' = [cl EXCEPT ![c] = "left"]
            /\ rst' = [rst EXCEPT ![c] = down[c] # << >>]
            /\ UNCHANGED <<mainVars, table, threadVars, asked, replies, up, down, closed>>

Client(c) == /\ Connect(c) \/ ConnectFails(c) \/ WriteMessage(c) \/ Receive(c) \/ Leave(c)
             /\ UNCHANGED <<setup, overtaken>>

\* All clients have left and nothing is under way, or the server is dead.
Idle == /\ \A c \in Clients : cl[c] = "left"
        /\ \/ server = "dead"
           \/ /\ server = "accept" /\ backlog = << >>
              /\ \A t \in Threads : pc[t] \in {"none", "done"}
        /\ UNCHANGED vars

Next == \/ Main \/ Idle
        \/ \E t \in Threads : Thread(t)
        \/ \E c \in Clients : Client(c)

Spec == Init /\ [][Next]_vars

\* The kernel runs the server's threads and a client that waits; nobody has
\* to connect, to type or to leave.
FairSpec == /\ Spec
            /\ WF_vars(Main)
            /\ \A t \in Threads : WF_vars(Thread(t))
            /\ \A c \in Clients : WF_vars(Receive(c) /\ UNCHANGED <<setup, overtaken>>)

-----------------------------------------------------------------------------
(* Properties *)

\* "Create a new thread to handle the client": a thread serves the client it
\* was created for, on a descriptor nobody else has closed or reused.
ServesOwn == \A t \in Threads : pc[t] \in {"read", "write", "close"} => Peer(t) = mine[t]

\* Only main that goes on to its next connection before a new thread has read
\* connfd makes it serve another client: nothing that comes later does, no close,
\* no reuse of a descriptor and no failing call.
OwnClient == ~ overtaken => ServesOwn

\* When nothing is split, the k-th answer a client of server.c reads is the answer
\* to its k-th message, whatever the other clients and their threads do, until
\* main overtakes a thread.
ReplyMatches == ~ split /\ ~ presentation /\ ~ overtaken =>
  \A c \in Clients : \A k \in DOMAIN replies[c] : replies[c][k] = Answer(asked[c][k])

\* When nothing is split, a client that leaves at any moment never takes
\* server.c down with it, and no failing call does, until main overtakes a thread.
ServerStays == ~ split /\ ~ presentation /\ ~ overtaken => server # "dead"

\* What the threads have read for client c and not yet written.
Held(c) == FlattenSeq([t \in Threads |-> IF Peer(t) = c THEN buf[t] ELSE << >>])

\* Until the server closes its connection or main overtakes a thread, every byte
\* a client has written is, once and in order, in an answer, under way or in its
\* thread's buffer (the presentation's server, which sends back what it reads).
StreamKept == presentation /\ ~ overtaken => \A c \in Clients :
  cl[c] \in {"type", "wait"} /\ ~ ServerGone(c) =>
    FlattenSeq(replies[c]) \o down[c] \o Held(c) \o up[c] = FlattenSeq(asked[c])

\* The answers to what client c has written, and those it has read: byte by byte
\* from the presentation's server, message by message from server.c when nothing
\* is split.  When something is, server.c reverses what it happens to read.
DueTo(c) == IF presentation THEN FlattenSeq(asked[c])
            ELSE IF split THEN << >> ELSE [k \in DOMAIN asked[c] |-> Answer(asked[c][k])]
GivenTo(c) == IF presentation THEN FlattenSeq(replies[c])
              ELSE IF split THEN << >> ELSE replies[c]

Service == INSTANCE EchoService WITH
             Customers <- Clients, broken <- overtaken,
             due <- [c \in Clients |-> DueTo(c)], given <- [c \in Clients |-> GivenTo(c)]

\* To its clients the server with its threads is one service each, until main
\* overtakes a thread: a client reads the answers to what it has written, in
\* order, none twice and none of anybody else, whatever the others do, however
\* TCP cuts the bytes, whoever leaves and whichever call fails.
ServiceSpec == Service!Spec

\* No descriptor leaks until main overtakes a thread: an open one has a thread,
\* or main still holds it.
NoLeak == server # "dead" /\ ~ overtaken => \A f \in Fds : table[f] # None =>
  \/ server = "create" /\ connfd = f
  \/ \E t \in Threads : mine[t] = table[f] /\ pc[t] \in {"begin", "read", "write", "close"}

\* Client c has written bytes whose answers it has not read.
Expects(c) == Len(FlattenSeq(replies[c])) < Len(FlattenSeq(asked[c]))

\* A client that waits for an answer to what it has written gets some of it, or
\* learns that the server has closed its connection, or is killed, unless main
\* overtakes a thread.  (One that has written no byte, client.c:71, may wait for ever.)
Answered == \A c \in Clients :
  cl[c] = "wait" /\ Expects(c) ~> cl[c] # "wait" \/ overtaken
=============================================================================
