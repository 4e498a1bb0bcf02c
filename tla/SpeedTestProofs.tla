-------------------------- MODULE SpeedTestProofs --------------------------
(***************************************************************************)
(* Proofs about Mini_project.  First SpeedTestEngine, for every number of  *)
(* slots, threads and chunks, and every pair of sleeps of which usleep's   *)
(* is the shorter; then SpeedTestMain, for every length of the response    *)
(* and of the buffer, every number of servers that are kept and every list *)
(* of servers: the fetches, the table, and the program around them.        *)
(***************************************************************************)
EXTENDS SpeedTestEngine, SpeedTestMain, FiniteSetTheorems, SequenceTheorems,
        WellFoundedInduction, TLAPS

-----------------------------------------------------------------------------
(* SpeedTestEngine *)

\* Workers are created in order, and a live one has a slot marked running
\* that it shares with no other.
SlotInv ==
  /\ \A t \in Workers : pc[t] = "none" <=> t > spawned
  /\ \A t \in Workers : pc[t] # "none" => home[t] \in Slots
  /\ \A t \in Workers : Live(t) => running[home[t]] = 1
  /\ main = "write" => slot \in Slots

\* The holder of the mutex is the worker between its load and its store.
MutexInv ==
  /\ \A t \in Workers : pc[t] = "add" <=> mutex = t
  /\ \A t \in Workers : pc[t] = "add" => reg[t] = total[kind[t]]

\* Uploads begin after the downloads; a live worker of the current phase
\* finds its own request in its slot.
RequestInv == \A t \in Workers :
  /\ kind[t] = "upload" => phase = "upload"
  /\ Live(t) /\ kind[t] = phase => request[home[t]] = phase
  /\ sent[t] # "none" => Live(t)

\* While main sleeps, the download's statistics thread has ended or will
\* look at the flag before main wakes up.
StatsInv ==
  /\ phase = "download" => stats["upload"] = "none"
  /\ phase = "download" /\ main # "start" => stats["download"] # "none"
  /\ phase = "upload" => stats["download"] = "done"
  /\ main = "settle" =>
       /\ phase = "download" /\ stop = 1
       /\ \/ stats["download"] = "done"
          \/ stats["download"] = "print" /\ mainWait = SettleTicks
          \/ stats["download"] = "sleep" /\ statsWait["download"] < mainWait

\* What a worker may have counted since the flag was set, by its place.
Full(t) == IF kind[t] = "download" THEN 1 ELSE 2
LateBound(t) ==
  IF pc[t] \in {"check", "close"} THEN Full(t)
  ELSE IF pc[t] \in {"lock", "add"} THEN (IF kind[t] = "upload" /\ left[t] < Chunks THEN 1 ELSE 0)
  ELSE IF pc[t] = "send" THEN (IF left[t] = Chunks THEN 1 ELSE 0)
  ELSE 0
LateInv == \A t \in Workers :
  /\ stop = 0 => late[t] = 0
  /\ late[t] <= LateBound(t)
  /\ pc[t] = "select" => kind[t] = "download"
  /\ pc[t] \in {"send", "reply"} => kind[t] = "upload"
  /\ pc[t] \in {"none", "connect", "request"} => left[t] = Chunks
  /\ pc[t] = "send" => left[t] > 0

Inv == /\ TypeOK /\ SlotInv /\ MutexInv /\ RequestInv /\ StatsInv /\ LateInv
       /\ SlotExclusive /\ SlotOwned /\ TotalsExact /\ RequestOfPhase

LEMMA InitInv == Init => Inv
<1> SUFFICES ASSUME Init PROVE Inv
  OBVIOUS
<1> USE CountsAssumption, TicksAssumption DEF Init
<1>1. TypeOK
  BY DEF TypeOK, Slots, Workers, Phases, NoWorker
<1>2. SlotInv /\ MutexInv /\ RequestInv
  BY DEF SlotInv, MutexInv, RequestInv, Slots, Workers, NoWorker, Live
<1>3. StatsInv
  BY DEF StatsInv, Phases
<1>4. LateInv
  BY DEF LateInv, LateBound
<1>5. SlotExclusive /\ SlotOwned /\ TotalsExact /\ RequestOfPhase
  BY DEF SlotExclusive, SlotOwned, TotalsExact, RequestOfPhase, Live
<1> QED BY <1>1, <1>2, <1>3, <1>4, <1>5 DEF Inv

-----------------------------------------------------------------------------
(* Steps of the main thread *)

\* A step of main that leaves the workers and the slots alone.
LEMMA WorkersUntouched ==
  ASSUME Inv, UNCHANGED <<slotVars, pc, left, sent, reg, mutex, total, counted>>
  PROVE  /\ MutexInv' /\ TotalsExact' /\ SlotExclusive' /\ SlotOwned'
         /\ phase' = phase => RequestInv' /\ RequestOfPhase'
         /\ stop' = stop /\ late' = late => LateInv'
BY DEF Inv, slotVars, MutexInv, TotalsExact, SlotExclusive, SlotOwned, RequestInv,
       RequestOfPhase, LateInv, LateBound, Full, Live

\* Filling a slot that is still in use rewrites what it holds.
LEMMA RefillStep ==
  ASSUME Inv, FillSlot, running[slot] # 0
  PROVE  Inv'
<1> USE CountsAssumption, TicksAssumption DEF Inv, FillSlot
<1>0. slot \in Slots /\ UNCHANGED <<running, spawned, kind, home, pc>>
  BY DEF SlotInv
<1>1. TypeOK'
  BY SMTT(30), <1>0 DEF TypeOK, timeVars, Slots
<1>2. SlotInv' /\ SlotExclusive' /\ SlotOwned'
  BY <1>0 DEF SlotInv, SlotExclusive, SlotOwned, Live
<1>3. StatsInv'
  BY DEF StatsInv, timeVars
<1>4. RequestInv' /\ RequestOfPhase'
  BY <1>0 DEF RequestInv, RequestOfPhase, Live, SlotInv, TypeOK
<1>5. MutexInv' /\ TotalsExact' /\ LateInv'
  BY <1>0 DEF MutexInv, TotalsExact, LateInv, LateBound, Full
<1> QED BY <1>1, <1>2, <1>3, <1>4, <1>5

\* Filling a free slot marks it, and creates its worker if the system does.
LEMMA SpawnStep ==
  ASSUME Inv, FillSlot, running[slot] = 0
  PROVE  Inv'
<1> USE CountsAssumption, TicksAssumption DEF Inv, FillSlot
<1>n. PICK n : n = spawned + 1
  OBVIOUS
<1>0. /\ slot \in Slots /\ phase \in Phases
      /\ running' = [running EXCEPT ![slot] = 1]
      /\ request' = [request EXCEPT ![slot] = phase]
      /\ \A t \in Workers : Live(t) => home[t] # slot
  BY DEF SlotInv, TypeOK
<1>1. StatsInv'
  BY DEF StatsInv, timeVars
<1>2. CASE spawned < ThreadLimit
  <2>0. /\ n \in Workers /\ pc[n] = "none"
        /\ spawned' = n
        /\ kind' = [kind EXCEPT ![n] = phase]
        /\ home' = [home EXCEPT ![n] = slot]
        /\ pc' = [pc EXCEPT ![n] = "connect"]
    <3>1. spawned \in Nat /\ n \in Workers /\ n > spawned
      BY <1>n, <1>2 DEF Workers, TypeOK
    <3>2. pc[n] = "none"
      BY <3>1 DEF SlotInv
    <3>3. Spawn(slot)
      OBVIOUS
    <3> QED BY <1>n, <1>2, <3>1, <3>2, <3>3 DEF Spawn
  <2>1. TypeOK'
    <3>1. pc' \in [Workers -> {"none", "connect", "request", "select", "lock", "add",
                               "check", "send", "reply", "close", "done"}]
      BY <2>0 DEF TypeOK
    <3>2. kind' \in [Workers -> Phases] /\ home' \in [Workers -> Slots \cup {0}]
      BY <1>0, <2>0 DEF TypeOK
    <3>3. /\ running' \in [Slots -> {0, 1}]
          /\ request' \in [Slots -> Phases \cup {"none", "mixed"}]
      BY <1>0 DEF TypeOK
    <3>4. spawned' \in 0 .. ThreadLimit /\ slot' \in 1 .. ThreadNum + 1
      BY <1>0, <2>0, <1>n DEF TypeOK, Workers, Slots
    <3> QED BY <3>1, <3>2, <3>3, <3>4 DEF TypeOK, timeVars
  <2>2. SlotInv'
    <3>1. \A t \in Workers : pc'[t] = "none" <=> t > spawned'
      <4> TAKE t \in Workers
      <4>1. t \in Int /\ spawned \in Int
        BY DEF Workers, TypeOK
      <4>2. pc'[t] = IF t = n THEN "connect" ELSE pc[t]
        BY <2>0 DEF TypeOK
      <4>3. pc[t] = "none" <=> t > spawned
        BY DEF SlotInv
      <4> QED BY <1>n, <2>0, <4>1, <4>2, <4>3
    <3>2. \A t \in Workers : pc'[t] # "none" => home'[t] \in Slots
      BY <1>0, <2>0 DEF SlotInv, TypeOK
    <3>3. \A t \in Workers : Live(t)' => running'[home'[t]] = 1
      BY <1>0, <2>0 DEF SlotInv, TypeOK, Live
    <3> QED BY <3>1, <3>2, <3>3 DEF SlotInv
  <2>3. SlotExclusive'
    BY <1>0, <2>0 DEF SlotExclusive, Live, TypeOK
  <2>4. SlotOwned'
    <3> SUFFICES ASSUME NEW s \in Slots, running'[s] = 1
                 PROVE  \E t \in Workers : Live(t)' /\ home'[t] = s
      BY DEF SlotOwned
    <3>1. CASE s = slot
      BY <2>0, <3>1 DEF Live, TypeOK
    <3>2. CASE s # slot
      <4>1. PICK t \in Workers : Live(t) /\ home[t] = s
        BY <1>0, <1>2, <3>2 DEF SlotOwned, TypeOK
      <4> QED BY <2>0, <4>1 DEF Live, TypeOK
    <3> QED BY <3>1, <3>2
  <2>5. RequestInv' /\ RequestOfPhase'
    BY <1>0, <2>0 DEF RequestInv, RequestOfPhase, Live, SlotInv, TypeOK
  <2>6. MutexInv' /\ TotalsExact'
    BY <2>0 DEF MutexInv, TotalsExact, TypeOK
  <2>7. LateInv'
    BY <2>0 DEF LateInv, LateBound, Full, TypeOK
  <2> QED BY <1>1, <2>1, <2>2, <2>3, <2>4, <2>5, <2>6, <2>7
<1>3. CASE ~ (spawned < ThreadLimit)
  <2>0. UNCHANGED <<spawned, kind, home, pc>>
    BY <1>0, <1>3 DEF Spawn
  <2>1. TypeOK'
    BY SMTT(30), <1>0, <2>0 DEF TypeOK, timeVars, Slots
  <2>2. SlotInv' /\ SlotExclusive' /\ SlotOwned'
    BY <1>0, <1>3, <2>0 DEF SlotInv, SlotExclusive, SlotOwned, Live, TypeOK
  <2>4. RequestInv' /\ RequestOfPhase'
    BY <1>0, <2>0 DEF RequestInv, RequestOfPhase, Live, SlotInv, TypeOK
  <2>5. MutexInv' /\ TotalsExact' /\ LateInv'
    BY <2>0 DEF MutexInv, TotalsExact, LateInv, LateBound, Full
  <2> QED BY <1>1, <2>1, <2>2, <2>4, <2>5
<1> QED BY <1>2, <1>3

LEMMA MainStep == Inv /\ Main => Inv'
<1> SUFFICES ASSUME Inv, Main PROVE Inv'
  OBVIOUS
<1> USE CountsAssumption, TicksAssumption DEF Inv
<1>1. CASE StartStats
  <2> USE <1>1 DEF StartStats
  <2>1. TypeOK'
    BY DEF TypeOK, slotVars, workVars
  <2>2. SlotInv'
    BY DEF SlotInv, slotVars, workVars, Live
  <2>3. StatsInv'
    BY DEF StatsInv, TypeOK, Phases
  <2>4. /\ MutexInv' /\ TotalsExact' /\ SlotExclusive' /\ SlotOwned'
        /\ RequestInv' /\ RequestOfPhase' /\ LateInv'
    BY WorkersUntouched DEF workVars
  <2> QED BY <2>1, <2>2, <2>3, <2>4
<1>2. ASSUME NEW passed \in BOOLEAN, ReadClock(passed) PROVE Inv'
  <2> USE <1>2 DEF ReadClock
  <2>1. TypeOK'
    BY DEF TypeOK, slotVars, workVars, timeVars
  <2>2. SlotInv'
    BY DEF SlotInv, slotVars, workVars, Live
  <2>3. StatsInv'
    BY DEF StatsInv, timeVars
  <2>4. /\ MutexInv' /\ TotalsExact' /\ SlotExclusive' /\ SlotOwned'
        /\ RequestInv' /\ RequestOfPhase'
    BY WorkersUntouched DEF workVars
  <2>5. LateInv'
    BY DEF LateInv, LateBound, Full, slotVars, workVars, TypeOK
  <2> QED BY <2>1, <2>2, <2>3, <2>4, <2>5
<1>3. CASE WriteRequest
  <2> USE <1>3 DEF WriteRequest
  <2>1. TypeOK'
    BY ZenonT(30) DEF TypeOK, workVars, timeVars, Slots
  <2>2. SlotInv'
    BY DEF SlotInv, workVars, Live, TypeOK, Slots
  <2>3. StatsInv'
    BY DEF StatsInv, timeVars
  <2>4. RequestInv' /\ RequestOfPhase'
    BY DEF RequestInv, RequestOfPhase, workVars, Live, SlotInv, TypeOK
  <2>5. MutexInv' /\ TotalsExact' /\ SlotExclusive' /\ SlotOwned' /\ LateInv'
    BY DEF MutexInv, TotalsExact, SlotExclusive, SlotOwned, LateInv, LateBound, Full,
           workVars, Live
  <2> QED BY <2>1, <2>2, <2>3, <2>4, <2>5
<1>4. CASE FillSlot
  BY <1>4, RefillStep, SpawnStep
<1>5. CASE EndOfRound
  <2> USE <1>5 DEF EndOfRound
  <2>1. TypeOK'
    BY DEF TypeOK, slotVars, workVars, timeVars
  <2>2. SlotInv'
    BY DEF SlotInv, slotVars, workVars, Live
  <2>3. StatsInv'
    BY DEF StatsInv, timeVars, TypeOK, Phases
  <2>4. /\ MutexInv' /\ TotalsExact' /\ SlotExclusive' /\ SlotOwned'
        /\ RequestInv' /\ RequestOfPhase' /\ LateInv'
    BY WorkersUntouched DEF workVars
  <2> QED BY <2>1, <2>2, <2>3, <2>4
<1>6. CASE StopAllThread
  <2> USE <1>6 DEF StopAllThread
  <2>0. phase = "download"
    BY DEF StatsInv
  <2>1. TypeOK'
    BY DEF TypeOK, slotVars, timeVars, Phases
  <2>2. SlotInv'
    BY DEF SlotInv, slotVars, Live
  <2>3. StatsInv'
    BY DEF StatsInv, timeVars, TypeOK, Phases
  <2>4. RequestInv' /\ RequestOfPhase'
    BY <2>0 DEF RequestInv, RequestOfPhase, slotVars, TypeOK, Phases, Live
  <2>5. MutexInv' /\ TotalsExact' /\ SlotExclusive' /\ SlotOwned'
    BY WorkersUntouched
  <2>6. LateInv'
    BY DEF LateInv, LateBound, Full, slotVars, TypeOK
  <2> QED BY <2>1, <2>2, <2>3, <2>4, <2>5, <2>6
<1> QED BY <1>1, <1>2, <1>3, <1>4, <1>5, <1>6 DEF Main

-----------------------------------------------------------------------------
(* Steps of the workers *)

\* A step in which worker t goes on to another place where it is alive.
Moves(t) == /\ pc[t] \notin {"none", "done"}
            /\ \E to : to \notin {"none", "done"} /\ pc' = [pc EXCEPT ![t] = to]
            /\ UNCHANGED <<mainVars, stop, timeVars, slotVars>>

\* Such a step leaves the slots and the statistics threads as they were.
LEMMA MoveStep ==
  ASSUME Inv, NEW t \in Workers, Moves(t)
  PROVE  /\ SlotInv' /\ SlotExclusive' /\ SlotOwned' /\ StatsInv'
         /\ sent' = sent => RequestInv' /\ RequestOfPhase'
<1>1. \A u \in Workers : Live(u)' = Live(u) /\ (pc'[u] = "none" <=> pc[u] = "none")
  BY DEF Moves, Inv, TypeOK, Live
<1>2. SlotInv' /\ SlotExclusive' /\ SlotOwned'
  BY <1>1 DEF Moves, Inv, SlotInv, SlotExclusive, SlotOwned, slotVars, mainVars
<1>3. StatsInv'
  BY DEF Moves, Inv, StatsInv, mainVars, timeVars
<1>4. sent' = sent => RequestInv' /\ RequestOfPhase'
  BY <1>1 DEF Moves, Inv, RequestInv, RequestOfPhase, slotVars, mainVars
<1> QED BY <1>2, <1>3, <1>4

\* A step that does not count keeps the totals, if it takes no lock.
LEMMA NoCount ==
  ASSUME Inv, NEW t \in Workers, NEW to, pc[t] # "add", to # "add",
         pc' = [pc EXCEPT ![t] = to],
         UNCHANGED <<kind, reg, mutex, total, counted>>
  PROVE  MutexInv' /\ TotalsExact'
BY DEF Inv, MutexInv, TotalsExact, TypeOK

LEMMA WorkerStep ==
  ASSUME Inv, NEW t \in Workers, Worker(t)
  PROVE  Inv'
<1> USE CountsAssumption, TicksAssumption DEF Inv
<1>1. CASE Connect(t)
  <2> USE <1>1 DEF Connect, Goto
  <2>1. Moves(t) /\ sent' = sent
    BY DEF Moves, slotVars
  <2>2. TypeOK'
    BY DEF TypeOK, mainVars, timeVars
  <2>3. MutexInv' /\ TotalsExact'
    BY NoCount
  <2>4. LateInv'
    BY DEF LateInv, LateBound, Full, TypeOK
  <2> QED BY <2>1, <2>2, <2>3, <2>4, MoveStep
<1>2. CASE SendRequest(t)
  <2> USE <1>2 DEF SendRequest, Goto
  <2>1. Moves(t)
    BY DEF Moves, slotVars
  <2>2. TypeOK'
    BY DEF TypeOK, mainVars, timeVars, SlotInv
  <2>3. MutexInv' /\ TotalsExact'
    BY NoCount
  <2>4. LateInv'
    BY DEF LateInv, LateBound, Full, TypeOK, Phases
  <2>5. RequestInv' /\ RequestOfPhase'
    BY DEF RequestInv, RequestOfPhase, Live, TypeOK, mainVars, Phases
  <2> QED BY <2>1, <2>2, <2>3, <2>4, <2>5, MoveStep
<1>3. CASE Receive(t)
  <2> USE <1>3 DEF Receive, Goto
  <2>1. Moves(t) /\ sent' = sent
    BY DEF Moves, slotVars
  <2>2. TypeOK'
    BY DEF TypeOK, mainVars, timeVars
  <2>3. MutexInv' /\ TotalsExact'
    BY NoCount
  <2>4. LateInv'
    BY DEF LateInv, LateBound, Full, TypeOK
  <2> QED BY <2>1, <2>2, <2>3, <2>4, MoveStep
<1>4. CASE ReceiveLate(t)
  <2> USE <1>4 DEF ReceiveLate, Goto
  <2>1. Moves(t) /\ sent' = sent
    BY DEF Moves, slotVars
  <2>2. TypeOK'
    BY DEF TypeOK, mainVars, timeVars
  <2>3. MutexInv' /\ TotalsExact'
    BY NoCount
  <2>4. LateInv'
    BY DEF LateInv, LateBound, Full, TypeOK
  <2> QED BY <2>1, <2>2, <2>3, <2>4, MoveStep
<1>5. CASE LockTotal(t)
  <2> USE <1>5 DEF LockTotal, Goto
  <2>1. Moves(t) /\ sent' = sent
    BY DEF Moves, slotVars
  <2>2. TypeOK'
    BY DEF TypeOK, mainVars, timeVars
  <2>0. \A u \in Workers : u # NoWorker /\ pc[u] # "add"
    BY DEF MutexInv, NoWorker, Workers
  <2>3. MutexInv' /\ TotalsExact'
    BY <2>0 DEF MutexInv, TotalsExact, TypeOK
  <2>4. LateInv'
    BY DEF LateInv, LateBound, Full, TypeOK
  <2> QED BY <2>1, <2>2, <2>3, <2>4, MoveStep
<1>6. CASE AddToTotal(t)
  <2> USE <1>6 DEF AddToTotal, Goto
  <2>1. Moves(t) /\ sent' = sent
    BY DEF Moves, slotVars
  <2>0. reg[t] = total[kind[t]] /\ mutex = t /\ kind[t] \in Phases
    BY DEF MutexInv, TypeOK
  <2>2. TypeOK'
    BY DEF TypeOK, mainVars, timeVars
  <2>6. \A u \in Workers : u # NoWorker /\ (u # t => pc[u] # "add")
    BY <2>0 DEF MutexInv, NoWorker, Workers
  <2>3. MutexInv'
    BY <2>0, <2>6 DEF MutexInv, TypeOK
  <2>5. TotalsExact'
    BY <2>0 DEF TotalsExact, TypeOK
  <2>4. LateInv'
    BY DEF LateInv, LateBound, Full, TypeOK, Phases
  <2> QED BY <2>1, <2>2, <2>3, <2>4, <2>5, MoveStep
<1>7. CASE CheckStop(t)
  <2> USE <1>7 DEF CheckStop, Goto
  <2>1. Moves(t) /\ sent' = sent
    BY DEF Moves, slotVars
  <2>2. TypeOK'
    BY DEF TypeOK, mainVars, timeVars
  <2>3. MutexInv' /\ TotalsExact'
    BY NoCount
  <2>4. LateInv'
    BY DEF LateInv, LateBound, Full, TypeOK, Phases
  <2> QED BY <2>1, <2>2, <2>3, <2>4, MoveStep
<1>8. CASE SendBuffer(t)
  <2> USE <1>8 DEF SendBuffer, Goto
  <2>1. Moves(t) /\ sent' = sent
    BY DEF Moves, slotVars
  <2>0. left[t] \in 1 .. Chunks
    BY DEF TypeOK, LateInv
  <2>2. TypeOK'
    BY <2>0 DEF TypeOK, mainVars, timeVars
  <2>3. MutexInv' /\ TotalsExact'
    BY NoCount
  <2>4. LateInv'
    BY DEF LateInv, LateBound, Full, TypeOK, Phases
  <2> QED BY <2>1, <2>2, <2>3, <2>4, MoveStep
<1>9. CASE ReadReply(t)
  <2> USE <1>9 DEF ReadReply, Goto
  <2>1. Moves(t) /\ sent' = sent
    BY DEF Moves, slotVars
  <2>2. TypeOK'
    BY DEF TypeOK, mainVars, timeVars
  <2>3. MutexInv' /\ TotalsExact'
    BY NoCount
  <2>4. LateInv'
    BY DEF LateInv, LateBound, Full, TypeOK
  <2> QED BY <2>1, <2>2, <2>3, <2>4, MoveStep
<1>10. CASE Close(t)
  <2> USE <1>10 DEF Close, Goto
  <2>0. /\ home[t] \in Slots /\ Live(t) /\ ~ Live(t)'
        /\ \A u \in Workers \ {t} : Live(u)' = Live(u)
        /\ \A u \in Workers : pc'[u] = "none" <=> pc[u] = "none"
        /\ \A u \in Workers : pc'[u] = IF u = t THEN "done" ELSE pc[u]
    BY DEF TypeOK, Live, SlotInv
  <2>9. running' \in [Slots -> {0, 1}] /\ left' \in [Workers -> -1 .. Chunks]
    <3>1. left \in [Workers -> -1 .. Chunks] /\ Chunks \in -1 .. Chunks
      BY DEF TypeOK
    <3>2. running \in [Slots -> {0, 1}]
      BY DEF TypeOK
    <3> QED BY <3>1, <3>2
  <2>1. TypeOK'
    BY <2>9 DEF TypeOK, mainVars, timeVars
  <2>2. SlotInv'
    BY <2>0 DEF SlotInv, SlotExclusive, TypeOK, mainVars
  <2>3. SlotExclusive'
    BY <2>0 DEF SlotExclusive
  <2>4. SlotOwned'
    BY <2>0 DEF SlotOwned, TypeOK
  <2>5. StatsInv'
    BY DEF StatsInv, mainVars, timeVars
  <2>6. RequestInv' /\ RequestOfPhase'
    BY <2>0 DEF RequestInv, RequestOfPhase, TypeOK, mainVars
  <2>7. MutexInv' /\ TotalsExact'
    BY NoCount
  <2>8. LateInv'
    BY <2>0 DEF LateInv, LateBound, Full, TypeOK
  <2> QED BY <2>1, <2>2, <2>3, <2>4, <2>5, <2>6, <2>7, <2>8
<1> QED BY <1>1, <1>2, <1>3, <1>4, <1>5, <1>6, <1>7, <1>8, <1>9, <1>10 DEF Worker

-----------------------------------------------------------------------------
(* Steps of the statistics threads, and time *)

LEMMA StatsStep ==
  ASSUME Inv, NEW p \in Phases, Stats(p)
  PROVE  Inv'
<1> USE CountsAssumption, TicksAssumption DEF Inv
<1>1. /\ UNCHANGED <<mainVars, stop, slotVars, workVars>>
      /\ stats[p] \in {"print", "sleep"}
  BY DEF Stats, PrintSpeed, PollStop
<1>2. TypeOK'
  BY <1>1 DEF Stats, PrintSpeed, PollStop, TypeOK, mainVars, slotVars, workVars
<1>3. StatsInv'
  <2>1. CASE PrintSpeed(p)
    BY <2>1 DEF PrintSpeed, StatsInv, TypeOK, mainVars, Phases
  <2>2. CASE PollStop(p)
    BY <2>2 DEF PollStop, StatsInv, TypeOK, mainVars, Phases
  <2> QED BY <2>1, <2>2 DEF Stats
<1>4. SlotInv'
  BY <1>1 DEF SlotInv, Live, mainVars, slotVars, workVars
<1>5. /\ MutexInv' /\ TotalsExact' /\ SlotExclusive' /\ SlotOwned'
      /\ RequestInv' /\ RequestOfPhase' /\ LateInv'
  BY <1>1, WorkersUntouched DEF mainVars, workVars
<1> QED BY <1>2, <1>3, <1>4, <1>5

LEMMA TickStep == Inv /\ Tick => Inv'
<1> SUFFICES ASSUME Inv, Tick PROVE Inv'
  OBVIOUS
<1> USE CountsAssumption, TicksAssumption DEF Inv, Tick
<1>1. TypeOK'
  BY DEF TypeOK, slotVars, workVars, Decremented, Phases
<1>2. StatsInv'
  BY DEF StatsInv, TypeOK, Decremented, Phases
<1>3. SlotInv'
  BY DEF SlotInv, Live, slotVars, workVars
<1>4. /\ MutexInv' /\ TotalsExact' /\ SlotExclusive' /\ SlotOwned'
      /\ RequestInv' /\ RequestOfPhase' /\ LateInv'
  BY WorkersUntouched DEF workVars
<1> QED BY <1>1, <1>2, <1>3, <1>4

LEMMA InvInductive == Inv /\ [Next]_vars => Inv'
<1> SUFFICES ASSUME Inv, [Next]_vars PROVE Inv'
  OBVIOUS
<1>1. CASE Main
  BY <1>1, MainStep
<1>2. CASE Tick
  BY <1>2, TickStep
<1>3. CASE \E t \in Workers : Worker(t)
  BY <1>3, WorkerStep
<1>4. CASE \E p \in Phases : Stats(p)
  BY <1>4, StatsStep
<1>5. CASE UNCHANGED vars
  <2> USE <1>5 DEF vars, Inv, mainVars, slotVars, workVars, timeVars
  <2>1. TypeOK' /\ StatsInv'
    BY DEF TypeOK, StatsInv
  <2>2. SlotInv'
    BY DEF SlotInv, Live
  <2> QED BY <2>1, <2>2, WorkersUntouched
<1> QED BY <1>1, <1>2, <1>3, <1>4, <1>5 DEF Next, Exited

LEMMA Invariance == Spec => []Inv
BY InitInv, InvInductive, PTL DEF Spec

-----------------------------------------------------------------------------
(* Theorems *)

\* Every variable keeps its type.
THEOREM TypeCorrect == Spec => []TypeOK
<1>1. Inv => TypeOK
  BY DEF Inv
<1> QED BY <1>1, Invariance, PTL

\* A slot of thread[] never has two workers, whatever workers outlive the
\* download.
THEOREM SlotsAreExclusive == Spec => []SlotExclusive
<1>1. Inv => SlotExclusive
  BY DEF Inv
<1> QED BY <1>1, Invariance, PTL

\* No slot is lost before the system's limit on threads is reached.
THEOREM SlotsAreOwned == Spec => []SlotOwned
<1>1. Inv => SlotOwned
  BY DEF Inv
<1> QED BY <1>1, Invariance, PTL

\* The totals are what the workers have added.
THEOREM TotalsAreExact == Spec => []TotalsExact
<1>1. Inv => TotalsExact
  BY DEF Inv
<1> QED BY <1>1, Invariance, PTL

\* Workers ask for what their phase measures; only a download worker left
\* over from the download may ask for something else.
THEOREM RequestsFitPhase == Spec => []RequestOfPhase
<1>1. Inv => RequestOfPhase
  BY DEF Inv
<1> QED BY <1>1, Invariance, PTL

\* Because usleep(500000) is shorter than sleep(2), the two statistics
\* threads never run at the same time.
THEOREM StatsAreSerial == Spec => []StatsSerial
<1>1. Inv => StatsSerial
  BY DEF Inv, StatsInv, StatsSerial, TypeOK, Phases
<1> QED BY <1>1, Invariance, PTL

\* A worker counts at most one chunk (an upload: its header and a buffer)
\* after the flag is set.
THEOREM OvershootIsBounded == Spec => []OvershootBounded
<1>1. Inv => OvershootBounded
  BY DEF Inv, LateInv, LateBound, Full, OvershootBounded, TypeOK
<1> QED BY <1>1, Invariance, PTL

-----------------------------------------------------------------------------
(* The measurement that the engine is *)

\* A step after which everybody has the job it had.
LEMMA JobSame ==
  ASSUME \A t \in Workers : /\ Live(t)' <=> Live(t)
                            /\ Live(t) => home'[t] = home[t] /\ kind'[t] = kind[t]
  PROVE  Job' = Job
BY DEF Job

LEMMA JobMoves ==
  ASSUME Inv, NEW t \in Workers, NEW to, pc' = [pc EXCEPT ![t] = to], Live(t),
         to \notin {"none", "done"}, UNCHANGED <<home, kind>>
  PROVE  Job' = Job
<1>1. \A u \in Workers : Live(u)' <=> Live(u)
  BY DEF Live, Inv, TypeOK
<1> QED BY <1>1, JobSame

\* The job of a live worker is one, of its slot and its measurement.
LEMMA JobOf ==
  ASSUME Inv, NEW t \in Workers
  PROVE  /\ Live(t) => Job[t] = [lane |-> home[t], kind |-> kind[t]] /\ Job[t] # Meter!NoJob
         /\ ~ Live(t) => Job[t] = Meter!NoJob
BY DEF Job, Meter!NoJob, Inv, TypeOK, Phases

\* Creating a worker is the beginning of its job, on a slot nobody has.
LEMMA MeterBegin ==
  ASSUME Inv, FillSlot, running[slot] = 0, spawned < ThreadLimit
  PROVE  Meter!Next
<1>n. PICK n : n = spawned + 1
  OBVIOUS
<1>1. /\ n \in Workers /\ pc[n] = "none" /\ slot \in Slots /\ phase \in Phases
      /\ kind' = [kind EXCEPT ![n] = phase]
      /\ home' = [home EXCEPT ![n] = slot]
      /\ pc' = [pc EXCEPT ![n] = "connect"]
  <2>1. spawned \in Nat /\ n \in Workers /\ n > spawned
    BY <1>n, CountsAssumption DEF Workers, Inv, TypeOK
  <2>2. pc[n] = "none" /\ slot \in Slots /\ phase \in Phases
    BY <2>1 DEF Inv, SlotInv, TypeOK, FillSlot
  <2>3. Spawn(slot)
    BY DEF FillSlot
  <2> QED BY <1>n, <2>1, <2>2, <2>3 DEF Spawn
<1>2. \A t \in Workers : Live(t) => home[t] # slot
  BY DEF Inv, SlotInv
<1>3. /\ Stage # "over" /\ Stage' = Stage /\ Stage = phase /\ total' = total
  BY <1>1 DEF Stage, FillSlot, Phases
<1>4. Job[n] = Meter!NoJob /\ \A t \in Workers : Job[t] = Meter!NoJob \/ Job[t].lane # slot
  <2>1. ~ Live(n)
    BY <1>1 DEF Live
  <2>2. ASSUME NEW t \in Workers, Live(t) PROVE Job[t].lane # slot
    <3>1. Job[t] = [lane |-> home[t], kind |-> kind[t]] /\ home[t] # slot
      BY <1>2, <2>2, JobOf
    <3> QED BY <3>1
  <2> QED BY <1>1, <2>1, <2>2, JobOf
<1>5. Job' = [Job EXCEPT ![n] = [lane |-> slot, kind |-> phase]]
  <2>1. \A t \in Workers : Job'[t] = IF t = n THEN [lane |-> slot, kind |-> phase] ELSE Job[t]
    <3> TAKE t \in Workers
    <3>1. CASE t = n
      <4>1. Live(t)' /\ home'[t] = slot /\ kind'[t] = phase
        BY <1>1, <3>1 DEF Live, Inv, TypeOK
      <4> QED BY <3>1, <4>1 DEF Job
    <3>2. CASE t # n
      <4>1. (Live(t)' <=> Live(t)) /\ home'[t] = home[t] /\ kind'[t] = kind[t]
        BY <1>1, <3>2 DEF Live, Inv, TypeOK
      <4> QED BY <3>2, <4>1 DEF Job
    <3> QED BY <3>1, <3>2
  <2>2. Job' = [t \in Workers |-> Job'[t]] /\ Job = [t \in Workers |-> Job[t]]
    BY DEF Job
  <2> QED BY <1>1, <2>1, <2>2
<1>6. Meter!Begin(n)
  BY <1>1, <1>3, <1>4, <1>5 DEF Meter!Begin
<1> QED BY <1>1, <1>6 DEF Meter!Next

LEMMA MeterMain ==
  ASSUME Inv, Main PROVE [Meter!Next]_<<Stage, Job, total>>
<1>1. CASE StartStats \/ WriteRequest \/ \E timeUp \in BOOLEAN : ReadClock(timeUp)
  <2>1. UNCHANGED <<pc, home, kind, total>> /\ Stage' = Stage
    BY <1>1 DEF StartStats, WriteRequest, ReadClock, Stage, slotVars, workVars
  <2> QED BY <2>1, JobSame DEF Live
<1>2. CASE FillSlot /\ ~ (running[slot] = 0 /\ spawned < ThreadLimit)
  <2>1. UNCHANGED <<pc, home, kind, total>> /\ Stage' = Stage
    BY <1>2 DEF FillSlot, Spawn, Stage
  <2> QED BY <2>1, JobSame DEF Live
<1>3. CASE FillSlot /\ running[slot] = 0 /\ spawned < ThreadLimit
  BY <1>3, MeterBegin
<1>4. CASE EndOfRound \/ StopAllThread
  <2>1. UNCHANGED <<pc, home, kind, total>>
    BY <1>4 DEF EndOfRound, StopAllThread, slotVars, workVars
  <2>2. Job' = Job
    BY <2>1, JobSame DEF Live
  <2>3. \/ Stage' = Stage
        \/ Stage = "download" /\ Stage' = "upload"
        \/ Stage = "upload" /\ Stage' = "over"
    BY <1>4 DEF EndOfRound, StopAllThread, Stage, Inv, TypeOK, Phases, StatsInv
  <2> QED BY <2>1, <2>2, <2>3 DEF Meter!Next, Meter!Advance
<1> QED BY <1>1, <1>2, <1>3, <1>4 DEF Main

LEMMA MeterWorker ==
  ASSUME Inv, NEW t \in Workers, Worker(t) PROVE [Meter!Next]_<<Stage, Job, total>>
<1>1. Stage # "over" /\ Stage' = Stage /\ UNCHANGED <<home, kind>> /\ Live(t)
  <2>1. /\ main # "exit" /\ Live(t) /\ UNCHANGED <<main, phase, home, kind>>
    BY DEF Worker, Connect, SendRequest, Receive, ReceiveLate, LockTotal, AddToTotal,
           CheckStop, SendBuffer, ReadReply, Close, Goto, mainVars, Live
  <2> QED BY <2>1 DEF Stage, Inv, TypeOK, Phases
<1>2. CASE AddToTotal(t)
  <2>1. \E to \in {"send", "check"} : pc' = [pc EXCEPT ![t] = to]
    BY <1>2 DEF AddToTotal, Goto
  <2>2. Job' = Job
    BY <1>1, <2>1, JobMoves
  <2>3. total' = [total EXCEPT ![kind[t]] = @ + 1]
    BY <1>2 DEF AddToTotal, Goto, Inv, MutexInv, TypeOK
  <2>4. Job[t] # Meter!NoJob /\ Job[t].kind = kind[t]
    <3>1. Job[t] = [lane |-> home[t], kind |-> kind[t]] /\ Job[t] # Meter!NoJob
      BY <1>1, JobOf
    <3> QED BY <3>1
  <2>5. Meter!Transfer(t)
    BY <1>1, <2>2, <2>3, <2>4 DEF Meter!Transfer
  <2> QED BY <2>5 DEF Meter!Next
<1>3. CASE Close(t)
  <2>1. pc' = [pc EXCEPT ![t] = "done"] /\ total' = total
    BY <1>3 DEF Close, Goto
  <2>2. Job' = [Job EXCEPT ![t] = Meter!NoJob]
    <3>1. \A u \in Workers : Job'[u] = IF u = t THEN Meter!NoJob ELSE Job[u]
      <4>1. \A u \in Workers : Live(u)' <=> Live(u) /\ u # t
        BY <2>1 DEF Live, Inv, TypeOK
      <4> QED BY <1>1, <4>1 DEF Job, Meter!NoJob
    <3>2. Job' = [u \in Workers |-> Job'[u]] /\ Job = [u \in Workers |-> Job[u]]
      BY DEF Job
    <3> QED BY <3>1, <3>2
  <2>3. Meter!Finish(t)
    BY <1>1, <2>1, <2>2, JobOf DEF Meter!Finish
  <2> QED BY <2>3 DEF Meter!Next
<1>4. CASE ~ AddToTotal(t) /\ ~ Close(t)
  <2>1. total' = total /\ \E to \in {"request", "close", "select", "lock", "add", "send",
                                     "reply"} : pc' = [pc EXCEPT ![t] = to]
    BY <1>4 DEF Worker, Connect, SendRequest, Receive, ReceiveLate, LockTotal, CheckStop,
                SendBuffer, ReadReply, Goto
  <2>2. Job' = Job
    BY <1>1, <2>1, JobMoves
  <2> QED BY <1>1, <2>1, <2>2
<1> QED BY <1>2, <1>3, <1>4

LEMMA MeterStep ==
  Inv /\ [Next]_vars => [Meter!Next]_<<Stage, Job, total>>
<1> SUFFICES ASSUME Inv, [Next]_vars PROVE [Meter!Next]_<<Stage, Job, total>>
  OBVIOUS
<1>1. CASE UNCHANGED <<main, phase, pc, home, kind, total>>
  <2>1. Job' = Job
    BY <1>1, JobSame DEF Live
  <2> QED BY <1>1, <2>1 DEF Stage
<1>2. CASE Tick \/ (\E p \in Phases : Stats(p)) \/ UNCHANGED vars
  BY <1>1, <1>2 DEF Tick, Stats, PrintSpeed, PollStop, vars, mainVars, slotVars, workVars
<1> QED BY <1>2, MeterMain, MeterWorker DEF Next, Exited

\* With its slots, its flag, its mutex and its threads that nobody joins, the
\* engine is a measurement on ThreadNum lanes, of a download and then an upload.
THEOREM ImplementsMeasurement == Spec => MeterSpec
<1>1. Init => Meter!Init
  <2>1. Init => Job = [t \in Workers |-> Meter!NoJob]
    BY DEF Init, Job, Live, Meter!NoJob
  <2> QED BY <2>1 DEF Init, Stage, Meter!Init, Meter!Kinds, Phases
<1> QED BY <1>1, MeterStep, Invariance, PTL DEF Spec, MeterSpec, Meter!Spec

-----------------------------------------------------------------------------
(* SpeedTestMain: a fetch *)

LEMMA HttpSizes == /\ HdrLen \in Nat /\ BodyLen \in Nat /\ EndLen \in Nat /\ BufSize \in Nat
                   /\ 1 <= EndLen /\ EndLen <= HdrLen /\ 1 <= HdrLen /\ BufSize > 0
                   /\ Http!Total = HdrLen + BodyLen
BY PartsAssumption DEF Http!Sizes, Http!Total

\* The n bytes of the response behind the first h.
Bytes(h, n) == [k \in 1 .. n |-> h + k]

LEMMA BytesTypes ==
  ASSUME NEW h \in Nat, NEW n \in Nat
  PROVE  /\ Bytes(h, n) \in Seq(Nat) /\ Len(Bytes(h, n)) = n
         /\ \A k \in 1 .. n : Bytes(h, n)[k] = h + k
BY DEF Bytes

LEMMA SameBytes ==
  ASSUME NEW h \in Nat, NEW n \in Nat, NEW s \in Seq(Nat), Len(s) = n,
         \A k \in 1 .. n : s[k] = h + k
  PROVE  s = Bytes(h, n)
<1>1. \A k \in 1 .. Len(s) : s[k] = Bytes(h, n)[k]
  BY BytesTypes
<1> QED BY ZenonT(30), <1>1, BytesTypes, SeqEqual

\* What comes next is put behind.
LEMMA BytesFollow ==
  ASSUME NEW h \in Nat, NEW a \in Nat, NEW n \in Nat
  PROVE  Bytes(h, a) \o Bytes(h + a, n) = Bytes(h, a + n)
<1> DEFINE s == Bytes(h, a)
           t == Bytes(h + a, n)
<1>0. h + a \in Nat /\ a + n \in Nat
  OBVIOUS
<1>1. /\ s \in Seq(Nat) /\ Len(s) = a /\ \A k \in 1 .. a : s[k] = h + k
      /\ t \in Seq(Nat) /\ Len(t) = n /\ \A k \in 1 .. n : t[k] = (h + a) + k
  BY Zenon, <1>0, BytesTypes
<1> HIDE DEF s, t
<1>2. /\ s \o t \in Seq(Nat) /\ Len(s \o t) = a + n
      /\ \A k \in 1 .. a + n : (s \o t)[k] = IF k <= a THEN s[k] ELSE t[k - a]
  BY ZenonT(30), <1>1, ConcatProperties
<1>3. \A k \in 1 .. a + n : (s \o t)[k] = h + k
  BY SMTT(30), <1>1, <1>2
<1>4. s \o t = Bytes(h, a + n)
  BY Zenon, <1>0, <1>2, <1>3, SameBytes
<1> QED BY <1>4 DEF s, t

\* What has been stored when nothing odd has happened.
Written == \/ pos = 0 /\ file = << >>
           \/ pos >= HdrLen /\ file = Bytes(HdrLen, pos - HdrLen)

FetchInv ==
  /\ httpPc \in {"connect", "send", "select", "recv", "ok", "failed"} /\ ready \in BOOLEAN
  /\ server \in {"waits", "sends", "closed", "reset"}
  /\ pos \in Nat /\ record \in Nat /\ httpSent \in Nat /\ content \in Contents
  /\ pos + record <= httpSent /\ httpSent <= HdrLen + BodyLen
  /\ server = "closed" /\ "cut" \notin httpOdd => httpSent = HdrLen + BodyLen
  /\ httpPc = "ok" => server = "closed" /\ pos = httpSent
  /\ httpOdd = {} => Written

LEMMA ServerKeeps == ASSUME FetchInv, Http!Server PROVE FetchInv'
<1> USE DEF FetchInv, Http!clientVars, Http!fetched, Written
<1>1. CASE Http!Deliver
  <2>1. httpSent' \in Nat /\ httpSent <= httpSent' /\ httpSent' <= HdrLen + BodyLen
    BY <1>1, HttpSizes DEF Http!Deliver
  <2> QED BY <1>1, <2>1, HttpSizes DEF Http!Deliver
<1>2. CASE Http!CloseServer
  <2>1. "cut" \notin httpOdd' => httpSent = HdrLen + BodyLen
    BY <1>2, HttpSizes DEF Http!CloseServer
  <2>2. httpOdd' = {} => httpOdd = {}
    BY <1>2 DEF Http!CloseServer
  <2> QED BY <1>2, <2>1, <2>2, HttpSizes DEF Http!CloseServer
<1>3. CASE Http!Reset
  BY <1>3, HttpSizes DEF Http!Reset
<1> QED BY <1>1, <1>2, <1>3 DEF Http!Server

LEMMA SegmentIsBytes == \A a, b \in Nat : Http!Segment(a, b) = Bytes(a, b - a)
BY DEF Http!Segment, Bytes

\* The blank lines of a body end behind its header.
LEMMA BodyBlanks ==
  ASSUME FetchInv, NEW e \in content.blanks PROVE e \in Nat /\ HdrLen < e
<1>1. content \in [blanks : SUBSET Http!InBody, nuls : SUBSET Http!InBody]
  BY PartsAssumption DEF FetchInv, Http!BodyContents
<1>2. e \in Http!InBody
  BY <1>1
<1> QED BY <1>2, HttpSizes DEF Http!InBody, Http!Total

\* A chunk with nothing odd: the first one has the whole header, the others no blank line.
LEMMA ChunkStored ==
  ASSUME FetchInv, NEW n \in Nat \ {0}, httpOdd = {}, Http!Oddities(n) = {},
         Http!StoreChunk(n), pos' = pos + n
  PROVE  Written'
<1> DEFINE found == Http!BlankLines(n)
           seen == Http!Seen(n)
<1>0. pos \in Nat /\ HdrLen \in Nat /\ EndLen \in Nat /\ EndLen > 0 /\ pos + n \in Nat
  BY HttpSizes DEF FetchInv
<1>1. /\ ready /\ ~ Http!Full(n) /\ (pos < HdrLen => HdrLen \in found)
      /\ (found # {} => HdrLen \in found /\ Http!Nuls(n) = {})
  BY DEF Http!Oddities
<1>2. \E s \in Http!Stored(n) : file' = file \o s
  BY <1>1 DEF Http!StoreChunk
<1>3. Written
  BY DEF FetchInv
<1>4. \A e \in found : e \in {HdrLen} \cup content.blanks /\ pos + EndLen <= e /\ e <= seen
  BY DEF Http!BlankLines
<1>5. found # {} => seen = pos + n
  BY <1>1 DEF Http!Seen
<1> HIDE DEF found, seen
<1>6. CASE pos < HdrLen
  <2>1. pos = 0 /\ file = << >>
    BY <1>0, <1>3, <1>6, HttpSizes DEF Written
  <2>2. HdrLen \in found /\ seen = n /\ HdrLen <= n
    BY <1>0, <1>1, <1>4, <1>5, <1>6, <2>1
  <2>3. Http!Min(found) = HdrLen
    <3>1. \A e \in found : e \in Nat /\ HdrLen <= e
      BY <1>0, <1>4, BodyBlanks
    <3>2. \A e \in found : (\A f \in found : e <= f) => e = HdrLen
      BY <1>0, <2>2, <3>1
    <3> QED BY <2>2, <3>1, <3>2 DEF Http!Min
  <2>4. file' = << >> \o Http!Segment(HdrLen, n)
    BY <1>1, <1>2, <2>1, <2>2, <2>3 DEF Http!Stored, found, seen
  <2>5. n - HdrLen \in Nat /\ Bytes(HdrLen, n - HdrLen) \in Seq(Nat)
    BY <1>0, <2>2, BytesTypes
  <2>6. Http!Segment(HdrLen, n) = Bytes(HdrLen, n - HdrLen)
    BY <1>0, SegmentIsBytes
  <2>7. file' = Bytes(HdrLen, n - HdrLen)
    BY <2>4, <2>5, <2>6, ConcatEmptySeq
  <2> QED BY <1>0, <2>1, <2>2, <2>7 DEF Written
<1>7. CASE pos >= HdrLen
  <2>1. file = Bytes(HdrLen, pos - HdrLen)
    BY <1>3, <1>7, HttpSizes DEF Written
  <2>2. found = {}
    BY <1>0, <1>1, <1>4, <1>7
  <2>3. file' = file \o Bytes(pos, n)
    <3>1. file' = file \o Http!Chunk(n)
      BY <1>1, <1>2, <2>2 DEF Http!Stored, found
    <3>2. (pos + n) - pos = n
      BY <1>0
    <3> QED BY <1>0, <3>1, <3>2, SegmentIsBytes DEF Http!Chunk
  <2>4. /\ pos - HdrLen \in Nat /\ HdrLen + (pos - HdrLen) = pos
        /\ (pos - HdrLen) + n = (pos + n) - HdrLen
    BY <1>0, <1>7, HttpSizes
  <2>5. file' = Bytes(HdrLen, (pos - HdrLen) + n)
    <3>1. HdrLen \in Nat /\ pos - HdrLen \in Nat /\ n \in Nat
      BY <2>4, HttpSizes
    <3>2. Bytes(HdrLen, pos - HdrLen) \o Bytes(HdrLen + (pos - HdrLen), n)
            = Bytes(HdrLen, (pos - HdrLen) + n)
      BY <3>1, BytesFollow
    <3> QED BY <2>1, <2>3, <2>4, <3>2
  <2> QED BY <1>0, <1>7, <2>4, <2>5, HttpSizes DEF Written
<1> QED BY <1>0, <1>6, <1>7, HttpSizes

LEMMA ReceiveKeeps == ASSUME FetchInv, Http!Receive PROVE FetchInv'
<1>0. /\ httpPc' = "select" /\ UNCHANGED <<ready, server, httpSent, content>>
      /\ pos \in Nat /\ record \in Nat /\ httpSent \in Nat /\ BufSize \in Nat /\ BufSize > 0
      /\ pos + record <= httpSent /\ httpSent <= HdrLen + BodyLen
  BY HttpSizes DEF Http!Receive, Http!serverVars, Http!fetched, FetchInv
<1>1. PICK n \in Nat \ {0} :
        /\ Http!StoreChunk(n)
        /\ httpOdd' = httpOdd \cup Http!Oddities(n)
        /\ pos' = pos + n /\ record' \in Nat /\ pos + n + record' <= httpSent
  <2>1. CASE tls
    <3>1. PICK r \in IF record > 0 THEN {record} ELSE 1 .. Http!InSocket :
            LET n == Http!Min2(BufSize, r) IN
            /\ Http!StoreChunk(n)
            /\ httpOdd' = httpOdd \cup Http!Oddities(n)
            /\ pos' = pos + n
            /\ record' = r - n
      BY <2>1 DEF Http!Receive, Http!ReceiveTls
    <3>2. r \in Nat \ {0} /\ pos + r <= httpSent
      BY <1>0, <3>1 DEF Http!InSocket
    <3> DEFINE n == Http!Min2(BufSize, r)
    <3>3. n \in Nat \ {0} /\ n <= r
      BY <1>0, <3>2 DEF Http!Min2
    <3>4. /\ Http!StoreChunk(n)
          /\ httpOdd' = httpOdd \cup Http!Oddities(n)
          /\ pos' = pos + n /\ record' = r - n
      BY <3>1
    <3> HIDE DEF n
    <3>5. record' \in Nat /\ pos + n + record' <= httpSent
      BY <1>0, <3>2, <3>3, <3>4
    <3> QED BY <3>3, <3>4, <3>5
  <2>2. CASE ~ tls
    <3>1. PICK n \in 1 .. Http!Min2(BufSize, Http!InSocket) :
            /\ Http!StoreChunk(n)
            /\ httpOdd' = httpOdd \cup Http!Oddities(n)
            /\ pos' = pos + n
      BY <2>2 DEF Http!Receive, Http!ReceivePlain
    <3>2. record' = record /\ Http!InSocket > 0
      BY <2>2 DEF Http!Receive, Http!ReceivePlain
    <3>3. n \in Nat \ {0} /\ pos + n + record <= httpSent
      BY <1>0, <3>1, <3>2 DEF Http!Min2, Http!InSocket
    <3> QED BY <1>0, <3>1, <3>2, <3>3
  <2> QED BY <2>1, <2>2
<1>2. httpOdd' = {} => Written'
  BY <1>1, ChunkStored
<1>3. "cut" \notin httpOdd' => "cut" \notin httpOdd
  BY <1>1
<1>4. server' = "closed" /\ "cut" \notin httpOdd' => httpSent' = HdrLen + BodyLen
  BY <1>0, <1>3 DEF FetchInv
<1>5. pos' \in Nat /\ record' \in Nat /\ httpSent' \in Nat /\ pos' + record' <= httpSent'
  <2>1. /\ n \in Nat /\ pos' = pos + n /\ record' \in Nat /\ pos + n + record' <= httpSent
        /\ httpSent' = httpSent /\ pos \in Nat /\ httpSent \in Nat
    BY <1>0, <1>1
  <2>2. pos' \in Nat
    BY <2>1
  <2>3. pos' + record' = pos + n + record'
    BY <2>1
  <2> QED BY <2>1, <2>2, <2>3
<1> QED BY <1>0, <1>2, <1>4, <1>5 DEF FetchInv

LEMMA ClientKeeps == ASSUME FetchInv, Http!Client PROVE FetchInv'
<1>1. CASE Http!Connect
  BY <1>1 DEF Http!Connect, Http!serverVars, Http!fetched, FetchInv, Written
<1>2. CASE Http!SendRequest
  BY <1>2 DEF Http!SendRequest, Http!fetched, FetchInv, Written
<1>3. CASE Http!Select
  BY <1>3 DEF Http!Select, Http!serverVars, Http!fetched, FetchInv, Written
<1>4. CASE Http!EndOfStream
  <2>1. pos = httpSent /\ server = "closed"
    BY <1>4 DEF Http!EndOfStream, Http!InSocket, FetchInv
  <2> QED BY <1>4, <2>1 DEF Http!EndOfStream, Http!serverVars, Http!fetched, FetchInv, Written
<1>5. CASE Http!ReceiveFails
  <2>1. "cut" \notin httpOdd' => pos = HdrLen + BodyLen
    BY <1>5, HttpSizes DEF Http!ReceiveFails, FetchInv
  <2>2. httpOdd' = {} => httpOdd = {}
    BY <1>5 DEF Http!ReceiveFails
  <2> QED BY <1>5, <2>1, <2>2, HttpSizes DEF Http!ReceiveFails, Http!fetched, FetchInv, Written
<1> QED BY <1>1, <1>2, <1>3, <1>4, <1>5, ReceiveKeeps DEF Http!Client

\* A fetch with nothing odd that has ended well has the body in its file.
LEMMA FetchedBody ==
  ASSUME FetchInv, httpPc = "ok", httpOdd = {}
  PROVE  file = Http!Segment(HdrLen, Http!Total) /\ file = Bytes(HdrLen, BodyLen) /\ server = "closed"
<1>1. server = "closed" /\ pos = HdrLen + BodyLen /\ Written
  BY DEF FetchInv
<1>2. pos # 0 /\ pos - HdrLen = BodyLen
  BY <1>1, HttpSizes
<1>3. Http!Segment(HdrLen, Http!Total) = Bytes(HdrLen, BodyLen)
  <2>1. HdrLen \in Nat /\ Http!Total \in Nat /\ Http!Total - HdrLen = BodyLen
    BY HttpSizes DEF Http!Total
  <2> QED BY <2>1, SegmentIsBytes
<1> QED BY <1>1, <1>2, <1>3 DEF Written

-----------------------------------------------------------------------------
(* Tables of servers, each with the list l of distances it is made from *)

LEMMA TableSizes == /\ NearestNum \in Nat /\ NearestNum >= 1 /\ Distances \subseteq Nat
                    /\ Latencies \subseteq Nat \ {0} /\ Table!Entries = 1 .. NearestNum
BY PartsAssumption DEF Table!Sizes, Table!Entries

Servers == [url : Nat, dist : Nat, lat : Int]
Tables == [1 .. NearestNum -> Servers]
Urls(t) == {t[k].url : k \in 1 .. NearestNum} \ {0}

\* Table!Nearer, for the list l.
Before(l, a, b) == l[a] < l[b] \/ (l[a] = l[b] /\ a > b)

\* The servers of the list l that fewer than NearestNum others are nearer than.
Best(l) == {a \in 1 .. Len(l) :
              Cardinality({b \in (1 .. Len(l)) \ {a} : Before(l, b, a)}) < NearestNum}

OrderedIn(t, l) == \A k \in 1 .. NearestNum : t[k].url # 0 =>
  /\ t[k].url \in 1 .. Len(l) /\ t[k].dist = l[t[k].url]
  /\ \A j \in 1 .. k - 1 : t[j].url # 0 /\ Before(l, t[j].url, t[k].url)

\* What is not in the table is no nearer than what is, and the table is full.
FartherIn(t, l) == \A a \in 1 .. Len(l) : a \notin Urls(t) =>
  \A k \in 1 .. NearestNum : t[k].url # 0 /\ Before(l, t[k].url, a)

\* ServerTable counts with its own instance of FiniteSets.
LEMMA SameSize == ASSUME NEW S PROVE Table!Cardinality(S) = Cardinality(S)
BY DEF Table!Cardinality, Cardinality, Table!IsFiniteSet, IsFiniteSet

LEMMA BeforeOrder ==
  ASSUME NEW l \in Seq(Nat)
  PROVE  /\ \A a, b \in 1 .. Len(l) : ~ (Before(l, a, b) /\ Before(l, b, a))
         /\ \A a \in 1 .. Len(l) : ~ Before(l, a, a)
         /\ \A a, b, c \in 1 .. Len(l) : Before(l, a, b) /\ Before(l, b, c) => Before(l, a, c)
<1>1. \A a \in 1 .. Len(l) : l[a] \in Nat /\ a \in Nat
  BY ElementOfSeq, LenProperties
<1> QED BY SMTT(30), <1>1 DEF Before

\* The place of a server in the table is the number of those nearer.
LEMMA FewNearer ==
  ASSUME NEW l \in Seq(Nat), NEW t \in Tables, OrderedIn(t, l), FartherIn(t, l),
         NEW k \in 1 .. NearestNum, t[k].url # 0
  PROVE  t[k].url \in Best(l)
<1> DEFINE a == t[k].url
           S == {b \in (1 .. Len(l)) \ {a} : Before(l, b, a)}
           f == [j \in 1 .. k - 1 |-> t[j].url]
           T == {b \in S : \E j \in 1 .. k - 1 : t[j].url = b}
<1>0. NearestNum \in Nat /\ k \in Nat /\ k >= 1 /\ k <= NearestNum
  BY TableSizes
<1>1. a \in 1 .. Len(l)
  BY DEF OrderedIn
<1>2. ASSUME NEW b \in S PROVE \E j \in 1 .. k - 1 : t[j].url = b
  <2>1. b \in 1 .. Len(l) /\ b # a /\ Before(l, b, a)
    OBVIOUS
  <2>2. b \in Urls(t)
    <3>1. CASE b \notin Urls(t)
      <4>1. Before(l, a, b)
        BY <2>1, <3>1 DEF FartherIn
      <4> QED BY <1>1, <2>1, <4>1, BeforeOrder
    <3> QED BY <3>1
  <2>3. PICK j \in 1 .. NearestNum : t[j].url = b /\ b # 0
    BY <2>2 DEF Urls
  <2>4. j # k
    BY <2>1, <2>3
  <2>5. ~ (k < j)
    <3>1. CASE k < j
      <4>1. k \in 1 .. j - 1
        BY <1>0, <3>1
      <4>2. Before(l, a, b)
        BY <2>3, <4>1 DEF OrderedIn
      <4> QED BY <1>1, <2>1, <4>2, BeforeOrder
    <3> QED BY <3>1
  <2>6. j \in 1 .. k - 1
    BY <1>0, <2>3, <2>4, <2>5
  <2> QED BY <2>3, <2>6
<1>3. IsFiniteSet(1 .. k - 1) /\ Cardinality(1 .. k - 1) = k - 1
  <2> DEFINE q == k - 1
  <2>1. 1 \in Int /\ q \in Int /\ q \in Nat
    BY <1>0
  <2> HIDE DEF q
  <2>2. IsFiniteSet(1 .. q) /\ Cardinality(1 .. q) = IF 1 > q THEN 0 ELSE q - 1 + 1
    BY <2>1, FS_Interval
  <2>3. Cardinality(1 .. q) = q
    BY <2>1, <2>2
  <2> QED BY <2>2, <2>3 DEF q
<1>4. IsFiniteSet(S) /\ Cardinality(S) <= k - 1
  <2> DEFINE U == {f[j] : j \in 1 .. k - 1}
  <2>1. f \in Surjection(1 .. k - 1, U)
    BY DEF Surjection
  <2>2. IsFiniteSet(U) /\ Cardinality(U) <= k - 1
    <3> HIDE DEF U, f
    <3> QED BY <1>3, <2>1, FS_Surjection
  <2>3. S \in SUBSET U
    <3>1. ASSUME NEW b \in S PROVE b \in U
      <4> HIDE DEF S
      <4>1. PICK j \in 1 .. k - 1 : t[j].url = b
        BY <1>2
      <4> QED BY <4>1
    <3> HIDE DEF S, U
    <3> QED BY <3>1
  <2>4. IsFiniteSet(S) /\ Cardinality(S) <= Cardinality(U)
    <3> HIDE DEF S, U
    <3> QED BY <2>2, <2>3, FS_Subset
  <2>5. Cardinality(S) \in Nat /\ Cardinality(U) \in Nat
    <3> HIDE DEF S, U
    <3> QED BY <2>2, <2>4, FS_CardinalityType
  <2> HIDE DEF S, U
  <2> QED BY <1>0, <2>2, <2>4, <2>5
<1>5. Cardinality(S) \in Nat
  <2> HIDE DEF S
  <2> QED BY <1>4, FS_CardinalityType
<1>6. Cardinality(S) < NearestNum
  <2> HIDE DEF S
  <2> QED BY <1>0, <1>4, <1>5
<1> QED BY <1>1, <1>6 DEF Best

\* What is not in the table has the whole table nearer.
LEMMA ManyNearer ==
  ASSUME NEW l \in Seq(Nat), NEW t \in Tables, OrderedIn(t, l), FartherIn(t, l),
         NEW a \in 1 .. Len(l), a \notin Urls(t)
  PROVE  a \notin Best(l)
<1> DEFINE S == {b \in (1 .. Len(l)) \ {a} : Before(l, b, a)}
           f == [k \in 1 .. NearestNum |-> t[k].url]
<1>0. NearestNum \in Nat /\ NearestNum >= 1 /\ Len(l) \in Nat
  BY TableSizes, LenProperties
<1>1. \A k \in 1 .. NearestNum : /\ t[k].url # 0 /\ Before(l, t[k].url, a)
                                 /\ t[k].url \in 1 .. Len(l)
  BY DEF FartherIn, OrderedIn
<1>2. \A j, k \in 1 .. NearestNum : j < k => t[j].url # t[k].url
  <2>1. SUFFICES ASSUME NEW j \in 1 .. NearestNum, NEW k \in 1 .. NearestNum, j < k
                 PROVE  t[j].url # t[k].url
    OBVIOUS
  <2>2. j \in 1 .. k - 1
    BY <1>0, <2>1
  <2>3. Before(l, t[j].url, t[k].url)
    BY <1>1, <2>2 DEF OrderedIn
  <2> QED BY <1>1, <2>3, BeforeOrder
<1>3. f \in Injection(1 .. NearestNum, S)
  <2>1. \A k \in 1 .. NearestNum : t[k].url \in S
    <3>1. ~ Before(l, a, a)
      BY BeforeOrder
    <3> QED BY <1>1, <3>1
  <2>2. \A j, k \in 1 .. NearestNum : t[j].url = t[k].url => j = k
    BY <1>0, <1>2
  <2> HIDE DEF S
  <2>3. f \in [1 .. NearestNum -> S]
    BY <2>1
  <2>4. \A j, k \in 1 .. NearestNum : f[j] = f[k] => j = k
    BY <2>2
  <2> HIDE DEF f
  <2> QED BY <2>3, <2>4 DEF Injection, IsInjective
<1>4. IsFiniteSet(S)
  <2>1. IsFiniteSet(1 .. Len(l))
    BY <1>0, FS_Interval
  <2>2. S \in SUBSET (1 .. Len(l))
    OBVIOUS
  <2> HIDE DEF S
  <2> QED BY <2>1, <2>2, FS_Subset
<1>5. Cardinality(1 .. NearestNum) = NearestNum
  BY <1>0, FS_Interval
<1>6. NearestNum <= Cardinality(S) /\ Cardinality(S) \in Nat
  <2> HIDE DEF S, f
  <2> QED BY <1>3, <1>4, <1>5, FS_Injection, FS_CardinalityType
<1>7. ~ (Cardinality(S) < NearestNum)
  <2> HIDE DEF S
  <2> QED BY <1>0, <1>6
<1> QED BY <1>7 DEF Best

LEMMA TableIsBest ==
  ASSUME NEW l \in Seq(Nat), NEW t \in Tables, OrderedIn(t, l), FartherIn(t, l)
  PROVE  Urls(t) = Best(l)
<1>1. ASSUME NEW a \in Urls(t) PROVE a \in Best(l)
  <2>1. PICK k \in 1 .. NearestNum : t[k].url = a /\ t[k].url # 0
    BY DEF Urls
  <2> QED BY <2>1, FewNearer
<1>2. ASSUME NEW a \in Best(l) PROVE a \in Urls(t)
  <2>1. a \in 1 .. Len(l)
    BY DEF Best
  <2> QED BY <2>1, ManyNearer
<1> QED BY <1>1, <1>2

LEMMA LeastNumber ==
  ASSUME NEW T \in SUBSET Nat, T # {}
  PROVE  \E x \in T : \A y \in T : x <= y
<1> DEFINE R == {ss \in Nat \X Nat : ss[1] < ss[2]}
<1>1. R = OpToRel(<, Nat)
  BY DEF OpToRel
<1>2. IsWellFoundedOn(R, Nat)
  BY <1>1, NatLessThanWellFounded
<1>3. PICK x \in T : \A y \in T : ~ (<<y, x>> \in R)
  <2> HIDE DEF R
  <2> QED BY <1>2, WFMin
<1>4. ASSUME NEW y \in T PROVE x <= y
  <2>1. y < x => <<y, x>> \in R
    OBVIOUS
  <2> QED BY <1>3, <2>1
<1> QED BY <1>4

LEMMA LeastPlace ==
  ASSUME NEW T \in SUBSET Nat, T # {}
  PROVE  Table!Min(T) \in T /\ \A y \in T : Table!Min(T) <= y
BY LeastNumber DEF Table!Min

\* Insert, place by place: u is t with e at the place p.
InsertedAt(t, u, e, p) ==
  \A k \in 1 .. NearestNum : u[k] = IF k < p THEN t[k] ELSE IF k = p THEN e ELSE t[k - 1]

LEMMA InsertPlaces ==
  ASSUME NEW t \in Tables, NEW e \in Servers, NEW p \in 1 .. NearestNum
  PROVE  LET r == SubSeq(Table!InsertAt(t, p, e), 1, NearestNum)
         IN  r \in Tables /\ InsertedAt(t, r, e, p)
<1> DEFINE s == SubSeq(t, 1, p - 1)
           u == SubSeq(t, p, Len(t))
           r == SubSeq((s \o <<e>>) \o u, 1, NearestNum)
<1>0. /\ NearestNum \in Nat /\ p \in Nat /\ p >= 1 /\ p <= NearestNum
      /\ t \in Seq(Servers) /\ Len(t) = NearestNum /\ \A k \in 1 .. NearestNum : t[k] \in Servers
  BY TableSizes DEF Tables
<1>1. s \in Seq(Servers) /\ Len(s) = p - 1 /\ \A k \in 1 .. p - 1 : s[k] = t[k]
  BY <1>0, SubSeqProperties
<1>2. /\ u \in Seq(Servers) /\ Len(u) = NearestNum - p + 1
      /\ \A k \in 1 .. NearestNum - p + 1 : u[k] = t[p + k - 1]
  BY <1>0, SubSeqProperties
<1>3. <<e>> \in Seq(Servers) /\ Len(<<e>>) = 1 /\ <<e>>[1] = e
  OBVIOUS
<1> HIDE DEF s, u
<1>4. /\ s \o <<e>> \in Seq(Servers) /\ Len(s \o <<e>>) = p
      /\ \A k \in 1 .. p : (s \o <<e>>)[k] = IF k < p THEN t[k] ELSE e
  <2>1. /\ s \o <<e>> \in Seq(Servers) /\ Len(s \o <<e>>) = Len(s) + Len(<<e>>)
        /\ \A k \in 1 .. Len(s) + Len(<<e>>) :
             (s \o <<e>>)[k] = IF k <= Len(s) THEN s[k] ELSE <<e>>[k - Len(s)]
    BY <1>1, <1>3, ConcatProperties
  <2> QED BY <1>0, <1>1, <1>3, <2>1
<1> DEFINE v == s \o <<e>>
<1>5. /\ v \in Seq(Servers) /\ Len(v) = p /\ \A k \in 1 .. p : v[k] = IF k < p THEN t[k] ELSE e
  BY <1>4
<1> HIDE DEF v
<1>6. /\ v \o u \in Seq(Servers) /\ Len(v \o u) = NearestNum + 1
      /\ \A k \in 1 .. NearestNum + 1 : (v \o u)[k] = IF k <= p THEN v[k] ELSE u[k - p]
  <2>1. /\ v \o u \in Seq(Servers) /\ Len(v \o u) = Len(v) + Len(u)
        /\ \A k \in 1 .. Len(v) + Len(u) :
             (v \o u)[k] = IF k <= Len(v) THEN v[k] ELSE u[k - Len(v)]
    BY <1>2, <1>5, ConcatProperties
  <2>2. Len(v) + Len(u) = NearestNum + 1
    BY <1>0, <1>2, <1>5
  <2>3. Len(v) = p
    BY <1>5
  <2> QED BY Zenon, <2>1, <2>2, <2>3
<1> DEFINE w == v \o u
<1>7. /\ w \in Seq(Servers) /\ Len(w) = NearestNum + 1
      /\ \A k \in 1 .. NearestNum + 1 : w[k] = IF k <= p THEN v[k] ELSE u[k - p]
  BY <1>6
<1> HIDE DEF w
<1>8. \A k \in 1 .. NearestNum : w[k] = IF k < p THEN t[k] ELSE IF k = p THEN e ELSE t[k - 1]
  <2>1. SUFFICES ASSUME NEW k \in 1 .. NearestNum
                 PROVE  w[k] = IF k < p THEN t[k] ELSE IF k = p THEN e ELSE t[k - 1]
    OBVIOUS
  <2>2. CASE k <= p
    <3>1. w[k] = v[k] /\ k \in 1 .. p
      <4>1. k \in 1 .. p /\ k \in 1 .. NearestNum + 1
        BY <1>0, <2>2
      <4> QED BY <1>7, <2>2, <4>1
    <3>2. v[k] = IF k < p THEN t[k] ELSE e
      BY <1>5, <3>1
    <3> QED BY <1>0, <2>2, <3>1, <3>2
  <2>3. CASE k > p
    <3>1. k - p \in 1 .. NearestNum - p + 1 /\ p + (k - p) - 1 = k - 1 /\ k \in 1 .. NearestNum + 1
      BY <1>0, <2>3
    <3>2. w[k] = u[k - p]
      <4>1. ~ (k <= p)
        BY <1>0, <2>3
      <4> QED BY <1>7, <3>1, <4>1
    <3>3. u[k - p] = t[k - 1]
      <4>1. u[k - p] = t[p + (k - p) - 1]
        BY <1>2, <3>1
      <4> QED BY <3>1, <4>1
    <3> QED BY <1>0, <2>3, <3>2, <3>3
  <2> QED BY <1>0, <2>2, <2>3
<1>9. r \in Seq(Servers) /\ Len(r) = NearestNum /\ \A k \in 1 .. NearestNum : r[k] = w[k]
  <2>1. \A k \in 1 .. NearestNum : w[k] \in Servers
    <3>1. \A k \in 1 .. NearestNum : k \in 1 .. Len(w)
      BY <1>0, <1>7
    <3> QED BY <1>7, <3>1, ElementOfSeq
  <2>2. /\ SubSeq(w, 1, NearestNum) \in Seq(Servers)
        /\ Len(SubSeq(w, 1, NearestNum)) = IF 1 <= NearestNum THEN NearestNum - 1 + 1 ELSE 0
        /\ \A k \in 1 .. NearestNum - 1 + 1 : SubSeq(w, 1, NearestNum)[k] = w[1 + k - 1]
    BY <1>0, <2>1, SubSeqProperties
  <2>3. NearestNum - 1 + 1 = NearestNum /\ \A k \in 1 .. NearestNum : 1 + k - 1 = k
    BY <1>0
  <2>4. r = SubSeq(w, 1, NearestNum)
    BY DEF w, v
  <2> HIDE DEF r
  <2> QED BY <1>0, <2>2, <2>3, <2>4
<1>10. SubSeq(Table!InsertAt(t, p, e), 1, NearestNum) = r
  BY DEF Table!InsertAt, s, u
<1> HIDE DEF r
<1>11. r \in Tables
  <2>1. r \in [1 .. NearestNum -> Servers]
    BY <1>0, <1>9
  <2> QED BY <2>1 DEF Tables
<1>12. \A k \in 1 .. NearestNum : r[k] = IF k < p THEN t[k] ELSE IF k = p THEN e ELSE t[k - 1]
  BY Zenon, <1>8, <1>9
<1> QED BY Zenon, <1>10, <1>11, <1>12 DEF InsertedAt

\* Only the lines and the distances of the entries matter for their order.
LEMMA SameOrder ==
  ASSUME NEW l \in Seq(Nat), NEW t \in Tables, NEW u \in Tables,
         \A k \in 1 .. NearestNum : u[k].url = t[k].url /\ u[k].dist = t[k].dist
  PROVE  /\ Urls(u) = Urls(t)
         /\ OrderedIn(t, l) => OrderedIn(u, l)
         /\ FartherIn(t, l) => FartherIn(u, l)
<1>1. Urls(u) = Urls(t)
  BY DEF Urls
<1>2. OrderedIn(t, l) => OrderedIn(u, l)
  <2>1. \A k \in 1 .. NearestNum : \A j \in 1 .. k - 1 : j \in 1 .. NearestNum
    BY TableSizes
  <2> QED BY Zenon, <2>1 DEF OrderedIn
<1>3. FartherIn(t, l) => FartherIn(u, l)
  BY Zenon, <1>1 DEF FartherIn
<1> QED BY <1>1, <1>2, <1>3

\* A line that is read comes before those at its distance.
LEMMA NewLine ==
  ASSUME NEW l \in Seq(Nat), NEW d \in Nat
  PROVE  LET m == Append(l, d) IN
         /\ m \in Seq(Nat) /\ Len(m) = Len(l) + 1 /\ m[Len(l) + 1] = d
         /\ \A a \in 1 .. Len(l) : /\ m[a] = l[a] /\ l[a] \in Nat
                                   /\ Before(m, Len(l) + 1, a) <=> d <= l[a]
                                   /\ Before(m, a, Len(l) + 1) <=> l[a] < d
         /\ \A a, b \in 1 .. Len(l) : Before(m, a, b) <=> Before(l, a, b)
<1> DEFINE m == Append(l, d)
           n == Len(l)
<1>1. n \in Nat /\ \A a \in 1 .. n : l[a] \in Nat
  BY LenProperties, ElementOfSeq
<1>2. m \in Seq(Nat) /\ Len(m) = n + 1 /\ m[n + 1] = d /\ \A a \in 1 .. n : m[a] = l[a]
  BY AppendProperties
<1> HIDE DEF m, n
<1>3. \A a \in 1 .. n : /\ Before(m, n + 1, a) <=> d <= l[a]
                        /\ Before(m, a, n + 1) <=> l[a] < d
  BY <1>1, <1>2 DEF Before
<1>4. \A a, b \in 1 .. n : Before(m, a, b) <=> Before(l, a, b)
  BY <1>2 DEF Before
<1> QED BY <1>1, <1>2, <1>3, <1>4 DEF m, n

\* Insertion keeps the order, and what falls out is farther than the rest.
LEMMA InsertOrders ==
  ASSUME NEW l \in Seq(Nat), NEW d \in Nat, NEW t \in Tables, NEW u \in Tables,
         NEW e, e.url = Len(l) + 1, e.dist = d, NEW p \in 1 .. NearestNum,
         OrderedIn(t, l), InsertedAt(t, u, e, p),
         \A k \in 1 .. p - 1 : t[k].url # 0 /\ t[k].dist < d,
         t[p].url # 0 => d <= t[p].dist
  PROVE  OrderedIn(u, Append(l, d))
<1> DEFINE m == Append(l, d)
           n == Len(l)
<1>0. /\ NearestNum \in Nat /\ p \in Nat /\ 1 <= p /\ p <= NearestNum /\ n \in Nat
      /\ \A k \in 1 .. NearestNum : t[k].url \in Nat /\ t[k].dist \in Nat
  <2>1. \A k \in 1 .. NearestNum : t[k].url \in Nat /\ t[k].dist \in Nat
    BY DEF Tables, Servers
  <2>2. n \in Nat
    BY LenProperties
  <2> QED BY <2>1, <2>2, TableSizes
<1>1. /\ Len(m) = n + 1 /\ m[n + 1] = d
      /\ \A a \in 1 .. n : m[a] = l[a] /\ l[a] \in Nat
      /\ \A a \in 1 .. n : Before(m, n + 1, a) <=> d <= l[a]
      /\ \A a \in 1 .. n : Before(m, a, n + 1) <=> l[a] < d
      /\ \A a, b \in 1 .. n : Before(m, a, b) <=> Before(l, a, b)
  BY NewLine
<1>2. \A k \in 1 .. NearestNum : t[k].url # 0 => t[k].url \in 1 .. n /\ t[k].dist = l[t[k].url]
  BY DEF OrderedIn
<1>3. \A k \in 1 .. NearestNum : \A j \in 1 .. k - 1 : t[k].url # 0 =>
        t[j].url # 0 /\ Before(l, t[j].url, t[k].url)
  BY DEF OrderedIn
<1> HIDE DEF m, n
<1>4. ASSUME NEW k \in 1 .. NearestNum, t[k].url # 0
      PROVE  /\ t[k].url \in 1 .. n /\ t[k].dist = m[t[k].url]
             /\ \A j \in 1 .. k - 1 : t[j].url # 0 /\ Before(m, t[j].url, t[k].url)
  <2>1. t[k].url \in 1 .. n /\ t[k].dist = m[t[k].url]
    BY <1>1, <1>2, <1>4
  <2>2. ASSUME NEW j \in 1 .. k - 1 PROVE t[j].url # 0 /\ Before(m, t[j].url, t[k].url)
    <3>1. j \in 1 .. NearestNum
      BY <1>0
    <3>2. t[j].url # 0 /\ Before(l, t[j].url, t[k].url)
      BY <1>3, <1>4
    <3> QED BY <1>1, <1>2, <2>1, <3>1, <3>2
  <2> QED BY <2>1, <2>2
<1>5. ASSUME NEW k \in p .. NearestNum, t[k].url # 0
      PROVE  Before(m, n + 1, t[k].url)
  <2>1. k \in 1 .. NearestNum /\ t[k].url \in 1 .. n /\ t[k].dist = l[t[k].url]
    BY <1>0, <1>2, <1>5
  <2>2. d <= t[k].dist
    <3>1. CASE k = p
      BY <1>5, <3>1
    <3>2. CASE k # p
      <4>1. p \in 1 .. k - 1
        BY <1>0, <3>2
      <4>2. t[p].url # 0 /\ Before(l, t[p].url, t[k].url)
        BY <1>3, <1>5, <2>1, <4>1
      <4>3. t[p].url \in 1 .. n /\ t[p].dist = l[t[p].url]
        BY <1>2, <4>2
      <4>4. d <= l[t[p].url]
        BY <4>2, <4>3
      <4>5. l[t[p].url] \in Nat /\ l[t[k].url] \in Nat
        BY <1>1, <2>1, <4>3
      <4>6. \/ l[t[p].url] < l[t[k].url]
            \/ l[t[p].url] = l[t[k].url]
        BY Zenon, <4>2 DEF Before
      <4>7. \A x, y \in Nat : d <= x /\ (x < y \/ x = y) => d <= y
        OBVIOUS
      <4> QED BY Zenon, <2>1, <4>4, <4>5, <4>6, <4>7
    <3> QED BY <3>1, <3>2
  <2> QED BY <1>1, <2>1, <2>2
<1>6. ASSUME NEW k \in 1 .. NearestNum, u[k].url # 0
      PROVE  /\ u[k].url \in 1 .. n + 1 /\ u[k].dist = m[u[k].url]
             /\ \A j \in 1 .. k - 1 : u[j].url # 0 /\ Before(m, u[j].url, u[k].url)
  <2>0. \A j \in 1 .. k : u[j] = IF j < p THEN t[j] ELSE IF j = p THEN e ELSE t[j - 1]
    <3>1. \A j \in 1 .. k : j \in 1 .. NearestNum
      BY <1>0
    <3> QED BY <3>1 DEF InsertedAt
  <2>1. CASE k < p
    <3>1. \A j \in 1 .. k : u[j] = t[j]
      BY <1>0, <2>0, <2>1
    <3>2. u[k] = t[k] /\ \A j \in 1 .. k - 1 : u[j] = t[j]
      BY <1>0, <3>1
    <3>3. t[k].url # 0
      BY <1>6, <3>2
    <3>4. /\ t[k].url \in 1 .. n /\ t[k].dist = m[t[k].url]
          /\ \A j \in 1 .. k - 1 : t[j].url # 0 /\ Before(m, t[j].url, t[k].url)
      BY <1>4, <3>3
    <3>5. t[k].url \in 1 .. n + 1
      BY <1>0, <3>4
    <3> QED BY Zenon, <3>2, <3>4, <3>5
  <2>2. CASE k = p
    <3>1. u[k] = e /\ \A j \in 1 .. k - 1 : u[j] = t[j]
      <4>1. k \in 1 .. k /\ ~ (k < p)
        BY <1>0, <2>2
      <4>2. \A j \in 1 .. k - 1 : j \in 1 .. k /\ j < p
        BY <1>0, <2>2
      <4> QED BY Zenon, <2>0, <2>2, <4>1, <4>2
    <3>2. ASSUME NEW j \in 1 .. k - 1 PROVE t[j].url # 0 /\ Before(m, t[j].url, n + 1)
      <4>1. j \in 1 .. NearestNum /\ t[j].url # 0 /\ t[j].dist < d
        <5>1. j \in 1 .. NearestNum /\ j \in 1 .. p - 1
          BY <1>0, <2>2
        <5> QED BY <5>1
      <4>2. t[j].url \in 1 .. n /\ l[t[j].url] < d
        BY <1>2, <4>1
      <4> QED BY <1>1, <4>1, <4>2
    <3>3. e.url = n + 1 /\ e.dist = d
      BY DEF n
    <3>4. u[k].url = n + 1 /\ u[k].dist = d /\ n + 1 \in 1 .. n + 1
      BY <1>0, <3>1, <3>3
    <3> QED BY Zenon, <1>1, <3>1, <3>2, <3>4
  <2>3. CASE k > p
    <3>1. /\ u[k] = t[k - 1] /\ u[p] = e
          /\ \A j \in 1 .. k - 1 : u[j] = IF j < p THEN t[j] ELSE IF j = p THEN e ELSE t[j - 1]
      <4>1. k \in 1 .. k /\ ~ (k < p) /\ k # p
        BY <1>0, <2>3
      <4>2. p \in 1 .. k /\ ~ (p < p)
        BY <1>0, <2>3
      <4>3. \A j \in 1 .. k - 1 : j \in 1 .. k
        BY <1>0
      <4> QED BY Zenon, <2>0, <4>1, <4>2, <4>3
    <3>2. k - 1 \in 1 .. NearestNum /\ k - 1 \in p .. NearestNum /\ t[k - 1].url # 0
      BY <1>0, <1>6, <2>3, <3>1
    <3>3. /\ t[k - 1].url \in 1 .. n /\ t[k - 1].dist = m[t[k - 1].url]
          /\ \A j \in 1 .. (k - 1) - 1 : t[j].url # 0 /\ Before(m, t[j].url, t[k - 1].url)
      BY <1>4, <3>2
    <3>4. Before(m, n + 1, t[k - 1].url)
      BY <1>5, <3>2
    <3>5. ASSUME NEW j \in 1 .. k - 1 PROVE u[j].url # 0 /\ Before(m, u[j].url, t[k - 1].url)
      <4>1. CASE j < p
        <5>1. j \in 1 .. (k - 1) - 1 /\ u[j] = t[j]
          BY <1>0, <2>3, <3>1, <4>1
        <5> QED BY <3>3, <5>1
      <4>2. CASE j = p
        <5>1. u[j].url = n + 1
          BY <3>1, <4>2 DEF n
        <5> QED BY <1>0, <3>4, <5>1
      <4>3. CASE j > p
        <5>1. j - 1 \in 1 .. (k - 1) - 1 /\ u[j] = t[j - 1]
          BY <1>0, <2>3, <3>1, <4>3
        <5> QED BY <3>3, <5>1
      <4> QED BY <1>0, <4>1, <4>2, <4>3
    <3>6. t[k - 1].url \in 1 .. n + 1
      BY <1>0, <3>3
    <3> QED BY <3>1, <3>3, <3>5, <3>6
  <2> QED BY <1>0, <2>1, <2>2, <2>3
<1>7. OrderedIn(u, m)
  BY <1>1, <1>6 DEF OrderedIn
<1> QED BY <1>7 DEF m

LEMMA InsertLeavesFarther ==
  ASSUME NEW l \in Seq(Nat), NEW d \in Nat, NEW t \in Tables, NEW u \in Tables,
         NEW e, e.url = Len(l) + 1, e.dist = d, NEW p \in 1 .. NearestNum,
         OrderedIn(t, l), FartherIn(t, l), InsertedAt(t, u, e, p),
         t[p].url # 0 => d <= t[p].dist
  PROVE  FartherIn(u, Append(l, d))
<1> DEFINE m == Append(l, d)
           n == Len(l)
<1>0. /\ NearestNum \in Nat /\ p \in Nat /\ 1 <= p /\ p <= NearestNum /\ n \in Nat
      /\ \A k \in 1 .. NearestNum : t[k].url \in Nat /\ t[k].dist \in Nat
  <2>1. \A k \in 1 .. NearestNum : t[k].url \in Nat /\ t[k].dist \in Nat
    BY DEF Tables, Servers
  <2>2. n \in Nat
    BY LenProperties
  <2> QED BY <2>1, <2>2, TableSizes
<1>1. /\ Len(m) = n + 1 /\ m[n + 1] = d
      /\ \A a \in 1 .. n : m[a] = l[a] /\ l[a] \in Nat
      /\ \A a \in 1 .. n : Before(m, n + 1, a) <=> d <= l[a]
      /\ \A a, b \in 1 .. n : Before(m, a, b) <=> Before(l, a, b)
  BY ZenonT(30), NewLine
<1>2. \A k \in 1 .. NearestNum : t[k].url # 0 => t[k].url \in 1 .. n /\ t[k].dist = l[t[k].url]
  BY DEF OrderedIn
<1>3. \A k \in 1 .. NearestNum : \A j \in 1 .. k - 1 : t[k].url # 0 =>
        t[j].url # 0 /\ Before(l, t[j].url, t[k].url)
  BY DEF OrderedIn
<1>4. \A a \in 1 .. n : a \notin Urls(t) =>
        \A k \in 1 .. NearestNum : t[k].url # 0 /\ Before(l, t[k].url, a)
  BY DEF FartherIn, n
<1>5. e.url = n + 1 /\ \A k \in 1 .. NearestNum :
        u[k] = IF k < p THEN t[k] ELSE IF k = p THEN e ELSE t[k - 1]
  BY DEF n, InsertedAt
<1> HIDE DEF m, n
\* The entries before the one that has fallen out are nearer than it.
<1>6. ASSUME NEW a \in 1 .. n, NEW q \in p .. NearestNum,
             \A k \in 1 .. q - 1 : t[k].url # 0 /\ Before(l, t[k].url, a),
             q = NearestNum, t[q].url = a \/ (t[q].url # 0 /\ Before(l, t[q].url, a)),
             NEW k \in 1 .. NearestNum
      PROVE  u[k].url # 0 /\ Before(m, u[k].url, a)
  <2>0. t[p].url # 0 /\ t[p].dist = l[t[p].url] /\ l[t[p].url] <= l[a] /\ t[p].url \in 1 .. n
    <3>1. CASE p = q
      BY SMTT(30), <1>0, <1>1, <1>2, <1>6, <3>1 DEF Before
    <3>2. CASE p # q
      <4>1. p \in 1 .. q - 1
        BY <1>0, <3>2
      <4>2. t[p].url # 0 /\ Before(l, t[p].url, a)
        BY <1>6, <4>1
      <4>3. t[p].dist = l[t[p].url] /\ t[p].url \in 1 .. n
        BY <1>2, <4>2
      <4>4. l[t[p].url] \in Nat /\ l[a] \in Nat
        BY <1>1, <4>3
      <4>5. l[t[p].url] < l[a] \/ l[t[p].url] = l[a]
        BY Zenon, <4>2 DEF Before
      <4>6. l[t[p].url] <= l[a]
        BY SMTT(30), <4>4, <4>5
      <4> QED BY <4>2, <4>3, <4>6
    <3> QED BY <3>1, <3>2
  <2>1. Before(m, n + 1, a)
    <3>1. d <= t[p].dist /\ l[t[p].url] \in Nat /\ l[a] \in Nat
      BY <1>1, <2>0
    <3>2. d <= l[a]
      BY SMTT(30), <2>0, <3>1
    <3> QED BY <1>1, <3>2
  <2>2. ASSUME NEW j \in 1 .. q - 1 PROVE t[j].url # 0 /\ Before(m, t[j].url, a)
    <3>1. t[j].url # 0 /\ Before(l, t[j].url, a)
      BY <1>6
    <3>2. j \in 1 .. NearestNum
      BY <1>0
    <3> QED BY <1>1, <1>2, <3>1, <3>2
  <2>3. CASE k < p
    <3>1. u[k] = t[k] /\ k \in 1 .. q - 1
      BY <1>0, <1>5, <2>3
    <3> QED BY <2>2, <3>1
  <2>4. CASE k = p
    <3>1. u[k] = e
      BY <1>0, <1>5, <2>4
    <3> QED BY <1>0, <1>5, <2>1, <3>1
  <2>5. CASE k > p
    <3>1. u[k] = t[k - 1] /\ k - 1 \in 1 .. q - 1
      BY <1>0, <1>5, <1>6, <2>5
    <3> QED BY <2>2, <3>1
  <2> QED BY <1>0, <2>3, <2>4, <2>5
<1>7. ASSUME NEW a \in 1 .. n + 1, a \notin Urls(u), NEW k \in 1 .. NearestNum
      PROVE  u[k].url # 0 /\ Before(m, u[k].url, a)
  <2>1. a # n + 1
    <3>1. u[p] = e
      BY <1>0, <1>5
    <3> QED BY <1>0, <1>5, <1>7, <3>1 DEF Urls
  <2>2. a \in 1 .. n /\ a # 0
    BY <1>0, <2>1
  <2>3. CASE a \notin Urls(t)
    <3>1. \A j \in 1 .. NearestNum : t[j].url # 0 /\ Before(l, t[j].url, a)
      BY <1>4, <2>2, <2>3
    <3>2. NearestNum \in p .. NearestNum /\ \A j \in 1 .. NearestNum - 1 : j \in 1 .. NearestNum
      BY <1>0
    <3>3. \A j \in 1 .. NearestNum - 1 : t[j].url # 0 /\ Before(l, t[j].url, a)
      BY <3>1, <3>2
    <3>4. t[NearestNum].url # 0 /\ Before(l, t[NearestNum].url, a)
      BY <1>0, <3>1
    <3> QED BY <1>6, <2>2, <3>2, <3>3, <3>4
  <2>4. CASE a \in Urls(t)
    <3>1. PICK q \in 1 .. NearestNum : t[q].url = a
      BY <2>4 DEF Urls
    <3>2. q >= p
      <4>1. CASE q < p
        <5>1. u[q] = t[q]
          BY <1>5, <4>1
        <5> QED BY <1>7, <2>2, <3>1, <5>1 DEF Urls
      <4> QED BY <1>0, <4>1
    <3>3. q = NearestNum
      <4>1. CASE q < NearestNum
        <5>1. q + 1 \in 1 .. NearestNum /\ ~ (q + 1 < p) /\ q + 1 # p /\ (q + 1) - 1 = q
          BY <1>0, <3>2, <4>1
        <5>2. u[q + 1] = t[q]
          BY <1>5, <5>1
        <5> QED BY <1>7, <2>2, <3>1, <5>1, <5>2 DEF Urls
      <4> QED BY <1>0, <4>1
    <3>4. \A j \in 1 .. q - 1 : t[j].url # 0 /\ Before(l, t[j].url, a)
      BY <1>3, <2>2, <3>1
    <3>5. q \in p .. NearestNum
      BY <1>0, <3>2
    <3> QED BY <1>6, <2>2, <3>1, <3>3, <3>4, <3>5
  <2> QED BY <2>3, <2>4
<1>8. FartherIn(u, m)
  BY <1>1, <1>7 DEF FartherIn
<1> QED BY <1>8 DEF m

LEMMA InsertKeeps ==
  ASSUME NEW l \in Seq(Nat), NEW d \in Nat, NEW t \in Tables, OrderedIn(t, l), FartherIn(t, l),
         NEW e \in Servers, e.url = Len(l) + 1, e.dist = d
  PROVE  LET u == Table!Insert(t, e) IN
         /\ u \in Tables /\ OrderedIn(u, Append(l, d)) /\ FartherIn(u, Append(l, d))
         /\ \A k \in 1 .. NearestNum : u[k].lat \in {e.lat} \cup {t[j].lat : j \in 1 .. NearestNum}
<1> DEFINE P == Table!Places(t, d)
           n == Len(l)
           m == Append(l, d)
<1>0. /\ NearestNum \in Nat /\ NearestNum >= 1 /\ n \in Nat
      /\ \A k \in 1 .. NearestNum : t[k].url \in Nat /\ t[k].dist \in Nat
  BY TableSizes, LenProperties DEF Tables, Servers
<1>1. P = {k \in 1 .. NearestNum : t[k].url = 0 \/ d <= t[k].dist}
  BY TableSizes DEF Table!Places
<1>2. CASE P = {}
  <2>1. \A k \in 1 .. NearestNum : t[k].url # 0 /\ t[k].dist < d
    BY <1>0, <1>1, <1>2
  <2>2. /\ Len(m) = n + 1 /\ m[n + 1] = d
        /\ \A a \in 1 .. n : m[a] = l[a] /\ l[a] \in Nat
        /\ \A a \in 1 .. n : Before(m, a, n + 1) <=> l[a] < d
        /\ \A a, b \in 1 .. n : Before(m, a, b) <=> Before(l, a, b)
    BY NewLine
  <2>3. \A k \in 1 .. NearestNum : t[k].url \in 1 .. n /\ t[k].dist = l[t[k].url]
    BY <2>1 DEF OrderedIn
  <2>4. \A k \in 1 .. NearestNum : \A j \in 1 .. k - 1 : Before(l, t[j].url, t[k].url)
    BY <2>1 DEF OrderedIn
  <2>5. \A a \in 1 .. n : a \notin Urls(t) => \A k \in 1 .. NearestNum : Before(l, t[k].url, a)
    BY DEF FartherIn
  <2> HIDE DEF m, n, P
  <2>6. \A k \in 1 .. NearestNum : \A j \in 1 .. k - 1 : j \in 1 .. NearestNum
    BY <1>0
  <2>7. OrderedIn(t, m)
    <3>1. \A k \in 1 .. NearestNum : t[k].url \in 1 .. Len(m) /\ t[k].dist = m[t[k].url]
      BY SMTT(30), <1>0, <2>2, <2>3
    <3>2. \A k \in 1 .. NearestNum : \A j \in 1 .. k - 1 : Before(m, t[j].url, t[k].url)
      BY Zenon, <2>2, <2>3, <2>4, <2>6
    <3> QED BY Zenon, <2>1, <2>6, <3>1, <3>2 DEF OrderedIn
  <2>8. FartherIn(t, m)
    <3>1. ASSUME NEW a \in 1 .. n + 1, a \notin Urls(t), NEW k \in 1 .. NearestNum
          PROVE  Before(m, t[k].url, a)
      <4>1. CASE a = n + 1
        BY <2>1, <2>2, <2>3, <4>1
      <4>2. CASE a # n + 1
        <5>1. a \in 1 .. n
          BY <1>0, <4>2
        <5> QED BY <2>2, <2>3, <2>5, <3>1, <5>1
      <4> QED BY <4>1, <4>2
    <3> QED BY <2>1, <2>2, <3>1 DEF FartherIn
  <2>9. Table!Insert(t, e) = t
    BY <1>2 DEF P, Table!Insert
  <2> QED BY <2>7, <2>8, <2>9 DEF m
<1>3. CASE P # {}
  <2> DEFINE p == Table!Min(P)
             u == SubSeq(Table!InsertAt(t, p, e), 1, NearestNum)
  <2>1. P \in SUBSET Nat
    BY <1>1
  <2>2. p \in P /\ \A y \in P : p <= y
    <3> HIDE DEF P
    <3> QED BY <1>3, <2>1, LeastPlace
  <2>3. p \in 1 .. NearestNum /\ (t[p].url = 0 \/ d <= t[p].dist)
    <3> HIDE DEF p
    <3> QED BY <1>1, <2>2
  <2>4. \A k \in 1 .. p - 1 : t[k].url # 0 /\ t[k].dist < d
    <3> HIDE DEF p
    <3>1. SUFFICES ASSUME NEW k \in 1 .. p - 1 PROVE t[k].url # 0 /\ t[k].dist < d
      OBVIOUS
    <3>2. k \in 1 .. NearestNum /\ ~ (p <= k)
      BY <1>0, <2>3
    <3>3. k \notin P
      BY <2>2, <3>2
    <3>4. ~ (t[k].url = 0 \/ d <= t[k].dist)
      BY <1>1, <3>2, <3>3
    <3> QED BY <1>0, <3>2, <3>4
  <2>5. Table!Insert(t, e) = u
    BY <1>3 DEF P, Table!Insert
  <2> HIDE DEF p, P
  <2>6. u \in Tables /\ InsertedAt(t, u, e, p)
    BY <2>3, InsertPlaces
  <2> HIDE DEF u
  <2>7. OrderedIn(u, m)
    BY <2>3, <2>4, <2>6, InsertOrders
  <2>8. FartherIn(u, m)
    BY <2>3, <2>6, InsertLeavesFarther
  <2>9. \A k \in 1 .. NearestNum : u[k].lat \in {e.lat} \cup {t[j].lat : j \in 1 .. NearestNum}
    <3>1. SUFFICES ASSUME NEW k \in 1 .. NearestNum
                   PROVE  u[k].lat \in {e.lat} \cup {t[j].lat : j \in 1 .. NearestNum}
      OBVIOUS
    <3>2. u[k] = e \/ \E j \in 1 .. NearestNum : u[k] = t[j]
      <4>1. k < p => u[k] = t[k]
        BY <2>6 DEF InsertedAt
      <4>2. k = p => u[k] = e
        BY <1>0, <2>3, <2>6 DEF InsertedAt
      <4>3. k > p => k - 1 \in 1 .. NearestNum /\ u[k] = t[k - 1]
        BY <1>0, <2>3, <2>6 DEF InsertedAt
      <4> QED BY <1>0, <2>3, <4>1, <4>2, <4>3
    <3> QED BY <3>2
  <2> QED BY <2>5, <2>6, <2>7, <2>8, <2>9
<1> QED BY <1>2, <1>3

\* qsort permutes the entries.
LEMMA SortPermutes ==
  ASSUME NEW t \in Tables, NEW order \in [1 .. NearestNum -> 1 .. NearestNum],
         Table!IsInjective(order)
  PROVE  LET u == [k \in 1 .. NearestNum |-> t[order[k]]]
         IN  u \in Tables /\ Urls(u) = Urls(t)
<1> DEFINE u == [k \in 1 .. NearestNum |-> t[order[k]]]
           D == 1 .. NearestNum
<1>1. IsFiniteSet(D)
  BY TableSizes, FS_Interval
<1>2. order \in Injection(D, D)
  BY DEF Injection, IsInjective, Table!IsInjective
<1>3. order \in Surjection(D, D)
  <2> HIDE DEF D
  <2> QED BY <1>1, <1>2, FS_Injection
<1>4. \A j \in D : \E k \in D : order[k] = j
  BY <1>3 DEF Surjection
<1>5. u \in Tables
  BY DEF Tables
<1>6. \A k \in D : order[k] \in D /\ u[k] = t[order[k]]
  OBVIOUS
<1> HIDE DEF u, D
<1>7. {u[k].url : k \in D} = {t[k].url : k \in D}
  <2>1. \A k \in D : \E j \in D : u[k].url = t[j].url
    BY Zenon, <1>6
  <2>2. \A j \in D : \E k \in D : t[j].url = u[k].url
    <3>1. SUFFICES ASSUME NEW j \in D PROVE \E k \in D : t[j].url = u[k].url
      OBVIOUS
    <3>2. PICK k \in D : order[k] = j
      BY <1>4
    <3>3. u[k] = t[j]
      BY <1>6, <3>2
    <3> QED BY <3>3
  <2>3. ASSUME NEW x \in {u[k].url : k \in D} PROVE x \in {t[k].url : k \in D}
    BY <2>1
  <2>4. ASSUME NEW x \in {t[k].url : k \in D} PROVE x \in {u[k].url : k \in D}
    BY <2>2
  <2> QED BY <2>3, <2>4
<1>8. Urls(u) = Urls(t)
  BY <1>7 DEF Urls, D
<1> QED BY <1>5, <1>8 DEF u

\* The order of CompareLatency: a missing latency comes last.
NotWorse(a, b) == b = Table!None \/ (a # Table!None /\ a <= b)
SortedTable(t) == \A j, k \in 1 .. NearestNum : j < k => NotWorse(t[j].lat, t[k].lat)

LEMMA CompareIsOrder ==
  ASSUME NEW a \in Servers, NEW b \in Servers, Table!CompareLatency(a, b) <= 0
  PROVE  NotWorse(a.lat, b.lat)
<1>1. a.lat \in Int /\ b.lat \in Int
  BY DEF Servers
<1>2. CASE b.lat # Table!None /\ a.lat = Table!None
  BY <1>1, <1>2 DEF Table!CompareLatency, Table!None
<1>3. CASE b.lat # Table!None /\ a.lat # Table!None
  BY <1>1, <1>3 DEF Table!CompareLatency, NotWorse
<1> QED BY <1>2, <1>3 DEF NotWorse

LEMMA NotWorseTransitive ==
  ASSUME NEW a \in Int, NEW b \in Int, NEW c \in Int, NotWorse(a, b), NotWorse(b, c)
  PROVE  NotWorse(a, c)
BY DEF NotWorse, Table!None

LEMMA AdjacentSorted ==
  ASSUME NEW t \in Tables, \A k \in 1 .. NearestNum - 1 : Table!CompareLatency(t[k], t[k + 1]) <= 0
  PROVE  SortedTable(t)
<1> DEFINE Bad(k) == \E j \in 1 .. NearestNum : j < k /\ ~ NotWorse(t[j].lat, t[k].lat)
           T == {k \in 1 .. NearestNum : Bad(k)}
<1>0. NearestNum \in Nat /\ \A k \in 1 .. NearestNum : t[k] \in Servers /\ t[k].lat \in Int
  BY TableSizes DEF Tables, Servers
<1>1. ASSUME T # {} PROVE FALSE
  <2>1. T \in SUBSET Nat
    OBVIOUS
  <2>2. PICK k \in T : \A y \in T : k <= y
    <3> HIDE DEF T
    <3> QED BY <1>1, <2>1, LeastNumber
  <2>3. PICK j \in 1 .. NearestNum : j < k /\ ~ NotWorse(t[j].lat, t[k].lat)
    BY <2>2
  <2>4. /\ k \in 1 .. NearestNum /\ k - 1 \in 1 .. NearestNum - 1 /\ k - 1 \in 1 .. NearestNum
        /\ (k - 1) + 1 = k /\ ~ (k <= k - 1)
    BY <1>0, <2>2, <2>3
  <2>5. NotWorse(t[k - 1].lat, t[k].lat)
    <3>1. Table!CompareLatency(t[k - 1], t[(k - 1) + 1]) <= 0
      BY Zenon, <2>4
    <3>2. Table!CompareLatency(t[k - 1], t[k]) <= 0
      BY Zenon, <2>4, <3>1
    <3> QED BY Zenon, <1>0, <2>4, <3>2, CompareIsOrder
  <2>6. ~ Bad(k - 1)
    <3>1. k - 1 \notin T
      <4> HIDE DEF T
      <4> QED BY <2>2, <2>4
    <3> QED BY <2>4, <3>1
  <2>7. j # k - 1
    BY <2>3, <2>5
  <2>8. j < k - 1
    BY <2>3, <2>4, <2>7
  <2>9. NotWorse(t[j].lat, t[k - 1].lat)
    BY Zenon, <2>6, <2>8
  <2> QED BY Zenon, <1>0, <2>3, <2>4, <2>5, <2>9, NotWorseTransitive
<1>2. \A k \in 1 .. NearestNum : ~ Bad(k)
  <2> HIDE DEF Bad
  <2> QED BY <1>1
<1> QED BY Zenon, <1>2 DEF SortedTable

-----------------------------------------------------------------------------
(* The table and its probes *)

Early == {"fetch", "list", "probe"}

TableTypes ==
  /\ listed \in Seq(Nat) /\ table \in Tables /\ elapsed \in Latencies /\ i \in Nat
  /\ tablePc \in Early \cup {"sort", "pick", "choose", "check", "measure", "failed"}

\* The table is the best of the list; it is in order until it is sorted.
NearestInv ==
  /\ Urls(table) = Best(listed)
  /\ tablePc \in Early => OrderedIn(table, listed) /\ FartherIn(table, listed)

\* A latency is earned, and a latency.txt that is there was left behind.
EarnedInv ==
  /\ tablePc \in {"fetch", "list"} => i = 1 /\ \A k \in 1 .. NearestNum : table[k].lat = 0
  /\ tablePc = "probe" => i \in 1 .. NearestNum
  /\ tableOdd = {} => /\ latFile = "absent"
                      /\ \A k \in 1 .. NearestNum :
                           table[k].lat \in Latencies => table[k].url \in answered

\* The entries before the one that is asked have refused.
ChoiceInv ==
  /\ tablePc \in {"pick", "choose", "check", "measure"} => SortedTable(table)
  /\ tablePc \in Early \cup {"sort", "pick", "choose"} => refused = {}
  /\ tablePc = "choose" => ~ auto
  /\ auto /\ tablePc \in {"check", "measure"} =>
       best # Table!None /\ index \in 1 .. NearestNum /\ refused = 1 .. index - 1

TableInv == TableTypes /\ NearestInv /\ EarnedInv /\ ChoiceInv

LEMMA TableInit == ASSUME Table!Init PROVE TableInv
<1>1. /\ listed = << >> /\ table = [k \in 1 .. NearestNum |-> Table!Empty] /\ tablePc = "fetch"
      /\ i = 1 /\ refused = {} /\ elapsed \in Latencies
      /\ tableOdd = {} => latFile = "absent"
  BY TableSizes DEF Table!Init
<1>2. \A k \in 1 .. NearestNum : table[k].url = 0 /\ table[k].dist = 0 /\ table[k].lat = 0
  BY <1>1 DEF Table!Empty
<1>3. TableTypes
  BY <1>1 DEF TableTypes, Tables, Servers, Table!Empty, Early
<1>4. OrderedIn(table, listed) /\ FartherIn(table, listed)
  <2>1. Len(listed) = 0
    BY <1>1
  <2>2. 1 .. Len(listed) = {}
    BY <2>1
  <2>3. OrderedIn(table, listed)
    BY Zenon, <1>2 DEF OrderedIn
  <2>4. FartherIn(table, listed)
    BY Zenon, <2>2 DEF FartherIn
  <2> QED BY <2>3, <2>4
<1>5. NearestInv
  BY <1>3, <1>4, TableIsBest DEF NearestInv, TableTypes
<1>6. EarnedInv
  BY <1>1, <1>2, TableSizes DEF EarnedInv
<1>7. ChoiceInv
  BY <1>1 DEF ChoiceInv
<1> QED BY <1>3, <1>5, <1>6, <1>7 DEF TableInv

LEMMA NearestServerKeeps == ASSUME TableInv, Table!NearestServer PROVE TableInv'
<1>1. PICK d \in Distances :
        /\ listed' = Append(listed, d)
        /\ table' = Table!Insert(table, [url |-> Len(listed) + 1, dist |-> d, lat |-> 0])
  BY DEF Table!NearestServer
<1>2. /\ tablePc = "list"
      /\ UNCHANGED <<tablePc, auto, i, latFile, line, elapsed, best, index, refused, answered, tableOdd>>
  BY DEF Table!NearestServer, Table!probeVars, Table!pickVars
<1> DEFINE e == [url |-> Len(listed) + 1, dist |-> d, lat |-> 0]
<1>3. listed \in Seq(Nat) /\ table \in Tables /\ d \in Nat /\ Len(listed) \in Nat
  BY TableSizes, LenProperties DEF TableInv, TableTypes
<1>4. e \in Servers /\ e.url = Len(listed) + 1 /\ e.dist = d /\ e.lat = 0
  BY <1>3 DEF Servers
<1>5. OrderedIn(table, listed) /\ FartherIn(table, listed)
  BY <1>2 DEF TableInv, NearestInv, Early
<1>6. table' = Table!Insert(table, e)
  BY <1>1
<1> HIDE DEF e
<1>7. /\ table' \in Tables /\ OrderedIn(table', listed') /\ FartherIn(table', listed')
      /\ \A k \in 1 .. NearestNum : table'[k].lat \in {e.lat} \cup {table[j].lat : j \in 1 .. NearestNum}
  <2> DEFINE u == Table!Insert(table, e)
  <2>1. /\ u \in Tables /\ OrderedIn(u, Append(listed, d)) /\ FartherIn(u, Append(listed, d))
        /\ \A k \in 1 .. NearestNum : u[k].lat \in {e.lat} \cup {table[j].lat : j \in 1 .. NearestNum}
    BY <1>3, <1>4, <1>5, InsertKeeps
  <2>2. table' = u /\ listed' = Append(listed, d)
    BY <1>1, <1>6
  <2> HIDE DEF u
  <2> QED BY Zenon, <2>1, <2>2
<1>8. listed' \in Seq(Nat)
  BY <1>1, <1>3, AppendProperties
<1>9. \A k \in 1 .. NearestNum : table'[k].lat = 0
  <2>1. \A k \in 1 .. NearestNum : table[k].lat = 0
    BY <1>2 DEF TableInv, EarnedInv
  <2> QED BY Zenon, <1>4, <1>7, <2>1
<1>10. TableTypes'
  BY <1>2, <1>7, <1>8 DEF TableInv, TableTypes
<1>11. NearestInv'
  <2>1. Urls(table') = Best(listed')
    BY <1>7, <1>8, TableIsBest
  <2> QED BY <1>7, <2>1 DEF NearestInv
<1>12. EarnedInv'
  <2>1. 0 \notin Latencies
    BY TableSizes
  <2> QED BY Zenon, <1>2, <1>9, <2>1 DEF TableInv, EarnedInv
<1>13. ChoiceInv'
  BY <1>2 DEF TableInv, ChoiceInv
<1> QED BY <1>10, <1>11, <1>12, <1>13 DEF TableInv

\* What a probe does, whether its fetch is modelled or not.
LEMMA AfterFetchKeeps ==
  ASSUME TableInv, tablePc = "probe", NEW f, NEW e \in Latencies, NEW own \in BOOLEAN,
         tableOdd = {} /\ f = "test" => own, Table!AfterFetch(f, e, own)
  PROVE  TableInv'
<1> DEFINE x == Table!Measured(f, e)
<1>0. /\ NearestNum \in Nat /\ NearestNum >= 1 /\ listed \in Seq(Nat) /\ table \in Tables
      /\ i \in 1 .. NearestNum /\ e \in Int
  <2>1. listed \in Seq(Nat) /\ table \in Tables /\ i \in 1 .. NearestNum
    BY DEF TableInv, TableTypes, EarnedInv
  <2> QED BY <2>1, TableSizes
<1>1. x \in Int /\ (x # Table!None => f # "absent" /\ Table!LineAfter(f) = "test")
  BY <1>0 DEF Table!Measured, Table!None
<1>2. /\ table' = [table EXCEPT ![i].lat = x] /\ elapsed' = e /\ latFile' = "absent" /\ i' = i + 1
      /\ tablePc' = IF i = NearestNum THEN "sort" ELSE "probe"
      /\ answered' = IF own THEN answered \cup {table[i].url} ELSE answered
      /\ tableOdd' = IF f = "empty" THEN tableOdd \cup {"no line"} ELSE tableOdd
      /\ UNCHANGED <<auto, listed, best, index, refused>>
  BY DEF Table!AfterFetch, Table!pickVars
<1> HIDE DEF x
<1>3. table' \in Tables
  BY <1>0, <1>1, <1>2 DEF Tables, Servers
<1>4. \A k \in 1 .. NearestNum : /\ table'[k].url = table[k].url /\ table'[k].dist = table[k].dist
                                 /\ table'[k].lat = IF k = i THEN x ELSE table[k].lat
  BY <1>0, <1>2 DEF Tables, Servers
<1>5. TableTypes'
  <2>1. i' \in Nat /\ tablePc' \in Early \cup {"sort"}
    <3>1. i' = i + 1 /\ tablePc' \in {"sort", "probe"}
      BY <1>2
    <3> QED BY <1>0, <3>1 DEF Early
  <2>2. listed' \in Seq(Nat) /\ elapsed' \in Latencies
    BY <1>0, <1>2
  <2> QED BY <1>3, <2>1, <2>2 DEF TableTypes
<1>6. NearestInv'
  <2>1. /\ Urls(table') = Urls(table)
        /\ OrderedIn(table, listed) => OrderedIn(table', listed)
        /\ FartherIn(table, listed) => FartherIn(table', listed)
    BY <1>0, <1>3, <1>4, SameOrder
  <2> QED BY <1>2, <2>1 DEF NearestInv, TableInv, Early
<1>7. EarnedInv'
  <2>1. tablePc' \notin {"fetch", "list"} /\ (tablePc' = "probe" => i' \in 1 .. NearestNum)
    <3>1. i' = i + 1 /\ tablePc' \in {"sort", "probe"} /\ (tablePc' = "probe" => i # NearestNum)
      BY <1>2
    <3>2. i # NearestNum => i + 1 \in 1 .. NearestNum
      BY <1>0
    <3> QED BY <3>1, <3>2
  <2>2. ASSUME tableOdd' = {}, NEW k \in 1 .. NearestNum, table'[k].lat \in Latencies
        PROVE  table'[k].url \in answered'
    <3>1. tableOdd = {} /\ f # "empty"
      BY <1>2, <2>2
    <3>2. CASE k = i
      <4>1. x # Table!None
        BY <1>4, <2>2, <3>2, TableSizes DEF Table!None
      <4>2. f = "test"
        BY <1>1, <3>1, <4>1 DEF Table!LineAfter
      <4> QED BY <1>2, <1>4, <3>1, <3>2, <4>2
    <3>3. CASE k # i
      <4>1. table[k].url \in answered
        BY <1>4, <2>2, <3>1, <3>3 DEF TableInv, EarnedInv
      <4>2. answered \subseteq answered'
        BY <1>2
      <4> QED BY <1>4, <4>1, <4>2
    <3> QED BY <3>2, <3>3
  <2> QED BY <1>2, <2>1, <2>2 DEF EarnedInv
<1>8. ChoiceInv'
  BY <1>2 DEF TableInv, ChoiceInv, Early
<1> QED BY <1>5, <1>6, <1>7, <1>8 DEF TableInv

LEMMA ProbeKeeps == ASSUME TableInv, Table!Unresolved \/ Table!Probe PROVE TableInv'
<1>1. CASE Table!Unresolved
  <2>1. elapsed \in Latencies /\ (tableOdd = {} => latFile # "test")
    BY DEF TableInv, TableTypes, EarnedInv
  <2> QED BY <1>1, <2>1, AfterFetchKeeps DEF Table!Unresolved
<1>2. CASE Table!Probe
  <2>1. PICK f \in Table!Fetched : \E e \in Latencies :
          \E own \in IF f = "test" THEN {TRUE, latFile # "test"} ELSE {FALSE} :
            Table!AfterFetch(f, e, own)
    BY <1>2 DEF Table!Probe
  <2>2. PICK e \in Latencies : \E own \in IF f = "test" THEN {TRUE, latFile # "test"} ELSE {FALSE} :
          Table!AfterFetch(f, e, own)
    BY <2>1
  <2>3. PICK own \in IF f = "test" THEN {TRUE, latFile # "test"} ELSE {FALSE} :
          Table!AfterFetch(f, e, own)
    BY <2>2
  <2>4. own \in BOOLEAN
    BY <2>3
  <2>5. tableOdd = {} /\ f = "test" => own
    BY <2>3 DEF TableInv, EarnedInv
  <2>6. tablePc = "probe"
    BY <1>2 DEF Table!Probe
  <2> QED BY <2>3, <2>4, <2>5, <2>6, AfterFetchKeeps
<1> QED BY <1>1, <1>2

LEMMA SortKeeps == ASSUME TableInv, Table!Sort PROVE TableInv'
<1>1. PICK order \in [1 .. NearestNum -> 1 .. NearestNum] :
        LET t == [k \in 1 .. NearestNum |-> table[order[k]]] IN
        /\ Table!IsInjective(order)
        /\ \A k \in 1 .. NearestNum - 1 : Table!CompareLatency(t[k], t[k + 1]) <= 0
        /\ table' = t
  BY TableSizes DEF Table!Sort
<1>2. /\ tablePc = "sort" /\ tablePc' = "pick"
      /\ UNCHANGED <<auto, listed, i, latFile, elapsed, best, index, refused, answered, tableOdd>>
  BY DEF Table!Sort, Table!probeVars, Table!pickVars
<1> DEFINE t == [k \in 1 .. NearestNum |-> table[order[k]]]
<1>3. table' = t /\ \A k \in 1 .. NearestNum - 1 : Table!CompareLatency(t[k], t[k + 1]) <= 0
  BY <1>1
<1>4. table \in Tables /\ \A k \in 1 .. NearestNum : order[k] \in 1 .. NearestNum /\ t[k] = table[order[k]]
  BY DEF TableInv, TableTypes
<1>5. t \in Tables /\ Urls(t) = Urls(table)
  BY <1>1, <1>4, SortPermutes
<1> HIDE DEF t
<1>6. SortedTable(t)
  BY <1>3, <1>5, AdjacentSorted
<1>7. TableTypes'
  BY <1>2, <1>3, <1>5 DEF TableInv, TableTypes
<1>8. NearestInv'
  BY <1>2, <1>3, <1>5 DEF TableInv, NearestInv, Early
<1>9. EarnedInv'
  <2>1. ASSUME tableOdd = {}, NEW k \in 1 .. NearestNum, t[k].lat \in Latencies
        PROVE  t[k].url \in answered
    BY <1>4, <2>1 DEF TableInv, EarnedInv
  <2> QED BY <1>2, <1>3, <2>1 DEF TableInv, EarnedInv
<1>10. ChoiceInv'
  BY <1>2, <1>3, <1>6 DEF TableInv, ChoiceInv
<1> QED BY <1>7, <1>8, <1>9, <1>10 DEF TableInv

\* The steps that leave the table alone.
LEMMA LaterKeeps ==
  ASSUME TableInv, \/ Table!EndOfList \/ Table!SelectBest \/ Table!Choose
                   \/ Table!CheckAccepts \/ Table!CheckRefuses
  PROVE  TableInv'
<1>0. /\ UNCHANGED <<auto, listed, table, i, latFile, elapsed, answered, tableOdd>>
      /\ NearestNum \in Nat /\ NearestNum >= 1
  BY TableSizes DEF Table!EndOfList, Table!SelectBest, Table!Choose, Table!CheckAccepts,
         Table!CheckRefuses, Table!listVars, Table!probeVars
<1>1. /\ tablePc \in {"list", "pick", "choose", "check"}
      /\ tablePc' \in {"failed", "probe", "check", "choose", "measure"}
      /\ tablePc' = "probe" => tablePc = "list"
  BY DEF Table!EndOfList, Table!SelectBest, Table!Choose, Table!CheckAccepts, Table!CheckRefuses
<1>2. TableTypes'
  BY <1>0, <1>1 DEF TableInv, TableTypes, Early
<1>3. NearestInv'
  BY <1>0, <1>1 DEF TableInv, NearestInv, Early
<1>4. EarnedInv'
  <2>1. tablePc' = "probe" => i' \in 1 .. NearestNum
    BY <1>0, <1>1 DEF TableInv, EarnedInv
  <2> QED BY <1>0, <1>1, <2>1 DEF TableInv, EarnedInv
<1>5. ChoiceInv'
  <2>1. CASE Table!EndOfList
    BY <1>0, <2>1 DEF TableInv, ChoiceInv, Early, Table!EndOfList, Table!pickVars
  <2>2. CASE Table!SelectBest
    <3>1. /\ tablePc = "pick" /\ refused' = {} /\ SortedTable(table')
          /\ \/ tablePc' = "failed"
             \/ tablePc' = "check" /\ auto /\ best' # Table!None /\ index' = 1
             \/ tablePc' = "choose" /\ ~ auto
      BY <1>0, <2>2 DEF TableInv, ChoiceInv, Early, Table!SelectBest
    <3>2. index' = 1 => index' \in 1 .. NearestNum /\ 1 .. index' - 1 = {}
      BY <1>0
    <3> QED BY <1>0, <3>1, <3>2 DEF ChoiceInv, Early
  <2>3. CASE Table!Choose
    BY <1>0, <2>3 DEF TableInv, ChoiceInv, Early, Table!Choose
  <2>4. CASE Table!CheckAccepts
    BY <1>0, <2>4 DEF TableInv, ChoiceInv, Early, Table!CheckAccepts, Table!pickVars
  <2>5. CASE Table!CheckRefuses
    <3>1. CASE auto /\ index < NearestNum
      <4>1. /\ best # Table!None /\ index \in 1 .. NearestNum /\ refused = 1 .. index - 1
            /\ SortedTable(table) /\ tablePc = "check"
        BY <2>5, <3>1 DEF TableInv, ChoiceInv, Table!CheckRefuses
      <4>2. /\ index' = index + 1 /\ refused' = refused \cup {index} /\ best' = best
            /\ tablePc' = "check"
        BY <2>5, <3>1, <4>1 DEF Table!CheckRefuses
      <4>3. index' \in 1 .. NearestNum /\ (1 .. index - 1) \cup {index} = 1 .. index' - 1
        BY <1>0, <3>1, <4>1, <4>2
      <4> QED BY <1>0, <4>1, <4>2, <4>3 DEF ChoiceInv, Early
    <3>2. CASE ~ (auto /\ index < NearestNum)
      <4>1. tablePc' = "failed"
        BY <2>5, <3>2 DEF Table!CheckRefuses
      <4> QED BY <4>1 DEF ChoiceInv, Early
    <3> QED BY <3>1, <3>2
  <2> QED BY <2>1, <2>2, <2>3, <2>4, <2>5
<1> QED BY <1>2, <1>3, <1>4, <1>5 DEF TableInv

-----------------------------------------------------------------------------
(* The program *)

FrameInv ==
  /\ fetch \in {"none", "file", "latency"} /\ answer \in {"test", "other"}
  /\ fetch = "latency" => stage = "run" /\ tablePc = "probe" /\ i = 1

MainInv == FetchInv /\ TableInv /\ FrameInv

LEMMA TableStays == ASSUME TableInv, UNCHANGED tableVars PROVE TableInv'
BY DEF tableVars, TableInv, TableTypes, NearestInv, EarnedInv, ChoiceInv

LEMMA FetchStays == ASSUME FetchInv, UNCHANGED httpVars PROVE FetchInv'
BY DEF httpVars, FetchInv, Written

LEMMA PlainIsKnown == Http!Plain \in Contents
BY PartsAssumption DEF Http!BodyContents

LEMMA ForgottenIsNew == ASSUME Forgotten PROVE FetchInv'
<1>1. /\ httpPc' = "connect" /\ ready' = FALSE /\ pos' = 0 /\ file' = << >>
      /\ server' = "waits" /\ httpSent' = 0 /\ record' = 0
  BY DEF Forgotten
<1>2. Written'
  BY <1>1 DEF Written
<1>3. /\ pos' \in Nat /\ record' \in Nat /\ httpSent' \in Nat
      /\ pos' + record' <= httpSent' /\ httpSent' <= HdrLen + BodyLen
  BY <1>1, HttpSizes
<1>5. content' \in Contents
  BY PlainIsKnown DEF Forgotten
<1>4. /\ httpPc' \in {"connect", "send", "select", "recv", "ok", "failed"} /\ ready' \in BOOLEAN
      /\ server' \in {"waits", "sends", "closed", "reset"}
      /\ server' # "closed" /\ httpPc' # "ok"
  BY <1>1
<1> QED BY Zenon, <1>2, <1>3, <1>4, <1>5 DEF FetchInv

\* Run goes on with a list that was fetched, or fails.
LEMMA FetchListsKeeps == ASSUME TableInv, Table!FetchLists PROVE TableInv'
<1>1. /\ tablePc = "fetch" /\ tablePc' \in {"list", "failed"}
      /\ UNCHANGED <<auto, listed, table, i, latFile, line, elapsed, best, index, refused,
                     answered, tableOdd>>
  BY DEF Table!FetchLists, Table!listVars, Table!probeVars, Table!pickVars
<1>2. TableTypes'
  BY <1>1 DEF TableInv, TableTypes, Early
<1>3. NearestInv'
  BY <1>1 DEF TableInv, NearestInv, Early
<1>4. EarnedInv'
  BY <1>1 DEF TableInv, EarnedInv
<1>5. ChoiceInv'
  BY <1>1 DEF TableInv, ChoiceInv, Early
<1> QED BY <1>2, <1>3, <1>4, <1>5 DEF TableInv

LEMMA MainStarts == ASSUME MainInit PROVE MainInv
<1>1. FetchInv
  <2>1. /\ httpPc = "connect" /\ ready = FALSE /\ pos = 0 /\ file = << >>
        /\ server = "waits" /\ httpSent = 0 /\ record = 0
    BY DEF MainInit, Http!Init
  <2>2. Written
    BY <2>1 DEF Written
  <2>3. /\ pos \in Nat /\ record \in Nat /\ httpSent \in Nat
        /\ pos + record <= httpSent /\ httpSent <= HdrLen + BodyLen
    BY <2>1, HttpSizes
  <2>5. content \in Contents
    BY DEF MainInit, Http!Init
  <2>4. /\ httpPc \in {"connect", "send", "select", "recv", "ok", "failed"} /\ ready \in BOOLEAN
        /\ server \in {"waits", "sends", "closed", "reset"}
        /\ server # "closed" /\ httpPc # "ok"
    BY <2>1
  <2> QED BY Zenon, <2>2, <2>3, <2>4, <2>5 DEF FetchInv
<1>2. TableInv
  BY TableInit DEF MainInit
<1>3. FrameInv
  BY DEF MainInit, FrameInv
<1> QED BY <1>1, <1>2, <1>3 DEF MainInv

LEMMA OptionsKeep ==
  ASSUME MainInv, Option \/ Usage \/ BadOption \/ EndOfOptions PROVE MainInv'
<1>1. UNCHANGED httpVars /\ UNCHANGED <<fetch, answer>> /\ stage = "args"
  BY DEF Option, Usage, BadOption, EndOfOptions
<1>2. FetchInv'
  BY <1>1, FetchStays DEF MainInv
<1>3. FrameInv'
  BY <1>1 DEF MainInv, FrameInv
<1>4. TableInv'
  <2>1. CASE UNCHANGED tableVars
    BY <2>1, TableStays DEF MainInv
  <2>2. CASE Manual
    <3>1. /\ auto' = FALSE
          /\ UNCHANGED <<tablePc, listed, table, i, latFile, elapsed, best, index, refused,
                         answered, tableOdd>>
      BY <2>2 DEF Manual
    <3> QED BY <3>1 DEF MainInv, TableInv, TableTypes, NearestInv, EarnedInv, ChoiceInv
  <2>3. UNCHANGED tableVars \/ Manual
    BY DEF Option, Usage, BadOption, EndOfOptions, Protocol, ThreadNumOption, tableVars
  <2> QED BY <2>1, <2>2, <2>3
<1> QED BY <1>2, <1>3, <1>4 DEF MainInv

LEMMA NextFileKeeps == ASSUME TableInv, NextFile PROVE TableInv'
BY TableStays, FetchListsKeeps DEF NextFile

LEMMA FilesKeep ==
  ASSUME MainInv, SkipFile \/ StartFetch \/ FetchStep \/ EndFetch PROVE MainInv'
<1>1. CASE SkipFile
  <2>1. UNCHANGED httpVars /\ UNCHANGED <<fetch, answer>> /\ fetch = "none"
    BY <1>1 DEF SkipFile, Busy
  <2>2. TableInv'
    BY <1>1, NextFileKeeps DEF SkipFile, MainInv
  <2> QED BY <2>1, <2>2, FetchStays DEF MainInv, FrameInv
<1>2. CASE StartFetch
  <2>1. /\ fetch' = "file" /\ UNCHANGED tableVars /\ content' \in Contents
        /\ UNCHANGED <<answer, httpPc, ready, pos, file, server, httpSent, record, httpOdd>>
    BY <1>2 DEF StartFetch
  <2>2. FetchInv'
    BY <2>1 DEF MainInv, FetchInv, Written
  <2> QED BY <2>1, <2>2, TableStays DEF MainInv, FrameInv
<1>3. CASE FetchStep
  <2>1. FetchInv'
    BY <1>3, ServerKeeps, ClientKeeps DEF FetchStep, MainInv
  <2>2. UNCHANGED tableVars /\ UNCHANGED <<stage, fetch, answer>>
    BY <1>3 DEF FetchStep, runVars
  <2>3. FrameInv'
    BY <2>2 DEF MainInv, FrameInv, tableVars
  <2> QED BY <2>1, <2>2, <2>3, TableStays DEF MainInv
<1>4. CASE EndFetch
  <2>1. FetchInv' /\ fetch' = "none" /\ answer' = answer
    BY <1>4, ForgottenIsNew DEF EndFetch, Forgotten
  <2>2. TableInv'
    BY <1>4, NextFileKeeps, FetchListsKeeps DEF EndFetch, MainInv
  <2> QED BY <2>1, <2>2 DEF MainInv, FrameInv
<1> QED BY <1>1, <1>2, <1>3, <1>4

LEMMA ProbesKeep == ASSUME MainInv, StartProbe \/ EndProbe PROVE MainInv'
<1>1. CASE StartProbe
  <2>1. /\ fetch' = "latency" /\ stage = "run" /\ tablePc = "probe" /\ i = 1 /\ UNCHANGED stage
        /\ answer' \in {"test", "other"} /\ UNCHANGED tableVars /\ content' \in Contents
        /\ UNCHANGED <<httpPc, ready, pos, file, server, httpSent, record, httpOdd>>
    BY <1>1, PlainIsKnown DEF StartProbe
  <2>2. FetchInv'
    BY <2>1 DEF MainInv, FetchInv, Written
  <2>3. FrameInv'
    BY <2>1 DEF FrameInv, tableVars
  <2> QED BY <2>1, <2>2, <2>3, TableStays DEF MainInv
<1>2. CASE EndProbe
  <2>1. FetchInv' /\ fetch' = "none" /\ answer' = "other" /\ fetch = "latency"
    BY <1>2, ForgottenIsNew DEF EndProbe, Forgotten
  <2>2. PICK f \in LatencyFiles, e \in Latencies :
          Table!AfterFetch(f, e, server # "waits" /\ f = "test")
    BY <1>2 DEF EndProbe
  <2> DEFINE own == server # "waits" /\ f = "test"
  <2>3. own \in BOOLEAN
    OBVIOUS
  <2>4. tableOdd = {} /\ f = "test" => own
    BY <2>2 DEF MainInv, TableInv, EarnedInv, LatencyFiles
  <2>5. tablePc = "probe" /\ TableInv
    BY <2>1 DEF MainInv, FrameInv
  <2>6. Table!AfterFetch(f, e, own)
    BY <2>2
  <2> HIDE DEF own
  <2>7. TableInv'
    BY <2>3, <2>4, <2>5, <2>6, AfterFetchKeeps
  <2> QED BY <2>1, <2>7 DEF MainInv, FrameInv
<1> QED BY <1>1, <1>2

LEMMA TableKeeps == ASSUME MainInv, TableStep PROVE MainInv'
<1>1. /\ UNCHANGED httpVars /\ UNCHANGED <<fetch, answer>> /\ fetch = "none"
  BY DEF TableStep, runVars, Busy
<1>2. TableInv'
  BY NearestServerKeeps, ProbeKeeps, SortKeeps, LaterKeeps DEF TableStep, Probe, MainInv
<1> QED BY <1>1, <1>2, FetchStays DEF MainInv, FrameInv

LEMMA MainInductive == ASSUME MainInv, [MainNext]_programVars PROVE MainInv'
<1>1. CASE UNCHANGED programVars
  <2>1. UNCHANGED httpVars /\ UNCHANGED tableVars /\ UNCHANGED <<stage, fetch, answer>>
    BY <1>1 DEF programVars, runVars
  <2>2. FrameInv'
    BY <2>1 DEF MainInv, FrameInv, tableVars
  <2> QED BY <2>1, <2>2, TableStays, FetchStays DEF MainInv
<1> QED BY <1>1, OptionsKeep, FilesKeep, ProbesKeep, TableKeeps DEF MainNext, Ended

LEMMA MainInvariant == MainSpec => []MainInv
<1>1. MainInit => MainInv
  BY MainStarts
<1>2. MainInv /\ [MainNext]_programVars => MainInv'
  BY MainInductive
<1> QED BY <1>1, <1>2, PTL DEF MainSpec

\* A file in whose fetch no connection was closed early, no chunk came after
\* select's timeout, no buffer was full, no header was split, and no blank line
\* or NUL of the body was taken for the end of a header or of rbuf (get_http_file
\* and get_https_file) holds the body of the response, byte by byte, wherever the
\* body has its blank lines and NULs.
THEOREM FilesAreBodies == MainSpec => []FileIsBody
<1>1. ASSUME MainInv PROVE FileIsBody
  BY <1>1, FetchedBody DEF MainInv, FileIsBody, Http!FileIsBody
<1> QED BY <1>1, MainInvariant, PTL

\* The table holds the nearest servers of the list, each once, through every
\* insertion of get_nearest_server, every probe and the sort of get_best_server;
\* until that sort it is in order of distance.
THEOREM NearestAreKept == MainSpec => []NearestKept
<1>1. ASSUME MainInv PROVE NearestKept
  <2>0. /\ Urls(table) = Best(listed) /\ listed \in Seq(Nat) /\ NearestNum \in Nat
        /\ tablePc \in {"list", "probe"} => OrderedIn(table, listed)
    BY <1>1, TableSizes DEF MainInv, TableInv, TableTypes, NearestInv, Early
  <2>1. Table!InTable = Urls(table)
    BY TableSizes DEF Table!InTable, Urls
  <2>2. Best(listed) = {a \in Table!Listed :
          Cardinality({b \in Table!Listed \ {a} : Table!Nearer(b, a)}) < NearestNum}
    BY DEF Best, Before, Table!Nearer, Table!Listed
  <2>3. ASSUME tablePc \in {"list", "probe"}, NEW k \in 1 .. NearestNum, table[k].url # 0
        PROVE  /\ table[k].dist = listed[table[k].url]
               /\ k > 1 => Table!Nearer(table[k - 1].url, table[k].url)
    <3>1. k > 1 => k - 1 \in 1 .. k - 1
      BY <2>0
    <3> QED BY <2>0, <2>3, <3>1 DEF OrderedIn, Before, Table!Nearer
  <2>4. Table!InTable = {a \in Table!Listed :
          Table!Cardinality({b \in Table!Listed \ {a} : Table!Nearer(b, a)}) < NearestNum}
    BY Zenon, <2>0, <2>1, <2>2, SameSize
  <2>5. tablePc \in {"list", "probe"} => \A k \in Table!Entries : LET e == table[k] IN
          /\ e.url # 0 => e.dist = listed[e.url]
          /\ k > 1 /\ e.url # 0 => Table!Nearer(table[k - 1].url, e.url)
    BY <2>3, TableSizes
  <2> QED BY <2>4, <2>5 DEF NearestKept, Table!NearestKept
<1> QED BY <1>1, MainInvariant, PTL

\* A server that get_best_server takes for measured has answered itself, unless
\* a latency.txt was left behind or an answer was empty.
THEOREM LatenciesAreEarned == MainSpec => []LatencyEarned
<1>1. ASSUME MainInv PROVE LatencyEarned
  BY <1>1, TableSizes DEF MainInv, TableInv, EarnedInv, LatencyEarned, Table!LatencyEarned
<1> QED BY <1>1, MainInvariant, PTL

\* The server that run measures with, when it chooses by itself, has accepted
\* its check, and each one with a smaller latency has refused it.
THEOREM LeastLatencyIsTaken == MainSpec => []AutoLeastLatency
<1>1. ASSUME MainInv, tablePc = "measure", auto
      PROVE  /\ index \notin refused /\ best # Table!None
             /\ \A k \in Table!WithLatency \ refused :
                  table[index].lat # Table!None /\ table[index].lat <= table[k].lat
  <2>1. /\ best # Table!None /\ index \in 1 .. NearestNum /\ refused = 1 .. index - 1
        /\ SortedTable(table) /\ table \in Tables /\ NearestNum \in Nat
    BY <1>1, TableSizes DEF MainInv, TableInv, TableTypes, ChoiceInv
  <2>2. index \notin refused
    BY <2>1
  <2>3. ASSUME NEW k \in 1 .. NearestNum, table[k].lat # Table!None, k \notin refused
        PROVE  table[index].lat # Table!None /\ table[index].lat <= table[k].lat
    <3>1. index <= k
      BY <2>1, <2>3
    <3>2. CASE k = index
      BY <2>1, <2>3, <3>2 DEF Tables, Servers
    <3>3. CASE index < k
      BY <2>1, <2>3, <3>3 DEF SortedTable, NotWorse
    <3> QED BY <2>1, <3>1, <3>2, <3>3
  <2> QED BY <2>1, <2>2, <2>3, TableSizes DEF Table!WithLatency
<1>2. ASSUME MainInv PROVE AutoLeastLatency
  BY <1>1, <1>2 DEF AutoLeastLatency, Table!AutoLeastLatency
<1> QED BY <1>2, MainInvariant, PTL

\* A probe with nothing odd gives a server a latency exactly when its
\* latency.txt is the expected text, whatever the chunks were and whatever the
\* file and fgets's buffer (get_best_server's line) held before.
LEMMA ProbeDecides ==
  ASSUME MainInv, EndProbe, httpPc = "ok", httpOdd = {}
  PROVE  table'[i].lat = Table!None <=> answer = "other"
<1>0. i = 1 /\ i \in 1 .. NearestNum /\ table \in Tables /\ answer \in {"test", "other"} /\ FetchInv
  BY TableSizes DEF EndProbe, MainInv, FrameInv, TableInv, TableTypes
<1>1. file = WholeBody /\ server = "closed"
  BY <1>0, FetchedBody DEF WholeBody, Bytes
<1>2. IsPrefix(WholeBody, file) /\ file # << >>
  <2>1. BodyLen \in Nat /\ BodyLen > 0
    BY HttpSizes, DetailAssumption
  <2>2. Len(WholeBody) = BodyLen
    BY <2>1 DEF WholeBody
  <2>3. file # << >>
    BY <1>1, <2>1, <2>2
  <2>4. Len(file) <= Len(file)
    BY <1>1, <2>1, <2>2
  <2> QED BY <1>1, <2>3, <2>4 DEF IsPrefix
<1>3. LatencyFiles = {IF answer = "test" THEN "test" ELSE "other"}
  BY <1>1, <1>2 DEF LatencyFiles
<1>4. PICK f \in LatencyFiles, e \in Latencies :
        Table!AfterFetch(f, e, server # "waits" /\ f = "test")
  BY DEF EndProbe
<1>5. table'[i].lat = Table!Measured(f, e)
  <2>1. table' = [table EXCEPT ![i].lat = Table!Measured(f, e)]
    BY <1>4 DEF Table!AfterFetch
  <2> QED BY <1>0, <2>1 DEF Tables, Servers
<1>6. e # Table!None
  BY TableSizes DEF Table!None
<1> QED BY <1>0, <1>3, <1>5, <1>6 DEF Table!Measured, Table!LineAfter

THEOREM AnswersCount == MainSpec => AnswerCounts
<1>1. ASSUME MainInv, [MainNext]_programVars,
             fetch = "latency", ~ Busy', httpPc = "ok", httpOdd = {}
      PROVE  table'[i].lat = Table!None <=> answer = "other"
  <2>1. fetch' = "none"
    BY <1>1 DEF Busy
  <2>2. ~ UNCHANGED fetch /\ stage = "run"
    BY <1>1, <2>1 DEF MainInv, FrameInv
  <2>3. EndProbe
    BY <1>1, <2>1, <2>2 DEF MainNext, Option, Usage, BadOption, EndOfOptions, SkipFile, StartFetch,
         FetchStep, EndFetch, StartProbe, TableStep, Ended, runVars, programVars, Busy
  <2> QED BY <1>1, <2>3, ProbeDecides
<1>2. MainInv /\ [MainNext]_programVars =>
        [fetch = "latency" /\ ~ Busy' /\ httpPc = "ok" /\ httpOdd = {} =>
           (table'[i].lat = Table!None <=> answer = "other")]_programVars
  BY <1>1
<1> QED BY <1>2, MainInvariant, PTL DEF MainSpec, AnswerCounts
=============================================================================
