-------------------------- MODULE SignalSyncProofs --------------------------
(***************************************************************************)
(* Proofs about SignalSync, for every number of runs, whatever signals are *)
(* lost, processes killed or files not opened.                             *)
(***************************************************************************)
EXTENDS SignalSync, TLAPS

\* B exists once A has forked, and has no turn before A has had one.
BeginInv(a, b) == /\ a \in {"none", "create", "fork"} => b = "none"
                  /\ a = "register" => b \notin Turn
                  /\ b \notin {"create", "fork"}

\* An orphan has a line to write only if it has not written one yet.
OrphanInv(a, b, n) == /\ a # "dead" => n = 0
                      /\ b \in {"none", "register", "sleep", "read", "write"} => n = 0
                      /\ n <= 1

RunInv == \A r \in Runs : /\ BeginInv(pc[r]["A"], pc[r]["B"])
                          /\ OrphanInv(pc[r]["A"], pc[r]["B"], orphan[r])

Inv == TypeOK /\ TurnExclusive /\ RunInv

LEMMA InitInv == Init => Inv
BY RunsAssumption DEF Init, Inv, TypeOK, TurnExclusive, RunInv, BeginInv, OrphanInv, Turn,
   Places, Roles

\* A step of run r gives its processes new places a, b and its orphan a new
\* count n; the invariant needs to be shown of these three only.
LEMMA RunStep ==
  ASSUME Inv, NEW r \in Runs, NEW a \in Places, NEW b \in Places, NEW n \in Nat,
         pc' = [pc EXCEPT ![r] = [p \in Roles |-> IF p = "A" THEN a ELSE b]],
         orphan' = [orphan EXCEPT ![r] = n],
         ~ (a \in Turn /\ b \in Turn), BeginInv(a, b), OrphanInv(a, b, n)
  PROVE  /\ TurnExclusive' /\ RunInv'
         /\ pc' \in [Runs -> [Roles -> Places]] /\ orphan' \in [Runs -> Nat]
<1>1. \A q \in Runs : /\ pc'[q]["A"] = IF q = r THEN a ELSE pc[q]["A"]
                      /\ pc'[q]["B"] = IF q = r THEN b ELSE pc[q]["B"]
                      /\ orphan'[q] = IF q = r THEN n ELSE orphan[q]
  BY DEF Inv, TypeOK, Roles
<1>2. TurnExclusive'
  BY <1>1 DEF TurnExclusive, Inv
<1>3. RunInv'
  BY <1>1 DEF RunInv, Inv
<1>4. pc' \in [Runs -> [Roles -> Places]] /\ orphan' \in [Runs -> Nat]
  BY DEF Inv, TypeOK, Roles
<1> QED BY <1>2, <1>3, <1>4

LEMMA RunTypes ==
  ASSUME TypeOK, NEW r \in Runs
  PROVE  /\ pc[r]["A"] \in Places /\ pc[r]["B"] \in Places
         /\ orphan = [orphan EXCEPT ![r] = orphan[r]] /\ orphan[r] \in Nat
BY DEF TypeOK, Roles

\* The rest of the type invariant, for the steps that do not touch the file.
LEMMA FileUnchanged ==
  ASSUME Inv, UNCHANGED <<num, fileVars, faults>>,
         pc' \in [Runs -> [Roles -> Places]], orphan' \in [Runs -> Nat]
  PROVE  TypeOK'
BY DEF Inv, TypeOK, fileVars

-----------------------------------------------------------------------------
(* Steps of the user, and of the processes before their loops *)

LEMMA OutsideStep ==
  ASSUME Inv, NEW r \in Runs, UNCHANGED faults,
         Start(r) \/ CreateFile(r) \/ Fork(r) \/ Stop(r) \/ KillA(r)
  PROVE  Inv'
<1> DEFINE a == pc[r]["A"]
           b == pc[r]["B"]
<1> USE DEF Places, Turn
<1>0. TypeOK /\ BeginInv(a, b) /\ OrphanInv(a, b, orphan[r]) /\ ~ (a \in Turn /\ b \in Turn)
  BY DEF Inv, RunInv, TurnExclusive
<1>1. UNCHANGED <<num, fileVars, orphan>>
  BY DEF Start, CreateFile, Fork, Stop, KillA
<1>2. PICK x \in Places, y \in Places :
        /\ pc' = [pc EXCEPT ![r] = [p \in Roles |-> IF p = "A" THEN x ELSE y]]
        /\ \/ x \in {"create", "fork"} /\ y = b /\ a \in {"none", "create"}
           \/ x = "register" /\ y = "register" /\ a = "fork"
           \/ x = "dead" /\ y \in {"dead", b} /\ a # "none"
  <2>0. ASSUME NEW x \in Places, pc' = [pc EXCEPT ![r]["A"] = x]
        PROVE  pc' = [pc EXCEPT ![r] = [p \in Roles |-> IF p = "A" THEN x ELSE b]]
    <3>1. pc[r] \in [Roles -> Places]
      BY <1>0 DEF TypeOK
    <3>2. [pc[r] EXCEPT !["A"] = x] = [p \in Roles |-> IF p = "A" THEN x ELSE b]
      BY <3>1 DEF Roles
    <3>3. pc' = [pc EXCEPT ![r] = [pc[r] EXCEPT !["A"] = x]]
      BY <2>0
    <3> QED BY <3>2, <3>3
  <2>a. b \in Places
    BY <1>0, RunTypes
  <2>1. CASE Start(r) \/ CreateFile(r) \/ KillA(r)
    <3>1. PICK x \in {"create", "fork", "dead"} :
            /\ pc' = [pc EXCEPT ![r]["A"] = x]
            /\ x = "dead" => a # "none"
            /\ x # "dead" => a \in {"none", "create"}
      BY <2>1 DEF Start, CreateFile, KillA, Goto
    <3> QED BY ZenonT(60), <2>0, <2>a, <3>1
  <2>2. CASE Fork(r)
    <3>1. CASE pc' = [pc EXCEPT ![r] = [p \in Roles |-> "register"]]
      <4>1. [p \in Roles |-> "register"]
            = [p \in Roles |-> IF p = "A" THEN "register" ELSE "register"]
        OBVIOUS
      <4> QED BY <2>2, <3>1, <4>1 DEF Fork
    <3>2. CASE pc' = [pc EXCEPT ![r]["A"] = "dead"]
      BY ZenonT(30), <2>0, <2>a, <2>2, <3>2 DEF Fork
    <3> QED BY <2>2, <3>1, <3>2 DEF Fork
  <2>3. CASE Stop(r)
    <3>1. [p \in Roles |-> "dead"] = [p \in Roles |-> IF p = "A" THEN "dead" ELSE "dead"]
      OBVIOUS
    <3> QED BY <2>3, <3>1 DEF Stop
  <2> QED BY <2>1, <2>2, <2>3
<1>3. /\ BeginInv(x, y) /\ OrphanInv(x, y, orphan[r]) /\ ~ (x \in Turn /\ y \in Turn)
  BY <1>0, <1>2 DEF BeginInv, OrphanInv
<1>4. orphan' = [orphan EXCEPT ![r] = orphan[r]] /\ orphan[r] \in Nat
  BY <1>0, <1>1, RunTypes
<1>5. /\ TurnExclusive' /\ RunInv'
      /\ pc' \in [Runs -> [Roles -> Places]] /\ orphan' \in [Runs -> Nat]
  BY ZenonT(30), <1>2, <1>3, <1>4, RunStep
<1> QED BY <1>1, <1>5, FileUnchanged DEF Inv

-----------------------------------------------------------------------------
(* Steps of the processes *)

\* Where a step of process p takes the two of them, and the orphan's count.
LEMMA ProcessMoves ==
  ASSUME Inv, NEW r \in Runs, NEW p \in Roles, Process(r, p)
  PROVE  \E x \in Places, y \in Places, n \in Nat :
           /\ pc' = [pc EXCEPT ![r] = [q \in Roles |-> IF q = "A" THEN x ELSE y]]
           /\ orphan' = [orphan EXCEPT ![r] = n]
           /\ BeginInv(x, y) /\ OrphanInv(x, y, n) /\ ~ (x \in Turn /\ y \in Turn)
<1> DEFINE a == pc[r]["A"]
           b == pc[r]["B"]
<1> USE DEF Places, Turn
<1>0. /\ TypeOK /\ BeginInv(a, b) /\ OrphanInv(a, b, orphan[r]) /\ ~ (a \in Turn /\ b \in Turn)
      /\ a \in Places /\ b \in Places /\ orphan[r] \in Nat
      /\ orphan = [orphan EXCEPT ![r] = orphan[r]]
  BY RunTypes DEF Inv, RunInv, TurnExclusive
<1>1. ASSUME NEW from, NEW to \in Places, Goto(r, p, from, to)
      PROVE  /\ p = "A" => /\ a = from
                           /\ pc' = [pc EXCEPT ![r] = [q \in Roles |-> IF q = "A" THEN to ELSE b]]
             /\ p = "B" => /\ b = from
                           /\ pc' = [pc EXCEPT ![r] = [q \in Roles |-> IF q = "A" THEN a ELSE to]]
  <2>1. pc[r][p] = from /\ pc' = [pc EXCEPT ![r] = [pc[r] EXCEPT ![p] = to]]
    BY <1>1 DEF Goto
  <2>2. pc[r] \in [Roles -> Places]
    BY <1>0 DEF TypeOK
  <2>3. /\ [pc[r] EXCEPT !["A"] = to] = [q \in Roles |-> IF q = "A" THEN to ELSE b]
        /\ [pc[r] EXCEPT !["B"] = to] = [q \in Roles |-> IF q = "A" THEN a ELSE to]
    BY <2>2 DEF Roles
  <2> QED BY <2>1, <2>3
<1>2. CASE Register(r, p)
  <2>1. CASE p = "A"
    BY <1>0, <1>1, <1>2, <2>1 DEF Register, BeginInv, OrphanInv
  <2>2. CASE p = "B"
    BY <1>0, <1>1, <1>2, <2>2 DEF Register, BeginInv, OrphanInv
  <2> QED BY <2>1, <2>2 DEF Roles
<1>3. CASE Sleep(r, p)
  <2>1. CASE p = "A"
    BY <1>0, <1>1, <1>3, <2>1 DEF Sleep, BeginInv, OrphanInv
  <2>2. CASE p = "B"
    BY <1>0, <1>1, <1>3, <2>2 DEF Sleep, BeginInv, OrphanInv
  <2> QED BY <2>1, <2>2 DEF Roles
<1>4. CASE Read(r, p)
  <2>1. CASE p = "A"
    BY <1>0, <1>1, <1>4, <2>1 DEF Read, BeginInv, OrphanInv
  <2>2. CASE p = "B"
    BY <1>0, <1>1, <1>4, <2>2 DEF Read, BeginInv, OrphanInv
  <2> QED BY <2>1, <2>2 DEF Roles
<1>5. CASE Write(r, p)
  <2>1. CASE p = "A"
    BY <1>0, <1>1, <1>5, <2>1 DEF Write, BeginInv, OrphanInv
  <2>2. CASE p = "B"
    <3>1. CASE /\ Goto(r, p, "write", "kill")
               /\ orphan' = IF a = "dead" THEN [orphan EXCEPT ![r] = @ + 1] ELSE orphan
      <4>1. orphan[r] = 0 /\ b = "write"
        BY <1>0, <1>1, <2>2, <3>1 DEF OrphanInv
      <4>2. PICK n \in {0, 1} : orphan' = [orphan EXCEPT ![r] = n] /\ (a # "dead" => n = 0)
        BY <1>0, <3>1, <4>1
      <4>3. BeginInv(a, "kill") /\ OrphanInv(a, "kill", n) /\ ~ (a \in Turn /\ "kill" \in Turn)
        BY <1>0, <4>1, <4>2 DEF BeginInv, OrphanInv
      <4>4. /\ a \in Places /\ "kill" \in Places /\ n \in Nat
            /\ pc' = [pc EXCEPT ![r] = [q \in Roles |-> IF q = "A" THEN a ELSE "kill"]]
        BY <1>0, <1>1, <2>2, <3>1
      <4> HIDE DEF a, Places, Turn
      <4> QED BY <4>2, <4>3, <4>4
    <3>2. CASE Goto(r, p, "write", "dead") /\ UNCHANGED orphan
      BY <1>0, <1>1, <2>2, <3>2 DEF BeginInv, OrphanInv
    <3> QED BY <1>5, <2>2, <3>1, <3>2 DEF Write
  <2> QED BY <2>1, <2>2 DEF Roles
<1>6. CASE EnterPause(r, p)
  <2>1. CASE p = "A"
    BY <1>0, <1>1, <1>6, <2>1 DEF EnterPause, BeginInv, OrphanInv
  <2>2. CASE p = "B"
    BY <1>0, <1>1, <1>6, <2>2 DEF EnterPause, BeginInv, OrphanInv
  <2> QED BY <2>1, <2>2 DEF Roles
<1>7. CASE Kill(r, p)
  <2>0. AfterSignal(a) \in Places /\ AfterSignal(b) \in Places
    BY SMTT(30), <1>0 DEF AfterSignal
  <2>1. CASE p = "A"
    <3>1. pc' = [pc EXCEPT ![r] = [q \in Roles |-> IF q = "A" THEN "enter" ELSE AfterSignal(b)]]
      <4>1. [q \in Roles |-> IF q = p THEN "enter" ELSE AfterSignal(pc[r][q])]
            = [q \in Roles |-> IF q = "A" THEN "enter" ELSE AfterSignal(b)]
        BY <2>1 DEF Roles
      <4> QED BY <1>0, <1>7, <4>1 DEF Kill, TypeOK
    <3>2. a = "kill" /\ orphan' = orphan
      BY <1>7, <2>1 DEF Kill
    <3>3. /\ BeginInv("enter", AfterSignal(b)) /\ OrphanInv("enter", AfterSignal(b), orphan[r])
          /\ "enter" \notin Turn
      BY SMTT(30), <1>0, <3>2 DEF BeginInv, OrphanInv, AfterSignal
    <3> QED BY <1>0, <2>0, <3>1, <3>2, <3>3
  <2>2. CASE p = "B"
    <3>1. pc' = [pc EXCEPT ![r] = [q \in Roles |-> IF q = "A" THEN AfterSignal(a) ELSE "enter"]]
      <4>1. [q \in Roles |-> IF q = p THEN "enter" ELSE AfterSignal(pc[r][q])]
            = [q \in Roles |-> IF q = "A" THEN AfterSignal(a) ELSE "enter"]
        BY <2>2 DEF Roles
      <4> QED BY <1>0, <1>7, <4>1 DEF Kill, TypeOK
    <3>2. b = "kill" /\ orphan' = orphan
      BY <1>7, <2>2 DEF Kill
    <3>3. /\ BeginInv(AfterSignal(a), "enter") /\ OrphanInv(AfterSignal(a), "enter", orphan[r])
          /\ "enter" \notin Turn
      BY <1>0, <3>2 DEF BeginInv, OrphanInv, AfterSignal
    <3> QED BY ZenonT(30), <1>0, <2>0, <3>1, <3>2, <3>3
  <2> QED BY <2>1, <2>2 DEF Roles
<1> QED BY <1>2, <1>3, <1>4, <1>5, <1>6, <1>7 DEF Process

\* What they write keeps its type.
LEMMA ProcessTypes ==
  ASSUME Inv, NEW r \in Runs, NEW p \in Roles, Process(r, p)
  PROVE  /\ num' \in [Runs -> [Roles -> 0 .. Wrap - 1]]
         /\ last' \in 0 .. Wrap - 1 /\ writer' \in (Runs \cup {0}) \X Roles
<1> USE RunsAssumption DEF Inv, TypeOK
<1>1. CASE Read(r, p)
  <2>1. PICK n \in {last, -1} : num' = [num EXCEPT ![r][p] = (n + 1) % Wrap]
    BY <1>1 DEF Read
  <2>2. (n + 1) % Wrap \in 0 .. Wrap - 1
    BY <2>1
  <2> QED BY <1>1, <2>1, <2>2 DEF Read, fileVars
<1>2. CASE Write(r, p)
  BY <1>2 DEF Write, fileVars
<1>3. CASE Register(r, p) \/ Sleep(r, p) \/ Kill(r, p) \/ EnterPause(r, p)
  BY <1>3 DEF Register, Sleep, Kill, EnterPause, fileVars
<1> QED BY <1>1, <1>2, <1>3 DEF Process

LEMMA InvInductive == Inv /\ [Next]_vars => Inv'
<1> SUFFICES ASSUME Inv, [Next]_vars PROVE Inv'
  OBVIOUS
<1>1. ASSUME NEW r \in Runs, Start(r) \/ CreateFile(r) \/ Fork(r) \/ Stop(r) \/ KillA(r),
             UNCHANGED faults
      PROVE  Inv'
  BY <1>1, OutsideStep
<1>2. ASSUME NEW r \in Runs, NEW p \in Roles, Process(r, p), UNCHANGED faults
      PROVE  Inv'
  <2>1. PICK x \in Places, y \in Places, n \in Nat :
          /\ pc' = [pc EXCEPT ![r] = [q \in Roles |-> IF q = "A" THEN x ELSE y]]
          /\ orphan' = [orphan EXCEPT ![r] = n]
          /\ BeginInv(x, y) /\ OrphanInv(x, y, n) /\ ~ (x \in Turn /\ y \in Turn)
    BY <1>2, ProcessMoves
  <2>2. /\ TurnExclusive' /\ RunInv'
        /\ pc' \in [Runs -> [Roles -> Places]] /\ orphan' \in [Runs -> Nat]
    BY <2>1, RunStep
  <2>3. TypeOK'
    BY <1>2, <2>2, ProcessTypes DEF Inv, TypeOK
  <2> QED BY <2>2, <2>3 DEF Inv
<1>3. CASE UNCHANGED vars
  BY <1>3 DEF vars, fileVars, Inv, TypeOK, TurnExclusive, RunInv
<1> QED BY <1>1, <1>2, <1>3 DEF Next, Over

LEMMA Invariance == Spec => []Inv
BY InitInv, InvInductive, PTL DEF Spec

-----------------------------------------------------------------------------
(* The numbering *)

Early == {"none", "create", "fork", "register"}
Drafting == {"sleep", "read", "write"}

\* Who has written the last line, by where A and B of run r are.
WriterInv(r, a, b) == /\ a \in Early => writer[1] # r
                      /\ a \in Drafting => writer # <<r, "A">>
                      /\ a = "kill" => writer = <<r, "A">>
                      /\ b \in Drafting => writer = <<r, "A">>
                      /\ b = "kill" => writer = <<r, "B">>
                      /\ a = "dead" => b \in {"none", "dead"}

\* The number that is about to be written is the one after the last.
FreshInv(r) == \A p \in Roles : pc[r][p] = "write" => num[r][p] = (last + 1) % Wrap

\* A run is started when those before it have lost their A.
OrderInv == \A q, r \in Runs : q < r /\ pc[r]["A"] # "none" => pc[q]["A"] = "dead"

NumberInv == Tame =>
  /\ OrderInv
  /\ \A r \in Runs : WriterInv(r, pc[r]["A"], pc[r]["B"]) /\ FreshInv(r)

LEMMA InitNumber == Init => NumberInv
BY DEF Init, NumberInv, OrderInv, WriterInv, FreshInv, Early, Drafting, Roles, Runs

\* A step of run r that leaves the file alone keeps the invariant when it does
\* so for the places x and y that its processes come to.
LEMMA RunKeepsNumbers ==
  ASSUME Inv, NumberInv, Tame, UNCHANGED <<fileVars, faults>>, NEW r \in Runs,
         NEW x \in Places, NEW y \in Places,
         pc' = [pc EXCEPT ![r] = [p \in Roles |-> IF p = "A" THEN x ELSE y]],
         pc[r]["A"] = "dead" => x = "dead",
         \/ pc[r]["A"] # "none"
         \/ \A q \in Runs : q < r => pc[q]["A"] = "dead",
         WriterInv(r, x, y),
         \A q \in Runs, p \in Roles :
           num'[q][p] = num[q][p] \/ (q = r /\ num'[q][p] = (last + 1) % Wrap),
         x = "write" => pc[r]["A"] = "write" \/ num'[r]["A"] = (last + 1) % Wrap,
         y = "write" => pc[r]["B"] = "write" \/ num'[r]["B"] = (last + 1) % Wrap
  PROVE  NumberInv'
<1>1. \A q \in Runs : /\ pc'[q]["A"] = IF q = r THEN x ELSE pc[q]["A"]
                      /\ pc'[q]["B"] = IF q = r THEN y ELSE pc[q]["B"]
  BY DEF Inv, TypeOK, Roles
<1>2. OrderInv'
  BY <1>1 DEF NumberInv, OrderInv, Runs
<1>3. ASSUME NEW q \in Runs PROVE WriterInv(q, pc[q]["A"], pc[q]["B"])'
  BY <1>1 DEF NumberInv, WriterInv, fileVars
<1>4. ASSUME NEW q \in Runs PROVE FreshInv(q)'
  BY <1>1 DEF NumberInv, FreshInv, fileVars, Roles
<1> QED BY <1>2, <1>3, <1>4 DEF NumberInv

LEMMA OutsideKeepsNumbers ==
  ASSUME Inv, NumberInv, Tame, NEW r \in Runs, UNCHANGED faults,
         Start(r) \/ CreateFile(r) \/ Fork(r) \/ Stop(r) \/ KillA(r)
  PROVE  NumberInv'
<1> DEFINE a == pc[r]["A"]
           b == pc[r]["B"]
<1>0. /\ BeginInv(a, b) /\ WriterInv(r, a, b) /\ a \in Places /\ b \in Places
  BY RunTypes DEF Inv, RunInv, NumberInv
<1>1. UNCHANGED <<num, fileVars>>
  BY DEF Start, CreateFile, Fork, Stop, KillA
<1>2. PICK x \in Places, y \in Places :
        /\ pc' = [pc EXCEPT ![r] = [p \in Roles |-> IF p = "A" THEN x ELSE y]]
        /\ \/ x = "create" /\ y = b /\ a = "none" /\ \A q \in Runs : q < r => pc[q]["A"] = "dead"
           \/ x = "fork" /\ y = b /\ a = "create"
           \/ x = "register" /\ y = "register" /\ a = "fork"
           \/ x = "dead" /\ y = b /\ a = "fork"
           \/ x = "dead" /\ y = "dead" /\ a # "none"
  <2>0. ASSUME NEW x \in Places, pc' = [pc EXCEPT ![r]["A"] = x]
        PROVE  pc' = [pc EXCEPT ![r] = [p \in Roles |-> IF p = "A" THEN x ELSE b]]
    <3>1. pc[r] \in [Roles -> Places]
      BY DEF Inv, TypeOK
    <3>2. [pc[r] EXCEPT !["A"] = x] = [p \in Roles |-> IF p = "A" THEN x ELSE b]
      BY <3>1 DEF Roles
    <3> QED BY <2>0, <3>2
  <2>1. CASE Start(r)
    BY <1>0, <2>0, <2>1 DEF Start, Goto, Places
  <2>2. CASE CreateFile(r)
    BY <1>0, <2>0, <2>2 DEF CreateFile, Goto, Places, Tame
  <2>3. CASE Fork(r)
    <3>1. CASE pc' = [pc EXCEPT ![r] = [p \in Roles |-> "register"]]
      <4>1. [p \in Roles |-> "register"]
            = [p \in Roles |-> IF p = "A" THEN "register" ELSE "register"]
        OBVIOUS
      <4> QED BY <2>3, <3>1, <4>1 DEF Fork, Places
    <3>2. CASE pc' = [pc EXCEPT ![r]["A"] = "dead"]
      BY ZenonT(30), <1>0, <2>0, <2>3, <3>2 DEF Fork, Places
    <3> QED BY <2>3, <3>1, <3>2 DEF Fork
  <2>4. CASE Stop(r)
    <3>1. [p \in Roles |-> "dead"] = [p \in Roles |-> IF p = "A" THEN "dead" ELSE "dead"]
      OBVIOUS
    <3> QED BY <2>4, <3>1 DEF Stop, Places
  <2>5. CASE KillA(r)
    BY <2>5 DEF KillA, Tame
  <2> QED BY <2>1, <2>2, <2>3, <2>4, <2>5
<1>3. WriterInv(r, x, y) /\ x # "write" /\ (y = "write" => b = "write")
  BY <1>0, <1>2 DEF WriterInv, BeginInv, Early, Drafting, Turn
<1> QED BY <1>1, <1>2, <1>3, RunKeepsNumbers

-----------------------------------------------------------------------------
(* The processes *)

\* Where Goto takes the two processes of run r.
LEMMA GotoMoves ==
  ASSUME TypeOK, NEW r \in Runs, NEW p \in Roles, NEW from, NEW to \in Places,
         Goto(r, p, from, to)
  PROVE  /\ p = "A" => /\ pc[r]["A"] = from
                       /\ pc' = [pc EXCEPT ![r] = [q \in Roles |->
                                                     IF q = "A" THEN to ELSE pc[r]["B"]]]
         /\ p = "B" => /\ pc[r]["B"] = from
                       /\ pc' = [pc EXCEPT ![r] = [q \in Roles |->
                                                     IF q = "A" THEN pc[r]["A"] ELSE to]]
<1>1. pc[r][p] = from /\ pc' = [pc EXCEPT ![r] = [pc[r] EXCEPT ![p] = to]]
  BY DEF Goto
<1>2. pc[r] \in [Roles -> Places]
  BY DEF TypeOK
<1>3. /\ [pc[r] EXCEPT !["A"] = to] = [q \in Roles |-> IF q = "A" THEN to ELSE pc[r]["B"]]
      /\ [pc[r] EXCEPT !["B"] = to] = [q \in Roles |-> IF q = "A" THEN pc[r]["A"] ELSE to]
  BY <1>2 DEF Roles
<1> QED BY <1>1, <1>3

\* Where Kill takes them.
LEMMA KillMoves ==
  ASSUME TypeOK, NEW r \in Runs, NEW p \in Roles, Kill(r, p)
  PROVE  /\ p = "A" => pc' = [pc EXCEPT ![r] = [q \in Roles |->
                          IF q = "A" THEN "enter" ELSE AfterSignal(pc[r]["B"])]]
         /\ p = "B" => pc' = [pc EXCEPT ![r] = [q \in Roles |->
                          IF q = "A" THEN AfterSignal(pc[r]["A"]) ELSE "enter"]]
<1>1. ASSUME p = "A"
      PROVE  [q \in Roles |-> IF q = p THEN "enter" ELSE AfterSignal(pc[r][q])]
             = [q \in Roles |-> IF q = "A" THEN "enter" ELSE AfterSignal(pc[r]["B"])]
  BY <1>1 DEF Roles
<1>2. ASSUME p = "B"
      PROVE  [q \in Roles |-> IF q = p THEN "enter" ELSE AfterSignal(pc[r][q])]
             = [q \in Roles |-> IF q = "A" THEN AfterSignal(pc[r]["A"]) ELSE "enter"]
  BY <1>2 DEF Roles
<1> QED BY <1>1, <1>2 DEF Kill, TypeOK

\* Steps that leave the file alone.
LEMMA ProcessKeepsNumbers ==
  ASSUME Inv, NumberInv, Tame, NEW r \in Runs, NEW p \in Roles, UNCHANGED faults,
         Register(r, p) \/ Sleep(r, p) \/ Read(r, p) \/ Kill(r, p) \/ EnterPause(r, p)
  PROVE  NumberInv'
<1> DEFINE a == pc[r]["A"]
           b == pc[r]["B"]
<1>0. /\ TypeOK /\ a \in Places /\ b \in Places /\ p \in {"A", "B"}
      /\ BeginInv(a, b) /\ WriterInv(r, a, b) /\ ~ (a \in Turn /\ b \in Turn)
  BY RunTypes DEF Inv, RunInv, TurnExclusive, NumberInv, Roles
<1>1. UNCHANGED fileVars
  BY DEF Register, Sleep, Read, Kill, EnterPause
<1>2. PICK x \in Places, y \in Places :
        /\ pc' = [pc EXCEPT ![r] = [q \in Roles |-> IF q = "A" THEN x ELSE y]]
        /\ \/ x = "sleep" /\ y = b /\ a = "register"
           \/ x = a /\ y = "enter" /\ b = "register"
           \/ x = "read" /\ y = b /\ a = "sleep"
           \/ x = a /\ y = "read" /\ b = "sleep"
           \/ x = "write" /\ y = b /\ a = "read" /\ num'[r]["A"] = (last + 1) % Wrap
           \/ x = a /\ y = "write" /\ b = "read" /\ num'[r]["B"] = (last + 1) % Wrap
           \/ x = "pause" /\ y = b /\ a = "enter"
           \/ x = a /\ y = "pause" /\ b = "enter"
           \/ x = "enter" /\ y = AfterSignal(b) /\ a = "kill"
           \/ x = AfterSignal(a) /\ y = "enter" /\ b = "kill"
  <2>1. CASE Register(r, p)
    <3>1. CASE p = "A"
      BY SMTT(30), <1>0, <2>1, <3>1, GotoMoves DEF Register, Places, Turn
    <3>2. CASE p = "B"
      BY SMTT(30), <1>0, <2>1, <3>2, GotoMoves DEF Register, Places, Turn
    <3> QED BY <1>0, <3>1, <3>2
  <2>2. CASE Sleep(r, p)
    BY SMTT(30), <1>0, <2>2, GotoMoves DEF Sleep, Places, Turn
  <2>3. CASE Read(r, p)
    <3>1. Goto(r, p, "read", "write") /\ num'[r][p] = (last + 1) % Wrap
      BY <1>0, <2>3 DEF Read, Tame, TypeOK
    <3> QED BY SMTT(30), <1>0, <3>1, GotoMoves DEF Places, Turn
  <2>4. CASE EnterPause(r, p)
    BY SMTT(30), <1>0, <2>4, GotoMoves DEF EnterPause, Places, Turn
  <2>5. CASE Kill(r, p)
    <3>1. AfterSignal(a) \in Places /\ AfterSignal(b) \in Places
      BY <1>0 DEF AfterSignal, Places, Turn
    <3> QED BY <1>0, <2>5, <3>1, KillMoves DEF Kill, Places, Turn
  <2> QED BY <2>1, <2>2, <2>3, <2>4, <2>5
<1>3. /\ WriterInv(r, x, y) /\ a # "none"
      /\ a = "dead" => x = "dead"
  BY <1>0, <1>2 DEF WriterInv, BeginInv, Early, Drafting, Turn, AfterSignal
<1>4. \A q \in Runs, s \in Roles :
        num'[q][s] = num[q][s] \/ (q = r /\ num'[q][s] = (last + 1) % Wrap)
  <2>1. CASE Read(r, p)
    <3>1. num' = [num EXCEPT ![r][p] = (last + 1) % Wrap]
      BY <2>1 DEF Read, Tame
    <3> QED BY <1>0, <3>1 DEF TypeOK
  <2>2. CASE ~ Read(r, p)
    BY <2>2 DEF Register, Sleep, Kill, EnterPause
  <2> QED BY <2>1, <2>2
<1>5. /\ x = "write" => a = "write" \/ num'[r]["A"] = (last + 1) % Wrap
      /\ y = "write" => b = "write" \/ num'[r]["B"] = (last + 1) % Wrap
  BY <1>0, <1>2 DEF AfterSignal
<1> QED BY <1>1, <1>2, <1>3, <1>4, <1>5, RunKeepsNumbers

\* The step that writes a line: no other run is under way.
LEMMA LineWritten ==
  ASSUME Inv, NumberInv, Tame, NEW r \in Runs, NEW p \in Roles, Write(r, p)
  PROVE  /\ pc[r][p] = "write" /\ writer' = <<r, p>> /\ last' = (last + 1) % Wrap
         /\ UNCHANGED num
         /\ \/ writer = <<r, "A">> /\ p = "B"
            \/ writer = <<r, "B">> /\ p = "A"
            \/ writer[1] < r /\ p = "A"
         /\ \A q \in Runs \ {r} : /\ pc[q]["A"] \in {"none", "dead"}
                                  /\ pc[q]["B"] \in {"none", "dead"}
         /\ Goto(r, p, "write", "kill")
<1>1. /\ Goto(r, p, "write", "kill") /\ pc[r][p] = "write" /\ UNCHANGED num
      /\ last' = num[r][p] /\ writer' = <<r, p>>
  BY DEF Write, Goto, Tame
<1>2. last' = (last + 1) % Wrap
  BY <1>1 DEF NumberInv, FreshInv
<1>3. /\ BeginInv(pc[r]["A"], pc[r]["B"]) /\ WriterInv(r, pc[r]["A"], pc[r]["B"])
      /\ p \in {"A", "B"} /\ pc[r]["A"] \notin {"none", "dead"}
  BY <1>1 DEF Inv, RunInv, NumberInv, WriterInv, BeginInv, Roles
<1>4. ASSUME NEW q \in Runs, q # r
      PROVE  pc[q]["A"] \in {"none", "dead"} /\ pc[q]["B"] \in {"none", "dead"}
  <2>1. pc[q]["A"] \in {"none", "dead"}
    BY <1>3, <1>4 DEF NumberInv, OrderInv, Runs
  <2> QED BY <2>1 DEF Inv, RunInv, BeginInv, NumberInv, WriterInv
<1>5. CASE p = "B"
  BY <1>1, <1>2, <1>3, <1>4, <1>5 DEF WriterInv, Drafting
<1>6. CASE p = "A"
  <2>1. writer # <<r, "A">>
    BY <1>1, <1>3, <1>6 DEF WriterInv, Drafting
  <2>2. writer[1] \in Runs \cup {0} /\ writer[2] \in {"A", "B"}
        /\ writer = <<writer[1], writer[2]>>
    BY DEF Inv, TypeOK, Roles
  <2>3. writer[1] <= r
    <3>1. SUFFICES ASSUME writer[1] \in Runs, writer[1] > r PROVE FALSE
      BY <2>2 DEF Runs
    <3>2. pc[writer[1]]["A"] = "none"
      BY <1>3, <3>1 DEF NumberInv, OrderInv, Runs
    <3> QED BY <3>1, <3>2 DEF NumberInv, WriterInv, Early
  <2>4. writer[1] < r \/ writer = <<r, "B">>
    BY <2>1, <2>2, <2>3 DEF Runs
  <2> QED BY <1>1, <1>2, <1>4, <1>6, <2>4
<1> QED BY <1>3, <1>5, <1>6

LEMMA WriteKeepsNumbers ==
  ASSUME Inv, NumberInv, Tame, NEW r \in Runs, NEW p \in Roles, UNCHANGED faults, Write(r, p)
  PROVE  NumberInv'
<1> DEFINE a == pc[r]["A"]
           b == pc[r]["B"]
<1>0. /\ TypeOK /\ a \in Places /\ b \in Places /\ p \in {"A", "B"} /\ "kill" \in Places
      /\ BeginInv(a, b) /\ WriterInv(r, a, b) /\ ~ (a \in Turn /\ b \in Turn)
  BY RunTypes DEF Inv, RunInv, TurnExclusive, NumberInv, Roles, Places, Turn
<1>1. PICK x \in Places, y \in Places :
        /\ pc' = [pc EXCEPT ![r] = [q \in Roles |-> IF q = "A" THEN x ELSE y]]
        /\ \/ x = "kill" /\ y = b /\ p = "A" /\ a = "write"
           \/ x = a /\ y = "kill" /\ p = "B" /\ b = "write"
  BY <1>0, LineWritten, GotoMoves
<1>2. \A q \in Runs : /\ pc'[q]["A"] = IF q = r THEN x ELSE pc[q]["A"]
                      /\ pc'[q]["B"] = IF q = r THEN y ELSE pc[q]["B"]
  BY <1>0, <1>1 DEF TypeOK, Roles
<1>3. OrderInv'
  BY <1>1, <1>2 DEF NumberInv, OrderInv
<1>4. ASSUME NEW q \in Runs PROVE WriterInv(q, pc[q]["A"], pc[q]["B"])' /\ FreshInv(q)'
  <2>1. CASE q = r
    <3>1. WriterInv(r, x, y)'
      BY <1>0, <1>1, LineWritten DEF WriterInv, BeginInv, Early, Drafting, Turn
    <3>2. x # "write" /\ y # "write"
      BY <1>0, <1>1 DEF Turn
    <3> QED BY <1>2, <2>1, <3>1, <3>2 DEF FreshInv, Roles
  <2>2. CASE q # r
    BY <1>2, <2>2, LineWritten DEF WriterInv, FreshInv, Early, Drafting, Roles
  <2> QED BY <2>1, <2>2
<1> QED BY <1>3, <1>4 DEF NumberInv

LEMMA NumberInductive == Inv /\ NumberInv /\ [Next]_vars => NumberInv'
<1> SUFFICES ASSUME Inv, NumberInv, [Next]_vars PROVE NumberInv'
  OBVIOUS
<1>0. UNCHANGED faults
  BY DEF Next, vars
<1>1. CASE ~ Tame
  BY <1>0, <1>1 DEF NumberInv, Tame, LoneKill, IoFails
<1>2. ASSUME Tame, NEW r \in Runs, NEW p \in Roles, Process(r, p)
      PROVE  NumberInv'
  BY <1>0, <1>2, ProcessKeepsNumbers, WriteKeepsNumbers DEF Process
<1>3. CASE UNCHANGED vars
  BY <1>3 DEF vars, fileVars, NumberInv, OrderInv, WriterInv, FreshInv, Tame, LoneKill, IoFails
<1>4. CASE Tame /\ Next
  BY <1>0, <1>2, <1>3, <1>4, OutsideKeepsNumbers DEF Next, Over
<1> QED BY <1>1, <1>3, <1>4

\* A step that writes a line is a step of Numbering, every other one a stutter.
LEMMA NumberStep ==
  Inv /\ NumberInv /\ [Next]_vars
    => [NumberingSpec!Next]_<<IF Tame THEN last ELSE 0,
                              IF Tame THEN writer ELSE <<0, "B">> >>
<1> SUFFICES ASSUME Inv, NumberInv, [Next]_vars
             PROVE  [NumberingSpec!Next]_<<IF Tame THEN last ELSE 0,
                                           IF Tame THEN writer ELSE <<0, "B">> >>
  OBVIOUS
<1>0. Tame' = Tame
  BY DEF Next, vars, Tame, LoneKill, IoFails
<1>1. ASSUME NEW r \in Runs, NEW p \in Roles, Tame, Write(r, p)
      PROVE  NumberingSpec!Line(r, p)
  <2>1. r \in Nat
    BY DEF Runs
  <2> QED BY <1>0, <1>1, <2>1, LineWritten DEF NumberingSpec!Line
<1>2. ASSUME NEW r \in Runs, NEW p \in Roles, Process(r, p), ~ Write(r, p)
      PROVE  UNCHANGED fileVars
  BY <1>2 DEF Process, Register, Sleep, Read, Kill, EnterPause
<1>3. ASSUME NEW r \in Runs, Start(r) \/ CreateFile(r) \/ Fork(r) \/ Stop(r) \/ KillA(r)
      PROVE  UNCHANGED fileVars
  BY <1>3 DEF Start, CreateFile, Fork, Stop, KillA
<1>4. CASE \E r \in Runs, p \in Roles : Tame /\ Write(r, p)
  BY <1>1, <1>4 DEF NumberingSpec!Next, Roles
<1>5. CASE UNCHANGED fileVars \/ ~ Tame
  BY <1>0, <1>5 DEF fileVars
<1>6. CASE UNCHANGED vars
  BY <1>5, <1>6 DEF vars, fileVars
<1> QED BY <1>2, <1>3, <1>4, <1>5, <1>6 DEF Next, Over

LEMMA NumberInvariance == Spec => []NumberInv
BY InitNumber, NumberInductive, Invariance, PTL DEF Spec

-----------------------------------------------------------------------------
(* Theorems *)

\* Every variable keeps its type.
THEOREM TypeCorrect == Spec => []TypeOK
<1>1. Inv => TypeOK
  BY DEF Inv
<1> QED BY <1>1, Invariance, PTL

\* A and B of a run are never both in their critical sections.
THEOREM TurnsExclude == Spec => []TurnExclusive
<1>1. Inv => TurnExclusive
  BY DEF Inv
<1> QED BY <1>1, Invariance, PTL

\* A process B left over by a run writes at most one more line.
THEOREM OrphansAreBounded == Spec => []OrphanBound
<1>1. Inv => OrphanBound
  BY DEF Inv, RunInv, OrphanInv, OrphanBound
<1> QED BY <1>1, Invariance, PTL

\* If every file can be opened and A is not killed alone, output.txt is numbered
\* consecutively and by turns, across all runs, also when signals come too early.
THEOREM NumbersAreConsecutive == Spec => Numbered
<1>1. Init => NumberingSpec!Init
  BY DEF Init, NumberingSpec!Init
<1>2. Inv /\ NumberInv /\ [Next]_vars
        => [NumberingSpec!Next]_<<IF Tame THEN last ELSE 0,
                                  IF Tame THEN writer ELSE <<0, "B">> >>
  BY NumberStep
<1> QED BY <1>1, <1>2, Invariance, NumberInvariance, PTL DEF Spec, Numbered, NumberingSpec!Spec
=============================================================================
