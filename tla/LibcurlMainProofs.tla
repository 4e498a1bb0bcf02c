-------------------------- MODULE LibcurlMainProofs --------------------------
(***************************************************************************)
(* Proofs about Mini_project_libcurl, for all options, every answer of the *)
(* server API, every number of servers and threads, every latency and      *)
(* every outcome of the transfers.  The invariants of the list and of the  *)
(* measurement are shown for their own steps; that main leaves them alone  *)
(* between these, and starts both parts from where they may start, is      *)
(* shown at the end.                                                       *)
(***************************************************************************)
EXTENDS LibcurlMain, FiniteSetTheorems, WellFoundedInduction, TLAPS

-----------------------------------------------------------------------------
(* Sums over the first threads *)

LEMMA LeastNumber ==
  ASSUME NEW T \in SUBSET Nat, T # {}
  PROVE  \E x \in T : \A y \in T : x <= y
<1> DEFINE R == {ss \in Nat \X Nat : ss[1] < ss[2]}
<1>1. R = OpToRel(<, Nat)
  BY DEF OpToRel
<1>2. IsWellFoundedOn(R, Nat)
  BY <1>1, NatLessThanWellFounded
<1>3. PICK x \in T : \A y \in T : ~ (<<y, x>> \in R)
  <2> HIDE DEF R
  <2> QED BY <1>2, WFMin
<1>4. ASSUME NEW y \in T PROVE x <= y
  <2>1. y < x => <<y, x>> \in R
    OBVIOUS
  <2> QED BY <1>3, <2>1
<1> QED BY <1>4

\* Induction, for a set of numbers.
LEMMA Induction ==
  ASSUME NEW T \in SUBSET Nat, 0 \in T, \A n \in T : n + 1 \in T
  PROVE  T = Nat
<1>1. SUFFICES ASSUME Nat \ T # {} PROVE FALSE
  OBVIOUS
<1>2. PICK x \in Nat \ T : \A y \in Nat \ T : x <= y
  BY <1>1, LeastNumber
<1>3. x - 1 \in T /\ x = (x - 1) + 1
  BY <1>2
<1> QED BY <1>2, <1>3

\* s is the function of the sums of f, up to m of them.
Sums(s, f, m) == s = [n \in 0 .. m |-> IF n = 0 THEN 0 ELSE s[n - 1] + f[n]]

LEMMA SumsExist ==
  ASSUME NEW m \in Nat, NEW f \in [1 .. m -> Nat]
  PROVE  \E s \in [0 .. m -> Nat] : Sums(s, f, m)
<1> DEFINE Have(k) == \E s \in [0 .. k -> Nat] : Sums(s, f, k)
           T == {k \in Nat : k <= m => Have(k)}
<1>1. 0 \in T
  <2> DEFINE s == [n \in 0 .. 0 |-> 0]
  <2>1. s \in [0 .. 0 -> Nat] /\ Sums(s, f, 0)
    BY DEF Sums
  <2> QED BY <2>1
<1>2. ASSUME NEW k \in T, k + 1 <= m PROVE Have(k + 1)
  <2>1. PICK s \in [0 .. k -> Nat] : Sums(s, f, k)
    BY <1>2
  <2> DEFINE r == [n \in 0 .. k + 1 |-> IF n = k + 1 THEN s[k] + f[k + 1] ELSE s[n]]
  <2>2. \A n \in 0 .. k : r[n] = s[n]
    BY <1>2
  <2>3. r[k + 1] = s[k] + f[k + 1] /\ s[k] \in Nat /\ f[k + 1] \in Nat
    BY <1>2, <2>1
  <2>4. r \in [0 .. k + 1 -> Nat]
    BY <1>2, <2>1, <2>3
  <2>5. ASSUME NEW n \in 0 .. k + 1
        PROVE  r[n] = IF n = 0 THEN 0 ELSE r[n - 1] + f[n]
    <3>1. CASE n = k + 1
      BY <1>2, <2>2, <2>3, <3>1
    <3>2. CASE n \in 0 .. k
      <4>1. s[n] = IF n = 0 THEN 0 ELSE s[n - 1] + f[n]
        BY <2>1, <3>2 DEF Sums
      <4>2. n # 0 => n - 1 \in 0 .. k
        BY <1>2, <3>2
      <4> QED BY <2>2, <3>2, <4>1, <4>2
    <3> QED BY <1>2, <3>1, <3>2
  <2>6. Sums(r, f, k + 1)
    BY <2>4, <2>5 DEF Sums
  <2> QED BY <2>4, <2>6
<1> HIDE DEF Have
<1>3. \A k \in T : k + 1 \in T
  BY <1>2
<1>4. T = Nat
  BY <1>1, <1>3, Induction
<1>5. Have(m)
  <2>1. m \in T
    BY <1>4
  <2> QED BY <2>1
<1> QED BY Zenon, <1>5 DEF Have

\* The sums up to k depend on the first k threads only.
LEMMA SumsAgree ==
  ASSUME NEW m \in Nat, NEW f, NEW g, NEW r, NEW s, Sums(r, f, m), Sums(s, g, m),
         NEW k \in 0 .. m, \A n \in 1 .. k : f[n] = g[n]
  PROVE  r[k] = s[k]
<1> DEFINE T == {n \in Nat : n <= k => r[n] = s[n]}
<1>1. 0 \in T
  BY DEF Sums
<1>2. ASSUME NEW n \in T, n + 1 <= k PROVE r[n + 1] = s[n + 1]
  <2>1. r[n] = s[n] /\ f[n + 1] = g[n + 1] /\ n + 1 \in 0 .. m /\ n + 1 # 0 /\ (n + 1) - 1 = n
    BY <1>2
  <2>2. r[n + 1] = r[n] + f[n + 1] /\ s[n + 1] = s[n] + g[n + 1]
    BY <2>1 DEF Sums
  <2> QED BY <2>1, <2>2
<1>3. \A n \in T : n + 1 \in T
  BY <1>2
<1>4. T = Nat
  <2> HIDE DEF T
  <2>1. T \in SUBSET Nat
    BY DEF T
  <2> QED BY <2>1, <1>1, <1>3, Induction
<1> QED BY <1>4

LEMMA SumsAre ==
  ASSUME NEW f \in [Test!Threads -> Nat]
  PROVE  /\ Sums(Test!SumTo(f), f, MaxThreads)
         /\ Test!SumTo(f)[0] = 0
         /\ \A n \in Test!Threads : Test!SumTo(f)[n] = Test!SumTo(f)[n - 1] + f[n]
         /\ \A n \in 0 .. MaxThreads : Test!SumTo(f)[n] \in Nat
<1>1. MaxThreads \in Nat
  BY PartsAssumption DEF Test!Sizes
<1>2. PICK s \in [0 .. MaxThreads -> Nat] : Sums(s, f, MaxThreads)
  BY <1>1, SumsExist DEF Test!Threads
<1>3. Test!SumTo(f) = CHOOSE r : Sums(r, f, MaxThreads)
  BY DEF Test!SumTo, Sums
<1>4. Sums(Test!SumTo(f), f, MaxThreads)
  BY Zenon, <1>2, <1>3
<1>5. \A n \in 0 .. MaxThreads : Test!SumTo(f)[n] = s[n]
  BY <1>1, <1>2, <1>4, SumsAgree
<1>6. /\ s[0] = 0
      /\ \A n \in 1 .. MaxThreads : s[n] = s[n - 1] + f[n] /\ n - 1 \in 0 .. MaxThreads
  BY <1>1, <1>2 DEF Sums
<1> QED BY <1>1, <1>2, <1>4, <1>5, <1>6 DEF Test!Threads

-----------------------------------------------------------------------------
(* The measurement *)

States == {"none", "perform", "lock", "store", "unlock", "done"}

TestTypes ==
  /\ testPc \in {"pick", "create", "join", "return", "done"}
  /\ auto \in BOOLEAN /\ num_thread \in 0 .. MaxThreads
  /\ server_num \in Int /\ index \in Nat
  /\ phase \in {"up", "down"}
  /\ next \in 1 .. num_thread + 1
  /\ thread \in [Test!Threads -> States]
  /\ mutex \in Test!Threads \cup {Test!None}

\* The threads that may be active: those created and not yet joined.
FrameInv == \A t \in Test!Threads : Test!Active(t) =>
  \/ testPc = "create" /\ t < next
  \/ testPc = "join" /\ next <= t /\ t <= num_thread

\* avg_speed is stored by the holder of the mutex.
HolderInv == \A t \in Test!Threads : thread[t] \in {"store", "unlock"} <=> mutex = t

Testing == testPc \in {"create", "join", "return"}

\* In the automatic mode, every server before the one at index has failed, and
\* the tests that run or have run are those of index.
OrderInv == auto =>
  /\ failed = 0 .. index - 1
  /\ Testing => upFrom = index
  /\ Testing /\ phase = "down" => downFrom = index
  /\ testPc = "done" => index >= server_num \/ (upFrom = index /\ downFrom = index)

TestInv == TestTypes /\ FrameInv /\ HolderInv /\ OrderInv

LEMMA TestInit == ASSUME Test!Sizes, Test!Init PROVE TestInv
<1>1. TestTypes
  BY DEF Test!Sizes, Test!Init, TestTypes, States, Test!Threads
<1>2. FrameInv /\ HolderInv
  BY DEF Test!Init, FrameInv, HolderInv, Test!Active, Test!None, Test!Threads
<1>3. OrderInv
  BY DEF Test!Init, OrderInv, Testing
<1> QED BY <1>1, <1>2, <1>3 DEF TestInv

-----------------------------------------------------------------------------
(* The threads of a test *)

LEMMA ThreadKeepsTest ==
  ASSUME TestInv, NEW t \in Test!Threads, Test!Thread(t)
  PROVE  TestInv'
<1> USE DEF TestInv, TestTypes
<1>1. UNCHANGED <<Test!options, Test!mainVars>>
  BY DEF Test!Thread, Test!Perform, Test!InitFails, Test!Lock, Test!Store, Test!Unlock
<1>2. /\ thread[t] \in {"perform", "lock", "store", "unlock"}
      /\ \E s \in States : thread' = [thread EXCEPT ![t] = s]
      /\ mutex' \in {mutex, t, Test!None}
  BY DEF Test!Thread, Test!Perform, Test!InitFails, Test!Lock, Test!Store, Test!Unlock, States
<1>3. TestTypes'
  BY <1>1, <1>2 DEF Test!options, Test!mainVars
<1>4. FrameInv'
  BY <1>1, <1>2 DEF FrameInv, Test!Active, Test!options, Test!mainVars
<1>5. HolderInv'
  <2>1. CASE Test!Perform(t) \/ Test!InitFails(t)
    <3>1. UNCHANGED mutex /\ (UNCHANGED thread \/ thread' = [thread EXCEPT ![t] = "lock"])
      BY <2>1 DEF Test!Perform, Test!InitFails
    <3>2. thread[t] = "perform"
      BY <2>1 DEF Test!Perform, Test!InitFails
    <3> QED BY <3>1, <3>2 DEF HolderInv
  <2>2. CASE Test!Lock(t)
    BY <2>2 DEF Test!Lock, HolderInv, Test!None, Test!Threads
  <2>3. CASE Test!Store(t)
    BY <2>3 DEF Test!Store, HolderInv
  <2>4. CASE Test!Unlock(t)
    BY <2>4 DEF Test!Unlock, HolderInv, Test!None, Test!Threads
  <2> QED BY <2>1, <2>2, <2>3, <2>4 DEF Test!Thread
<1>6. OrderInv'
  BY <1>1 DEF OrderInv, Testing, Test!options, Test!mainVars
<1> QED BY <1>3, <1>4, <1>5, <1>6

-----------------------------------------------------------------------------
(* run_speed_test and the two tests *)

LEMMA LoopKeepsTest ==
  ASSUME Test!Sizes, TestInv, Test!Create \/ Test!AllCreated \/ Test!Join \/ Test!AllJoined
  PROVE  TestInv'
<1> USE DEF Test!Sizes, TestInv, TestTypes
<1>1. CASE Test!Create
  <2>1. next \in Test!Threads /\ thread' = [thread EXCEPT ![next] = "perform"]
    BY <1>1 DEF Test!Create, Test!Threads
  <2>2. ~ Test!Active(next)
    BY <1>1, <2>1 DEF Test!Create, FrameInv
  <2>3. TestTypes'
    BY <1>1, <2>1 DEF Test!Create, Test!options, States
  <2>4. FrameInv'
    BY <1>1, <2>1 DEF Test!Create, FrameInv, Test!Active, Test!options, Test!Threads
  <2>5. HolderInv'
    BY <1>1, <2>1, <2>2 DEF Test!Create, HolderInv, Test!Active
  <2>6. OrderInv'
    BY <1>1 DEF Test!Create, OrderInv, Testing, Test!options
  <2> QED BY <2>3, <2>4, <2>5, <2>6
<1>2. CASE Test!AllCreated
  <2>1. TestTypes' /\ HolderInv'
    BY <1>2 DEF Test!AllCreated, HolderInv, Test!options, Test!threadVars
  <2>2. FrameInv'
    BY <1>2 DEF Test!AllCreated, FrameInv, Test!Active, Test!options, Test!threadVars, Test!Threads
  <2>3. OrderInv'
    BY <1>2 DEF Test!AllCreated, OrderInv, Testing, Test!options
  <2> QED BY <2>1, <2>2, <2>3
<1>3. CASE Test!Join
  <2>1. TestTypes' /\ HolderInv'
    BY <1>3 DEF Test!Join, HolderInv, Test!options, Test!threadVars
  <2>2. FrameInv'
    BY <1>3 DEF Test!Join, FrameInv, Test!Active, Test!options, Test!threadVars, Test!Threads
  <2>3. OrderInv'
    BY <1>3 DEF Test!Join, OrderInv, Testing, Test!options
  <2> QED BY <2>1, <2>2, <2>3
<1>4. CASE Test!AllJoined
  <2>1. TestTypes' /\ HolderInv'
    BY <1>4 DEF Test!AllJoined, HolderInv, Test!options, Test!threadVars
  <2>2. FrameInv'
    BY <1>4 DEF Test!AllJoined, FrameInv, Test!Active, Test!options, Test!threadVars, Test!Threads
  <2>3. OrderInv'
    BY <1>4 DEF Test!AllJoined, OrderInv, Testing, Test!options
  <2> QED BY <2>1, <2>2, <2>3
<1> QED BY <1>1, <1>2, <1>3, <1>4

LEMMA RunKeepsTest ==
  ASSUME Test!Sizes, TestInv, Test!StartUpload \/ Test!NoServer \/ Test!StartDownload \/ Test!TestFails \/ Test!Finish
  PROVE  TestInv'
<1> USE DEF Test!Sizes, TestInv, TestTypes
<1>1. /\ UNCHANGED <<Test!options, Test!threadVars>>
      /\ testPc \in {"pick", "return"} /\ testPc' \in {"pick", "create", "done"}
      /\ next' \in {1, next}
  BY DEF Test!StartUpload, Test!NoServer, Test!StartDownload, Test!TestFails, Test!Finish, Test!options, Test!threadVars
<1>2. FrameInv' /\ HolderInv'
  BY <1>1 DEF FrameInv, Test!Active, HolderInv, Test!options, Test!threadVars
<1>3. index' \in Nat /\ phase' \in {"up", "down"}
  BY DEF Test!StartUpload, Test!NoServer, Test!StartDownload, Test!TestFails, Test!Finish, Test!Picked, Test!InputInt
<1>4. TestTypes'
  BY <1>1, <1>3 DEF Test!options, Test!threadVars
<1>5. OrderInv'
  <2>1. CASE Test!StartUpload
    BY <2>1 DEF Test!StartUpload, OrderInv, Testing, Test!Picked, Test!options
  <2>2. CASE Test!NoServer
    BY <2>2 DEF Test!NoServer, OrderInv, Testing, Test!Picked, Test!options
  <2>3. CASE Test!StartDownload
    BY <2>3 DEF Test!StartDownload, Test!DownloadServer, OrderInv, Testing, Test!options
  <2>4. CASE Test!TestFails
    BY <2>4 DEF Test!TestFails, OrderInv, Testing, Test!options
  <2>5. CASE Test!Finish
    BY <2>5 DEF Test!Finish, OrderInv, Testing, Test!options
  <2> QED BY <2>1, <2>2, <2>3, <2>4, <2>5
<1> QED BY <1>2, <1>4, <1>5

LEMMA TestInductive == ASSUME Test!Sizes, TestInv, [Test!Next]_Test!vars PROVE TestInv'
<1>1. CASE UNCHANGED Test!vars
  <2>1. TestTypes' /\ OrderInv'
    BY <1>1 DEF Test!vars, Test!options, Test!mainVars, Test!threadVars, TestInv, TestTypes, OrderInv, Testing
  <2>2. FrameInv' /\ HolderInv'
    BY <1>1 DEF Test!vars, Test!options, Test!mainVars, Test!threadVars, TestInv, FrameInv, HolderInv, Test!Active
  <2> QED BY <2>1, <2>2 DEF TestInv
<1>2. CASE \E t \in Test!Threads : Test!Thread(t)
  BY <1>2, ThreadKeepsTest
<1>3. CASE Test!Main
  BY <1>3, LoopKeepsTest, RunKeepsTest DEF Test!Main
<1> QED BY <1>1, <1>2, <1>3 DEF Test!Next, Test!Ended

-----------------------------------------------------------------------------
(* The result of an upload *)

\* The threads of the test that runs.
Mine(t) == \/ testPc = "create" /\ t < next
           \/ testPc = "join" /\ t <= num_thread

UploadTypes == /\ speed \in [Test!Threads -> Nat] /\ measured \in [Test!Threads -> Nat]
               /\ avg_speed \in [Test!Threads -> Int]

UploadInv ==
  /\ UploadTypes
  /\ phase = "up" /\ timed =>
       /\ \A t \in Test!Threads : Mine(t) =>
            /\ speed[t] = measured[t]
            /\ thread[t] \in {"unlock", "done"} => avg_speed[t] = measured[t]
       /\ testPc = "join" => total = Test!SumTo(measured)[next - 1]
       /\ testPc = "return" /\ num_thread > 0 => total = Test!SumTo(measured)[num_thread]

\* What a thread adds to its own sum changes no sum of threads before it.
LEMMA EarlierSums ==
  ASSUME NEW f \in [Test!Threads -> Nat], NEW g \in [Test!Threads -> Nat], NEW n \in 0 .. MaxThreads,
         \A t \in 1 .. n : g[t] = f[t]
  PROVE  Test!SumTo(g)[n] = Test!SumTo(f)[n]
BY SumsAre, SumsAgree, PartsAssumption DEF Test!Sizes

LEMMA ThreadKeepsUpload ==
  ASSUME TestInv, UploadInv, NEW t \in Test!Threads, Test!Thread(t)
  PROVE  UploadInv'
<1> USE PartsAssumption DEF Test!Sizes, Test!Threads
<1>1. /\ UNCHANGED <<testPc, timed, num_thread, phase, next, total>>
      /\ \A u \in Test!Threads \ {t} : /\ speed'[u] = speed[u] /\ measured'[u] = measured[u]
                                      /\ avg_speed'[u] = avg_speed[u] /\ thread'[u] = thread[u]
  <2> USE DEF Test!options, Test!mainVars, TestInv, TestTypes, UploadInv, UploadTypes
  <2>1. CASE Test!Perform(t)
    <3>1. UNCHANGED <<testPc, timed, num_thread, phase, next, total, avg_speed>>
      BY <2>1 DEF Test!Perform
    <3>2. \A u \in Test!Threads \ {t} : speed'[u] = speed[u] /\ measured'[u] = measured[u]
      BY <2>1 DEF Test!Perform
    <3>3. \A u \in Test!Threads \ {t} : thread'[u] = thread[u]
      BY <2>1 DEF Test!Perform
    <3> QED BY <3>1, <3>2, <3>3
  <2>2. CASE Test!InitFails(t) \/ Test!Lock(t) \/ Test!Unlock(t)
    BY <2>2 DEF Test!InitFails, Test!Lock, Test!Unlock
  <2>3. CASE Test!Store(t)
    BY <2>3 DEF Test!Store
  <2> QED BY <2>1, <2>2, <2>3 DEF Test!Thread
<1>2. UploadTypes'
  <2>1. UploadTypes
    BY DEF UploadInv
  <2>2. CASE Test!Perform(t)
    <3>1. CASE UNCHANGED <<speed, measured>>
      BY <2>1, <2>2, <3>1 DEF Test!Perform, UploadTypes
    <3>2. CASE \E s \in Speeds : /\ speed' = [speed EXCEPT ![t] = Test!Added(@, s)]
                                 /\ measured' = [measured EXCEPT ![t] = @ + s]
      <4>1. PICK s \in Nat : /\ speed' = [speed EXCEPT ![t] = Test!Added(@, s)]
                             /\ measured' = [measured EXCEPT ![t] = @ + s]
        BY <3>2
      <4>2. Test!Added(speed[t], s) \in Nat /\ measured[t] + s \in Nat /\ avg_speed' = avg_speed
        BY <2>1, <2>2 DEF Test!Added, UploadTypes, Test!Perform
      <4> QED BY <2>1, <4>1, <4>2 DEF UploadTypes
    <3> QED BY <2>2, <3>1, <3>2 DEF Test!Perform
  <2>3. CASE Test!Store(t)
    <3>1. Test!Quotient(speed[t]) \in Int
      BY <2>1 DEF UploadTypes, Test!Quotient, Test!NaN
    <3> QED BY <2>1, <2>3, <3>1 DEF Test!Store, UploadTypes
  <2>4. CASE Test!InitFails(t) \/ Test!Lock(t) \/ Test!Unlock(t)
    BY <2>1, <2>4 DEF Test!InitFails, Test!Lock, Test!Unlock, UploadTypes
  <2> QED BY <2>2, <2>3, <2>4 DEF Test!Thread
<1>3. Test!Active(t)
  BY DEF Test!Thread, Test!Perform, Test!InitFails, Test!Lock, Test!Store, Test!Unlock, Test!Active
<1> SUFFICES ASSUME phase = "up", timed
             PROVE  /\ \A u \in Test!Threads : Mine(u) =>
                         /\ speed'[u] = measured'[u]
                         /\ thread'[u] \in {"unlock", "done"} => avg_speed'[u] = measured'[u]
                    /\ testPc = "join" => total = Test!SumTo(measured')[next - 1]
                    /\ testPc = "return" /\ num_thread > 0 => total = Test!SumTo(measured')[num_thread]
  BY <1>1, <1>2 DEF UploadInv, Mine
<1>4. Mine(t) => /\ speed'[t] = measured'[t]
                 /\ thread'[t] \in {"unlock", "done"} => avg_speed'[t] = measured'[t]
  <2> USE DEF UploadInv, UploadTypes, TestInv, TestTypes
  <2>1. CASE Test!Perform(t)
    BY SMTT(30), <2>1 DEF Test!Perform, Test!Added
  <2>2. CASE Test!InitFails(t) \/ Test!Lock(t)
    BY <2>2 DEF Test!InitFails, Test!Lock
  <2>3. CASE Test!Store(t)
    BY <2>3 DEF Test!Store, Test!Quotient
  <2>4. CASE Test!Unlock(t)
    BY <2>4 DEF Test!Unlock
  <2> QED BY <2>1, <2>2, <2>3, <2>4 DEF Test!Thread
<1>5. \A u \in Test!Threads : Mine(u) =>
        /\ speed'[u] = measured'[u]
        /\ thread'[u] \in {"unlock", "done"} => avg_speed'[u] = measured'[u]
  BY <1>1, <1>4 DEF UploadInv
<1>6. testPc = "join" => total = Test!SumTo(measured')[next - 1]
  <2> SUFFICES ASSUME testPc = "join" PROVE total = Test!SumTo(measured')[next - 1]
    OBVIOUS
  <2>1. next - 1 \in 0 .. MaxThreads /\ \A u \in 1 .. next - 1 : measured'[u] = measured[u]
    BY <1>1, <1>3 DEF TestInv, TestTypes, FrameInv
  <2> QED BY <1>2, <2>1, EarlierSums DEF UploadInv, UploadTypes
<1>7. testPc # "return"
  BY <1>3 DEF TestInv, FrameInv
<1> QED BY <1>5, <1>6, <1>7

LEMMA LoopKeepsUpload ==
  ASSUME TestInv, UploadInv, Test!Create \/ Test!AllCreated \/ Test!Join \/ Test!AllJoined
  PROVE  UploadInv'
<1> USE PartsAssumption DEF Test!Sizes, Test!Threads
<1>1. CASE Test!Create
  <2>1. UploadTypes' /\ testPc' = "create"
    <3>1. testPc' = "create" /\ speed' = [speed EXCEPT ![next] = 0]
          /\ measured' = [measured EXCEPT ![next] = 0] /\ avg_speed' = [avg_speed EXCEPT ![next] = 0]
      BY <1>1 DEF Test!Create
    <3>2. UploadTypes
      BY DEF UploadInv
    <3>3. next \in Test!Threads
      BY <1>1 DEF Test!Create, TestInv, TestTypes
    <3> QED BY <3>1, <3>2, <3>3 DEF UploadTypes
  <2>2. ASSUME NEW t \in Test!Threads, phase = "up", timed, t < next'
        PROVE  /\ speed'[t] = measured'[t]
               /\ thread'[t] \in {"unlock", "done"} => avg_speed'[t] = measured'[t]
    BY <1>1, <2>2 DEF Test!Create, UploadInv, UploadTypes, Mine, TestInv, TestTypes
  <2> QED BY <1>1, <2>1, <2>2 DEF Test!Create, Test!options, UploadInv, Mine
<1>2. CASE Test!AllCreated
  <2>1. /\ testPc' = "join" /\ next' = 1 /\ total' = 0 /\ testPc = "create" /\ next > num_thread
        /\ UNCHANGED <<phase, timed, num_thread, speed, measured, avg_speed, thread>>
    BY <1>2 DEF Test!AllCreated, Test!options, Test!threadVars
  <2>2. Test!SumTo(measured)[0] = 0
    BY SumsAre DEF UploadInv, UploadTypes
  <2> QED BY <2>1, <2>2 DEF UploadInv, UploadTypes, Mine, TestInv, TestTypes
<1>3. CASE Test!Join
  <2>1. /\ testPc = "join" /\ testPc' = "join" /\ next \in 1 .. num_thread /\ next' = next + 1
        /\ thread[next] = "done" /\ total' = Test!Plus(total, avg_speed[next])
        /\ UNCHANGED <<phase, timed, num_thread, speed, measured, avg_speed, thread>>
        /\ next \in Test!Threads
    BY <1>3 DEF Test!Join, Test!options, Test!threadVars, TestInv, TestTypes
  <2>2. phase = "up" /\ timed => total' = Test!SumTo(measured)[next' - 1]
    <3> SUFFICES ASSUME phase = "up", timed PROVE total' = Test!SumTo(measured)[next]
      BY <2>1
    <3>1. avg_speed[next] = measured[next] /\ total = Test!SumTo(measured)[next - 1]
      BY <2>1 DEF UploadInv, Mine
    <3>2. /\ measured[next] \in Nat /\ Test!SumTo(measured)[next - 1] \in Nat
          /\ Test!SumTo(measured)[next] = Test!SumTo(measured)[next - 1] + measured[next]
      <4>1. next - 1 \in 0 .. MaxThreads /\ next \in 1 .. MaxThreads
        BY <2>1 DEF TestInv, TestTypes
      <4>2. measured \in [1 .. MaxThreads -> Nat]
        BY DEF UploadInv, UploadTypes
      <4> QED BY <4>1, <4>2, SumsAre
    <3> QED BY <2>1, <3>1, <3>2 DEF Test!Plus, Test!NaN
  <2> QED BY <2>1, <2>2 DEF UploadInv, UploadTypes, Mine
<1>4. CASE Test!AllJoined
  <2>1. /\ testPc = "join" /\ testPc' = "return" /\ next = num_thread + 1
        /\ num_thread > 0 => total' = total
        /\ UNCHANGED <<phase, timed, num_thread, speed, measured, avg_speed, thread>>
    BY <1>4 DEF Test!AllJoined, Test!options, Test!threadVars, TestInv, TestTypes
  <2> QED BY SMTT(30), <2>1 DEF UploadInv, UploadTypes, Mine, TestInv, TestTypes
<1> QED BY <1>1, <1>2, <1>3, <1>4

LEMMA RunKeepsUpload ==
  ASSUME TestInv, UploadInv,
         \/ Test!StartUpload \/ Test!NoServer \/ Test!StartDownload \/ Test!TestFails \/ Test!Finish
         \/ UNCHANGED Test!vars
  PROVE  UploadInv'
<1>1. CASE UNCHANGED Test!vars
  BY <1>1 DEF Test!vars, Test!options, Test!mainVars, Test!threadVars, UploadInv, UploadTypes, Mine
<1>2. CASE Test!StartUpload \/ Test!NoServer \/ Test!StartDownload \/ Test!TestFails \/ Test!Finish
  <2>1. /\ UNCHANGED <<timed, num_thread, speed, measured, avg_speed, thread>>
        /\ \/ testPc' \in {"pick", "done"}
           \/ testPc' = "create" /\ next' = 1
    BY <1>2 DEF Test!StartUpload, Test!NoServer, Test!StartDownload, Test!TestFails, Test!Finish,
                Test!options, Test!threadVars, TestInv, TestTypes
  <2> QED BY <2>1 DEF UploadInv, UploadTypes, Mine, Test!Threads
<1> QED BY <1>1, <1>2

LEMMA UploadInductive == ASSUME TestInv, UploadInv, [Test!Next]_Test!vars PROVE UploadInv'
BY ThreadKeepsUpload, LoopKeepsUpload, RunKeepsUpload DEF Test!Next, Test!Main, Test!Ended

-----------------------------------------------------------------------------
(* The list of servers: what its entries are, and the sort *)

ListStates == {"fetch", "parse", "filter", "format", "latency", "sort", "sorted", "crashed"}
Early == {"fetch", "parse", "filter"}
Answered == {"latency", "sort", "sorted"}  \* the phases behind format_url
Lats == Latencies \cup {-1}

ListTypes ==
  /\ listPc \in ListStates
  /\ https \in BOOLEAN /\ g_max_server \in 0 .. MaxRequested
  /\ tokens \in Seq({"http", "https", "cut"})
  /\ servers \in [0 .. MaxRequested -> [url : Nat, lat : Lats \cup {0}]]
  /\ i \in -1 .. g_max_server + 1 /\ count \in Nat /\ j \in Nat
  /\ listPc \in Early => i <= g_max_server
  /\ listPc = "fetch" => i = 0 /\ count = 0
  /\ listPc = "parse" => i >= 0 /\ i < Len(tokens) /\ count = 0
  /\ listPc \in Early \cup {"format", "latency"} => j = 0

\* An entry names a token, and one that is not cut.
UrlInv == \A k \in 0 .. MaxRequested :
  servers[k].url # 0 => /\ servers[k].url \in 1 .. Len(tokens)
                        /\ tokens[servers[k].url] # "cut"

\* The parser goes through the tokens and the entries, one after the other.
ReadInv ==
  /\ listPc = "fetch" => \A k \in 0 .. MaxRequested : servers[k].url = 0
  /\ listPc = "parse" => \A k \in 0 .. MaxRequested :
       servers[k].url = IF k < i THEN List!UrlOf(k + 1) ELSE 0

\* The filter has left the entries before count of the right protocol, and these
\* are all that is served.
FilterInv ==
  /\ listPc = "filter" => /\ count <= i + 1
                          /\ \A k \in 0 .. count - 1 : List!IsHttps(servers[k]) = https
  /\ listPc \in {"format"} \cup Answered =>
       \A k \in 0 .. i - 1 : List!IsHttps(servers[k]) = https

\* format_url has come past every entry that is served, and has not crashed.
FormatInv ==
  /\ listPc = "format" => \A k \in 0 .. i - 1 : k < count => servers[k].url # 0
  /\ listPc \in Answered => \A k \in 0 .. i - 1 : servers[k].url # 0

LatencyInv ==
  /\ listPc = "latency" => \A k \in 0 .. i - 1 : k < count => servers[k].lat \in Lats
  /\ listPc \in {"sort", "sorted"} => \A k \in 0 .. i - 1 : servers[k].lat \in Lats

Key(k) == List!SortKey(servers[k])

\* Bubble sort: the last count entries are in their places, and the entry at j is
\* the largest up to there.
SortInv ==
  /\ listPc = "sort" =>
       /\ \A s, t \in 0 .. i - 1 : s <= t /\ t >= i - count => Key(s) <= Key(t)
       /\ count < i - 1 => /\ j <= i - count - 1
                           /\ \A s \in 0 .. j : Key(s) <= Key(j)
  /\ listPc = "sorted" => \A s, t \in 0 .. i - 1 : s <= t => Key(s) <= Key(t)

ListInv == ListTypes /\ UrlInv /\ ReadInv /\ FilterInv /\ FormatInv /\ LatencyInv /\ SortInv

LEMMA ListSizes == List!Sizes
BY PartsAssumption

\* Max(Latencies) + 1 is larger than any latency.
LEMMA KeyOfLatency ==
  ASSUME NEW e, e.lat \in Lats
  PROVE  /\ List!SortKey(e) \in Nat
         /\ e.lat # -1 => List!SortKey(e) = e.lat
         /\ e.lat = -1 => \A l \in Latencies : l < List!SortKey(e)
<1>1. PICK l \in Latencies : \A m \in Latencies : m <= l
  BY ListSizes DEF List!Sizes
<1>2. List!Max(Latencies) \in Latencies /\ \A m \in Latencies : m <= List!Max(Latencies)
  <2>1. \A m \in Latencies : l >= m
    BY <1>1, ListSizes DEF List!Sizes
  <2>2. \E x \in Latencies : \A m \in Latencies : x >= m
    BY <2>1
  <2> QED BY <2>2, ListSizes DEF List!Max, List!Sizes
<1>3. PICK m \in Nat : m = List!Max(Latencies) /\ \A k \in Latencies : k <= m
  BY <1>2, ListSizes DEF List!Sizes
<1>4. List!SortKey(e) = IF e.lat = -1 THEN m + 1 ELSE e.lat
  BY <1>3 DEF List!SortKey, List!None
<1>5. CASE e.lat = -1
  BY <1>3, <1>4, <1>5, ListSizes DEF List!Sizes
<1>6. CASE e.lat # -1
  BY <1>4, <1>6, ListSizes DEF List!Sizes, Lats
<1> QED BY <1>5, <1>6

LEMMA InitList == ASSUME List!Init PROVE ListInv
<1>1. ListTypes /\ UrlInv /\ ReadInv
  BY ListSizes DEF List!Init, List!Indices, List!Zeroed, List!Sizes, ListTypes, UrlInv,
                   ReadInv, ListStates, Early, Lats
<1> QED BY <1>1 DEF List!Init, ListInv, FilterInv, FormatInv, LatencyInv, SortInv, Answered

\* What delete_server_by_index leaves in front of the place, and what is in an entry.
LEMMA Deleted ==
  ASSUME ListTypes, NEW s \in 0 .. g_max_server,
         NEW d, d = List!DeleteServerByIndex(s)
  PROVE  /\ d \in [0 .. MaxRequested -> [url : Nat, lat : Lats \cup {0}]]
         /\ \A k \in 0 .. s - 1 : d[k] = servers[k]
         /\ \A k \in 0 .. MaxRequested : d[k].url = 0 \/ \E l \in 0 .. MaxRequested : d[k] = servers[l]
<1> USE ListSizes DEF List!Sizes, ListTypes
<1> DEFINE Entries == [url : Nat, lat : Lats \cup {0}]
<1>1. List!Zeroed \in Entries /\ List!Zeroed.url = 0
  BY DEF List!Zeroed
<1>2. CASE s >= g_max_server
  BY <1>2 DEF List!DeleteServerByIndex
<1>3. CASE s < g_max_server
  <2>1. d = [k \in 0 .. MaxRequested |->
               IF k < s \/ k >= g_max_server THEN servers[k]
               ELSE IF k = g_max_server - 1 THEN List!Zeroed ELSE servers[k + 1]]
    BY <1>3 DEF List!DeleteServerByIndex, List!Indices
  <2> HIDE DEF Entries
  <2>2. servers \in [0 .. MaxRequested -> Entries]
    BY DEF Entries
  <2>3. ASSUME NEW k \in 0 .. MaxRequested
        PROVE  d[k] = List!Zeroed \/ \E l \in 0 .. MaxRequested : d[k] = servers[l]
    BY <2>1, <2>3
  <2>4. d \in [0 .. MaxRequested -> Entries]
    BY <2>1, <2>2, <2>3, <1>1
  <2>5. \A k \in 0 .. s - 1 : d[k] = servers[k]
    BY <2>1
  <2> QED BY <2>3, <2>4, <2>5, <1>1 DEF Entries
<1> QED BY SMTT(30), <1>2, <1>3

LEMMA ReadKeepsList ==
  ASSUME ListInv, List!FindBestServer \/ List!ParseToken
  PROVE  ListInv'
<1> USE ListSizes DEF List!Sizes, ListInv, ListTypes, Early, ListStates
<1>1. listPc \in {"fetch", "parse"} /\ listPc' \in {"parse", "filter"} /\ count' = 0
  BY DEF List!FindBestServer, List!ParseToken
<1>2. CASE List!FindBestServer
  <2>1. tokens' \in Seq({"http", "https", "cut"}) /\ (listPc' = "parse" => 0 < Len(tokens'))
    <3>1. PICK answer \in List!Answers :
            tokens' = answer /\ listPc' = IF answer = << >> THEN "filter" ELSE "parse"
      BY <1>2 DEF List!FindBestServer
    <3>2. PICK n \in 0 .. MaxTokens : answer \in [1 .. n -> {"http", "https", "cut"}]
      BY DEF List!Answers
    <3>3. answer \in Seq({"http", "https", "cut"})
      BY <3>2
    <3> QED BY <3>1, <3>3
  <2>2. ListTypes'
    BY <1>2, <2>1 DEF List!FindBestServer, List!config
  <2>3. UrlInv' /\ ReadInv'
    BY <1>2 DEF List!FindBestServer, ReadInv, UrlInv
  <2>4. FilterInv'
    BY <1>1, <1>2 DEF List!FindBestServer, FilterInv, Answered
  <2> QED BY <2>2, <2>3, <2>4, <1>1 DEF FormatInv, LatencyInv, SortInv, Answered
<1>3. CASE List!ParseToken
  <2>1. /\ servers' = [servers EXCEPT ![i].url = List!UrlOf(i + 1)] /\ UNCHANGED tokens
        /\ i \in 0 .. MaxRequested /\ i + 1 \in 1 .. Len(tokens)
        /\ List!UrlOf(i + 1) \in 0 .. Len(tokens)
    BY <1>3 DEF List!ParseToken, List!UrlOf
  <2>2. ListTypes'
    <3>1. servers' \in [0 .. MaxRequested -> [url : Nat, lat : Lats \cup {0}]]
      <4>1. PICK u \in Nat : u = List!UrlOf(i + 1)
        BY <2>1
      <4>2. servers' = [servers EXCEPT ![i].url = u]
        BY <2>1, <4>1
      <4> QED BY ZenonT(30), <2>1, <4>2
    <3>2. CASE i + 1 > g_max_server
      BY <1>3, <2>1, <3>1, <3>2 DEF List!ParseToken, List!config
    <3>3. CASE i + 1 <= g_max_server
      BY SMTT(30), <1>3, <2>1, <3>1, <3>3 DEF List!ParseToken, List!config
    <3> QED BY SMTT(60), <3>2, <3>3
  <2>3. UrlInv'
    BY <1>3, <2>1 DEF UrlInv, List!UrlOf
  <2>4. ReadInv'
    BY SMTT(30), <1>3, <2>1 DEF ReadInv, List!ParseToken, List!UrlOf
  <2>5. FilterInv'
    BY SMTT(30), <1>1, <1>3, <2>1 DEF List!ParseToken, FilterInv, Answered
  <2> QED BY <2>2, <2>3, <2>4, <2>5, <1>1 DEF FormatInv, LatencyInv, SortInv, Answered
<1> QED BY <1>2, <1>3

LEMMA FilterKeepsList ==
  ASSUME ListInv, List!FilterEntry \/ List!EndFilter
  PROVE  ListInv'
<1> USE ListSizes DEF List!Sizes, ListInv, ListTypes, Early, ListStates
<1>1. CASE List!FilterEntry
  <2>1. /\ listPc = "filter" /\ count <= i /\ i <= g_max_server
        /\ UNCHANGED <<listPc, https, g_max_server, tokens, j>>
    BY <1>1 DEF List!FilterEntry, List!config
  <2>2. CASE List!IsHttps(servers[count]) # https
    <3>1. servers' = List!DeleteServerByIndex(count) /\ i' = i - 1 /\ count' = count
      BY <1>1, <2>2 DEF List!FilterEntry
    <3>2. /\ servers' \in [0 .. MaxRequested -> [url : Nat, lat : Lats \cup {0}]]
          /\ \A k \in 0 .. count - 1 : servers'[k] = servers[k]
          /\ \A k \in 0 .. MaxRequested :
                servers'[k].url = 0 \/ \E l \in 0 .. MaxRequested : servers'[k] = servers[l]
      <4>1. count \in 0 .. g_max_server
        BY <2>1
      <4>2. PICK d : d = List!DeleteServerByIndex(count)
        OBVIOUS
      <4>3. servers' = d
        BY <3>1, <4>2
      <4> HIDE DEF ListInv, ListTypes
      <4>4. /\ d \in [0 .. MaxRequested -> [url : Nat, lat : Lats \cup {0}]]
            /\ \A k \in 0 .. count - 1 : d[k] = servers[k]
            /\ \A k \in 0 .. MaxRequested :
                  d[k].url = 0 \/ \E l \in 0 .. MaxRequested : d[k] = servers[l]
        BY SMTT(30), <4>1, <4>2, Deleted DEF ListInv
      <4> QED BY <4>3, <4>4
    <3>3. ListTypes'
      BY <2>1, <3>1, <3>2
    <3>4. UrlInv'
      BY <2>1, <3>2 DEF UrlInv
    <3>5. FilterInv'
      <4>1. \A k \in 0 .. count - 1 : List!IsHttps(servers[k])' = List!IsHttps(servers[k])
        BY <2>1, <3>2 DEF List!IsHttps
      <4>2. \A k \in 0 .. count' - 1 : List!IsHttps(servers[k])' = https'
        BY <2>1, <3>1, <4>1 DEF FilterInv
      <4> QED BY <2>1, <3>1, <4>2 DEF FilterInv, Answered
    <3> QED BY <3>3, <3>4, <3>5, <2>1 DEF ReadInv, FormatInv, LatencyInv, SortInv, Answered
  <2>3. CASE List!IsHttps(servers[count]) = https
    <3>1. count' = count + 1 /\ UNCHANGED <<servers, i>>
      BY <1>1, <2>3 DEF List!FilterEntry
    <3>2. ListTypes' /\ UrlInv'
      BY <2>1, <3>1 DEF UrlInv
    <3>3. FilterInv'
      BY SMTT(30), <2>1, <2>3, <3>1 DEF FilterInv, List!IsHttps, Answered
    <3> QED BY <3>2, <3>3, <2>1 DEF ReadInv, FormatInv, LatencyInv, SortInv, Answered
  <2> QED BY <2>2, <2>3
<1>2. CASE List!EndFilter
  <2>1. /\ listPc = "filter" /\ listPc' = "format" /\ count > i /\ count' = 0
        /\ i' = IF https THEN i + 1 ELSE i
        /\ UNCHANGED <<https, g_max_server, tokens, servers, j>>
    BY <1>2 DEF List!EndFilter, List!config
  <2>2. ListTypes' /\ UrlInv'
    BY <2>1 DEF UrlInv
  <2>3. FilterInv'
    BY <2>1 DEF FilterInv, List!IsHttps, Answered
  <2> QED BY <2>1, <2>2, <2>3 DEF ReadInv, FormatInv, LatencyInv, SortInv, Answered
<1> QED BY <1>1, <1>2

LEMMA ProbeKeepsList ==
  ASSUME ListInv, List!FormatUrl \/ List!EndFormat \/ List!MeasureLatency \/ List!EndLatency
  PROVE  ListInv'
<1> USE ListSizes DEF List!Sizes, ListInv, ListTypes, Early, ListStates, Answered
<1>1. CASE List!FormatUrl \/ List!EndFormat
  <2>1. /\ listPc = "format" /\ listPc' \in {"format", "crashed", "latency"}
        /\ UNCHANGED <<https, g_max_server, tokens, servers, i, j>> /\ count' \in Nat
    BY <1>1 DEF List!FormatUrl, List!EndFormat, List!config
  <2>2. ListTypes' /\ UrlInv'
    BY <2>1 DEF UrlInv
  <2>3. FilterInv'
    BY <2>1 DEF FilterInv, List!IsHttps
  <2>4. FormatInv'
    BY <1>1, <2>1 DEF FormatInv, List!FormatUrl, List!EndFormat
  <2>5. LatencyInv'
    BY <1>1, <2>1 DEF LatencyInv, List!FormatUrl, List!EndFormat
  <2> QED BY <2>1, <2>2, <2>3, <2>4, <2>5 DEF ReadInv, SortInv
<1>2. CASE List!MeasureLatency
  <2>1. PICK l \in Lats : servers' = [servers EXCEPT ![count].lat = l]
    BY <1>2 DEF List!MeasureLatency, Lats, List!None
  <2>2. /\ listPc = "latency" /\ count < i /\ count' = count + 1
        /\ UNCHANGED <<listPc, https, g_max_server, tokens, i, j>>
        /\ servers' \in [0 .. MaxRequested -> [url : Nat, lat : Lats \cup {0}]]
        /\ servers'[count].lat = l
        /\ \A k \in 0 .. MaxRequested : servers'[k].url = servers[k].url
        /\ \A k \in 0 .. MaxRequested \ {count} : servers'[k] = servers[k]
    BY SMTT(30), <1>2, <2>1 DEF List!MeasureLatency, List!config
  <2>3. ListTypes' /\ UrlInv'
    BY <2>2 DEF UrlInv
  <2>4. FilterInv' /\ FormatInv'
    <3>1. \A k \in 0 .. i - 1 : List!IsHttps(servers[k])' = List!IsHttps(servers[k])
      BY <2>2 DEF List!IsHttps
    <3>2. FilterInv'
      BY <2>2, <3>1 DEF FilterInv
    <3>3. FormatInv'
      BY <2>2 DEF FormatInv
    <3> QED BY <3>2, <3>3
  <2>5. LatencyInv'
    BY SMTT(30), <2>2 DEF LatencyInv
  <2> QED BY <2>2, <2>3, <2>4, <2>5 DEF ReadInv, SortInv
<1>3. CASE List!EndLatency
  <2>1. /\ listPc = "latency" /\ listPc' = "sort" /\ count >= i /\ count' = 0
        /\ UNCHANGED <<https, g_max_server, tokens, servers, i, j>>
    BY <1>3 DEF List!EndLatency, List!config
  <2>2. ListTypes' /\ UrlInv'
    BY <2>1 DEF UrlInv
  <2>3. FilterInv' /\ FormatInv' /\ LatencyInv'
    BY <2>1 DEF FilterInv, FormatInv, LatencyInv, List!IsHttps
  <2>4. SortInv'
    <3>1. i > 0 => Key(0) \in Nat
      BY <2>1, KeyOfLatency DEF LatencyInv, Key
    <3> QED BY <2>1, <3>1 DEF SortInv, Key
  <2> QED BY <2>1, <2>2, <2>3, <2>4 DEF ReadInv
<1> QED BY <1>1, <1>2, <1>3

\* One comparison: the larger of the two keys is behind, and nothing else moves.
LEMMA SwapSorts ==
  ASSUME ListInv, List!CompareAndSwap
  PROVE  /\ servers' \in [0 .. MaxRequested -> [url : Nat, lat : Lats \cup {0}]]
         /\ \A k \in 0 .. MaxRequested \ {j, j + 1} : servers'[k] = servers[k]
         /\ \/ servers' = servers /\ Key(j) <= Key(j + 1)
            \/ /\ servers'[j] = servers[j + 1] /\ servers'[j + 1] = servers[j]
               /\ Key(j) > Key(j + 1)
<1> USE ListSizes DEF List!Sizes, ListInv, ListTypes
<1>1. /\ listPc = "sort" /\ j \in 0 .. MaxRequested /\ j + 1 \in 0 .. MaxRequested
      /\ j + 1 \in 0 .. i - 1 /\ j \in 0 .. i - 1
  BY DEF List!CompareAndSwap
<1>2. Key(j) \in Nat /\ Key(j + 1) \in Nat
  BY <1>1, KeyOfLatency DEF LatencyInv, Key
<1>3. CASE Key(j) > Key(j + 1)
  <2>1. servers' = [servers EXCEPT ![j] = servers[j + 1], ![j + 1] = servers[j]]
    BY <1>3 DEF List!CompareAndSwap, List!Swapped, Key
  <2> QED BY <1>1, <1>3, <2>1
<1>4. CASE ~ (Key(j) > Key(j + 1))
  <2>1. servers' = servers
    BY <1>4 DEF List!CompareAndSwap, Key
  <2> QED BY <1>2, <1>4, <2>1
<1> QED BY <1>3, <1>4

\* The same for the keys alone: one step of a pass keeps the places behind c and
\* moves the largest key on.
LEMMA BubbleStep ==
  ASSUME NEW n \in Int, NEW c \in Nat, NEW p \in Nat, p < n - c - 1,
         NEW f \in [0 .. n - 1 -> Nat], NEW g \in [0 .. n - 1 -> Nat],
         \A k \in 0 .. n - 1 \ {p, p + 1} : g[k] = f[k],
         \/ g[p] = f[p] /\ g[p + 1] = f[p + 1] /\ f[p] <= f[p + 1]
         \/ g[p] = f[p + 1] /\ g[p + 1] = f[p] /\ f[p] > f[p + 1],
         \A s, t \in 0 .. n - 1 : s <= t /\ t >= n - c => f[s] <= f[t],
         \A s \in 0 .. p : f[s] <= f[p]
  PROVE  /\ \A s, t \in 0 .. n - 1 : s <= t /\ t >= n - c => g[s] <= g[t]
         /\ \A s \in 0 .. p + 1 : g[s] <= g[p + 1]
<1>1. p \in 0 .. n - 1 /\ p + 1 \in 0 .. n - 1
  OBVIOUS
<1>2. ASSUME NEW s \in 0 .. n - 1, NEW t \in 0 .. n - 1, s <= t, t >= n - c
      PROVE  g[s] <= g[t]
  <2>1. g[t] = f[t]
    BY <1>2
  <2>2. f[s] <= f[t] /\ f[p] <= f[t] /\ f[p + 1] <= f[t]
    BY <1>1, <1>2
  <2> QED BY <1>2, <2>1, <2>2
<1>3. ASSUME NEW s \in 0 .. p + 1 PROVE g[s] <= g[p + 1]
  <2>0. /\ f[p] \in Nat /\ f[p + 1] \in Nat /\ g[p] \in Nat /\ g[p + 1] \in Nat
        /\ f[p] <= g[p + 1] /\ g[p] <= g[p + 1]
    BY <1>1
  <2>1. CASE s \in 0 .. p - 1
    <3>1. g[s] = f[s] /\ f[s] <= f[p] /\ f[s] \in Nat
      BY <1>1, <2>1
    <3> QED BY <2>0, <3>1
  <2>2. CASE s = p \/ s = p + 1
    BY <2>0, <2>2
  <2>3. s \in 0 .. p - 1 \/ s = p \/ s = p + 1
    BY <1>3
  <2> QED BY <2>1, <2>2, <2>3
<1> QED BY <1>2, <1>3

LEMMA SortKeepsList ==
  ASSUME ListInv, List!CompareAndSwap \/ List!NextPass \/ List!EndSort
  PROVE  ListInv'
<1> USE ListSizes DEF List!Sizes, ListInv, ListTypes, Early, ListStates, Answered
<1>1. \A k \in 0 .. i - 1 : Key(k) \in Nat
  BY KeyOfLatency DEF List!CompareAndSwap, List!NextPass, List!EndSort, LatencyInv, Key
<1>2. CASE List!CompareAndSwap
  <2>1. /\ listPc = "sort" /\ count < i - 1 /\ j < i - count - 1 /\ j' = j + 1
        /\ UNCHANGED <<listPc, https, g_max_server, tokens, i, count>>
    BY <1>2 DEF List!CompareAndSwap, List!config
  <2>2. /\ servers' \in [0 .. MaxRequested -> [url : Nat, lat : Lats \cup {0}]]
        /\ \A k \in 0 .. MaxRequested \ {j, j + 1} : servers'[k] = servers[k]
        /\ \/ servers' = servers /\ Key(j) <= Key(j + 1)
           \/ /\ servers'[j] = servers[j + 1] /\ servers'[j + 1] = servers[j]
              /\ Key(j) > Key(j + 1)
    BY <1>2, SwapSorts
  <2>3. ListTypes'
    BY <2>1, <2>2
  <2>4. ASSUME NEW k \in 0 .. MaxRequested
        PROVE  \E l \in 0 .. MaxRequested : servers'[k] = servers[l] /\ (k < i => l < i)
    <3>1. j \in 0 .. MaxRequested /\ j + 1 \in 0 .. MaxRequested /\ j + 1 < i
      BY <2>1
    <3>2. CASE k \notin {j, j + 1}
      BY <2>2, <3>2
    <3>3. CASE k \in {j, j + 1}
      <4>1. servers'[k] = servers[k] \/ servers'[k] = servers[j] \/ servers'[k] = servers[j + 1]
        BY <2>2, <3>3
      <4> QED BY <3>1, <4>1
    <3> QED BY <3>2, <3>3
  <2>5. UrlInv'
    BY ZenonT(40), <2>1, <2>4 DEF UrlInv
  <2>6. ASSUME NEW k \in 0 .. i - 1
        PROVE  /\ List!IsHttps(servers[k])' = https
               /\ servers'[k].url # 0 /\ servers'[k].lat \in Lats
    <3>1. PICK l \in 0 .. i - 1 : servers'[k] = servers[l]
      <4>1. k \in 0 .. MaxRequested /\ k < i
        OBVIOUS
      <4>2. PICK l \in 0 .. MaxRequested : servers'[k] = servers[l] /\ (k < i => l < i)
        BY <2>4, <4>1
      <4> QED BY <4>1, <4>2
    <3>2. List!IsHttps(servers[k])' = List!IsHttps(servers[l])
      BY <2>1, <3>1 DEF List!IsHttps
    <3> QED BY <2>1, <3>1, <3>2 DEF FilterInv, FormatInv, LatencyInv
  <2>7. FilterInv' /\ FormatInv' /\ LatencyInv'
    <3> HIDE DEF ListInv, ListTypes
    <3> QED BY <2>1, <2>6 DEF FilterInv, FormatInv, LatencyInv
  <2>8. SortInv'
    <3> DEFINE f == [k \in 0 .. i - 1 |-> Key(k)]
               NewKey(k) == List!SortKey(servers'[k])
               g == [k \in 0 .. i - 1 |-> NewKey(k)]
    <3>1. \A k \in 0 .. i - 1 : NewKey(k) \in Nat
      BY <2>6, KeyOfLatency DEF Key
    <3>2. f \in [0 .. i - 1 -> Nat] /\ g \in [0 .. i - 1 -> Nat]
      BY <1>1, <3>1
    <3>3. \A k \in 0 .. i - 1 \ {j, j + 1} : g[k] = f[k]
      BY <2>1, <2>2 DEF Key
    <3>4. \/ g[j] = f[j] /\ g[j + 1] = f[j + 1] /\ f[j] <= f[j + 1]
          \/ g[j] = f[j + 1] /\ g[j + 1] = f[j] /\ f[j] > f[j + 1]
      BY SMTT(60), <2>1, <2>2 DEF Key
    <3>5. /\ \A s, t \in 0 .. i - 1 : s <= t /\ t >= i - count => f[s] <= f[t]
          /\ \A s \in 0 .. j : f[s] <= f[j]
      BY <2>1 DEF SortInv
    <3>6. /\ \A s, t \in 0 .. i - 1 : s <= t /\ t >= i - count => g[s] <= g[t]
          /\ \A s \in 0 .. j + 1 : g[s] <= g[j + 1]
      <4> HIDE DEF f, g
      <4>1. i \in Int /\ count \in Nat /\ j \in Nat /\ j < i - count - 1
        BY <2>1
      <4> QED BY <3>2, <3>3, <3>4, <3>5, <4>1, BubbleStep
    <3>7. /\ \A s, t \in 0 .. i - 1 : s <= t /\ t >= i - count => NewKey(s) <= NewKey(t)
          /\ \A s \in 0 .. j + 1 : NewKey(s) <= NewKey(j + 1)
      <4>1. \A k \in 0 .. i - 1 : g[k] = NewKey(k)
        OBVIOUS
      <4>2. 0 .. j + 1 \subseteq 0 .. i - 1 /\ j + 1 \in 0 .. i - 1
        BY <2>1
      <4> HIDE DEF g, NewKey
      <4> QED BY <3>6, <4>1, <4>2
    <3>8. /\ \A s, t \in 0 .. i' - 1 : s <= t /\ t >= i' - count' => NewKey(s) <= NewKey(t)
          /\ \A s \in 0 .. j' : NewKey(s) <= NewKey(j')
          /\ j' <= i' - count' - 1 /\ listPc' = "sort"
      BY <2>1, <3>7
    <3> QED BY <3>8 DEF SortInv, Key
  <2> QED BY <2>1, <2>3, <2>5, <2>7, <2>8 DEF ReadInv
<1>3. CASE List!NextPass \/ List!EndSort
  <2>1. /\ listPc = "sort" /\ listPc' \in {"sort", "sorted"} /\ count' \in Nat /\ j' \in Nat
        /\ UNCHANGED <<https, g_max_server, tokens, servers, i>>
    BY SMTT(30), <1>3 DEF List!NextPass, List!EndSort, List!config
  <2>2. ListTypes' /\ UrlInv'
    BY <2>1 DEF UrlInv
  <2>3. FilterInv' /\ FormatInv' /\ LatencyInv'
    BY <2>1 DEF FilterInv, FormatInv, LatencyInv, List!IsHttps
  <2>4. SortInv'
    <3>1. \A k \in 0 .. i - 1 : Key(k)' = Key(k)
      BY <2>1 DEF Key
    <3>2. CASE List!NextPass
      BY <2>1, <3>1, <3>2, <1>1 DEF SortInv, List!NextPass
    <3>3. CASE List!EndSort
      BY <2>1, <3>1, <3>3, <1>1 DEF SortInv, List!EndSort
    <3> QED BY <1>3, <3>2, <3>3
  <2> QED BY <2>1, <2>2, <2>3, <2>4 DEF ReadInv
<1> QED BY <1>2, <1>3

LEMMA ListStutter == ASSUME ListInv, UNCHANGED List!vars PROVE ListInv'
BY DEF List!vars, List!config, ListInv, ListTypes, UrlInv, ReadInv, FilterInv, FormatInv,
       LatencyInv, SortInv, Key, List!IsHttps, List!UrlOf

LEMMA ListInductive == ASSUME ListInv, [List!Next]_List!vars PROVE ListInv'
BY ReadKeepsList, FilterKeepsList, ProbeKeepsList, SortKeepsList, ListStutter
   DEF List!Next, List!Ended

LEMMA SortedEntries ==
  ASSUME ListInv, listPc = "sorted", NEW s \in 0 .. i - 1, NEW t \in 0 .. i - 1, s <= t
  PROVE  servers[t].lat = -1 \/ (servers[s].lat # -1 /\ servers[s].lat <= servers[t].lat)
<1>1. Key(s) <= Key(t) /\ servers[s].lat \in Lats /\ servers[t].lat \in Lats
  BY DEF ListInv, SortInv, LatencyInv
<1>2. CASE servers[t].lat # -1
  <2>1. Key(t) = servers[t].lat /\ servers[t].lat \in Latencies
    BY <1>1, <1>2, KeyOfLatency DEF Key, Lats
  <2>2. servers[s].lat # -1
    BY <1>1, <2>1, KeyOfLatency, ListSizes DEF Key, List!Sizes
  <2>3. Key(s) = servers[s].lat
    BY <1>1, <2>2, KeyOfLatency DEF Key
  <2> QED BY <1>1, <2>1, <2>2, <2>3
<1> QED BY <1>2

LEMMA SortedByLatency == ASSUME ListInv PROVE List!LatencySorted
<1> SUFFICES ASSUME listPc = "sorted", NEW s \in 0 .. i - 2
             PROVE  \/ servers[s + 1].lat = -1
                    \/ servers[s].lat # -1 /\ servers[s].lat <= servers[s + 1].lat
  BY DEF List!LatencySorted, List!None
<1>1. s \in 0 .. i - 1 /\ s + 1 \in 0 .. i - 1 /\ s <= s + 1
  BY DEF ListInv, ListTypes
<1> QED BY <1>1, SortedEntries

-----------------------------------------------------------------------------
(* The list of servers: which of the answer's servers it serves *)

Uncut == \A k \in 1 .. Len(tokens) : tokens[k] # "cut"
Wants == {k \in 1 .. Len(tokens) : List!Wanted(k)}

\* How far the entries are filled that a deletion moves.
Reach == IF Len(tokens) > g_max_server THEN g_max_server ELSE Len(tokens)

\* The first m entries of f are tokens up to b in their order, and all of W.
Kept(f, m, b, W) ==
  /\ \A k \in 0 .. m - 1 : f[k].url \in 1 .. b
  /\ \A s, t \in 0 .. m - 1 : s < t => f[s].url < f[t].url
  /\ \A w \in W : w <= b => \E k \in 0 .. m - 1 : f[k].url = w

\* The entry at i is the zeroed one behind the last server.
ZeroBehind == /\ 0 <= i /\ servers[i].url = 0
              /\ Kept(servers, i, Reach, Wants)

\* The last step has deleted the last entry.
LastDeleted == /\ count = i + 1 /\ Kept(servers, i + 1, Reach, Wants)
               /\ https \/ (Len(tokens) > g_max_server /\ i = g_max_server - 1)

\* Nothing has been deleted from an answer that is longer than g_max_server.
NoneDeleted == /\ Len(tokens) > g_max_server /\ i = g_max_server
               /\ \A k \in 0 .. i : servers[k].url = k + 1

\* ListServed, for what is served from here on.
ServedInv ==
  LET wanted == List!FirstWanted(g_max_server + 1)
      excess == i - Cardinality(List!FirstWanted(g_max_server)) IN
    /\ \A s, t \in 0 .. i - 1 : servers[s].url = servers[t].url => s = t
    /\ List!Served \subseteq wanted
    /\ \A k \in List!Served, w \in wanted : w < k => w \in List!Served
    /\ excess \in {-1, 0, 1}
    /\ Len(tokens) <= g_max_server => excess = 0

WholeInv == Uncut =>
  /\ listPc = "filter" => ZeroBehind \/ LastDeleted \/ NoneDeleted
  /\ listPc \in {"format"} \cup Answered => ServedInv

LEMMA KeptCount ==
  ASSUME NEW f, NEW m \in Nat, NEW b \in Nat, NEW W \in SUBSET Nat,
         Kept(f, m, b, W), \A k \in 0 .. m - 1 : f[k].url \in W,
         NEW S, S = {w \in W : w <= b}
  PROVE  IsFiniteSet(S) /\ Cardinality(S) = m
<1> DEFINE h == [k \in 1 .. m |-> f[k - 1].url]
<1>1. \A k \in 1 .. m : k - 1 \in 0 .. m - 1
  OBVIOUS
<1>2. S = {f[k].url : k \in 0 .. m - 1}
  <2>1. \A k \in 0 .. m - 1 : f[k].url \in S
    BY DEF Kept
  <2>2. \A w \in S : \E k \in 0 .. m - 1 : f[k].url = w
    BY DEF Kept
  <2> QED BY <2>1, <2>2
<1>3. \A k \in 1 .. m : h[k] \in S
  BY <1>1, <1>2
<1>4. \A x \in S : \E k \in 1 .. m : h[k] = x
  <2> SUFFICES ASSUME NEW x \in S PROVE \E k \in 1 .. m : h[k] = x
    OBVIOUS
  <2>1. PICK k \in 0 .. m - 1 : f[k].url = x
    BY <1>2
  <2>2. k + 1 \in 1 .. m /\ (k + 1) - 1 = k
    OBVIOUS
  <2> QED BY <2>1, <2>2
<1>5. ASSUME NEW s \in 1 .. m, NEW t \in 1 .. m, h[s] = h[t] PROVE s = t
  <2>1. f[s - 1].url = f[t - 1].url /\ s - 1 \in 0 .. m - 1 /\ t - 1 \in 0 .. m - 1
    BY <1>1, <1>5
  <2>2. ~ (s - 1 < t - 1) /\ ~ (t - 1 < s - 1)
    BY <2>1 DEF Kept
  <2> QED BY <2>2
<1>6. ExistsBijection(1 .. m, S)
  <2>1. h \in Bijection(1 .. m, S)
    <3>1. h \in [1 .. m -> S]
      BY <1>3
    <3> HIDE DEF h
    <3> QED BY <3>1, <1>4, <1>5 DEF Bijection, Injection, Surjection, IsInjective
  <2> QED BY <2>1 DEF ExistsBijection
<1>7. IsFiniteSet(S) /\ Cardinality(S) = m
  <2>1. IsFiniteSet(1 .. m) /\ Cardinality(1 .. m) = m
    BY FS_Interval
  <2> QED BY <2>1, <1>6, FS_Bijection
<1> QED BY <1>7

LEMMA ServedPrefix ==
  ASSUME ListTypes, NEW m \in Nat, NEW b \in 0 .. Len(tokens), b <= g_max_server + 1,
         Kept(servers, m, b, Wants), NEW n \in Int, n <= m,
         \A k \in 0 .. m - 1 : servers[k].url \in Wants
  PROVE  LET wanted == List!FirstWanted(g_max_server + 1)
             served == {servers[k].url : k \in 0 .. n - 1} IN
           /\ \A s, t \in 0 .. n - 1 : servers[s].url = servers[t].url => s = t
           /\ served \subseteq wanted
           /\ \A k \in served, w \in wanted : w < k => w \in served
<1> DEFINE wanted == List!FirstWanted(g_max_server + 1)
           served == {servers[k].url : k \in 0 .. n - 1}
<1> USE ListSizes DEF List!Sizes, ListTypes
<1>1. 0 .. n - 1 \subseteq 0 .. m - 1
  OBVIOUS
<1>2. ASSUME NEW s \in 0 .. n - 1, NEW t \in 0 .. n - 1, servers[s].url = servers[t].url
      PROVE  s = t
  <2>1. ~ (s < t) /\ ~ (t < s)
    BY <1>1, <1>2 DEF Kept
  <2> QED BY <2>1
<1>3. wanted = {w \in Wants : w <= g_max_server + 1}
  BY DEF List!FirstWanted, Wants
<1>4. served \subseteq wanted
  BY <1>1, <1>3 DEF Kept
<1>5. ASSUME NEW k \in served, NEW w \in wanted, w < k PROVE w \in served
  <2>1. PICK s \in 0 .. n - 1 : servers[s].url = k
    OBVIOUS
  <2>2. k \in 1 .. b
    BY <1>1, <2>1 DEF Kept
  <2>3. w \in Wants /\ w \in Nat /\ w <= b
    BY SMTT(30), <1>3, <1>5, <2>2 DEF Wants
  <2>4. PICK t \in 0 .. m - 1 : servers[t].url = w
    BY <2>3 DEF Kept
  <2>5. s \in 0 .. m - 1 /\ servers[t].url < servers[s].url
    BY <1>1, <1>5, <2>1, <2>4
  <2>6. s < t => servers[s].url < servers[t].url
    BY <2>4, <2>5 DEF Kept
  <2>7. ~ (s < t) /\ s # t
    BY SMTT(30), <2>1, <2>2, <2>3, <2>4, <2>5, <2>6
  <2> QED BY <2>4, <2>5, <2>7
<1> QED BY <1>2, <1>4, <1>5

\* A deletion among the entries that it moves takes one away, and a zeroed entry
\* is behind the rest.
LEMMA DeletionKeeps ==
  ASSUME ListTypes, NEW m \in Nat, NEW b \in Nat, NEW s \in 0 .. m - 1,
         NEW W \in SUBSET Nat, m <= g_max_server, Kept(servers, m, b, W), servers[s].url \notin W,
         m < g_max_server => servers[m].url = 0,
         NEW d, d = List!DeleteServerByIndex(s)
  PROVE  Kept(d, m - 1, b, W) /\ d[m - 1].url = 0
<1> USE ListSizes DEF List!Sizes, ListTypes
<1>1. d = [k \in 0 .. MaxRequested |->
             IF k < s \/ k >= g_max_server THEN servers[k]
             ELSE IF k = g_max_server - 1 THEN List!Zeroed ELSE servers[k + 1]]
  BY DEF List!DeleteServerByIndex, List!Indices
<1>2. \A k \in 0 .. s - 1 : d[k] = servers[k]
  BY <1>1
<1>3. \A k \in s .. m - 2 : d[k] = servers[k + 1]
  BY <1>1
<1>4. d[m - 1].url = 0
  <2>1. List!Zeroed.url = 0
    BY DEF List!Zeroed
  <2>2. CASE m = g_max_server
    BY <1>1, <2>1, <2>2
  <2>3. CASE m < g_max_server
    BY <1>1, <2>3
  <2> QED BY <2>2, <2>3
<1>5. ASSUME NEW k \in 0 .. m - 2
      PROVE  \/ k < s /\ d[k] = servers[k]
             \/ k >= s /\ d[k] = servers[k + 1]
  <2>1. CASE k < s
    BY <1>2, <2>1
  <2>2. CASE k >= s
    <3>1. k \in s .. m - 2
      BY <2>2
    <3> QED BY <3>1, <1>3
  <2> QED BY <2>1, <2>2
<1>6. \A k \in 0 .. m - 2 : k + 1 \in 0 .. m - 1 /\ k \in 0 .. m - 1
  OBVIOUS
<1>7. \A k \in 0 .. m - 2 : d[k].url \in 1 .. b
  BY <1>5, <1>6 DEF Kept
<1>8. ASSUME NEW p \in 0 .. m - 2, NEW q \in 0 .. m - 2, p < q
      PROVE  d[p].url < d[q].url
  <2>1. PICK k, l \in 0 .. m - 1 : d[p] = servers[k] /\ d[q] = servers[l] /\ k < l
    <3>1. p + 1 \in 0 .. m - 1 /\ q + 1 \in 0 .. m - 1 /\ p \in 0 .. m - 1 /\ q \in 0 .. m - 1
      BY <1>6
    <3>2. \/ p < s /\ d[p] = servers[p]
          \/ p >= s /\ d[p] = servers[p + 1]
      BY <1>5
    <3>3. \/ q < s /\ d[q] = servers[q]
          \/ q >= s /\ d[q] = servers[q + 1]
      BY <1>5
    <3>4. CASE q < s
      BY <1>8, <3>1, <3>2, <3>3, <3>4
    <3>5. CASE q >= s
      <4>1. p < q + 1 /\ p + 1 < q + 1
        BY <1>8
      <4> QED BY SMTT(30), <4>1, <3>1, <3>2, <3>3, <3>5
    <3> QED BY <3>4, <3>5
  <2> QED BY <2>1 DEF Kept
<1>9. ASSUME NEW w \in W, w <= b PROVE \E k \in 0 .. m - 2 : d[k].url = w
  <2>1. PICK l \in 0 .. m - 1 : servers[l].url = w
    BY <1>9 DEF Kept
  <2>2. CASE l < s
    <3>1. l \in 0 .. m - 2 /\ d[l].url = w
      BY SMTT(30), <2>1, <2>2, <1>2
    <3> QED BY <3>1
  <2>3. CASE l > s
    <3>1. l - 1 \in s .. m - 2 /\ (l - 1) + 1 = l
      BY <2>3
    <3>2. l - 1 \in 0 .. m - 2 /\ d[l - 1].url = w
      BY SMTT(30), <2>1, <3>1, <1>3
    <3> QED BY <3>2
  <2> QED BY <2>1, <2>2, <2>3
<1>10. Kept(d, m - 1, b, W)
  BY <1>7, <1>8, <1>9 DEF Kept
<1> QED BY <1>4, <1>10

LEMMA WantsTypes == ASSUME ListTypes PROVE Wants \in SUBSET Nat /\ Reach \in 0 .. Len(tokens) /\ Reach <= g_max_server
BY ListSizes DEF List!Sizes, ListTypes, Wants, Reach

\* Without a cut token the filter tells the wanted servers from all others.
LEMMA FilterMeets ==
  ASSUME ListTypes, Uncut, NEW k \in 0 .. MaxRequested, servers[k].url \in 1 .. Len(tokens)
  PROVE  servers[k].url \in Wants <=> List!IsHttps(servers[k]) = https
<1>1. tokens[servers[k].url] \in {"http", "https"}
  BY DEF ListTypes, Uncut
<1> QED BY <1>1 DEF ListTypes, Wants, List!Wanted, List!IsHttps

LEMMA FetchWhole == ASSUME ListInv, List!FindBestServer PROVE WholeInv'
<1> USE ListSizes DEF List!Sizes
<1>1. /\ listPc = "fetch" /\ listPc' \in {"filter", "parse"} /\ UNCHANGED <<servers, i, g_max_server>>
      /\ listPc' = "filter" => tokens' = << >>
  BY DEF List!FindBestServer, List!config
<1>2. /\ i = 0 /\ servers[0].url = 0 /\ g_max_server \in Nat
  BY <1>1 DEF ListInv, ListTypes, ReadInv
<1>3. listPc' = "filter" => Reach' = 0 /\ Wants' = {}
  BY <1>1, <1>2 DEF Reach, Wants
<1>4. listPc' = "filter" => Kept(servers', i', Reach', Wants')
  BY <1>1, <1>2, <1>3 DEF Kept
<1> QED BY <1>1, <1>2, <1>4 DEF WholeInv, ZeroBehind, Answered

\* All of the first m tokens are kept.
LEMMA KeptAll ==
  ASSUME NEW f, NEW m \in Nat, NEW W, W \subseteq 1 .. m, \A k \in 0 .. m - 1 : f[k].url = k + 1
  PROVE  Kept(f, m, m, W)
<1>1. \A w \in 1 .. m : w - 1 \in 0 .. m - 1 /\ f[w - 1].url = w
  OBVIOUS
<1>2. \A w \in W : \E k \in 0 .. m - 1 : f[k].url = w
  BY <1>1
<1> QED BY <1>2 DEF Kept

LEMMA ParseWhole == ASSUME ListInv, List!ParseToken PROVE WholeInv'
<1> USE ListSizes DEF List!Sizes, ListInv, ListTypes
<1>1. /\ listPc = "parse" /\ listPc' \in {"filter", "parse"}
      /\ UNCHANGED <<tokens, https, g_max_server>>
      /\ servers' = [servers EXCEPT ![i].url = List!UrlOf(i + 1)]
      /\ i \in 0 .. g_max_server /\ i + 1 \in 1 .. Len(tokens)
  BY DEF List!ParseToken, List!config, Early
<1> SUFFICES ASSUME listPc' = "filter", Uncut PROVE (ZeroBehind \/ NoneDeleted)'
  BY <1>1 DEF WholeInv, Answered, Uncut
<1>2. \A k \in 0 .. i : servers'[k].url = k + 1
  <2>1. \A k \in 0 .. i : List!UrlOf(k + 1) = k + 1
    BY SMTT(30), <1>1 DEF Uncut, List!UrlOf
  <2>2. \A k \in 0 .. i - 1 : servers'[k].url = k + 1
    BY SMTT(60), <1>1, <2>1 DEF ReadInv
  <2>3. servers'[i].url = i + 1
    BY SMTT(30), <1>1, <2>1
  <2>4. \A k \in 0 .. i : k \in 0 .. i - 1 \/ k = i
    BY SMTT(30), <1>1
  <2> QED BY <2>2, <2>3, <2>4
<1>3. CASE i + 1 > g_max_server
  <2>1. i' = i /\ i = g_max_server
    BY SMTT(30), <1>1, <1>3 DEF List!ParseToken
  <2> QED BY <1>1, <1>2, <2>1 DEF NoneDeleted
<1>4. CASE i + 1 <= g_max_server
  <2>1. i' = i + 1 /\ i' = Len(tokens) /\ Reach' = i' /\ Wants' \subseteq 1 .. i'
    BY SMTT(30), <1>1, <1>4 DEF List!ParseToken, Reach, Wants
  <2>2. servers'[i'].url = 0
    BY SMTT(30), <1>1, <1>4, <2>1 DEF ReadInv
  <2>3. Kept(servers', i', Reach', Wants')
    <3> HIDE DEF List!Sizes, ListInv, ListTypes
    <3>1. i' \in Nat /\ \A k \in 0 .. i' - 1 : servers'[k].url = k + 1
      BY <1>1, <1>2, <2>1
    <3>2. Kept(servers', i', i', Wants')
      BY <2>1, <3>1, KeptAll
    <3> QED BY <2>1, <3>2
  <2> QED BY <1>1, <2>1, <2>2, <2>3 DEF ZeroBehind
<1> QED BY <1>1, <1>3, <1>4

LEMMA FilterWhole == ASSUME ListInv, WholeInv, List!FilterEntry PROVE WholeInv'
<1> USE ListSizes DEF List!Sizes
<1>1. /\ listPc = "filter" /\ count \in 0 .. i /\ i \in 0 .. g_max_server /\ g_max_server \in 0 .. MaxRequested
      /\ UNCHANGED <<listPc, https, g_max_server, tokens, j>>
  BY DEF List!FilterEntry, List!config, ListInv, ListTypes, Early
<1>2. Wants' = Wants /\ Reach' = Reach /\ Uncut' = Uncut
  BY <1>1 DEF Wants, List!Wanted, Reach, Uncut
<1> SUFFICES ASSUME Uncut, ZeroBehind \/ LastDeleted \/ NoneDeleted
             PROVE  (ZeroBehind \/ LastDeleted \/ NoneDeleted)'
  BY <1>1, <1>2 DEF WholeInv, Answered
<1>3. CASE List!IsHttps(servers[count]) = https
  <2>1. count' = count + 1 /\ UNCHANGED <<servers, i>>
    BY <1>3 DEF List!FilterEntry
  <2> QED BY <1>1, <1>2, <2>1 DEF ZeroBehind, LastDeleted, NoneDeleted
<1>4. CASE List!IsHttps(servers[count]) # https
  <2>1. servers' = List!DeleteServerByIndex(count) /\ i' = i - 1 /\ count' = count
    BY <1>4 DEF List!FilterEntry
  <2>2. /\ Wants \in SUBSET Nat /\ Reach \in Nat /\ Reach <= g_max_server /\ Reach <= Len(tokens)
        /\ Len(tokens) \in Nat
    BY WantsTypes DEF ListInv, ListTypes
  <2>3. /\ \A k \in 0 .. count - 1 : servers'[k] = servers[k]
    BY SMTT(30), <1>1, <2>1, Deleted DEF ListInv
  <2>4. ~ LastDeleted
    BY <1>1 DEF LastDeleted
  <2>5. servers[count].url \in 1 .. Len(tokens) => servers[count].url \notin Wants
    BY <1>1, <1>4, FilterMeets DEF ListInv
  <2>6. ASSUME NEW m \in Nat, count < m, m <= g_max_server, Kept(servers, m, Reach, Wants),
               m < g_max_server => servers[m].url = 0, i' = m - 1
        PROVE  ZeroBehind'
    <3>1. servers[count].url \notin Wants
      BY <1>1, <2>2, <2>5, <2>6 DEF Kept
    <3>2. count \in 0 .. m - 1
      BY <1>1, <2>6
    <3>3. Kept(servers', m - 1, Reach, Wants) /\ servers'[m - 1].url = 0
      BY <2>1, <2>2, <2>6, <3>1, <3>2, DeletionKeeps DEF ListInv
    <3> QED BY <1>1, <1>2, <2>6, <3>2, <3>3 DEF ZeroBehind
  <2>7. CASE ZeroBehind /\ count < i
    BY <1>1, <2>1, <2>6, <2>7 DEF ZeroBehind
  <2>8. CASE ZeroBehind /\ count = i
    <3>1. https
      BY <1>4, <2>8 DEF ZeroBehind, List!IsHttps, ListInv, ListTypes
    <3>2. Kept(servers', i, Reach, Wants)
      BY <2>3, <2>8 DEF ZeroBehind, Kept
    <3>3. i' + 1 = i
      BY <1>1, <2>1
    <3> QED BY <1>1, <1>2, <2>1, <2>8, <3>1, <3>2, <3>3 DEF LastDeleted
  <2>9. ASSUME NoneDeleted PROVE Kept(servers, g_max_server, Reach, Wants) /\ Reach = g_max_server
    <3>1. Reach = g_max_server /\ Wants \subseteq 1 .. Len(tokens)
      BY <2>9 DEF NoneDeleted, Reach, Wants
    <3>2. \A w \in 1 .. g_max_server : w - 1 \in 0 .. g_max_server - 1 /\ (w - 1) + 1 = w
      BY <1>1
    <3>3. \A k \in 0 .. g_max_server - 1 : servers[k].url = k + 1
      BY <1>1, <2>9 DEF NoneDeleted
    <3>4. ASSUME NEW w \in Wants, w <= Reach
          PROVE  \E k \in 0 .. g_max_server - 1 : servers[k].url = w
      <4>1. w \in 1 .. g_max_server
        BY <1>1, <2>2, <3>1, <3>4
      <4> QED BY <3>2, <3>3, <4>1
    <3>5. \A k \in 0 .. g_max_server - 1 : servers[k].url \in 1 .. Reach
      BY <1>1, <3>1, <3>3
    <3>6. \A s, t \in 0 .. g_max_server - 1 : s < t => servers[s].url < servers[t].url
      BY <1>1, <3>3
    <3> QED BY <3>1, <3>4, <3>5, <3>6 DEF Kept
  <2>10. CASE NoneDeleted /\ count < i
    BY <1>1, <2>1, <2>6, <2>9, <2>10 DEF NoneDeleted
  <2>11. CASE NoneDeleted /\ count = i
    <3>1. i = g_max_server /\ Len(tokens) > g_max_server /\ count' = g_max_server
      BY <2>1, <2>11 DEF NoneDeleted
    <3>2. Kept(servers', g_max_server, Reach, Wants)
      BY <2>3, <2>9, <2>11, <3>1 DEF Kept
    <3>3. i' = g_max_server - 1 /\ i' + 1 = g_max_server
      BY <1>1, <2>1, <3>1
    <3> QED BY <1>1, <1>2, <3>1, <3>2, <3>3 DEF LastDeleted
  <2>12. count < i \/ count = i
    BY <1>1
  <2> QED BY <2>4, <2>7, <2>8, <2>10, <2>11, <2>12
<1> QED BY <1>3, <1>4

\* What is served when the filter ends: the first n of the m entries that are
\* kept of the tokens up to b.
LEMMA ServedHolds ==
  ASSUME ListTypes, NEW m \in Nat, NEW b \in 0 .. Len(tokens), b <= g_max_server + 1,
         Kept(servers, m, b, Wants), \A k \in 0 .. m - 1 : servers[k].url \in Wants,
         i' \in Int, i' <= m, UNCHANGED <<servers, tokens, https, g_max_server>>,
         i' - Cardinality(List!FirstWanted(g_max_server)) \in {-1, 0, 1},
         Len(tokens) <= g_max_server => i' - Cardinality(List!FirstWanted(g_max_server)) = 0
  PROVE  ServedInv'
<1>1. /\ List!FirstWanted(g_max_server + 1)' = List!FirstWanted(g_max_server + 1)
      /\ List!FirstWanted(g_max_server)' = List!FirstWanted(g_max_server)
  BY DEF List!FirstWanted, List!Wanted
<1> DEFINE wanted == List!FirstWanted(g_max_server + 1)
<1>2. PICK n \in Int : n = i'
  OBVIOUS
<1>3. /\ \A s, t \in 0 .. n - 1 : servers[s].url = servers[t].url => s = t
      /\ {servers[k].url : k \in 0 .. n - 1} \subseteq wanted
      /\ \A k \in {servers[s].url : s \in 0 .. n - 1}, w \in wanted :
            w < k => w \in {servers[s].url : s \in 0 .. n - 1}
  BY <1>2, ServedPrefix
<1>4. List!Served' = {servers[k].url : k \in 0 .. n - 1}
  BY <1>2 DEF List!Served
<1>5. /\ \A s, t \in 0 .. i' - 1 : servers'[s].url = servers'[t].url => s = t
      /\ List!Served' \subseteq wanted
      /\ \A k \in List!Served', w \in wanted : w < k => w \in List!Served'
  BY <1>2, <1>3, <1>4
<1> HIDE DEF wanted
<1>6. List!FirstWanted(g_max_server + 1)' = wanted
  BY <1>1 DEF wanted
<1> QED BY <1>1, <1>5, <1>6 DEF ServedInv

LEMMA EndFilterWhole == ASSUME ListInv, WholeInv, List!EndFilter PROVE WholeInv'
<1> USE ListSizes DEF List!Sizes
<1>1. /\ listPc = "filter" /\ listPc' = "format" /\ i' = IF https THEN i + 1 ELSE i
      /\ UNCHANGED <<https, g_max_server, tokens, servers>>
      /\ i \in -1 .. g_max_server /\ count = i + 1 /\ g_max_server \in 0 .. MaxRequested
      /\ Len(tokens) \in Nat /\ https \in BOOLEAN
  BY DEF List!EndFilter, List!config, ListInv, ListTypes, FilterInv, Early
<1> SUFFICES ASSUME Uncut, ZeroBehind \/ LastDeleted \/ NoneDeleted PROVE ServedInv'
  BY <1>1 DEF WholeInv, Answered, Uncut
<1>2. /\ Wants \in SUBSET Nat /\ Reach \in 0 .. Len(tokens) /\ Reach <= g_max_server
  BY WantsTypes DEF ListInv
<1>3. \A k \in 0 .. i : List!IsHttps(servers[k]) = https
  BY <1>1 DEF ListInv, FilterInv
<1>4. ASSUME NEW m \in Nat, NEW b \in 0 .. Len(tokens), m <= i + 1, Kept(servers, m, b, Wants)
      PROVE  \A k \in 0 .. m - 1 : servers[k].url \in Wants
  BY <1>1, <1>3, <1>4, FilterMeets DEF ListInv, Kept
<1>5. List!FirstWanted(g_max_server) = {w \in Wants : w <= Reach}
  BY SMTT(30), <1>1 DEF List!FirstWanted, Wants, Reach, ListInv, ListTypes
<1>6. ASSUME NEW m \in Nat, m <= i + 1, Kept(servers, m, Reach, Wants)
      PROVE  Cardinality(List!FirstWanted(g_max_server)) = m
  <2>1. \A k \in 0 .. m - 1 : servers[k].url \in Wants
    BY <1>2, <1>4, <1>6
  <2> QED BY SMTT(30), <1>1, <1>2, <1>5, <1>6, <2>1, KeptCount
<1>7. CASE ZeroBehind
  <2>1. ~ https
    BY <1>1, <1>3, <1>7 DEF ZeroBehind, List!IsHttps
  <2>2. i' = i /\ i \in Nat /\ Kept(servers, i, Reach, Wants)
    BY <1>1, <1>7, <2>1 DEF ZeroBehind
  <2>3. Cardinality(List!FirstWanted(g_max_server)) = i
    BY <1>1, <1>6, <2>2
  <2> QED BY <1>1, <1>2, <1>4, <2>2, <2>3, ServedHolds DEF ListInv
<1>8. CASE LastDeleted
  <2>1. i + 1 \in Nat /\ Kept(servers, i + 1, Reach, Wants)
    BY <1>1, <1>8 DEF LastDeleted
  <2>2. Cardinality(List!FirstWanted(g_max_server)) = i + 1
    BY <1>1, <1>6, <2>1
  <2>3. i' = i + 1 \/ (i' = i /\ Len(tokens) > g_max_server)
    BY <1>1, <1>8 DEF LastDeleted
  <2>4. \A k \in 0 .. (i + 1) - 1 : servers[k].url \in Wants
    BY <1>1, <1>2, <1>4, <2>1
  <2>5. /\ i' - Cardinality(List!FirstWanted(g_max_server)) \in {-1, 0, 1}
        /\ Len(tokens) <= g_max_server => i' - Cardinality(List!FirstWanted(g_max_server)) = 0
    BY <1>1, <2>2, <2>3
  <2>6. i' \in Int /\ i' <= i + 1 /\ Reach <= g_max_server + 1
    BY <1>1, <1>2, <2>3
  <2> QED BY <1>1, <1>2, <2>1, <2>4, <2>5, <2>6, ServedHolds DEF ListInv
<1>9. CASE NoneDeleted
  <2> DEFINE g == g_max_server
  <2>1. i = g /\ Len(tokens) > g /\ Reach = g /\ \A k \in 0 .. g : servers[k].url = k + 1
    BY <1>9 DEF NoneDeleted, Reach
  <2>2. ASSUME NEW m \in {g, g + 1} PROVE Kept(servers, m, m, Wants)
    <3>1. \A w \in 1 .. m : w - 1 \in 0 .. m - 1 /\ (w - 1) + 1 = w
      BY <1>1
    <3>2. \A k \in 0 .. m - 1 : servers[k].url = k + 1
      BY <1>1, <2>1
    <3>3. \A k \in 0 .. m - 1 : servers[k].url \in 1 .. m
      BY SMTT(30), <1>1, <3>2
    <3>4. \A s, t \in 0 .. m - 1 : s < t => servers[s].url < servers[t].url
      BY <1>1, <3>2
    <3>5. \A w \in Wants : w <= m => w \in 1 .. m
      BY <1>1 DEF Wants
    <3>6. \A w \in Wants : w <= m => \E k \in 0 .. m - 1 : servers[k].url = w
      BY <3>1, <3>2, <3>5
    <3> QED BY <3>3, <3>4, <3>6 DEF Kept
  <2>3. Cardinality(List!FirstWanted(g)) = g
    BY <1>1, <1>6, <2>1, <2>2
  <2>4. g + 1 \in 0 .. Len(tokens) /\ g + 1 \in Nat /\ Kept(servers, g + 1, g + 1, Wants)
    BY <1>1, <2>1, <2>2
  <2>5. \A k \in 0 .. (g + 1) - 1 : servers[k].url \in Wants
    BY <1>1, <1>4, <2>1, <2>4
  <2>6. /\ i' \in Int /\ i' <= g + 1 /\ g + 1 <= g_max_server + 1
        /\ i' - Cardinality(List!FirstWanted(g_max_server)) \in {-1, 0, 1}
        /\ ~ (Len(tokens) <= g_max_server)
    BY <1>1, <2>1, <2>3
  <2> QED BY <1>1, <2>4, <2>5, <2>6, ServedHolds DEF ListInv
<1> QED BY <1>7, <1>8, <1>9

LEMMA SortWhole == ASSUME ListInv, WholeInv, List!CompareAndSwap PROVE WholeInv'
<1>1. /\ listPc = "sort" /\ j + 1 < i /\ j \in Nat /\ i \in Int /\ i - 1 <= MaxRequested
      /\ UNCHANGED <<listPc, https, g_max_server, tokens, i, count>>
  BY ListSizes DEF List!Sizes, List!CompareAndSwap, List!config, ListInv, ListTypes
<1>2. UNCHANGED <<List!FirstWanted(g_max_server + 1), List!FirstWanted(g_max_server)>> /\ Uncut' = Uncut
  BY <1>1 DEF List!FirstWanted, List!Wanted, Uncut
<1> SUFFICES ASSUME Uncut, ServedInv PROVE ServedInv'
  BY <1>1, <1>2 DEF WholeInv, Answered
<1> DEFINE Old(k) == IF k = j THEN j + 1 ELSE IF k = j + 1 THEN j ELSE k
<1>3. j \in 0 .. i - 1 /\ j + 1 \in 0 .. i - 1 /\ \A k \in 0 .. i - 1 : k \in 0 .. MaxRequested
  BY <1>1, ListSizes DEF List!Sizes
<1>4. \/ servers' = servers
      \/ \A k \in 0 .. i - 1 : servers'[k] = servers[Old(k)]
  <2>1. CASE servers'[j] = servers[j + 1] /\ servers'[j + 1] = servers[j]
    BY <2>1, <1>1, <1>3, SwapSorts
  <2> QED BY <2>1, SwapSorts
<1>5. CASE servers' = servers
  BY <1>1, <1>2, <1>5 DEF ServedInv, List!Served
<1>6. CASE \A k \in 0 .. i - 1 : servers'[k] = servers[Old(k)]
  <2>1. \A k \in 0 .. i - 1 : Old(k) \in 0 .. i - 1 /\ Old(Old(k)) = k
    BY <1>1, <1>3
  <2>2. \A s, t \in 0 .. i - 1 : servers'[s].url = servers'[t].url => s = t
    <3> SUFFICES ASSUME NEW s \in 0 .. i - 1, NEW t \in 0 .. i - 1,
                        servers'[s].url = servers'[t].url
                 PROVE  s = t
      OBVIOUS
    <3>1. Old(s) = Old(t)
      BY SMTT(30), <1>6, <2>1 DEF ServedInv
    <3> QED BY <2>1, <3>1
  <2>3. List!Served' = List!Served
    <3>1. \A k \in 0 .. i - 1 : servers'[k].url = servers[Old(k)].url
      BY <1>6
    <3>2. \A k \in 0 .. i - 1 : servers'[Old(k)].url = servers[k].url
      BY <1>6, <2>1
    <3> HIDE DEF Old
    <3> QED BY <1>1, <2>1, <3>1, <3>2 DEF List!Served
  <2> QED BY <1>1, <1>2, <2>2, <2>3 DEF ServedInv
<1> QED BY <1>4, <1>5, <1>6

LEMMA OtherWhole ==
  ASSUME ListInv, WholeInv,
         \/ List!FormatUrl \/ List!EndFormat \/ List!MeasureLatency \/ List!EndLatency
         \/ List!NextPass \/ List!EndSort \/ UNCHANGED List!vars
  PROVE  WholeInv'
<1>1. CASE UNCHANGED List!vars
  BY <1>1 DEF List!vars, List!config, WholeInv, Uncut, Answered, ZeroBehind, LastDeleted, NoneDeleted,
              Reach, Wants, List!Wanted, ServedInv, List!FirstWanted, List!Served
<1>2. CASE \/ List!FormatUrl \/ List!EndFormat \/ List!MeasureLatency \/ List!EndLatency
           \/ List!NextPass \/ List!EndSort
  <2>1. /\ UNCHANGED <<tokens, https, g_max_server, i>>
        /\ listPc \in {"format"} \cup Answered /\ listPc' # "filter"
    BY <1>2 DEF List!FormatUrl, List!EndFormat, List!MeasureLatency, List!EndLatency,
                List!NextPass, List!EndSort, List!config, Answered
  <2>2. \A k \in 0 .. MaxRequested : servers'[k].url = servers[k].url
    <3>1. CASE UNCHANGED servers
      BY <3>1
    <3>2. CASE List!MeasureLatency
      BY <3>2 DEF List!MeasureLatency, ListInv, ListTypes
    <3> QED BY <1>2, <3>1, <3>2 DEF List!FormatUrl, List!EndFormat, List!EndLatency,
                                    List!NextPass, List!EndSort
  <2>3. \A k \in 0 .. i - 1 : servers'[k].url = servers[k].url
    BY <2>2, ListSizes DEF List!Sizes, ListInv, ListTypes
  <2>4. UNCHANGED <<List!FirstWanted(g_max_server + 1), List!FirstWanted(g_max_server)>> /\ Uncut' = Uncut
    BY <2>1 DEF List!FirstWanted, List!Wanted, Uncut
  <2>5. List!Served' = List!Served
    BY <2>1, <2>3 DEF List!Served
  <2>6. ServedInv => ServedInv'
    BY <2>1, <2>3, <2>4, <2>5 DEF ServedInv
  <2> QED BY <2>1, <2>4, <2>6 DEF WholeInv
<1> QED BY <1>1, <1>2

LEMMA InitWhole == ASSUME List!Init PROVE WholeInv
BY DEF List!Init, WholeInv, Answered

LEMMA WholeInductive == ASSUME ListInv, WholeInv, [List!Next]_List!vars PROVE WholeInv'
BY FetchWhole, ParseWhole, FilterWhole, EndFilterWhole, SortWhole, OtherWhole DEF List!Next, List!Ended

\* The name LibcurlServers has for it is that of the same operator.
LEMMA SameCardinality == ASSUME NEW S PROVE List!Cardinality(S) = Cardinality(S)
BY DEF List!Cardinality, Cardinality

LEMMA ServedIsWhole == ASSUME ListInv, WholeInv PROVE List!ListServed
<1>1. "cut" \notin List!Range(tokens) => Uncut
  BY DEF List!Range, Uncut, ListInv, ListTypes
<1>2. List!Parsed /\ Uncut => ServedInv
  BY DEF WholeInv, List!Parsed, Answered
<1>3. ASSUME ServedInv, List!Parsed, "cut" \notin List!Range(tokens) PROVE List!ListServed
  BY <1>3, SameCardinality DEF ServedInv, List!ListServed
<1> QED BY <1>1, <1>2, <1>3 DEF List!ListServed

-----------------------------------------------------------------------------
(* The program *)

\* Until the list is there the measurement has not begun: any settings and any
\* number of servers are ones that it may begin with.
WaitInv == stage # "measure" =>
  /\ testPc = "pick" /\ next = 1 /\ index = 0 /\ phase = "up" /\ failed = {}
  /\ thread = [t \in 1 .. MaxThreads |-> "none"] /\ mutex = -1
  /\ auto \in BOOLEAN /\ num_thread \in 0 .. MaxThreads /\ server_num \in Int

\* The options are read before the list is fetched, and the list is sorted before
\* anything is measured.
StageInv == /\ stage = "args" => listPc = "fetch"
            /\ stage = "measure" => listPc = "sorted" /\ server_num = i

MainInv == /\ ListInv /\ WholeInv
           /\ TestInv /\ UploadInv
           /\ WaitInv /\ StageInv

LEMMA TestSizes == Test!Sizes
BY PartsAssumption

LEMMA WaitGivesTest == ASSUME WaitInv, stage # "measure", UploadTypes PROVE TestInv /\ UploadInv
<1>1. TestTypes
  BY DEF WaitInv, TestTypes, States, Test!Threads, Test!None
<1>2. FrameInv /\ HolderInv
  BY DEF WaitInv, FrameInv, HolderInv, Test!Active, Test!None, Test!Threads
<1>3. OrderInv
  BY DEF WaitInv, OrderInv, Testing
<1>4. UploadInv
  BY DEF WaitInv, UploadInv, Mine
<1> QED BY <1>1, <1>2, <1>3, <1>4 DEF TestInv

LEMMA InitMain == ASSUME Init PROVE MainInv
<1>1. ListInv /\ WholeInv
  BY InitList, InitWhole DEF Init
<1>2. WaitInv /\ UploadTypes /\ StageInv /\ stage = "args"
  BY TestSizes DEF Init, Test!Init, Test!Zeros, List!Init, WaitInv, UploadTypes, StageInv,
                   Test!Threads, Test!None, Test!Sizes
<1> QED BY <1>1, <1>2, WaitGivesTest DEF MainInv

\* As long as the measurement has not begun after the step, either.
LEMMA StillWaiting ==
  ASSUME WaitInv', stage' # "measure", UploadTypes'
  PROVE  TestInv' /\ UploadInv'
<1>1. (WaitInv /\ stage # "measure" /\ UploadTypes => TestInv /\ UploadInv)'
  BY WaitGivesTest, PTL
<1> QED BY <1>1

LEMMA OptionKeeps ==
  ASSUME MainInv, Option \/ Usage \/ BadOption \/ EndOfOptions
  PROVE  MainInv'
<1>1. /\ stage = "args" /\ stage' \in {"args", "usage", "crashed", "list"}
      /\ listPc = "fetch" /\ UNCHANGED <<listVars, testVars>>
      /\ auto' \in BOOLEAN /\ num_thread' \in 0 .. MaxThreads
      /\ https' \in BOOLEAN /\ g_max_server' \in 0 .. MaxRequested
  BY DEF Option, Usage, BadOption, EndOfOptions, Manual, Protocol, ThreadNum, ServerNum,
         TestTime, TimeOut, IsInteger, settings, MainInv, WaitInv, StageInv, ListInv, ListTypes
<1>2. ListInv'
  <2>1. ListTypes' /\ UrlInv' /\ ReadInv'
    <3>1. ListTypes /\ UrlInv /\ ReadInv /\ UNCHANGED <<listPc, tokens, servers, i, count, j>>
      BY <1>1 DEF MainInv, ListInv, listVars
    <3>2. ListTypes'
      <4>1. i = 0 /\ count = 0 /\ j = 0
        BY <1>1, <3>1 DEF ListTypes, Early
      <4>2. i' \in -1 .. g_max_server' + 1 /\ g_max_server' \in 0 .. MaxRequested
        <5>1. PICK g \in Nat : g = g_max_server'
          BY <1>1, ListSizes DEF List!Sizes
        <5>2. 0 \in -1 .. g + 1
          OBVIOUS
        <5> QED BY <1>1, <3>1, <4>1, <5>1, <5>2
      <4>3. /\ listPc' = "fetch" /\ listPc' \in ListStates
            /\ tokens' \in Seq({"http", "https", "cut"})
            /\ servers' \in [0 .. MaxRequested -> [url : Nat, lat : Lats \cup {0}]]
        BY <1>1, <3>1 DEF ListTypes
      <4>4. i' = 0 /\ count' = 0 /\ j' = 0 /\ https' \in BOOLEAN
        BY <1>1, <3>1, <4>1
      <4>5. i' <= g_max_server'
        BY <4>2, <4>4, ListSizes DEF List!Sizes
      <4> QED BY <4>2, <4>3, <4>4, <4>5 DEF ListTypes
    <3> QED BY <1>1, <3>1, <3>2 DEF UrlInv, ReadInv
  <2> QED BY <1>1, <2>1 DEF ListInv, FilterInv, FormatInv, LatencyInv, SortInv, Answered, listVars
<1>3. WholeInv'
  BY <1>1 DEF WholeInv, Answered, listVars
<1>4. WaitInv' /\ UploadTypes' /\ StageInv'
  BY <1>1 DEF MainInv, WaitInv, UploadInv, UploadTypes, StageInv, testVars, listVars
<1> QED BY <1>1, <1>2, <1>3, <1>4, StillWaiting DEF MainInv

LEMMA GetServersKeeps == ASSUME MainInv, GetServers PROVE MainInv'
<1>1. ListInv' /\ WholeInv'
  BY ListInductive, WholeInductive DEF MainInv, GetServers
<1>2. WaitInv' /\ UploadTypes' /\ StageInv' /\ stage' = "list"
  BY DEF MainInv, WaitInv, UploadInv, UploadTypes, StageInv, GetServers, testVars
<1> QED BY <1>1, <1>2, StillWaiting DEF MainInv

\* The invariant of the measurement says nothing of server_num but that it is a
\* number, as long as nothing has been picked.
LEMMA MeasureKeeps == ASSUME MainInv, Measure PROVE MainInv'
<1>1. /\ stage = "list" /\ stage' = "measure" /\ server_num' = i /\ listPc = "sorted"
      /\ UNCHANGED <<settings, listVars>>
      /\ UNCHANGED <<testPc, index, phase, upFrom, downFrom, next, total, failed, thread,
                     speed, avg_speed, mutex, measured>>
  BY DEF Measure
<1>2. ListInv' /\ WholeInv'
  <2>1. UNCHANGED List!vars
    BY <1>1 DEF List!vars, List!config, settings, listVars
  <2> QED BY <2>1, ListInductive, WholeInductive DEF MainInv
<1>3. TestTypes'
  BY <1>1 DEF MainInv, ListInv, ListTypes, WaitInv, TestTypes, States, Test!Threads, Test!None, settings
<1>4. FrameInv' /\ HolderInv'
  BY <1>1 DEF MainInv, TestInv, FrameInv, HolderInv, Test!Active, settings
<1>5. OrderInv'
  BY <1>1 DEF MainInv, WaitInv, OrderInv, Testing, settings
<1>6. UploadInv' /\ WaitInv' /\ StageInv'
  BY <1>1 DEF MainInv, UploadInv, UploadTypes, Mine, WaitInv, StageInv, settings, listVars
<1> QED BY <1>2, <1>3, <1>4, <1>5, <1>6 DEF MainInv, TestInv

LEMMA RunTestKeeps == ASSUME MainInv, RunTest PROVE MainInv'
<1>1. TestInv' /\ UploadInv'
  BY TestSizes, TestInductive, UploadInductive DEF MainInv, RunTest
<1>2. UNCHANGED List!vars
  BY DEF RunTest, List!vars, List!config, listVars
<1>3. ListInv' /\ WholeInv'
  BY <1>2, ListInductive, WholeInductive DEF MainInv
<1>4. UNCHANGED server_num
  BY DEF RunTest, Test!Next, Test!Main, Test!Thread, Test!Ended, Test!vars, Test!options,
         Test!StartUpload, Test!NoServer, Test!Create, Test!AllCreated, Test!Join,
         Test!AllJoined, Test!StartDownload, Test!TestFails, Test!Finish,
         Test!Perform, Test!InitFails, Test!Lock, Test!Store, Test!Unlock
<1>5. WaitInv' /\ StageInv'
  BY <1>4 DEF MainInv, WaitInv, StageInv, RunTest, listVars
<1> QED BY <1>1, <1>3, <1>5 DEF MainInv

LEMMA StutterKeeps == ASSUME MainInv, UNCHANGED vars PROVE MainInv'
<1>1. UNCHANGED Test!vars /\ UNCHANGED List!vars
  BY DEF vars, settings, testVars, listVars, Test!vars, Test!options, Test!mainVars,
         Test!threadVars, List!vars, List!config
<1>2. TestInv' /\ UploadInv' /\ ListInv' /\ WholeInv'
  BY <1>1, TestSizes, TestInductive, UploadInductive, ListInductive, WholeInductive DEF MainInv
<1> QED BY <1>2 DEF MainInv, WaitInv, StageInv, vars, settings, listVars, testVars

LEMMA MainInductive == ASSUME MainInv, [Next]_vars PROVE MainInv'
BY OptionKeeps, GetServersKeeps, MeasureKeeps, RunTestKeeps, StutterKeeps DEF Next, Ended

LEMMA MainInvariance == Spec => []MainInv
<1>1. Init => MainInv
  BY InitMain
<1>2. MainInv /\ [Next]_vars => MainInv'
  BY MainInductive
<1> QED BY <1>1, <1>2, PTL DEF Spec

-----------------------------------------------------------------------------
(* Theorems *)

\* For every list of servers and all options: thread_data and the mutex, which
\* live on the stack of the function that measures, are used by no thread when it
\* returns.
THEOREM ThreadsStayInFrame == Spec => []FrameOutlivesThreads
<1>1. MainInv => FrameOutlivesThreads
  BY DEF MainInv, TestInv, FrameInv, Test!Active, Test!Threads, FrameOutlivesThreads,
         Test!FrameOutlivesThreads
<1> QED BY <1>1, MainInvariance, PTL

\* Two threads never store or add at the same time under the mutex.
THEOREM StoresExclude ==
  Spec => [](\A t, u \in Test!Threads : thread[t] = "store" /\ thread[u] = "store" => t = u)
<1>1. MainInv => (\A t, u \in Test!Threads : thread[t] = "store" /\ thread[u] = "store" => t = u)
  BY DEF MainInv, TestInv, HolderInv
<1> QED BY <1>1, MainInvariance, PTL

\* With any number of threads, what test_upload_speed returns is the sum of what
\* all of them have measured: none is left out, counted twice or read too early.
THEOREM UploadsAreExact == Spec => []UploadExact
<1>1. MainInv => UploadExact
  BY DEF MainInv, UploadInv, UploadExact, Test!UploadExact
<1> QED BY <1>1, MainInvariance, PTL

\* For every list of servers and all options: without -m, all servers before the
\* one that is reported have failed a test, and both tests were made with it.
THEOREM FirstWorkingIsTaken == Spec => []Test!AutoFirstWorking
<1>1. MainInv => Test!AutoFirstWorking
  BY DEF MainInv, TestInv, OrderInv, Test!AutoFirstWorking
<1> QED BY <1>1, MainInvariance, PTL

\* For every answer and every -s: unless the answer is cut, what is served is a
\* prefix of its servers of the wanted protocol, none twice, and at most one more
\* or less than -s allows.
THEOREM ServedIsPrefix == Spec => []ListServed
<1>1. MainInv => ListServed
  BY ServedIsWhole DEF MainInv, ListServed
<1> QED BY <1>1, MainInvariance, PTL

\* The list is sorted by latency when the sort ends, and without -m the server
\* that is reported is of the wanted protocol and has answered as fast as any
\* that was not reported as failed.
THEOREM FastestIsTaken == Spec => []FastestWorking
<1> SUFFICES ASSUME MainInv PROVE FastestWorking
  BY MainInvariance, PTL
<1>1. List!LatencySorted /\ Test!AutoFirstWorking
  BY SortedByLatency DEF MainInv, TestInv, OrderInv, Test!AutoFirstWorking
<1> SUFFICES ASSUME stage = "measure", testPc = "done", auto, index < server_num
             PROVE  /\ servers[index].url # 0
                    /\ tokens[servers[index].url] = IF https THEN "https" ELSE "http"
                    /\ \A s \in 0 .. server_num - 1 \ ({index} \cup failed) :
                         servers[s].lat # List!None =>
                           servers[index].lat # List!None /\ servers[index].lat <= servers[s].lat
  BY <1>1 DEF FastestWorking
<1>2. listPc = "sorted" /\ server_num = i /\ index \in 0 .. i - 1 /\ failed = 0 .. index - 1
  BY DEF MainInv, StageInv, TestInv, TestTypes, OrderInv, ListInv, ListTypes
<1>3. servers[index].url # 0 /\ List!IsHttps(servers[index]) = https
  BY <1>2 DEF MainInv, ListInv, FormatInv, FilterInv, Answered
<1>4. tokens[servers[index].url] = IF https THEN "https" ELSE "http"
  <2>1. index \in 0 .. MaxRequested
    BY <1>2, ListSizes DEF MainInv, ListInv, ListTypes, List!Sizes
  <2>2. tokens[servers[index].url] \in {"http", "https"}
    BY <1>3, <2>1 DEF MainInv, ListInv, ListTypes, UrlInv
  <2> QED BY <1>3, <2>2 DEF List!IsHttps, MainInv, ListInv, ListTypes
<1>5. ASSUME NEW s \in 0 .. server_num - 1 \ ({index} \cup failed), servers[s].lat # -1
      PROVE  servers[index].lat # -1 /\ servers[index].lat <= servers[s].lat
  <2>1. s \in 0 .. i - 1 /\ index <= s
    BY <1>2 DEF MainInv, ListInv, ListTypes
  <2> QED BY <1>2, <1>5, <2>1, SortedEntries DEF MainInv
<1> QED BY <1>3, <1>4, <1>5 DEF List!None
=============================================================================
