------------------------ MODULE StreamAndHeapProofs ------------------------
(***************************************************************************)
(* Proofs about two programs whose state is sequences: the streams of the  *)
(* concurrent TCP servers, and the list of blocks of my_malloc, my_free    *)
(* and my_realloc.  They share the lemmas about sequences at the head.     *)
(*                                                                         *)
(* The servers: for every number of clients, descriptors, messages and     *)
(* failing calls, every length of a message and every way the network may  *)
(* cut what is written.  Nothing keeps main from overwriting connfd before *)
(* a new thread has read it: what concerns a thread's client is proved of  *)
(* every state before the first time it does, the states that are OnTime.  *)
(*                                                                         *)
(* The allocator: for every size of a header, any objects and bounds, with *)
(* libc moving the break or not.                                           *)
(***************************************************************************)
EXTENDS EchoServer, Allocator, FiniteSetTheorems, SequenceTheorems,
        WellFoundedInduction, TLAPS

-----------------------------------------------------------------------------
(* Sequences of sequences, put together *)

LEMMA LeastNumber ==
  ASSUME NEW T \in SUBSET Nat, T # {}
  PROVE  \E x \in T : \A y \in T : x <= y
<1> DEFINE R == {ss \in Nat \X Nat : ss[1] < ss[2]}
<1>1. R = OpToRel(<, Nat)
  BY DEF OpToRel
<1>2. IsWellFoundedOn(R, Nat)
  BY <1>1, NatLessThanWellFounded
<1>3. PICK x \in T : \A y \in T : ~ (<<y, x>> \in R)
  <2> HIDE DEF R
  <2> QED BY <1>2, WFMin
<1>4. ASSUME NEW y \in T PROVE x <= y
  <2>1. y < x => <<y, x>> \in R
    OBVIOUS
  <2> QED BY <1>3, <2>1
<1> QED BY <1>4

\* Induction, for a set of numbers.
LEMMA Induction ==
  ASSUME NEW T \in SUBSET Nat, 0 \in T, \A n \in T : n + 1 \in T
  PROVE  T = Nat
<1>1. SUFFICES ASSUME Nat \ T # {} PROVE FALSE
  OBVIOUS
<1>2. PICK x \in Nat \ T : \A y \in Nat \ T : x <= y
  BY <1>1, LeastNumber
<1>3. x - 1 \in T /\ x = (x - 1) + 1
  BY <1>2
<1> QED BY <1>2, <1>3

\* g[k] is the first k of n sequences, put together.
Joins(g, s, n) == g = [i \in 1 .. n |-> IF i = 1 THEN s[i] ELSE g[i - 1] \o s[i]]

LEMMA JoinsStep ==
  ASSUME NEW g, NEW s, NEW n \in Nat, Joins(g, s, n), NEW k \in Nat, k < n
  PROVE  g[k + 1] = IF k = 0 THEN s[1] ELSE g[k] \o s[k + 1]
<1>1. \A i \in 1 .. n : g[i] = IF i = 1 THEN s[i] ELSE g[i - 1] \o s[i]
  BY Zenon DEF Joins
<1>2. k + 1 \in 1 .. n /\ k + 1 - 1 = k /\ (k + 1 = 1 <=> k = 0)
  OBVIOUS
<1>3. ASSUME NEW m \in 1 .. n, NEW l, m - 1 = l
      PROVE  g[m] = IF m = 1 THEN s[m] ELSE g[l] \o s[m]
  BY Zenon, <1>1, <1>3
<1> QED BY <1>2, <1>3

LEMMA JoinsExist ==
  ASSUME NEW n \in Nat, NEW S, NEW s \in [1 .. n -> S], \A x, y \in S : x \o y \in S
  PROVE  \E g \in [1 .. n -> S] : Joins(g, s, n)
<1> DEFINE Have(k) == \E g \in [1 .. k -> S] : Joins(g, s, k)
           T == {k \in Nat : k <= n => Have(k)}
<1>1. 0 \in T
  <2> DEFINE g == [i \in 1 .. 0 |-> s[i]]
  <2>1. g \in [1 .. 0 -> S] /\ Joins(g, s, 0)
    BY DEF Joins
  <2> QED BY <2>1
<1>2. ASSUME NEW k \in T, k + 1 <= n PROVE Have(k + 1)
  <2>0. k \in Nat /\ k <= n
    BY <1>2
  <2>1. PICK g \in [1 .. k -> S] : Joins(g, s, k)
    BY <1>2, <2>0
  <2> DEFINE e == IF k = 0 THEN s[1] ELSE g[k] \o s[k + 1]
             r == [i \in 1 .. k + 1 |-> IF i = k + 1 THEN e ELSE g[i]]
  <2>2. e \in S
    <3>1. k # 0 => g[k] \in S /\ s[k + 1] \in S
      BY <1>2, <2>0, <2>1
    <3>2. s[1] \in S
      BY <1>2, <2>0
    <3> QED BY <3>1, <3>2
  <2> HIDE DEF e
  <2>3. /\ \A i \in 1 .. k : r[i] = g[i]
        /\ r[k + 1] = e
        /\ r \in [1 .. k + 1 -> S]
    BY <2>0, <2>1, <2>2
  <2>4. ASSUME NEW i \in 1 .. k + 1
        PROVE  r[i] = IF i = 1 THEN s[i] ELSE r[i - 1] \o s[i]
    <3> HIDE DEF r
    <3>1. CASE i = k + 1
      <4>1. i # 1 => i - 1 \in 1 .. k /\ i - 1 = k
        BY <2>0, <3>1
      <4>2. i = 1 <=> k = 0
        BY <2>0, <3>1
      <4> QED BY <2>3, <3>1, <4>1, <4>2 DEF e
    <3>2. CASE i \in 1 .. k
      <4>1. g[i] = IF i = 1 THEN s[i] ELSE g[i - 1] \o s[i]
        BY <2>1, <3>2 DEF Joins
      <4>2. i # 1 => i - 1 \in 1 .. k
        BY <2>0, <3>2
      <4> QED BY <2>3, <3>2, <4>1, <4>2
    <3> QED BY <2>0, <3>1, <3>2
  <2>5. Joins(r, s, k + 1)
    <3>1. r = [i \in 1 .. k + 1 |-> r[i]]
      BY <2>3
    <3> HIDE DEF r
    <3> QED BY <2>4, <3>1 DEF Joins
  <2> HIDE DEF r
  <2> QED BY <2>3, <2>5
<1> HIDE DEF Have
<1>3. T = Nat
  <2>1. \A k \in T : k + 1 \in T
    BY <1>2
  <2> HIDE DEF T
  <2>2. T \in SUBSET Nat
    BY DEF T
  <2> QED BY <1>1, <2>1, <2>2, Induction
<1>4. Have(n)
  BY <1>3
<1> QED BY <1>4 DEF Have

\* Two sequences that begin alike, up to m.
Alike(r, s, m) == \A i \in 1 .. m : r[i] = s[i]

\* What begins alike is put together alike, up to there.
LEMMA JoinsAgree ==
  ASSUME NEW l \in Nat, NEW n \in Nat, NEW g, NEW h, NEW r, NEW s,
         Joins(g, r, l), Joins(h, s, n),
         NEW m \in 1 .. l, m \in 1 .. n, Alike(r, s, m)
  PROVE  g[m] = h[m]
<1> DEFINE T == {k \in Nat : k \in 1 .. m => g[k] = h[k]}
<1>1. 0 \in T
  OBVIOUS
<1>2. ASSUME NEW k \in T, k + 1 \in 1 .. m PROVE g[k + 1] = h[k + 1]
  <2>1. k \in Nat /\ k < l /\ k < n /\ (k = 0 \/ g[k] = h[k])
    BY <1>2
  <2>2. r[k + 1] = s[k + 1] /\ r[1] = s[1]
    BY <1>2, <2>1 DEF Alike
  <2>3. /\ g[k + 1] = IF k = 0 THEN r[1] ELSE g[k] \o r[k + 1]
        /\ h[k + 1] = IF k = 0 THEN s[1] ELSE h[k] \o s[k + 1]
    <3> HIDE DEF T
    <3> QED BY <2>1, JoinsStep
  <2> HIDE DEF T
  <2> QED BY <2>1, <2>2, <2>3
<1>3. T = Nat
  <2>1. \A k \in T : k + 1 \in T
    BY <1>2
  <2> HIDE DEF T
  <2>2. T \in SUBSET Nat
    BY DEF T
  <2> QED BY <1>1, <2>1, <2>2, Induction
<1> QED BY <1>3

LEMMA FlatIs ==
  ASSUME NEW B, NEW s \in Seq(Seq(B)), s # << >>
  PROVE  \E g \in [1 .. Len(s) -> Seq(B)] :
           Joins(g, s, Len(s)) /\ FlattenSeq(s) = g[Len(s)]
<1>1. Len(s) \in Nat \ {0} /\ s \in [1 .. Len(s) -> Seq(B)]
  BY EmptySeq, LenProperties
<1>2. \A x, y \in Seq(B) : x \o y \in Seq(B)
  BY ConcatProperties
<1>3. PICK g \in [1 .. Len(s) -> Seq(B)] : Joins(g, s, Len(s))
  BY <1>1, <1>2, JoinsExist
<1>4. FlattenSeq(s) = (CHOOSE h : Joins(h, s, Len(s)))[Len(s)]
  BY <1>1 DEF FlattenSeq, Joins
<1>5. Joins(CHOOSE h : Joins(h, s, Len(s)), s, Len(s))
  BY Zenon, <1>3
<1> DEFINE f == CHOOSE h : Joins(h, s, Len(s))
           n == Len(s)
<1> HIDE DEF f
<1>6. f[n] = g[n]
  <2>1. Joins(f, s, n) /\ Joins(g, s, n) /\ n \in Nat /\ n \in 1 .. n
    BY <1>1, <1>3, <1>5 DEF f
  <2> HIDE DEF n
  <2>2. Alike(s, s, n)
    BY DEF Alike
  <2> QED BY <2>1, <2>2, JoinsAgree
<1> QED BY <1>1, <1>3, <1>4, <1>6 DEF f

\* FlattenSeq of a sequence that grows by one.
LEMMA FlatAppend ==
  ASSUME NEW B, NEW s \in Seq(Seq(B)), NEW e \in Seq(B)
  PROVE  /\ FlattenSeq(s) \in Seq(B)
         /\ FlattenSeq(Append(s, e)) = FlattenSeq(s) \o e
<1> DEFINE a == Append(s, e)
           n == Len(s)
<1>1. /\ a \in Seq(Seq(B)) /\ a # << >> /\ Len(a) = n + 1
      /\ \A i \in 1 .. n : a[i] = s[i]
      /\ a[n + 1] = e /\ n \in Nat
  BY AppendProperties, LenProperties
<1> HIDE DEF a
<1>2. PICK h : Joins(h, a, n + 1) /\ FlattenSeq(a) = h[n + 1]
  BY <1>1, FlatIs
<1>3. h[n + 1] = IF n = 0 THEN a[1] ELSE h[n] \o e
  <2>1. Joins(h, a, n + 1) /\ n \in Nat /\ n + 1 \in Nat /\ n < n + 1
    BY <1>1, <1>2
  <2> HIDE DEF n
  <2>2. h[n + 1] = IF n = 0 THEN a[1] ELSE h[n] \o a[n + 1]
    BY <2>1, JoinsStep
  <2> QED BY <1>1, <2>2
<1>4. CASE s = << >>
  <2>1. n = 0 /\ FlattenSeq(s) = << >>
    BY <1>4, EmptySeq DEF FlattenSeq
  <2>2. h[n + 1] = e
    BY <1>1, <1>3, <2>1
  <2> QED BY <1>2, <2>1, <2>2, ConcatEmptySeq, EmptySeq DEF a
<1>5. CASE s # << >>
  <2>1. n # 0
    BY <1>5, EmptySeq
  <2>2. PICK g \in [1 .. n -> Seq(B)] : Joins(g, s, n) /\ FlattenSeq(s) = g[n]
    BY <1>5, FlatIs
  <2>3. g[n] = h[n] /\ g[n] \in Seq(B)
    <3>1. /\ n \in Nat /\ n + 1 \in Nat /\ n \in 1 .. n /\ n \in 1 .. n + 1
          /\ Alike(s, a, n)
      BY <1>1, <2>1 DEF Alike
    <3> HIDE DEF n
    <3>2. g[n] = h[n]
      <4>1. Joins(g, s, n) /\ Joins(h, a, n + 1)
        BY <1>2, <2>2
      <4> QED BY <3>1, <4>1, JoinsAgree
    <3> QED BY <2>1, <2>2, <3>1, <3>2
  <2> HIDE DEF n
  <2> QED BY <1>2, <1>3, <2>1, <2>2, <2>3 DEF a
<1> QED BY <1>4, <1>5

\* All but one of the sequences are empty.
LEMMA FlatOne ==
  ASSUME NEW B, NEW n \in Nat, NEW s \in [1 .. n -> Seq(B)], NEW j \in 1 .. n,
         \A i \in 1 .. n : i # j => s[i] = << >>
  PROVE  FlattenSeq(s) = s[j]
<1>1. s \in Seq(Seq(B)) /\ Len(s) = n /\ s # << >>
  <2>1. s \in Seq(Seq(B))
    BY SeqDef
  <2>2. Len(s) = n
    BY <2>1, LenProperties
  <2> QED BY <2>1, <2>2, EmptySeq
<1>2. PICK g : Joins(g, s, n) /\ FlattenSeq(s) = g[n]
  BY <1>1, FlatIs
<1>3. /\ << >> \o << >> = << >> /\ << >> \o s[j] = s[j] /\ s[j] \o << >> = s[j]
  BY ConcatEmptySeq, EmptySeq
<1>4. \A i \in 1 .. n : s[i] = IF i = j THEN s[j] ELSE << >>
  OBVIOUS
<1> DEFINE T == {k \in Nat : k \in 1 .. n => g[k] = IF k < j THEN << >> ELSE s[j]}
<1>5. 0 \in T
  OBVIOUS
<1>6. ASSUME NEW k \in T, k + 1 \in 1 .. n
      PROVE  g[k + 1] = IF k + 1 < j THEN << >> ELSE s[j]
  <2>1. k \in Nat /\ k < n /\ (k = 0 \/ g[k] = IF k < j THEN << >> ELSE s[j])
    BY <1>6
  <2> HIDE DEF T
  <2>2. g[k + 1] = IF k = 0 THEN s[1] ELSE g[k] \o s[k + 1]
    <3>1. Joins(g, s, n) /\ k \in Nat /\ k < n
      BY <1>2, <2>1
    <3> QED BY SMTT(30), <3>1, JoinsStep
  <2>3. s[k + 1] = (IF k + 1 = j THEN s[j] ELSE << >>) /\ s[1] = IF 1 = j THEN s[j] ELSE << >>
    BY <1>4, <1>6, <2>1
  <2>4. CASE k = 0
    BY <2>2, <2>3, <2>4
  <2>5. CASE k # 0 /\ k + 1 < j
    BY <1>3, <2>1, <2>2, <2>3, <2>5
  <2>6. CASE k # 0 /\ k + 1 = j
    <3>1. g[k] = << >> /\ s[k + 1] = s[j] /\ ~ (k + 1 < j)
      BY <2>1, <2>3, <2>6
    <3> QED BY <1>3, <2>2, <2>6, <3>1
  <2>7. CASE k # 0 /\ k + 1 > j
    <3>1. g[k] = s[j] /\ s[k + 1] = << >> /\ ~ (k + 1 < j)
      BY <2>1, <2>3, <2>7
    <3> QED BY <1>3, <2>2, <2>7, <3>1
  <2> QED BY <2>1, <2>4, <2>5, <2>6, <2>7
<1>7. T = Nat
  <2>1. \A k \in T : k + 1 \in T
    BY <1>6
  <2> HIDE DEF T
  <2>2. T \in SUBSET Nat
    BY DEF T
  <2> QED BY <1>5, <2>1, <2>2, Induction
<1>8. g[n] = s[j]
  BY SMTT(60), <1>7
<1> QED BY <1>2, <1>8

-----------------------------------------------------------------------------
(* Types *)

Bytes == Clients \X Nat

TypeInv ==
  /\ presentation \in BOOLEAN /\ split \in BOOLEAN
  /\ server \in {"accept", "create", "dead"}
  /\ connfd \in Fds \cup {None} /\ who \in Clients \cup {None}
  /\ made \in Nat /\ errors \in 0 .. MaxErrors
  /\ backlog \in Seq(Clients)
  /\ table \in [Fds -> Clients \cup {None}]
  /\ pc \in [Threads -> {"none", "begin", "read", "write", "close", "done"}]
  /\ fd \in [Threads -> Fds \cup {None}]
  /\ buf \in [Threads -> Seq(Bytes)]
  /\ mine \in [Threads -> Clients \cup {None}]
  /\ cl \in [Clients -> {"new", "type", "wait", "left"}]
  /\ up \in [Clients -> Seq(Bytes)] /\ down \in [Clients -> Seq(Bytes)]
  /\ closed \in [Clients -> BOOLEAN] /\ rst \in [Clients -> BOOLEAN]
  /\ asked \in [Clients -> Seq(Seq(Bytes))]
  /\ replies \in [Clients -> Seq(Seq(Bytes))]
  /\ overtaken \in BOOLEAN

LEMMA Numbers == /\ Threads \subseteq Nat /\ Fds \subseteq Nat
                 /\ Cardinality(Clients) \in Nat
                 /\ None \notin Fds /\ None \notin Clients
<1>1. Cardinality(Clients) \in Nat /\ Cardinality(Fds) \in Nat
  BY BoundsAssumption, FS_CardinalityType
<1> QED BY <1>1, BoundsAssumption, NoneAssumption DEF Threads

\* A read takes the beginning of what is under way; with nothing split, all.
LEMMA ChunkOf ==
  ASSUME NEW b \in Seq(Bytes), NEW chunk \in Chunks(b)
  PROVE  /\ chunk \in Seq(Bytes) /\ Rest(b, chunk) \in Seq(Bytes)
         /\ b = chunk \o Rest(b, chunk)
         /\ ~ split => chunk = b /\ Rest(b, chunk) = << >> /\ b # << >>
<1>1. Len(b) \in Nat /\ \A i \in 1 .. Len(b) : b[i] \in Bytes
  BY LenProperties, ElementOfSeq
<1>2. PICK n \in 1 .. Len(b) : chunk = SubSeq(b, 1, n) /\ (~ split => n = Len(b))
  BY <1>1 DEF Chunks
<1>3. chunk \in Seq(Bytes) /\ Len(chunk) = n
  BY <1>1, <1>2, SubSeqProperties
<1>4. Rest(b, chunk) = SubSeq(b, n + 1, Len(b))
  BY <1>3 DEF Rest
<1>5. SubSeq(b, n + 1, Len(b)) \in Seq(Bytes)
  BY <1>1, <1>2, SubSeqProperties
<1>6. SubSeq(b, 1, Len(b)) = b
  BY SubSeqFull
<1>7. SubSeq(b, 1, n) \o SubSeq(b, n + 1, Len(b)) = SubSeq(b, 1, Len(b))
  BY <1>1, <1>2, ConcatAdjacentSubSeq
<1>8. ASSUME ~ split PROVE chunk = b /\ Rest(b, chunk) = << >> /\ b # << >>
  <2>1. n = Len(b) /\ Len(b) # 0
    BY <1>1, <1>2, <1>8
  <2>2. SubSeq(b, n + 1, Len(b)) = << >>
    BY <1>1, <2>1, SubSeqEmpty
  <2> QED BY <1>2, <1>4, <1>6, <2>1, <2>2, EmptySeq
<1> QED BY ZenonT(30), <1>2, <1>3, <1>4, <1>5, <1>6, <1>7, <1>8

LEMMA MessageType ==
  ASSUME TypeInv, NEW c \in Clients, NEW n \in Nat
  PROVE  Message(c, n) \in Seq(Bytes) /\ (n # 0 => Message(c, n) # << >>)
<1>1. Len(FlattenSeq(asked[c])) \in Nat
  <2>1. asked[c] \in Seq(Seq(Bytes)) /\ << >> \in Seq(Bytes)
    BY EmptySeq DEF TypeInv
  <2>2. FlattenSeq(asked[c]) \in Seq(Bytes)
    BY <2>1, FlatAppend
  <2> QED BY <2>2, LenProperties
<1>2. Message(c, n) \in [1 .. n -> Bytes]
  BY <1>1 DEF Message, Bytes
<1>3. Message(c, n) \in Seq(Bytes)
  BY <1>2, SeqDef
<1>4. Len(Message(c, n)) = n
  BY <1>2, <1>3, LenProperties
<1> QED BY <1>3, <1>4, EmptySeq

LEMMA AnswerType ==
  ASSUME NEW b \in Seq(Bytes) PROVE Answer(b) \in Seq(Bytes)
<1>1. Len(b) \in Nat /\ \A i \in 1 .. Len(b) : b[i] \in Bytes
  BY LenProperties, ElementOfSeq
<1>2. Reverse(b) \in [1 .. Len(b) -> Bytes]
  <2>1. \A i \in 1 .. Len(b) : Len(b) - i + 1 \in 1 .. Len(b)
    BY <1>1
  <2> QED BY <1>1, <2>1 DEF Reverse
<1>3. Reverse(b) \in Seq(Bytes)
  BY <1>1, <1>2, SeqDef
<1> QED BY <1>3 DEF Answer

LEMMA LowestFree ==
  ASSUME Free # {}
  PROVE  (CHOOSE f \in Free : \A g \in Free : f <= g) \in Free
<1>1. \E f \in Free : \A g \in Free : f <= g
  BY Numbers, LeastNumber DEF Free
<1> QED BY Zenon, <1>1

LEMMA TypeInit == Init => TypeInv
<1> SUFFICES ASSUME Init PROVE TypeInv
  OBVIOUS
<1>1. PICK s \in Setups : presentation = s[1] /\ split = s[2]
  BY DEF Init
<1>2. presentation \in BOOLEAN /\ split \in BOOLEAN
  BY <1>1, SetupsAssumption
<1>3. << >> \in Seq(Bytes) /\ << >> \in Seq(Seq(Bytes)) /\ << >> \in Seq(Clients)
  BY EmptySeq
<1>4. overtaken \in BOOLEAN
  BY DEF Init
<1> QED BY <1>2, <1>3, <1>4, BoundsAssumption DEF Init, TypeInv

LEMMA TypeMain == ASSUME TypeInv, Main PROVE TypeInv'
<1> USE DEF TypeInv, setup, threadVars, clientVars, netVars
<1>0. presentation' = presentation /\ split' = split /\ overtaken' \in BOOLEAN
  BY DEF Main, Overtakes
<1>1. CASE Accept
  <2>1. connfd' \in Fds
    BY <1>1, LowestFree DEF Accept, Free
  <2>2. who' \in Clients /\ backlog' \in Seq(Clients)
    BY <1>1, HeadTailProperties DEF Accept
  <2> QED BY <1>0, <1>1, <2>1, <2>2 DEF Accept
<1>2. CASE AcceptFails
  BY <1>0, <1>2, BoundsAssumption DEF AcceptFails, Dies
<1>3. CASE CreateThread
  <2>1. pc' \in [Threads -> {"none", "begin", "read", "write", "close", "done"}]
    BY <1>3 DEF CreateThread
  <2>2. mine' \in [Threads -> Clients \cup {None}]
    BY <1>3 DEF CreateThread
  <2>3. made' \in Nat /\ server' = "accept"
    BY <1>3 DEF CreateThread
  <2> QED BY <1>0, <1>3, <2>1, <2>2, <2>3 DEF CreateThread
<1>4. CASE CreateFails
  <2>1. table' \in [Fds -> Clients \cup {None}] /\ closed' \in [Clients -> BOOLEAN]
    <3>1. CASE UNCHANGED <<table, closed>>
      BY <3>1
    <3>2. CASE ~ UNCHANGED <<table, closed>>
      <4>1. /\ table' = [table EXCEPT ![connfd] = None]
            /\ closed' = [closed EXCEPT ![table[connfd]] = TRUE]
        BY <1>4, <3>2 DEF CreateFails, CloseFd
      <4> QED BY <4>1
    <3> QED BY <3>1, <3>2
  <2>2. /\ server' \in {"accept", "dead"} /\ errors' \in 0 .. MaxErrors
        /\ UNCHANGED <<connfd, who, made, backlog>>
    BY <1>4, BoundsAssumption DEF CreateFails, Dies
  <2> QED BY <1>0, <1>4, <2>1, <2>2 DEF CreateFails
<1> QED BY <1>1, <1>2, <1>3, <1>4 DEF Main

LEMMA TypeThread ==
  ASSUME TypeInv, NEW t \in Threads, Thread(t) PROVE TypeInv'
<1> USE DEF TypeInv, setup, mainVars, clientVars, netVars, Goto
<1>0. presentation' = presentation /\ split' = split /\ overtaken' = overtaken
  BY DEF Thread
<1>1. CASE Begin(t)
  BY <1>0, <1>1 DEF Begin
<1>2. CASE Read(t)
  <2>1. PICK chunk \in Chunks(up[Peer(t)]) :
          /\ buf' = [buf EXCEPT ![t] = chunk]
          /\ up' = [up EXCEPT ![Peer(t)] = Rest(@, chunk)]
    BY <1>2 DEF Read
  <2>2. Peer(t) \in Clients
    BY <1>2 DEF Read, Peer
  <2>3. chunk \in Seq(Bytes) /\ Rest(up[Peer(t)], chunk) \in Seq(Bytes)
    BY <2>2, ChunkOf
  <2>4. buf' \in [Threads -> Seq(Bytes)] /\ up' \in [Clients -> Seq(Bytes)]
    BY <2>1, <2>2, <2>3
  <2> QED BY <1>0, <1>2, <2>4 DEF Read
<1>3. CASE ReadEnds(t)
  BY <1>0, <1>3 DEF ReadEnds
<1>4. CASE Write(t)
  <2>1. buf' \in [Threads -> Seq(Bytes)]
    BY <1>4, EmptySeq DEF Write
  <2>2. down' \in [Clients -> Seq(Bytes)] /\ rst' \in [Clients -> BOOLEAN]
    <3>1. CASE Peer(t) = None
      BY <1>4, <3>1 DEF Write
    <3>2. CASE Peer(t) # None
      <4>1. Peer(t) \in Clients
        BY <3>2 DEF Peer
      <4>2. down[Peer(t)] \o Answer(buf[t]) \in Seq(Bytes)
        BY <4>1, AnswerType, ConcatProperties
      <4> QED BY <1>4, <3>2, <4>1, <4>2 DEF Write, Send
    <3> QED BY <3>1, <3>2
  <2> QED BY <1>0, <1>4, <2>1, <2>2 DEF Write
<1>5. CASE WriteKills(t)
  BY <1>0, <1>5 DEF WriteKills, Dies, threadVars
<1>6. CASE Close(t)
  BY <1>0, <1>6 DEF Close, CloseFd
<1> QED BY <1>1, <1>2, <1>3, <1>4, <1>5, <1>6 DEF Thread

LEMMA TypeClient ==
  ASSUME TypeInv, NEW c \in Clients, Client(c) PROVE TypeInv'
<1> USE DEF TypeInv, setup, mainVars, threadVars, netVars
<1>0. presentation' = presentation /\ split' = split /\ overtaken' = overtaken
  BY DEF Client
<1>1. CASE Connect(c)
  <2>1. backlog' \in Seq(Clients)
    BY <1>1, AppendProperties DEF Connect
  <2> QED BY <1>0, <1>1, <2>1 DEF Connect
<1>2. CASE ConnectFails(c)
  BY <1>0, <1>2 DEF ConnectFails
<1>3. CASE WriteMessage(c)
  <2>1. PICK n \in Lengths :
          /\ asked' = [asked EXCEPT ![c] = Append(@, Message(c, n))]
          /\ up' = IF ServerGone(c) THEN up ELSE [up EXCEPT ![c] = @ \o Message(c, n)]
    BY <1>3 DEF WriteMessage
  <2>2. Message(c, n) \in Seq(Bytes)
    BY BoundsAssumption, MessageType
  <2>3. Append(asked[c], Message(c, n)) \in Seq(Seq(Bytes))
    BY <2>2, AppendProperties
  <2>4. up[c] \o Message(c, n) \in Seq(Bytes)
    BY <2>2, ConcatProperties
  <2>5. asked' \in [Clients -> Seq(Seq(Bytes))] /\ up' \in [Clients -> Seq(Bytes)]
    BY <2>1, <2>3, <2>4
  <2> QED BY <1>0, <1>3, <2>5 DEF WriteMessage
<1>4. CASE Receive(c)
  <2>1. replies' \in [Clients -> Seq(Seq(Bytes))] /\ down' \in [Clients -> Seq(Bytes)]
    <3>1. ASSUME NEW chunk \in Chunks(down[c]),
                 replies' = [replies EXCEPT ![c] = Append(@, chunk)],
                 down' = [down EXCEPT ![c] = Rest(@, chunk)]
          PROVE  <2>1
      <4>1. chunk \in Seq(Bytes) /\ Rest(down[c], chunk) \in Seq(Bytes)
        BY ChunkOf
      <4>2. Append(replies[c], chunk) \in Seq(Seq(Bytes))
        BY <4>1, AppendProperties
      <4> QED BY <3>1, <4>1, <4>2
    <3> QED BY <1>4, <3>1 DEF Receive
  <2>2. cl' \in [Clients -> {"new", "type", "wait", "left"}]
    BY <1>4 DEF Receive
  <2> QED BY <1>0, <1>4, <2>1, <2>2 DEF Receive
<1>5. CASE Leave(c)
  BY <1>0, <1>5 DEF Leave
<1> QED BY <1>1, <1>2, <1>3, <1>4, <1>5 DEF Client

LEMMA TypeStutter == ASSUME TypeInv, UNCHANGED vars PROVE TypeInv'
BY DEF TypeInv, vars, mainVars, threadVars, clientVars, netVars, setup

LEMMA TypeStep == ASSUME TypeInv, [Next]_vars PROVE TypeInv'
BY TypeMain, TypeThread, TypeClient, TypeStutter DEF Next, Idle

-----------------------------------------------------------------------------
(* main, the threads and their clients *)

\* Every thread that is made or about to be made is owed to a client that has
\* connected or to a call that has failed, so there is a thread left for main.
Connected == {c \in Clients : cl[c] # "new"}
Owed == made + Len(backlog) + (IF server = "create" THEN 1 ELSE 0)
CountInv ==
  /\ Owed <= Cardinality(Connected) + errors
  /\ \A t \in Threads : t > made => pc[t] = "none"

\* main has not met a client that is new or in the backlog.
Queued(c) == \E k \in 1 .. Len(backlog) : backlog[k] = c
FreshInv ==
  /\ \A c \in Clients : cl[c] = "new" \/ Queued(c) =>
       /\ who # c
       /\ \A f \in Fds : table[f] # c
       /\ \A t \in Threads : mine[t] # c
  /\ \A i, k \in 1 .. Len(backlog) : backlog[i] = backlog[k] => i = k
  /\ \A c \in Clients : Queued(c) => cl[c] # "new"

\* f is the descriptor of client c, or no descriptor is there and no client.
Conn(f, c) == \/ f = None /\ c = None
              \/ f \in Fds /\ c \in Clients /\ table[f] = c

\* What main holds is not yet a thread's; what one thread holds is no other's.
MainInv ==
  /\ server = "create" => /\ Conn(connfd, who)
                          /\ \A t \in Threads : pc[t] # "begin"
                          /\ who # None => \A t \in Threads : mine[t] # who
  /\ \A t \in Threads : pc[t] = "begin" => Conn(connfd, who) /\ mine[t] = who
  /\ \A t, u \in Threads : pc[t] = "begin" /\ pc[u] = "begin" => t = u

OwnerInv ==
  /\ \A f, g \in Fds : table[f] # None /\ table[f] = table[g] => f = g
  /\ \A t, u \in Threads : mine[t] # None /\ mine[t] = mine[u] => t = u
  /\ \A t \in Threads : pc[t] \in {"read", "write", "close"} => Conn(fd[t], mine[t])

BufInv == \A t \in Threads : IF pc[t] = "write" THEN mine[t] # None ELSE buf[t] = << >>

ServerInv == CountInv /\ FreshInv /\ MainInv /\ OwnerInv /\ BufInv

LEMMA ServerInit == Init => ServerInv
<1> SUFFICES ASSUME Init PROVE ServerInv
  OBVIOUS
<1>0. backlog = << >> /\ Len(backlog) = 0
  BY EmptySeq DEF Init
<1>1. CountInv
  <2>1. Connected = {}
    BY DEF Init, Connected
  <2>2. Owed = 0 /\ Cardinality(Connected) = 0
    BY <1>0, <2>1, FS_EmptySet DEF Init, Owed
  <2> QED BY <2>2 DEF Init, CountInv
<1>2. FreshInv
  BY <1>0, Numbers DEF Init, FreshInv, Queued
<1>3. MainInv /\ OwnerInv /\ BufInv
  BY DEF Init, MainInv, OwnerInv, BufInv
<1> QED BY <1>1, <1>2, <1>3 DEF ServerInv

\* There is a thread left for the client that main has accepted.
LEMMA ThreadLeft ==
  ASSUME TypeInv, CountInv
  PROVE  /\ Owed \in Nat /\ Cardinality(Connected) \in Nat
         /\ server = "create" => made + 1 \in Threads /\ pc[made + 1] = "none"
<1>1. Cardinality(Connected) \in Nat /\ Cardinality(Connected) <= Cardinality(Clients)
  <2>1. Connected \in SUBSET Clients
    BY DEF Connected
  <2> QED BY <2>1, BoundsAssumption, FS_Subset, FS_CardinalityType
<1>2. Len(backlog) \in Nat /\ made \in Nat /\ errors \in Nat /\ errors <= MaxErrors
  BY BoundsAssumption, LenProperties DEF TypeInv
<1>3. Owed \in Nat /\ Owed <= Cardinality(Clients) + MaxErrors
  BY <1>1, <1>2, Numbers, BoundsAssumption DEF Owed, CountInv
<1>4. server = "create" => made + 1 \in Threads
  BY <1>2, <1>3, Numbers, BoundsAssumption DEF Owed, Threads
<1> QED BY <1>1, <1>2, <1>3, <1>4 DEF CountInv

\* A thread's descriptor is its client's, as long as the thread uses it.
LEMMA PeerOf ==
  ASSUME OwnerInv, NEW t \in Threads, pc[t] \in {"read", "write", "close"}
  PROVE  Peer(t) = mine[t]
BY Numbers DEF OwnerInv, Conn, Peer

LEMMA AcceptKeeps ==
  ASSUME TypeInv, ServerInv, Accept, \A t \in Threads : pc[t] # "begin"
  PROVE  ServerInv'
<1> USE DEF ServerInv
<1>1. PICK f \in Fds : connfd' = f /\ table[f] = None /\ table' = [table EXCEPT ![f] = who']
  BY LowestFree DEF Accept, Free
<1>2. PICK c \in Clients : c = Head(backlog) /\ who' = c
  BY HeadTailProperties DEF Accept, TypeInv
<1>3. /\ Len(backlog) \in Nat \ {0} /\ Len(backlog') = Len(backlog) - 1
      /\ \A i \in 1 .. Len(backlog') : backlog'[i] = backlog[i + 1]
      /\ backlog[1] = c
  BY <1>2, HeadTailProperties, EmptySeq DEF Accept, TypeInv
<1>4. /\ server = "accept" /\ server' = "create"
      /\ UNCHANGED <<made, errors, pc, fd, buf, mine, cl>>
  BY DEF Accept, threadVars, clientVars
<1>5. /\ table \in [Fds -> Clients \cup {None}] /\ made \in Nat
      /\ table' = [g \in Fds |-> IF g = f THEN c ELSE table[g]]
  BY <1>1, <1>2 DEF TypeInv
<1>6. /\ \A g \in Fds : table[g] # c
      /\ \A t \in Threads : mine[t] # c
      /\ cl[c] # "new"
  BY <1>3 DEF FreshInv, Queued
<1>7. \A x \in Clients : Queued(x)' => Queued(x) /\ x # c
  <2> TAKE x \in Clients
  <2>1. HAVE Queued(x)'
  <2>2. PICK k \in 1 .. Len(backlog') : backlog'[k] = x
    BY <2>1 DEF Queued
  <2>3. backlog[k + 1] = x /\ k + 1 \in 1 .. Len(backlog) /\ 1 \in 1 .. Len(backlog) /\ k + 1 # 1
    BY <1>3, <2>2
  <2> QED BY <1>3, <2>3 DEF Queued, FreshInv
<1>8. CountInv'
  <2>1. Owed' = Owed /\ Connected' = Connected
    BY <1>3, <1>4, <1>5 DEF Owed, Connected
  <2> QED BY <1>4, <2>1 DEF CountInv
<1>9. FreshInv'
  <2>1. ASSUME NEW x \in Clients, cl[x] = "new" \/ Queued(x)'
        PROVE  who' # x /\ (\A g \in Fds : table'[g] # x) /\ (\A t \in Threads : mine'[t] # x)
    <3>1. x # c /\ (cl[x] = "new" \/ Queued(x))
      BY <1>6, <1>7, <2>1
    <3> QED BY <1>2, <1>4, <1>5, <3>1 DEF FreshInv
  <2>2. ASSUME NEW i \in 1 .. Len(backlog'), NEW k \in 1 .. Len(backlog'),
               backlog'[i] = backlog'[k]
        PROVE  i = k
    <3>1. i + 1 \in 1 .. Len(backlog) /\ k + 1 \in 1 .. Len(backlog)
      BY <1>3
    <3>2. i + 1 = k + 1
      BY <1>3, <2>2, <3>1 DEF FreshInv
    <3> QED BY <3>2
  <2>3. \A x \in Clients : Queued(x)' => cl'[x] # "new"
    BY <1>4, <1>7 DEF FreshInv
  <2> QED BY <1>4, <2>1, <2>2, <2>3 DEF FreshInv
<1>10. MainInv'
  BY <1>1, <1>2, <1>4, <1>5, <1>6 DEF MainInv, Conn
<1>11. OwnerInv'
  <2>1. \A g, h \in Fds : table'[g] # None /\ table'[g] = table'[h] => g = h
    BY <1>5, <1>6 DEF OwnerInv
  <2>2. ASSUME NEW t \in Threads, pc[t] \in {"read", "write", "close"}
        PROVE  Conn(fd[t], mine[t])'
    <3>1. Conn(fd[t], mine[t])
      BY <2>2 DEF OwnerInv
    <3> QED BY <1>1, <1>4, <1>5, <3>1, Numbers DEF Conn
  <2> QED BY <1>4, <2>1, <2>2 DEF OwnerInv
<1>12. BufInv'
  BY <1>4 DEF BufInv
<1> QED BY <1>8, <1>9, <1>10, <1>11, <1>12

LEMMA AcceptFailsKeeps ==
  ASSUME TypeInv, ServerInv, AcceptFails, \A t \in Threads : pc[t] # "begin"
  PROVE  ServerInv'
<1> USE DEF ServerInv
<1>1. /\ server = "accept" /\ errors' = errors + 1 /\ errors \in Nat
      /\ server' = "create" => connfd' = None /\ who' = None
      /\ server' \in {"create", "dead"} /\ who' \in {who, None}
      /\ UNCHANGED <<made, backlog, table, pc, fd, buf, mine, cl>>
  BY BoundsAssumption DEF AcceptFails, Dies, threadVars, clientVars, TypeInv
<1>2. CountInv'
  <2>1. Owed' \in {Owed, Owed + 1} /\ Connected' = Connected
    BY <1>1, ThreadLeft, LenProperties DEF Owed, Connected, TypeInv
  <2> QED BY <1>1, <2>1, ThreadLeft DEF CountInv
<1>3. FreshInv'
  BY <1>1, Numbers DEF FreshInv, Queued
<1>4. MainInv'
  BY <1>1 DEF MainInv, Conn
<1>5. OwnerInv' /\ BufInv'
  BY <1>1 DEF OwnerInv, BufInv, Conn
<1> QED BY <1>2, <1>3, <1>4, <1>5

LEMMA CreateThreadKeeps == ASSUME TypeInv, ServerInv, CreateThread PROVE ServerInv'
<1> USE DEF ServerInv
<1>1. PICK u \in Threads : u = made + 1 /\ pc[u] = "none"
  BY ThreadLeft DEF CreateThread
<1>2. /\ server = "create" /\ server' = "accept" /\ made' = u /\ made \in Nat
      /\ UNCHANGED <<connfd, who, errors, backlog, table, fd, buf, cl>>
      /\ pc' = [t \in Threads |-> IF t = u THEN "begin" ELSE pc[t]]
      /\ mine' = [t \in Threads |-> IF t = u THEN who ELSE mine[t]]
  BY <1>1 DEF CreateThread, clientVars, TypeInv
<1>3. CountInv'
  <2>1. Owed' = Owed /\ Connected' = Connected
    BY <1>1, <1>2, LenProperties DEF Owed, Connected, TypeInv
  <2>2. \A t \in Threads : t > u => pc'[t] = "none"
    BY <1>1, <1>2, Numbers DEF CountInv
  <2> QED BY <1>2, <2>1, <2>2 DEF CountInv
<1>4. FreshInv'
  BY <1>2 DEF FreshInv, Queued
<1>5. MainInv'
  BY <1>1, <1>2 DEF MainInv, Conn
<1>6. OwnerInv'
  <2>1. ASSUME NEW t \in Threads, NEW v \in Threads, mine'[t] # None, mine'[t] = mine'[v]
        PROVE  t = v
    BY <1>2, <2>1 DEF OwnerInv, MainInv
  <2> QED BY <1>2, <2>1 DEF OwnerInv, Conn
<1>7. BufInv'
  BY <1>1, <1>2 DEF BufInv
<1> QED BY <1>3, <1>4, <1>5, <1>6, <1>7

LEMMA CreateFailsKeeps == ASSUME TypeInv, ServerInv, CreateFails PROVE ServerInv'
<1> USE DEF ServerInv
<1>1. /\ server = "create" /\ server' \in {"accept", "dead"}
      /\ errors' = errors + 1 /\ errors \in Nat
      /\ UNCHANGED <<connfd, who, made, backlog, pc, fd, buf, mine, cl>>
  BY BoundsAssumption DEF CreateFails, Dies, threadVars, clientVars, TypeInv
<1>2. \/ table' = table
      \/ connfd \in Fds /\ table' = [f \in Fds |-> IF f = connfd THEN None ELSE table[f]]
  BY Numbers DEF CreateFails, CloseFd, TypeInv
<1>3. \A f \in Fds : table'[f] \in {table[f], None}
  BY <1>2
<1>4. CountInv'
  <2>1. Owed' = Owed - 1 /\ Connected' = Connected
    BY <1>1, ThreadLeft, LenProperties DEF Owed, Connected, TypeInv
  <2> QED BY <1>1, <2>1, ThreadLeft DEF CountInv
<1>5. FreshInv'
  BY <1>1, <1>3, Numbers DEF FreshInv, Queued
<1>6. MainInv'
  BY <1>1 DEF MainInv
<1>7. OwnerInv'
  <2>1. \A g, h \in Fds : table'[g] # None /\ table'[g] = table'[h] => g = h
    BY <1>3 DEF OwnerInv
  <2>2. ASSUME NEW t \in Threads, pc[t] \in {"read", "write", "close"}
        PROVE  Conn(fd[t], mine[t])'
    <3>1. Conn(fd[t], mine[t])
      BY <2>2 DEF OwnerInv
    <3>2. Conn(connfd, who) /\ (who # None => mine[t] # who)
      BY <1>1 DEF MainInv
    <3> QED BY <1>1, <1>2, <3>1, <3>2, Numbers DEF Conn
  <2> QED BY <1>1, <2>1, <2>2 DEF OwnerInv
<1>8. BufInv'
  BY <1>1 DEF BufInv
<1> QED BY <1>4, <1>5, <1>6, <1>7, <1>8

\* A step of thread t that leaves main and the table alone.
LEMMA ThreadMoves ==
  ASSUME TypeInv, ServerInv, NEW t \in Threads, pc[t] \in {"begin", "read", "write"},
         NEW p \in {"read", "write", "close"}, pc' = [pc EXCEPT ![t] = p],
         UNCHANGED <<mainVars, table, mine, cl>>,
         \A u \in Threads \ {t} : fd'[u] = fd[u] /\ buf'[u] = buf[u],
         Conn(fd'[t], mine[t]),
         IF p = "write" THEN mine[t] # None ELSE buf'[t] = << >>
  PROVE  ServerInv'
<1> USE DEF ServerInv
<1>1. /\ UNCHANGED <<server, connfd, who, made, errors, backlog, table, mine, cl>>
      /\ pc' = [u \in Threads |-> IF u = t THEN p ELSE pc[u]]
  BY DEF mainVars, TypeInv
<1>2. CountInv'
  <2>1. Owed' = Owed /\ Connected' = Connected
    BY <1>1 DEF Owed, Connected
  <2> QED BY <1>1, <2>1 DEF CountInv
<1>3. FreshInv'
  BY <1>1 DEF FreshInv, Queued
<1>4. MainInv'
  BY <1>1 DEF MainInv, Conn
<1>5. OwnerInv'
  <2>1. ASSUME NEW u \in Threads, pc'[u] \in {"read", "write", "close"}
        PROVE  Conn(fd[u], mine[u])'
    BY <1>1, <2>1 DEF OwnerInv, Conn
  <2> QED BY <1>1, <2>1 DEF OwnerInv
<1>6. BufInv'
  BY <1>1 DEF BufInv
<1> QED BY <1>2, <1>3, <1>4, <1>5, <1>6

LEMMA CloseKeeps ==
  ASSUME TypeInv, ServerInv, NEW t \in Threads, Close(t) PROVE ServerInv'
<1> USE DEF ServerInv
<1>1. /\ UNCHANGED <<server, connfd, who, made, errors, backlog, fd, buf, mine, cl>>
      /\ pc[t] = "close" /\ pc' = [u \in Threads |-> IF u = t THEN "done" ELSE pc[u]]
  BY DEF Close, Goto, mainVars, clientVars, TypeInv
<1>2. Conn(fd[t], mine[t])
  BY <1>1 DEF OwnerInv
<1>3. \/ table' = table
      \/ /\ fd[t] \in Fds /\ table[fd[t]] = mine[t] /\ mine[t] # None
         /\ table' = [f \in Fds |-> IF f = fd[t] THEN None ELSE table[f]]
  BY <1>2, Numbers DEF Close, CloseFd, TypeInv, Conn
<1>4. \A f \in Fds : table'[f] \in {table[f], None}
  BY <1>3
<1>5. CountInv'
  <2>1. Owed' = Owed /\ Connected' = Connected
    BY <1>1 DEF Owed, Connected
  <2>2. \A u \in Threads : u > made => pc'[u] = "none"
    BY <1>1 DEF CountInv
  <2> QED BY <1>1, <2>1, <2>2 DEF CountInv
<1>6. FreshInv'
  BY <1>1, <1>4, Numbers DEF FreshInv, Queued
<1>7. MainInv'
  <2>1. ASSUME Conn(connfd, who), mine[t] # who \/ who = None PROVE Conn(connfd, who)'
    BY <1>1, <1>3, <2>1, Numbers DEF Conn
  <2>2. server = "create" => Conn(connfd, who)'
    BY <2>1 DEF MainInv
  <2>3. ASSUME NEW u \in Threads, pc'[u] = "begin" PROVE Conn(connfd, who)' /\ mine[u] = who
    <3>1. pc[u] = "begin" /\ u # t
      BY <1>1, <2>3
    <3>2. mine[u] = who /\ Conn(connfd, who)
      BY <3>1 DEF MainInv
    <3>3. mine[t] # who \/ who = None
      BY <3>1, <3>2 DEF OwnerInv
    <3> QED BY <2>1, <3>2, <3>3
  <2>4. \A u \in Threads : pc'[u] = "begin" => pc[u] = "begin"
    BY <1>1
  <2> QED BY <1>1, <2>2, <2>3, <2>4 DEF MainInv
<1>8. OwnerInv'
  <2>1. \A g, h \in Fds : table'[g] # None /\ table'[g] = table'[h] => g = h
    BY <1>4 DEF OwnerInv
  <2>2. ASSUME NEW u \in Threads, pc'[u] \in {"read", "write", "close"}
        PROVE  Conn(fd[u], mine[u])'
    <3>1. u # t /\ Conn(fd[u], mine[u])
      BY <1>1, <2>2 DEF OwnerInv
    <3>2. mine[u] # mine[t] \/ mine[t] = None
      BY <3>1 DEF OwnerInv
    <3> QED BY <1>1, <1>3, <3>1, <3>2, Numbers DEF Conn
  <2> QED BY <1>1, <2>1, <2>2 DEF OwnerInv
<1>9. BufInv'
  BY <1>1 DEF BufInv
<1> QED BY <1>5, <1>6, <1>7, <1>8, <1>9

LEMMA ThreadKeeps ==
  ASSUME TypeInv, ServerInv, NEW t \in Threads, Thread(t) PROVE ServerInv'
<1> USE DEF mainVars, clientVars
<1>0. BufInv /\ OwnerInv
  BY DEF ServerInv
<1>1. CASE Begin(t)
  <2>1. Conn(connfd, mine[t])
    BY <1>1 DEF Begin, Goto, ServerInv, MainInv
  <2>2. /\ pc[t] = "begin" /\ pc' = [pc EXCEPT ![t] = "read"]
        /\ fd' = [fd EXCEPT ![t] = connfd] /\ UNCHANGED <<mainVars, table, buf, mine, cl>>
    BY <1>1 DEF Begin, Goto
  <2>3. /\ fd'[t] = connfd /\ buf'[t] = << >>
        /\ \A u \in Threads \ {t} : fd'[u] = fd[u] /\ buf'[u] = buf[u]
    BY <1>0, <2>2 DEF TypeInv, BufInv
  <2> QED BY <2>1, <2>2, <2>3, ThreadMoves
<1>2. CASE Read(t)
  <2>1. /\ pc[t] = "read" /\ pc' = [pc EXCEPT ![t] = "write"]
        /\ UNCHANGED <<mainVars, table, fd, mine, cl>> /\ Peer(t) # None
    BY <1>2 DEF Read, Goto
  <2>2. Conn(fd[t], mine[t]) /\ mine[t] # None
    BY <1>0, <2>1, PeerOf DEF OwnerInv
  <2>3. \A u \in Threads \ {t} : buf'[u] = buf[u]
    BY <1>2 DEF Read, TypeInv
  <2> QED BY <2>1, <2>2, <2>3, ThreadMoves
<1>3. CASE ReadEnds(t)
  <2>1. /\ pc[t] = "read" /\ pc' = [pc EXCEPT ![t] = "close"]
        /\ UNCHANGED <<mainVars, table, fd, buf, mine, cl>>
    BY <1>3 DEF ReadEnds, Goto
  <2>2. Conn(fd[t], mine[t]) /\ buf[t] = << >>
    BY <1>0, <2>1 DEF OwnerInv, BufInv
  <2> QED BY <2>1, <2>2, ThreadMoves
<1>4. CASE Write(t)
  <2>1. /\ pc[t] = "write" /\ pc' = [pc EXCEPT ![t] = "read"]
        /\ UNCHANGED <<mainVars, table, fd, mine, cl>>
        /\ buf' = [buf EXCEPT ![t] = << >>]
    BY <1>4 DEF Write, Goto
  <2>2. Conn(fd[t], mine[t])
    BY <1>0, <2>1 DEF OwnerInv
  <2>3. buf'[t] = << >> /\ \A u \in Threads \ {t} : buf'[u] = buf[u]
    BY <2>1 DEF TypeInv
  <2> QED BY <2>1, <2>2, <2>3, ThreadMoves
<1>5. CASE WriteKills(t)
  <2>1. /\ server' = "dead"
        /\ UNCHANGED <<connfd, who, made, errors, backlog, table, pc, fd, buf, mine, cl>>
    BY <1>5 DEF WriteKills, Dies, threadVars
  <2>2. CountInv'
    <3>1. Owed' <= Owed /\ Owed' \in Nat /\ Connected' = Connected
      BY <2>1, LenProperties DEF Owed, Connected, TypeInv
    <3> QED BY SMTT(30), <2>1, <3>1, ThreadLeft, BoundsAssumption DEF CountInv, ServerInv, TypeInv
  <2>3. FreshInv'
    BY <2>1 DEF FreshInv, Queued, ServerInv
  <2>4. MainInv' /\ OwnerInv' /\ BufInv'
    BY <2>1 DEF MainInv, OwnerInv, BufInv, Conn, ServerInv
  <2> QED BY <2>2, <2>3, <2>4 DEF ServerInv
<1>6. CASE Close(t)
  BY <1>6, CloseKeeps
<1> QED BY <1>1, <1>2, <1>3, <1>4, <1>5, <1>6 DEF Thread

LEMMA ConnectKeeps ==
  ASSUME TypeInv, ServerInv, NEW c \in Clients, Connect(c) PROVE ServerInv'
<1> USE DEF ServerInv
<1>1. /\ cl[c] = "new" /\ cl' = [x \in Clients |-> IF x = c THEN "type" ELSE cl[x]]
      /\ backlog' = Append(backlog, c)
      /\ UNCHANGED <<server, connfd, who, made, errors, table, pc, fd, buf, mine>>
  BY DEF Connect, threadVars, TypeInv
<1>2. /\ Len(backlog) \in Nat /\ Len(backlog') = Len(backlog) + 1
      /\ \A i \in 1 .. Len(backlog) : backlog'[i] = backlog[i]
      /\ backlog'[Len(backlog) + 1] = c
  BY <1>1, AppendProperties, LenProperties DEF TypeInv
<1>3. \A x \in Clients : Queued(x)' <=> Queued(x) \/ x = c
  <2> TAKE x \in Clients
  <2>1. ASSUME Queued(x)' PROVE Queued(x) \/ x = c
    BY <1>2, <2>1 DEF Queued
  <2>2. ASSUME Queued(x) PROVE Queued(x)'
    BY <1>2, <2>2 DEF Queued
  <2>3. Queued(c)'
    BY <1>2 DEF Queued
  <2> QED BY <2>1, <2>2, <2>3
<1>4. CountInv'
  <2>1. IsFiniteSet(Connected)
    <3>1. Connected \in SUBSET Clients
      BY DEF Connected
    <3> QED BY <3>1, BoundsAssumption, FS_Subset
  <2>2. Connected' = Connected \cup {c} /\ c \notin Connected
    BY <1>1 DEF Connected
  <2>3. Cardinality(Connected') = Cardinality(Connected) + 1
    BY <2>1, <2>2, FS_AddElement
  <2>4. Owed' = Owed + 1
    BY <1>1, <1>2 DEF Owed, TypeInv
  <2> QED BY SMTT(30), <1>1, <2>3, <2>4, ThreadLeft, BoundsAssumption DEF CountInv, TypeInv
<1>5. FreshInv'
  <2>1. ASSUME NEW x \in Clients, cl'[x] = "new" \/ Queued(x)'
        PROVE  who # x /\ (\A g \in Fds : table[g] # x) /\ (\A t \in Threads : mine[t] # x)
    BY <1>1, <1>3, <2>1 DEF FreshInv
  <2>2. ASSUME NEW i \in 1 .. Len(backlog'), NEW k \in 1 .. Len(backlog'),
               backlog'[i] = backlog'[k]
        PROVE  i = k
    <3>1. ~ Queued(c)
      BY <1>1 DEF FreshInv
    <3>2. \A j \in 1 .. Len(backlog) : backlog[j] # c
      BY <3>1 DEF Queued
    <3> QED BY <1>2, <2>2, <3>2 DEF FreshInv
  <2>3. \A x \in Clients : Queued(x)' => cl'[x] # "new"
    BY <1>1, <1>3 DEF FreshInv
  <2> QED BY <1>1, <2>1, <2>2, <2>3 DEF FreshInv
<1>6. MainInv' /\ OwnerInv' /\ BufInv'
  BY <1>1 DEF MainInv, OwnerInv, BufInv, Conn
<1> QED BY <1>4, <1>5, <1>6

LEMMA ClientKeeps ==
  ASSUME TypeInv, ServerInv, NEW c \in Clients, Client(c) PROVE ServerInv'
<1>1. CASE Connect(c)
  BY <1>1, ConnectKeeps
<1>2. CASE ~ Connect(c)
  <2>1. /\ UNCHANGED <<server, connfd, who, made, errors, backlog, table, pc, fd, buf, mine>>
        /\ \E p \in {"type", "wait", "left"} : cl' = [cl EXCEPT ![c] = p]
    BY <1>2 DEF Client, ConnectFails, WriteMessage, Receive, Leave, mainVars, threadVars
  <2>2. \A x \in Clients : cl'[x] = "new" => cl[x] = "new"
    BY <2>1 DEF TypeInv
  <2>3. CountInv'
    <3>1. Connected \in SUBSET Connected' /\ Connected' \in SUBSET Clients
      BY <2>2 DEF Connected
    <3>2. IsFiniteSet(Connected')
      BY <3>1, BoundsAssumption, FS_Subset
    <3>3. Cardinality(Connected) <= Cardinality(Connected') /\ Cardinality(Connected') \in Nat
      BY <3>1, <3>2, FS_Subset, FS_CardinalityType
    <3>4. Owed' = Owed
      BY <2>1 DEF Owed
    <3> QED BY <2>1, <3>3, <3>4, ThreadLeft, BoundsAssumption
            DEF CountInv, ServerInv, TypeInv
  <2>4. FreshInv'
    BY <2>1, <2>2 DEF FreshInv, Queued, ServerInv
  <2>5. MainInv' /\ OwnerInv' /\ BufInv'
    BY <2>1 DEF MainInv, OwnerInv, BufInv, Conn, ServerInv
  <2> QED BY <2>3, <2>4, <2>5 DEF ServerInv
<1> QED BY <1>1, <1>2

\* So far main has not gone on to its next connection before a thread had read
\* connfd; then it had not before the last step either.
OnTime == ~ overtaken

LEMMA OnTimeBefore ==
  ASSUME TypeInv, [Next]_vars, OnTime' PROVE OnTime /\ overtaken' = overtaken
<1>1. CASE Main
  <2>1. overtaken \in BOOLEAN /\ overtaken' = FALSE
    <3>1. TypeInv'
      BY TypeStep
    <3> QED BY <3>1 DEF TypeInv, OnTime
  <2>2. Overtakes \/ overtaken' = overtaken
    BY <1>1 DEF Main
  <2>3. overtaken = FALSE
    BY <2>1, <2>2 DEF Overtakes
  <2> QED BY <2>1, <2>3 DEF OnTime
<1>2. CASE UNCHANGED vars
  BY <1>2 DEF OnTime, vars
<1>3. CASE \E t \in Threads : Thread(t)
  BY <1>3 DEF OnTime, Thread
<1>4. CASE \E c \in Clients : Client(c)
  BY <1>4 DEF OnTime, Client
<1> QED BY <1>1, <1>2, <1>3, <1>4 DEF Next, Idle

LEMMA ServerStep ==
  ASSUME TypeInv, ServerInv, [Next]_vars, OnTime' PROVE ServerInv'
<1>1. CASE Main
  <2>1. (Accept \/ AcceptFails) /\ Overtakes => \A t \in Threads : pc[t] # "begin"
    BY DEF OnTime, Overtakes
  <2> QED BY <1>1, <2>1, AcceptKeeps, AcceptFailsKeeps, CreateThreadKeeps, CreateFailsKeeps
          DEF Main
<1>2. CASE UNCHANGED vars
  <2> USE <1>2 DEF vars, mainVars, threadVars, clientVars, ServerInv
  <2>1. CountInv' /\ FreshInv'
    BY DEF CountInv, FreshInv, Owed, Connected, Queued
  <2>2. MainInv' /\ OwnerInv' /\ BufInv'
    BY DEF MainInv, OwnerInv, BufInv, Conn
  <2> QED BY <2>1, <2>2
<1> QED BY <1>1, <1>2, ThreadKeeps, ClientKeeps DEF Next, Idle

Inv == TypeInv /\ ServerInv

\* Types are kept whatever main overtakes.
LEMMA InvHolds == Spec => [](TypeInv /\ (OnTime => Inv))
<1>1. Init => TypeInv /\ (OnTime => Inv)
  BY TypeInit, ServerInit DEF Inv
<1>2. TypeInv /\ (OnTime => Inv) /\ [Next]_vars => TypeInv' /\ (OnTime' => Inv')
  BY TypeStep, ServerStep, OnTimeBefore DEF Inv
<1> QED BY <1>1, <1>2, PTL DEF Spec

-----------------------------------------------------------------------------
(* Threads, clients and descriptors *)

\* While a thread reads, answers or closes, its descriptor is the connection of
\* the client it was created for: handle_client's copy of *arg stays good, until
\* main goes on to its next connection before a thread has taken its copy.
THEOREM ThreadsServeTheirClient == Spec => []OwnClient
<1>1. (OnTime => Inv) => OwnClient
  BY PeerOf DEF Inv, ServerInv, OwnClient, ServesOwn, OnTime
<1> QED BY <1>1, InvHolds, PTL

LEMMA MainKeepsHolders ==
  ASSUME Inv, OnTime, NoLeak, Main PROVE NoLeak'
<1> SUFFICES ASSUME server' # "dead", NEW f \in Fds, table'[f] # None
             PROVE  \/ server' = "create" /\ connfd' = f
                    \/ \E t \in Threads : mine'[t] = table'[f]
                                          /\ pc'[t] \in {"begin", "read", "write", "close"}
  BY DEF NoLeak
<1> USE DEF Inv, ServerInv, OnTime, threadVars
<1>1. CASE Accept
  <2>1. /\ server = "accept" /\ server' = "create" /\ UNCHANGED <<pc, mine>>
        /\ f # connfd' => table'[f] = table[f]
    BY <1>1 DEF Accept, TypeInv
  <2> QED BY <2>1 DEF NoLeak
<1>2. CASE AcceptFails
  <2>1. server = "accept" /\ UNCHANGED <<table, pc, mine>>
    BY <1>2 DEF AcceptFails
  <2> QED BY <2>1 DEF NoLeak
<1>3. CASE CreateThread
  <2>1. PICK u \in Threads : u = made + 1 /\ pc[u] = "none"
    BY <1>3, ThreadLeft DEF CreateThread
  <2>2. /\ server = "create" /\ table' = table /\ made' = u
        /\ pc' = [t \in Threads |-> IF t = u THEN "begin" ELSE pc[t]]
        /\ mine' = [t \in Threads |-> IF t = u THEN who ELSE mine[t]]
    BY <1>3, <2>1 DEF CreateThread, TypeInv
  <2>3. CASE connfd = f
    <3>1. table[f] = who
      BY <2>2, <2>3, Numbers DEF MainInv, Conn
    <3> QED BY <2>2, <3>1
  <2>4. CASE connfd # f
    <3>1. PICK t \in Threads : mine[t] = table[f]
                               /\ pc[t] \in {"begin", "read", "write", "close"}
      BY <2>2, <2>4 DEF NoLeak
    <3> QED BY <2>1, <2>2, <3>1
  <2> QED BY <2>3, <2>4
<1>4. CASE CreateFails
  <2>1. server = "create" /\ UNCHANGED <<pc, mine>>
    BY <1>4 DEF CreateFails
  <2>2. CloseFd(connfd)
    BY <1>4 DEF CreateFails, Dies
  <2>3. f # connfd /\ table'[f] = table[f]
    BY <2>2, Numbers DEF CloseFd, TypeInv
  <2> QED BY <2>1, <2>3 DEF NoLeak
<1> QED BY <1>1, <1>2, <1>3, <1>4 DEF Main

LEMMA ThreadKeepsHolders ==
  ASSUME Inv, OnTime, NoLeak, NEW t \in Threads, Thread(t) PROVE NoLeak'
<1> SUFFICES ASSUME server' # "dead", NEW f \in Fds, table'[f] # None
             PROVE  \/ server' = "create" /\ connfd' = f
                    \/ \E u \in Threads : mine'[u] = table'[f]
                                          /\ pc'[u] \in {"begin", "read", "write", "close"}
  BY DEF NoLeak
<1> USE DEF Inv, ServerInv, OnTime, mainVars, Goto
<1>1. CASE Close(t)
  <2>1. /\ UNCHANGED <<server, connfd, mine>> /\ server # "dead" /\ pc[t] = "close"
        /\ pc' = [u \in Threads |-> IF u = t THEN "done" ELSE pc[u]]
    BY <1>1 DEF Close, TypeInv
  <2>2. Conn(fd[t], mine[t]) /\ f # fd[t] /\ table'[f] = table[f]
    <3>1. CloseFd(fd[t])
      BY <1>1 DEF Close
    <3> QED BY <2>1, <3>1, Numbers DEF CloseFd, TypeInv, OwnerInv
  <2>3. mine[t] # table[f]
    BY <2>2 DEF Conn, OwnerInv
  <2> QED BY <2>1, <2>2, <2>3 DEF NoLeak
<1>2. CASE ~ Close(t)
  <2>1. /\ UNCHANGED <<connfd, table, mine>>
        /\ server' = "create" <=> server = "create" /\ server # "dead"
        /\ \/ pc' = pc
           \/ \E p \in {"read", "write", "close"} : pc' = [pc EXCEPT ![t] = p]
    BY <1>2 DEF Thread, Begin, Read, ReadEnds, Write, WriteKills, Dies, threadVars
  <2>2. \A u \in Threads : pc[u] \in {"begin", "read", "write", "close"}
                           => pc'[u] \in {"begin", "read", "write", "close"}
    BY <2>1 DEF TypeInv
  <2>3. server # "dead"
    BY <1>2 DEF Thread, Begin, Read, ReadEnds, Write, WriteKills
  <2> QED BY <2>1, <2>2, <2>3 DEF NoLeak
<1> QED BY <1>1, <1>2

\* No descriptor leaks, whichever of accept, pthread_create, read and send fail:
\* an open one has a thread that will close it, or main still holds it, until main
\* overtakes a thread.
THEOREM NoDescriptorLeaks == Spec => []NoLeak
<1>1. Init => NoLeak
  BY DEF Init, NoLeak
<1>2. TypeInv /\ (OnTime => Inv) /\ NoLeak /\ [Next]_vars => NoLeak'
  <2> SUFFICES ASSUME Inv, OnTime, OnTime', NoLeak, [Next]_vars PROVE NoLeak'
    BY OnTimeBefore DEF NoLeak, OnTime
  <2>1. CASE Main
    BY <2>1, MainKeepsHolders
  <2>2. CASE \E t \in Threads : Thread(t)
    BY <2>2, ThreadKeepsHolders
  <2>3. CASE UNCHANGED vars
    BY <2>3 DEF NoLeak, OnTime, vars, mainVars, threadVars
  <2>4. CASE \E c \in Clients : Client(c)
    <3>1. UNCHANGED <<server, connfd, table, pc, mine>>
      BY <2>4 DEF Client, Connect, ConnectFails, WriteMessage, Receive, Leave,
                  mainVars, threadVars
    <3> QED BY <3>1 DEF NoLeak, OnTime
  <2> QED BY <2>1, <2>2, <2>3, <2>4 DEF Next, Idle
<1> QED BY <1>1, <1>2, InvHolds, PTL DEF Spec

-----------------------------------------------------------------------------
(* One message at a time *)

Writing(c) == \E t \in Threads : pc[t] = "write" /\ mine[t] = c
Answering(c) == down[c] # << >> \/ rst[c]

Single(c) ==
  /\ cl[c] \in {"new", "type"} => up[c] = << >> /\ ~ Writing(c) /\ ~ Answering(c)
  /\ cl[c] = "wait" => ~ rst[c]
  /\ up[c] # << >> => ~ Writing(c) /\ ~ Answering(c)
  /\ Writing(c) => ~ Answering(c)
\* server.c, with nothing split.
Whole == ~ split /\ ~ presentation
OneWay == Whole => \A c \in Clients : Single(c)

LEMMA OneWayMain ==
  ASSUME Inv, OneWay, Main PROVE OneWay'
<1>1. UNCHANGED <<cl, up, down, rst, split, presentation>>
  BY DEF Main, Accept, AcceptFails, CreateThread, CreateFails, clientVars, netVars, setup
<1>2. \A c \in Clients : Writing(c)' <=> Writing(c)
  <2>1. CASE CreateThread
    <3>1. PICK u \in Threads : u = made + 1 /\ pc[u] = "none"
      BY <2>1, ThreadLeft DEF CreateThread, Inv, ServerInv
    <3>2. /\ pc' = [t \in Threads |-> IF t = u THEN "begin" ELSE pc[t]]
          /\ mine' = [t \in Threads |-> IF t = u THEN who ELSE mine[t]]
      BY <2>1, <3>1 DEF CreateThread, Inv, TypeInv
    <3> QED BY <3>1, <3>2 DEF Writing
  <2>2. CASE ~ CreateThread
    BY <2>2 DEF Main, Accept, AcceptFails, CreateFails, threadVars, Writing
  <2> QED BY <2>1, <2>2
<1> QED BY <1>1, <1>2 DEF OneWay, Whole, Single, Answering

\* Whether a thread writes to its client, after a step of thread t from one
\* place to another.
LEMMA WritingMoves ==
  ASSUME Inv, NEW t \in Threads, NEW p, pc' = [pc EXCEPT ![t] = p], mine' = mine,
         NEW c \in Clients
  PROVE  Writing(c)' <=> \/ p = "write" /\ mine[t] = c
                         \/ Writing(c) /\ ~ (pc[t] = "write" /\ mine[t] = c)
<1>1. pc' = [u \in Threads |-> IF u = t THEN p ELSE pc[u]]
  BY DEF Inv, TypeInv
<1>2. \A u \in Threads : mine[u] = c /\ mine[t] = c => u = t
  BY Numbers DEF Inv, ServerInv, OwnerInv
<1> QED BY <1>1, <1>2 DEF Writing

LEMMA OneWayThread ==
  ASSUME Inv, OneWay, NEW t \in Threads, Thread(t) PROVE OneWay'
<1> SUFFICES ASSUME Whole, NEW c \in Clients, Single(c) PROVE Single(c)'
  BY DEF OneWay, Whole, Thread, setup
<1>0. UNCHANGED cl
  BY DEF Thread, Begin, Read, ReadEnds, Write, WriteKills, Close, clientVars
<1>1. CASE Read(t)
  <2>1. PICK chunk \in Chunks(up[Peer(t)]) : up' = [up EXCEPT ![Peer(t)] = Rest(@, chunk)]
    BY <1>1 DEF Read
  <2>2. /\ Peer(t) # None /\ pc' = [pc EXCEPT ![t] = "write"] /\ pc[t] = "read"
        /\ UNCHANGED <<mine, down, rst>>
    BY <1>1 DEF Read, Goto
  <2>3. PICK d \in Clients : d = Peer(t) /\ d = mine[t]
    BY <2>2, PeerOf DEF Inv, ServerInv, TypeInv
  <2>4. up[d] # << >> /\ up' = [x \in Clients |-> IF x = d THEN << >> ELSE up[x]]
    <3>1. up[d] \in Seq(Bytes)
      BY DEF Inv, TypeInv
    <3>2. up[d] # << >> /\ Rest(up[d], chunk) = << >>
      BY <2>3, <3>1, ChunkOf DEF Whole
    <3> QED BY <2>1, <2>3, <3>2 DEF Inv, TypeInv
  <2>5. Writing(c)' <=> mine[t] = c \/ Writing(c)
    BY <2>2, WritingMoves
  <2> QED BY <1>0, <2>2, <2>3, <2>4, <2>5 DEF Single, Answering
<1>2. CASE Write(t)
  <2>1. /\ pc[t] = "write" /\ pc' = [pc EXCEPT ![t] = "read"] /\ UNCHANGED <<mine, up>>
    BY <1>2 DEF Write, Goto
  <2>2. PICK d \in Clients : d = Peer(t) /\ d = mine[t]
    BY <2>1, PeerOf DEF Inv, ServerInv, TypeInv, BufInv
  <2>3. \A x \in Clients : Writing(x)' <=> Writing(x) /\ x # d
    <3> TAKE x \in Clients
    <3>1. Writing(x)' <=> \/ "read" = "write" /\ mine[t] = x
                          \/ Writing(x) /\ ~ (pc[t] = "write" /\ mine[t] = x)
      BY <2>1, WritingMoves
    <3> QED BY <2>1, <2>2, <3>1
  <2>4. Writing(d)
    BY <2>1, <2>2 DEF Writing
  <2>5. IF cl[d] = "left" THEN rst' = [rst EXCEPT ![d] = TRUE] /\ UNCHANGED down
                          ELSE down' = [down EXCEPT ![d] = @ \o Answer(buf[t])] /\ UNCHANGED rst
    BY <1>2, <2>2, Numbers DEF Write, Send
  <2>6. CASE c = d
    <3>1. cl[c] \notin {"new", "type"} /\ up[c] = << >> /\ ~ Answering(c)
      BY <2>4, <2>6 DEF OneWay, Whole, Single
    <3>2. cl[c] = "wait" => rst' = rst
      BY <2>5, <2>6
    <3> QED BY <1>0, <2>1, <2>3, <2>6, <3>1, <3>2 DEF Single, Answering
  <2>7. CASE c # d
    <3>1. down'[c] = down[c] /\ rst'[c] = rst[c]
      BY <2>5, <2>7 DEF Inv, TypeInv
    <3> QED BY <1>0, <2>1, <2>3, <2>7, <3>1 DEF Single, Answering
  <2> QED BY <2>6, <2>7
<1>3. CASE Begin(t) \/ ReadEnds(t) \/ Close(t)
  <2>1. /\ pc[t] # "write" /\ UNCHANGED <<up, down, rst, mine>>
        /\ \E p \in {"read", "close", "done"} : pc' = [pc EXCEPT ![t] = p]
    BY <1>3 DEF Begin, ReadEnds, Close, Goto, netVars
  <2>2. Writing(c)' <=> Writing(c)
    BY <2>1, WritingMoves
  <2> QED BY <1>0, <2>1, <2>2 DEF Single, Answering
<1>4. CASE WriteKills(t)
  BY <1>0, <1>4 DEF WriteKills, threadVars, netVars, Writing, Answering, Single
<1> QED BY <1>1, <1>2, <1>3, <1>4 DEF Thread

LEMMA OneWayClient ==
  ASSUME Inv, OneWay, NEW c \in Clients, Client(c) PROVE OneWay'
<1> SUFFICES ASSUME Whole, NEW x \in Clients, Single(x) PROVE Single(x)'
  BY DEF OneWay, Whole, Client, setup
<1> USE DEF Inv, TypeInv, netVars, threadVars
<1>0. Writing(x)' <=> Writing(x)
  BY DEF Client, Connect, ConnectFails, WriteMessage, Receive, Leave, Writing
<1>1. CASE Connect(c)
  BY <1>0, <1>1 DEF Connect, Single, Answering
<1>2. CASE ConnectFails(c)
  BY <1>0, <1>2 DEF ConnectFails, Single, Answering
<1>3. CASE WriteMessage(c)
  <2>1. /\ cl[c] = "type" /\ cl' = [cl EXCEPT ![c] = "wait"] /\ UNCHANGED <<down, rst>>
        /\ x # c => up'[x] = up[x]
    BY <1>3 DEF WriteMessage
  <2> QED BY <1>0, <2>1 DEF Single, Answering
<1>4. CASE Receive(c)
  <2>1. /\ cl[c] = "wait" /\ UNCHANGED <<up, rst>>
        /\ x # c => down'[x] = down[x] /\ cl'[x] = cl[x]
    BY <1>4 DEF Receive
  <2>2. CASE x # c
    BY <1>0, <2>1, <2>2 DEF Single, Answering
  <2>3. CASE x = c
    <3>1. CASE cl' = [cl EXCEPT ![c] = "left"] /\ down' = down
      BY <1>0, <2>1, <2>3, <3>1 DEF Single, Answering
    <3>2. ASSUME NEW chunk \in Chunks(down[c]), down' = [down EXCEPT ![c] = Rest(@, chunk)]
          PROVE  down[c] # << >> /\ down'[c] = << >>
      BY <3>2, ChunkOf DEF Whole
    <3>3. CASE down[c] # << >> /\ down'[c] = << >>
      BY <1>0, <2>1, <2>3, <3>3 DEF Single, Answering
    <3> QED BY <1>4, <3>1, <3>2, <3>3 DEF Receive, Whole
  <2> QED BY <2>2, <2>3
<1>5. CASE Leave(c)
  <2>1. /\ cl[c] \in {"type", "wait"} /\ cl' = [cl EXCEPT ![c] = "left"]
        /\ rst' = [rst EXCEPT ![c] = down[c] # << >>] /\ UNCHANGED <<up, down>>
    BY <1>5 DEF Leave
  <2> QED BY <1>0, <2>1 DEF Single, Answering
<1> QED BY <1>1, <1>2, <1>3, <1>4, <1>5 DEF Client

LEMMA OneWayInit == Init => OneWay
BY DEF Init, OneWay, Single, Writing, Answering

LEMMA OneWayStep == ASSUME Inv, OneWay, [Next]_vars PROVE OneWay'
<1>1. CASE UNCHANGED vars
  BY <1>1 DEF OneWay, Whole, Single, Writing, Answering, vars, threadVars, clientVars, netVars, setup
<1> QED BY <1>1, OneWayMain, OneWayThread, OneWayClient DEF Next, Idle

LEMMA OneWayHolds == Spec => [](OnTime => Inv /\ OneWay)
<1>1. Init => OneWay
  BY OneWayInit
<1>2. TypeInv /\ (OnTime => Inv) /\ (OnTime => OneWay) /\ [Next]_vars => (OnTime' => OneWay')
  BY OneWayStep, OnTimeBefore
<1> QED BY <1>1, <1>2, InvHolds, PTL DEF Spec

\* With nothing split, server.c never dies until main overtakes a thread: a thread
\* never writes to a client whose kernel has reset the connection, and no failing
\* call ends main.
THEOREM ServerNeverDies == Spec => []ServerStays
<1>1. Init => ServerStays
  BY DEF Init, ServerStays
<1>2. TypeInv /\ (OnTime => Inv /\ OneWay) /\ ServerStays /\ [Next]_vars => ServerStays'
  <2> SUFFICES ASSUME Inv, OneWay, OnTime, ServerStays, [Next]_vars,
                      split' = FALSE, presentation' = FALSE
               PROVE  server' # "dead"
    <3>1. TypeInv /\ [Next]_vars => TypeInv'
      BY TypeStep
    <3> QED BY <3>1, OnTimeBefore DEF ServerStays, OnTime, TypeInv
  <2>1. ~ split /\ ~ presentation
    BY DEF Next, Main, Idle, Thread, Client, setup, vars
  <2>2. server # "dead"
    BY <2>1 DEF ServerStays, OnTime
  <2>3. CASE Main
    BY <2>1, <2>2, <2>3 DEF Main, Accept, AcceptFails, CreateThread, CreateFails
  <2>4. ASSUME NEW t \in Threads, Thread(t) PROVE server' # "dead"
    <3>1. CASE WriteKills(t)
      <4>1. pc[t] = "write" /\ Peer(t) # None /\ rst[Peer(t)]
        BY <2>1, <3>1 DEF WriteKills
      <4>2. PICK d \in Clients : d = Peer(t) /\ d = mine[t]
        BY <4>1, PeerOf DEF Inv, ServerInv, TypeInv
      <4>3. Writing(d) /\ Answering(d)
        BY <4>1, <4>2 DEF Writing, Answering
      <4> QED BY <2>1, <4>3 DEF OneWay, Whole, Single
    <3>2. CASE ~ WriteKills(t)
      BY <2>2, <2>4, <3>2 DEF Thread, Begin, Read, ReadEnds, Write, Close, mainVars
    <3> QED BY <3>1, <3>2
  <2>5. ASSUME NEW c \in Clients, Client(c) PROVE server' # "dead"
    BY <2>2, <2>5 DEF Client, Connect, ConnectFails, WriteMessage, Receive, Leave, mainVars
  <2>6. CASE UNCHANGED vars
    BY <2>2, <2>6 DEF vars, mainVars
  <2> QED BY <2>3, <2>4, <2>5, <2>6 DEF Next, Idle
<1> QED BY <1>1, <1>2, InvHolds, OneWayHolds, PTL DEF Spec

-----------------------------------------------------------------------------
(* Messages and their answers *)

\* What is on its way, with nothing split, is the last message or its answer.
Pair(c) ==
  /\ Len(replies[c]) <= Len(asked[c])
  /\ \A k \in 1 .. Len(replies[c]) : replies[c][k] = Answer(asked[c][k])
  /\ cl[c] \in {"new", "type"} => Len(replies[c]) = Len(asked[c])
  /\ cl[c] = "wait" =>
       /\ Len(asked[c]) = Len(replies[c]) + 1
       /\ up[c] \in {<< >>, Last(asked[c])}
       /\ \A t \in Threads : pc[t] = "write" /\ mine[t] = c => buf[t] = Last(asked[c])
       /\ down[c] \in {<< >>, Answer(Last(asked[c]))}
PairInv == Whole => \A c \in Clients : Pair(c)

\* A step after which client c has the same, and the same is on its way.
LEMMA PairSame ==
  ASSUME NEW c \in Clients, Pair(c), presentation' = presentation,
         cl'[c] = cl[c] \/ cl'[c] = "left", asked'[c] = asked[c], replies'[c] = replies[c],
         up'[c] = up[c], down'[c] = down[c],
         \A t \in Threads : pc'[t] = "write" /\ mine'[t] = c =>
           pc[t] = "write" /\ mine[t] = c /\ buf'[t] = buf[t]
  PROVE  Pair(c)'
BY DEF Pair, Answer, Last

LEMMA PairMain == ASSUME Inv, PairInv, Main PROVE PairInv'
<1>1. UNCHANGED <<presentation, split, cl, asked, replies, up, down, buf>>
  BY DEF Main, Accept, AcceptFails, CreateThread, CreateFails,
         threadVars, clientVars, netVars, setup
<1>2. \A t \in Threads : pc'[t] = "write" => pc[t] = "write" /\ mine'[t] = mine[t]
  <2>1. CASE CreateThread
    <3>1. PICK u \in Threads : u = made + 1 /\ pc[u] = "none"
      BY <2>1, ThreadLeft DEF CreateThread, Inv, ServerInv
    <3>2. /\ pc' = [t \in Threads |-> IF t = u THEN "begin" ELSE pc[t]]
          /\ mine' = [t \in Threads |-> IF t = u THEN who ELSE mine[t]]
      BY <2>1, <3>1 DEF CreateThread, Inv, TypeInv
    <3> QED BY <3>2
  <2>2. CASE ~ CreateThread
    BY <2>2 DEF Main, Accept, AcceptFails, CreateFails, threadVars
  <2> QED BY <2>1, <2>2
<1>3. ASSUME NEW c \in Clients, Pair(c) PROVE Pair(c)'
  BY <1>1, <1>2, <1>3, PairSame
<1> QED BY <1>1, <1>3 DEF PairInv, Whole

LEMMA PairThread ==
  ASSUME Inv, OneWay, PairInv, NEW t \in Threads, Thread(t) PROVE PairInv'
<1>0. UNCHANGED <<presentation, split, cl, asked, replies, mine>>
  BY DEF Thread, Begin, Read, ReadEnds, Write, WriteKills, Close,
         threadVars, clientVars, setup
<1> SUFFICES ASSUME Whole, NEW c \in Clients, Pair(c) PROVE Pair(c)'
  BY <1>0 DEF PairInv, Whole
<1>1. \A u \in Threads : mine[u] = c /\ mine[t] = c => u = t
  BY Numbers DEF Inv, ServerInv, OwnerInv
<1>2. CASE Read(t)
  <2>1. PICK chunk \in Chunks(up[Peer(t)]) :
          /\ buf' = [buf EXCEPT ![t] = chunk]
          /\ up' = [up EXCEPT ![Peer(t)] = Rest(@, chunk)]
    BY <1>2 DEF Read
  <2>2. /\ Peer(t) # None /\ pc' = [pc EXCEPT ![t] = "write"] /\ pc[t] = "read"
        /\ UNCHANGED down
    BY <1>2 DEF Read, Goto
  <2>3. PICK d \in Clients : d = Peer(t) /\ d = mine[t]
    BY <2>2, PeerOf DEF Inv, ServerInv, TypeInv
  <2>4. /\ up[d] # << >> /\ chunk = up[d]
        /\ up' = [x \in Clients |-> IF x = d THEN << >> ELSE up[x]]
    <3>1. up[d] \in Seq(Bytes)
      BY DEF Inv, TypeInv
    <3>2. up[d] # << >> /\ chunk = up[d] /\ Rest(up[d], chunk) = << >>
      BY <2>3, <3>1, ChunkOf DEF Whole
    <3> QED BY <2>1, <2>3, <3>2 DEF Inv, TypeInv
  <2>5. /\ pc' = [u \in Threads |-> IF u = t THEN "write" ELSE pc[u]]
        /\ buf' = [u \in Threads |-> IF u = t THEN up[d] ELSE buf[u]]
    BY <2>1, <2>2, <2>4 DEF Inv, TypeInv
  <2>6. CASE c = d
    <3>1. cl[c] = "wait" => up[c] = Last(asked[c])
      BY <2>4, <2>6 DEF Pair
    <3>2. \A u \in Threads : mine[u] = c => u = t
      BY <1>1, <2>3, <2>6
    <3> QED BY <1>0, <2>2, <2>4, <2>5, <2>6, <3>1, <3>2 DEF Pair, Answer, Last
  <2>7. CASE c # d
    BY <1>0, <2>2, <2>3, <2>4, <2>5, <2>7, PairSame
  <2> QED BY <2>6, <2>7
<1>3. CASE Write(t)
  <2>1. /\ pc[t] = "write" /\ UNCHANGED up
        /\ pc' = [u \in Threads |-> IF u = t THEN "read" ELSE pc[u]]
        /\ buf' = [u \in Threads |-> IF u = t THEN << >> ELSE buf[u]]
    BY <1>3 DEF Write, Goto, Inv, TypeInv
  <2>2. PICK d \in Clients : d = Peer(t) /\ d = mine[t]
    BY <2>1, PeerOf DEF Inv, ServerInv, TypeInv, BufInv
  <2>3. IF cl[d] = "left" THEN UNCHANGED down
                          ELSE down' = [down EXCEPT ![d] = @ \o Answer(buf[t])]
    BY <1>3, <2>2, Numbers DEF Write, Send
  <2>4. CASE c # d \/ cl[c] = "left"
    <3>1. down'[c] = down[c]
      BY <2>3, <2>4 DEF Inv, TypeInv
    <3> QED BY <1>0, <2>1, <3>1, PairSame
  <2>5. CASE c = d /\ cl[c] # "left"
    <3>1. Writing(c)
      BY <2>1, <2>2, <2>5 DEF Writing
    <3>2. cl[c] = "wait" /\ down[c] = << >>
      BY <2>5, <3>1 DEF OneWay, Whole, Single, Answering, Inv, TypeInv
    <3>3. buf[t] = Last(asked[c]) /\ buf[t] \in Seq(Bytes)
      BY <2>1, <2>2, <2>5, <3>2 DEF Pair, Inv, TypeInv
    <3>4. down'[c] = Answer(Last(asked[c]))
      <4>1. << >> \o Answer(buf[t]) = Answer(buf[t])
        BY <3>3, AnswerType, ConcatEmptySeq
      <4> QED BY <2>3, <2>5, <3>2, <3>3, <4>1 DEF Inv, TypeInv
    <3>5. \A u \in Threads : mine[u] = c => u = t
      BY <1>1, <2>2, <2>5
    <3> QED BY <1>0, <2>1, <3>2, <3>4, <3>5 DEF Pair, Answer, Last
  <2> QED BY <2>4, <2>5
<1>4. CASE ~ Read(t) /\ ~ Write(t)
  <2>1. UNCHANGED <<up, down, buf>>
    BY <1>4 DEF Thread, Begin, ReadEnds, WriteKills, Close, threadVars, netVars
  <2>2. pc' = pc \/ \E p \in {"read", "close", "done"} : pc' = [pc EXCEPT ![t] = p]
    BY <1>4 DEF Thread, Begin, ReadEnds, WriteKills, Close, Goto, threadVars
  <2>3. \A u \in Threads : pc'[u] = "write" => pc[u] = "write"
    BY <2>2 DEF Inv, TypeInv
  <2> QED BY <1>0, <2>1, <2>3, PairSame
<1> QED BY <1>2, <1>3, <1>4

LEMMA PairClient ==
  ASSUME Inv, OneWay, PairInv, NEW c \in Clients, Client(c) PROVE PairInv'
<1>0. UNCHANGED <<presentation, split, pc, mine, buf>>
  BY DEF Client, Connect, ConnectFails, WriteMessage, Receive, Leave, threadVars, setup
<1> SUFFICES ASSUME Whole, NEW x \in Clients, Pair(x) PROVE Pair(x)'
  BY <1>0 DEF PairInv, Whole
<1>1. /\ asked[c] \in Seq(Seq(Bytes)) /\ replies[c] \in Seq(Seq(Bytes))
      /\ Len(asked[c]) \in Nat /\ Len(replies[c]) \in Nat
      /\ up[c] \in Seq(Bytes) /\ down[c] \in Seq(Bytes)
  BY LenProperties DEF Inv, TypeInv
<1>2. CASE x # c
  <2>1. /\ cl'[x] = cl[x] /\ asked'[x] = asked[x] /\ replies'[x] = replies[x]
        /\ up'[x] = up[x] /\ down'[x] = down[x]
    BY <1>2 DEF Client, Connect, ConnectFails, WriteMessage, Receive, Leave, netVars,
                Inv, TypeInv
  <2> QED BY <1>0, <2>1, PairSame
<1>3. CASE x = c /\ Connect(c)
  BY <1>0, <1>3 DEF Connect, Pair, Answer, Last, netVars, Inv, TypeInv
<1>4. CASE x = c /\ ConnectFails(c)
  BY <1>0, <1>4, PairSame DEF ConnectFails, netVars, Inv, TypeInv
<1>5. CASE x = c /\ WriteMessage(c)
  <2>1. PICK n \in Lengths :
          /\ asked' = [asked EXCEPT ![c] = Append(@, Message(c, n))]
          /\ up' = IF ServerGone(c) THEN up ELSE [up EXCEPT ![c] = @ \o Message(c, n)]
    BY <1>5 DEF WriteMessage
  <2> DEFINE m == Message(c, n)
  <2>2. m \in Seq(Bytes)
    BY BoundsAssumption, MessageType DEF Inv
  <2> HIDE DEF m
  <2>3. /\ asked'[c] = Append(asked[c], m) /\ Len(asked'[c]) = Len(asked[c]) + 1
        /\ Last(asked'[c]) = m
        /\ \A k \in 1 .. Len(asked[c]) : asked'[c][k] = asked[c][k]
    <3>1. asked'[c] = Append(asked[c], m)
      BY <2>1 DEF Inv, TypeInv, m
    <3> QED BY <1>1, <2>2, <3>1, AppendProperties DEF Last
  <2>4. /\ cl[c] = "type" /\ cl'[c] = "wait" /\ replies' = replies /\ down' = down
    BY <1>5 DEF WriteMessage, Inv, TypeInv
  <2>5. up[c] = << >> /\ down[c] = << >> /\ ~ Writing(c)
    BY <2>4 DEF OneWay, Whole, Single, Answering
  <2>6. up'[c] \in {<< >>, m}
    <3>1. << >> \o m = m
      BY <2>2, ConcatEmptySeq
    <3> QED BY <2>1, <2>5, <3>1 DEF Inv, TypeInv, m
  <2>7. Len(replies[c]) = Len(asked[c])
    BY <1>5, <2>4 DEF Pair
  <2>8. \A k \in 1 .. Len(replies[c]) : replies[c][k] = Answer(asked'[c][k])
    BY <1>5, <2>3, <2>7 DEF Pair
  <2> QED BY <1>0, <1>1, <1>5, <2>3, <2>4, <2>5, <2>6, <2>7, <2>8
          DEF Pair, Answer, Writing
<1>6. CASE x = c /\ Receive(c)
  <2>1. cl[c] = "wait" /\ asked' = asked /\ up' = up
    BY <1>6 DEF Receive
  <2>2. CASE cl' = [cl EXCEPT ![c] = "left"] /\ UNCHANGED <<replies, down>>
    <3>1. cl'[c] = "left"
      BY <2>2 DEF Inv, TypeInv
    <3> QED BY <1>0, <1>6, <2>1, <2>2, <3>1, PairSame
  <2>3. ASSUME NEW chunk \in Chunks(down[c]), cl' = [cl EXCEPT ![c] = "type"],
               replies' = [replies EXCEPT ![c] = Append(@, chunk)]
        PROVE  Pair(c)'
    <3>1. chunk = down[c] /\ down[c] # << >> /\ chunk \in Seq(Bytes)
      BY <1>1, <2>3, ChunkOf DEF Whole
    <3>2. /\ chunk = Answer(asked[c][Len(asked[c])])
          /\ Len(asked[c]) = Len(replies[c]) + 1
          /\ \A k \in 1 .. Len(replies[c]) : replies[c][k] = Answer(asked[c][k])
      BY <1>6, <2>1, <3>1 DEF Pair, Last
    <3>3. /\ Len(replies'[c]) = Len(replies[c]) + 1
          /\ replies'[c][Len(replies[c]) + 1] = chunk
          /\ \A k \in 1 .. Len(replies[c]) : replies'[c][k] = replies[c][k]
      <4>1. replies'[c] = Append(replies[c], chunk)
        BY <2>3 DEF Inv, TypeInv
      <4> QED BY <1>1, <3>1, <4>1, AppendProperties
    <3>4. cl'[c] = "type"
      BY <2>3 DEF Inv, TypeInv
    <3>5. ASSUME NEW k \in 1 .. Len(replies'[c]) PROVE replies'[c][k] = Answer(asked[c][k])
      <4>1. k \in 1 .. Len(replies[c]) \/ k = Len(replies[c]) + 1
        BY <1>1, <3>3
      <4> QED BY <3>2, <3>3, <4>1
    <3> QED BY <1>0, <1>1, <2>1, <3>2, <3>3, <3>4, <3>5 DEF Pair, Answer
  <2> QED BY <1>6, <2>2, <2>3 DEF Receive, Whole
<1>7. CASE x = c /\ Leave(c)
  BY <1>0, <1>7, PairSame DEF Leave, Inv, TypeInv
<1> QED BY <1>2, <1>3, <1>4, <1>5, <1>6, <1>7 DEF Client

LEMMA PairHolds == Spec => [](OnTime => PairInv)
<1>1. Init => PairInv
  <2>1. Len(<< >>) = 0
    BY EmptySeq
  <2> QED BY <2>1 DEF Init, PairInv, Pair
<1>2. /\ TypeInv /\ (OnTime => Inv /\ OneWay) /\ (OnTime => PairInv) /\ [Next]_vars
      => (OnTime' => PairInv')
  <2> SUFFICES ASSUME Inv, OneWay, PairInv, [Next]_vars PROVE PairInv'
    BY OnTimeBefore
  <2>1. CASE UNCHANGED vars
    <3>1. UNCHANGED <<presentation, split, cl, asked, replies, up, down, pc, mine, buf>>
      BY <2>1 DEF vars, threadVars, clientVars, netVars, setup
    <3>2. ASSUME NEW c \in Clients, Pair(c) PROVE Pair(c)'
      BY <3>1, <3>2, PairSame
    <3> QED BY <3>1, <3>2 DEF PairInv, Whole
  <2> QED BY <2>1, PairMain, PairThread, PairClient DEF Next, Idle
<1> QED BY <1>1, <1>2, InvHolds, OneWayHolds, PTL DEF Spec

\* With nothing split, the k-th answer a client reads is server.c's answer to
\* the k-th message it wrote, until main overtakes a thread.
THEOREM RepliesMatch == Spec => []ReplyMatches
<1>1. (OnTime => Inv) /\ (OnTime => PairInv) => ReplyMatches
  <2> SUFFICES ASSUME Inv, PairInv, Whole, NEW c \in Clients, NEW k \in DOMAIN replies[c]
               PROVE  replies[c][k] = Answer(asked[c][k])
    BY DEF OnTime, Whole, ReplyMatches
  <2>1. DOMAIN replies[c] = 1 .. Len(replies[c])
    BY LenProperties DEF Inv, TypeInv
  <2> QED BY <2>1 DEF PairInv, Pair
<1> QED BY <1>1, InvHolds, PairHolds, PTL

-----------------------------------------------------------------------------
(* The stream of a client's bytes *)

Stream(c) ==
  FlattenSeq(replies[c]) \o down[c] \o Held(c) \o up[c] = FlattenSeq(asked[c])

\* Nothing of a client that has not connected is anywhere.
NewInv == \A c \in Clients : cl[c] = "new" =>
  /\ up[c] = << >> /\ down[c] = << >>
  /\ asked[c] = << >> /\ replies[c] = << >>

LEMMA AllButOneEmpty ==
  ASSUME NEW s \in [Threads -> Seq(Bytes)], NEW t \in Threads,
         \A u \in Threads : u # t => s[u] = << >>
  PROVE  FlattenSeq(s) = s[t]
<1> DEFINE n == Cardinality(Clients) + MaxErrors
<1>1. n \in Nat /\ Threads = 1 .. n
  BY Numbers, BoundsAssumption DEF Threads
<1> HIDE DEF n
<1>2. \A m \in Nat : \A r \in [1 .. m -> Seq(Bytes)] : \A j \in 1 .. m :
        (\A i \in 1 .. m : i # j => r[i] = << >>) => FlattenSeq(r) = r[j]
  BY ZenonT(30), FlatOne
<1> QED BY ZenonT(30), <1>1, <1>2

\* What is held of client c, when all threads but t hold nothing of it.
LEMMA HeldOne ==
  ASSUME TypeInv, NEW c, NEW t \in Threads,
         \A u \in Threads \ {t} : Peer(u) = c => buf[u] = << >>
  PROVE  Held(c) = IF Peer(t) = c THEN buf[t] ELSE << >>
<1> DEFINE s == [u \in Threads |-> IF Peer(u) = c THEN buf[u] ELSE << >>]
<1>1. \A u \in Threads : buf[u] \in Seq(Bytes) /\ << >> \in Seq(Bytes)
  BY EmptySeq DEF TypeInv
<1>2. /\ s \in [Threads -> Seq(Bytes)]
      /\ \A u \in Threads : u # t => s[u] = << >>
      /\ s[t] = IF Peer(t) = c THEN buf[t] ELSE << >>
  BY <1>1
<1>3. Held(c) = FlattenSeq(s)
  BY DEF Held
<1> HIDE DEF s
<1>4. FlattenSeq(s) = s[t]
  BY <1>2, AllButOneEmpty
<1> QED BY <1>2, <1>3, <1>4

LEMMA HeldOneAfter ==
  ASSUME TypeInv', NEW c, NEW t \in Threads,
         \A u \in Threads \ {t} : Peer(u)' = c => buf'[u] = << >>
  PROVE  Held(c)' = IF Peer(t)' = c THEN buf'[t] ELSE << >>
<1> DEFINE s == [u \in Threads |-> IF Peer(u)' = c THEN buf'[u] ELSE << >>]
<1>1. \A u \in Threads : buf'[u] \in Seq(Bytes) /\ << >> \in Seq(Bytes)
  BY EmptySeq DEF TypeInv
<1>2. /\ s \in [Threads -> Seq(Bytes)]
      /\ \A u \in Threads : u # t => s[u] = << >>
      /\ s[t] = IF Peer(t)' = c THEN buf'[t] ELSE << >>
  BY <1>1
<1>3. Held(c)' = FlattenSeq(s)
  BY DEF Held
<1> HIDE DEF s
<1>4. FlattenSeq(s) = s[t]
  BY <1>2, AllButOneEmpty
<1> QED BY <1>2, <1>3, <1>4

\* A thread that holds anything is writing to the client it was created for.
LEMMA HolderWrites ==
  ASSUME Inv, NEW u \in Threads, buf[u] # << >>
  PROVE  /\ pc[u] = "write" /\ Peer(u) = mine[u] /\ mine[u] \in Clients
         /\ fd[u] \in Fds /\ table[fd[u]] = mine[u]
BY PeerOf, Numbers DEF Inv, ServerInv, BufInv, OwnerInv, Conn, TypeInv

\* A step after which client c has the same, and the same is on its way.
LEMMA StreamSame ==
  ASSUME NEW c, Stream(c), asked'[c] = asked[c], replies'[c] = replies[c],
         up'[c] = up[c], down'[c] = down[c],
         \A u \in Threads : (IF Peer(u)' = c THEN buf'[u] ELSE << >>)
                              = (IF Peer(u) = c THEN buf[u] ELSE << >>)
  PROVE  Stream(c)'
<1>1. [u \in Threads |-> IF Peer(u)' = c THEN buf'[u] ELSE << >>]
        = [u \in Threads |-> IF Peer(u) = c THEN buf[u] ELSE << >>]
  OBVIOUS
<1>2. Held(c)' = Held(c)
  BY <1>1 DEF Held
<1> QED BY <1>2 DEF Stream

\* A step that leaves what is held and the descriptors of those that hold it.
LEMMA HeldStays ==
  ASSUME Inv, NEW c, buf' = buf,
         \A u \in Threads : buf[u] # << >> => fd'[u] = fd[u] /\ table'[fd[u]] = table[fd[u]]
  PROVE  \A u \in Threads : (IF Peer(u)' = c THEN buf'[u] ELSE << >>)
                              = (IF Peer(u) = c THEN buf[u] ELSE << >>)
<1> TAKE u \in Threads
<1>1. CASE buf[u] = << >>
  BY <1>1
<1>2. CASE buf[u] # << >>
  BY <1>2 DEF Peer
<1> QED BY <1>1, <1>2

LEMMA NewStep == ASSUME Inv, NewInv, [Next]_vars PROVE NewInv'
<1> SUFFICES ASSUME NEW c \in Clients, cl'[c] = "new"
             PROVE  /\ up'[c] = << >> /\ down'[c] = << >>
                    /\ asked'[c] = << >> /\ replies'[c] = << >>
  BY DEF NewInv
<1> USE DEF Inv, TypeInv
<1>1. CASE Main \/ UNCHANGED vars
  BY <1>1 DEF Main, Accept, AcceptFails, CreateThread, CreateFails, clientVars, netVars,
              vars, NewInv
<1>2. ASSUME NEW t \in Threads, Thread(t)
      PROVE  /\ up'[c] = << >> /\ down'[c] = << >>
             /\ asked'[c] = << >> /\ replies'[c] = << >>
  <2>1. /\ UNCHANGED <<asked, replies, cl>>
        /\ \/ UNCHANGED <<up, down>>
           \/ pc[t] \in {"read", "write"} /\ Peer(t) # None
    BY <1>2 DEF Thread, Begin, Read, ReadEnds, Write, WriteKills, Close, Goto,
                clientVars, netVars
  <2>2. CASE UNCHANGED <<up, down>>
    BY <2>1, <2>2 DEF NewInv
  <2>3. CASE pc[t] \in {"read", "write"} /\ Peer(t) # None
    <3>1. mine[t] = Peer(t) /\ Peer(t) # c
      BY <2>1, <2>3, PeerOf DEF ServerInv, FreshInv
    <3>2. up'[c] = up[c] /\ down'[c] = down[c]
      BY <1>2, <3>1 DEF Thread, Begin, Read, ReadEnds, Write, WriteKills, Close, Send, netVars
    <3> QED BY <2>1, <3>2 DEF NewInv
  <2> QED BY <2>1, <2>2, <2>3
<1>3. ASSUME NEW x \in Clients, Client(x)
      PROVE  /\ up'[c] = << >> /\ down'[c] = << >>
             /\ asked'[c] = << >> /\ replies'[c] = << >>
  <2>1. x # c
    BY <1>3 DEF Client, Connect, ConnectFails, WriteMessage, Receive, Leave
  <2> QED BY ZenonT(30), <1>3, <2>1 DEF Client, Connect, ConnectFails, WriteMessage, Receive, Leave,
                            netVars, NewInv
<1> QED BY <1>1, <1>2, <1>3 DEF Next, Idle

LEMMA StreamMain == ASSUME Inv, OnTime, StreamKept, Main PROVE StreamKept'
<1> SUFFICES ASSUME presentation', NEW c \in Clients,
                    cl'[c] \in {"type", "wait"}, ~ ServerGone(c)'
             PROVE  Stream(c)'
  BY DEF StreamKept, OnTime, Stream
<1>1. UNCHANGED <<presentation, cl, asked, replies, up, down, fd, buf>>
  BY DEF Main, Accept, AcceptFails, CreateThread, CreateFails,
         threadVars, clientVars, netVars, setup
<1>2. server' # "dead"
  BY DEF ServerGone
<1>3. CASE Accept
  <2>1. closed' = closed /\ server # "dead"
    BY <1>3 DEF Accept, netVars
  <2>2. Stream(c)
    BY <1>1, <2>1 DEF StreamKept, OnTime, Stream, ServerGone
  <2>3. PICK f \in Fds : table[f] = None /\ table' = [table EXCEPT ![f] = who']
    BY <1>3, LowestFree DEF Accept, Free
  <2>4. ASSUME NEW u \in Threads, buf[u] # << >>
        PROVE  fd'[u] = fd[u] /\ table'[fd[u]] = table[fd[u]]
    BY <1>1, <2>3, <2>4, HolderWrites, Numbers DEF Inv, TypeInv
  <2> QED BY <1>1, <2>2, <2>4, HeldStays, StreamSame
<1>4. CASE AcceptFails \/ CreateFails
  BY <1>1, <1>2, <1>4 DEF AcceptFails, CreateFails, Dies
<1>5. CASE CreateThread
  <2>1. closed' = closed /\ server # "dead" /\ table' = table
    BY <1>5 DEF CreateThread, netVars
  <2>2. Stream(c)
    BY <1>1, <2>1 DEF StreamKept, OnTime, Stream, ServerGone
  <2> QED BY <1>1, <2>1, <2>2, HeldStays, StreamSame
<1> QED BY <1>3, <1>4, <1>5 DEF Main

LEMMA StreamThread ==
  ASSUME Inv, OnTime, TypeInv', StreamKept, NEW t \in Threads, Thread(t) PROVE StreamKept'
<1> SUFFICES ASSUME presentation', NEW c \in Clients,
                    cl'[c] \in {"type", "wait"}, ~ ServerGone(c)'
             PROVE  Stream(c)'
  BY DEF StreamKept, OnTime, Stream
<1>0. /\ UNCHANGED <<presentation, cl, asked, replies, mine>>
      /\ closed'[c] = FALSE => closed[c] = FALSE
      /\ server' = server
  BY DEF Thread, Begin, Read, ReadEnds, Write, WriteKills, Close, CloseFd, Dies, mainVars,
         threadVars, clientVars, netVars, setup, ServerGone, Inv, TypeInv
<1>1. Stream(c) /\ presentation
  BY ZenonT(30), <1>0 DEF StreamKept, OnTime, Stream, ServerGone, Inv, TypeInv
<1> DEFINE F == FlattenSeq(replies[c])
<1>2. /\ F \in Seq(Bytes) /\ down[c] \in Seq(Bytes) /\ up[c] \in Seq(Bytes)
      /\ << >> \in Seq(Bytes) /\ F \o down[c] \in Seq(Bytes)
  <2>1. << >> \in Seq(Bytes) /\ replies[c] \in Seq(Seq(Bytes))
        /\ down[c] \in Seq(Bytes) /\ up[c] \in Seq(Bytes)
    BY EmptySeq DEF Inv, TypeInv
  <2>2. F \in Seq(Bytes)
    BY <2>1, FlatAppend
  <2> HIDE DEF F
  <2> QED BY <2>1, <2>2, ConcatProperties
<1> HIDE DEF F
<1>3. ASSUME mine[t] = c
      PROVE  \A u \in Threads \ {t} : Peer(u) = c => buf[u] = << >>
  BY <1>3, HolderWrites, Numbers DEF Inv, ServerInv, OwnerInv
<1>4. CASE Begin(t)
  <2>1. /\ UNCHANGED <<table, buf, up, down>> /\ buf[t] = << >>
        /\ \A u \in Threads \ {t} : fd'[u] = fd[u]
    BY <1>4 DEF Begin, Goto, netVars, Inv, TypeInv, ServerInv, BufInv
  <2> QED BY <1>0, <1>1, <2>1, HeldStays, StreamSame
<1>5. CASE Read(t)
  <2>1. PICK chunk \in Chunks(up[Peer(t)]) :
          /\ buf' = [buf EXCEPT ![t] = chunk]
          /\ up' = [up EXCEPT ![Peer(t)] = Rest(@, chunk)]
    BY <1>5 DEF Read
  <2>2. /\ Peer(t) # None /\ pc[t] = "read" /\ UNCHANGED <<table, fd, down>>
        /\ \A u \in Threads : Peer(u)' = Peer(u)
    BY <1>5 DEF Read, Goto, Peer
  <2>3. Peer(t) = mine[t] /\ Peer(t) \in Clients /\ buf[t] = << >>
    BY <2>2, PeerOf DEF Inv, ServerInv, BufInv, TypeInv
  <2>4. buf'[t] = chunk /\ \A u \in Threads \ {t} : buf'[u] = buf[u]
    BY <2>1 DEF Inv, TypeInv
  <2>5. CASE Peer(t) # c
    <3>1. up'[c] = up[c]
      BY <2>1, <2>5 DEF Inv, TypeInv
    <3>2. \A u \in Threads : (IF Peer(u)' = c THEN buf'[u] ELSE << >>)
                               = (IF Peer(u) = c THEN buf[u] ELSE << >>)
      BY <2>2, <2>4, <2>5
    <3> QED BY <1>0, <1>1, <2>2, <3>1, <3>2, StreamSame
  <2>6. CASE Peer(t) = c
    <3>1. Held(c) = << >>
      BY <1>3, <2>3, <2>6, HeldOne DEF Inv
    <3>2. Held(c)' = chunk
      BY <1>3, <2>2, <2>3, <2>4, <2>6, HeldOneAfter
    <3> DEFINE r == Rest(up[c], chunk)
    <3>3. chunk \in Seq(Bytes) /\ r \in Seq(Bytes) /\ up[c] = chunk \o r
      BY <1>2, <2>6, ChunkOf
    <3>4. up'[c] = r
      BY <2>1, <2>6 DEF Inv, TypeInv
    <3> HIDE DEF r
    <3>5. (F \o down[c]) \o << >> = F \o down[c]
      BY <1>2, ConcatEmptySeq
    <3>6. ((F \o down[c]) \o chunk) \o r = (F \o down[c]) \o (chunk \o r)
      <4>1. \A a, b, d \in Seq(Bytes) : (a \o b) \o d = a \o (b \o d)
        BY SMTT(30), ConcatAssociative
      <4> QED BY ZenonT(30), <1>2, <3>3, <4>1
    <3> QED BY <1>0, <1>1, <2>2, <3>1, <3>2, <3>3, <3>4, <3>5, <3>6 DEF Stream, F
  <2> QED BY <2>5, <2>6
<1>6. CASE Write(t)
  <2>1. /\ buf' = [buf EXCEPT ![t] = << >>] /\ pc[t] = "write"
        /\ UNCHANGED <<table, fd, up>> /\ \A u \in Threads : Peer(u)' = Peer(u)
    BY <1>6 DEF Write, Goto, Peer
  <2>2. Peer(t) = mine[t] /\ Peer(t) \in Clients /\ Peer(t) # None
    BY <2>1, PeerOf DEF Inv, ServerInv, BufInv, TypeInv
  <2>3. buf'[t] = << >> /\ buf[t] \in Seq(Bytes) /\ \A u \in Threads \ {t} : buf'[u] = buf[u]
    BY <2>1 DEF Inv, TypeInv
  <2>4. CASE Peer(t) # c
    <3>1. down'[c] = down[c]
      BY <1>6, <2>2, <2>4 DEF Write, Send, Inv, TypeInv
    <3>2. \A u \in Threads : (IF Peer(u)' = c THEN buf'[u] ELSE << >>)
                               = (IF Peer(u) = c THEN buf[u] ELSE << >>)
      BY <2>1, <2>3, <2>4
    <3> QED BY <1>0, <1>1, <2>1, <3>1, <3>2, StreamSame
  <2>5. CASE Peer(t) = c
    <3>1. Held(c) = buf[t]
      BY <1>3, <2>2, <2>5, HeldOne DEF Inv
    <3>2. Held(c)' = << >>
      BY <1>3, <2>1, <2>2, <2>3, <2>5, HeldOneAfter
    <3>3. down'[c] = down[c] \o buf[t]
      BY <1>0, <1>1, <1>6, <2>2, <2>5 DEF Write, Send, Answer, Inv, TypeInv
    <3>4. F \o (down[c] \o buf[t]) = (F \o down[c]) \o buf[t]
      <4>1. \A a, b, d \in Seq(Bytes) : (a \o b) \o d = a \o (b \o d)
        BY SMTT(30), ConcatAssociative
      <4>2. F \in Seq(Bytes) /\ down[c] \in Seq(Bytes) /\ buf[t] \in Seq(Bytes)
        BY <1>2, <2>3
      <4> QED BY Zenon, <4>1, <4>2
    <3>5. ((F \o down[c]) \o buf[t]) \o << >> = (F \o down[c]) \o buf[t]
      <4>1. (F \o down[c]) \o buf[t] \in Seq(Bytes)
        BY <1>2, <2>3, ConcatProperties
      <4> QED BY <4>1, ConcatEmptySeq
    <3> QED BY <1>0, <1>1, <2>1, <3>1, <3>2, <3>3, <3>4, <3>5 DEF Stream, F
  <2> QED BY <2>4, <2>5
<1>7. CASE Close(t)
  <2>1. UNCHANGED <<fd, buf, up, down>> /\ pc[t] = "close" /\ CloseFd(fd[t])
    BY <1>7 DEF Close, Goto
  <2>2. ASSUME NEW u \in Threads, buf[u] # << >>
        PROVE  table'[fd[u]] = table[fd[u]]
    <3>1. pc[u] = "write" /\ mine[u] \in Clients /\ fd[u] \in Fds /\ table[fd[u]] = mine[u]
      BY <2>2, HolderWrites
    <3>2. fd[u] # fd[t]
      BY <2>1, <3>1, Numbers DEF Inv, ServerInv, OwnerInv, Conn
    <3> QED BY <2>1, <3>1, <3>2 DEF CloseFd, Inv, TypeInv
  <2> QED BY <1>0, <1>1, <2>1, <2>2, HeldStays, StreamSame
<1>8. CASE ReadEnds(t)
  <2>1. UNCHANGED <<table, fd, buf, up, down>>
    BY <1>8 DEF ReadEnds, netVars
  <2> QED BY <1>0, <1>1, <2>1, HeldStays, StreamSame
<1>9. CASE WriteKills(t)
  BY <1>9 DEF WriteKills, Dies, ServerGone
<1> QED BY <1>4, <1>5, <1>6, <1>7, <1>8, <1>9 DEF Thread

\* What is held of a client that has not connected is nothing.
LEMMA HeldType ==
  ASSUME Inv, NEW c \in Clients
  PROVE  Held(c) \in Seq(Bytes) /\ (cl[c] = "new" => Held(c) = << >>)
<1>1. 1 \in Threads
  <2>1. Clients # {} /\ Cardinality(Clients) # 0
    BY BoundsAssumption, FS_EmptySet
  <2> QED BY <2>1, Numbers, BoundsAssumption DEF Threads
<1>2. << >> \in Seq(Bytes) /\ \A u \in Threads : buf[u] \in Seq(Bytes)
  BY EmptySeq DEF Inv, TypeInv
<1>3. CASE \E t \in Threads : Peer(t) = c /\ buf[t] # << >>
  <2>1. PICK t \in Threads : Peer(t) = c /\ buf[t] # << >>
    BY <1>3
  <2>2. mine[t] = c
    BY <2>1, HolderWrites
  <2>3. \A u \in Threads \ {t} : Peer(u) = c => buf[u] = << >>
    BY <2>2, HolderWrites, Numbers DEF Inv, ServerInv, OwnerInv
  <2>4. Held(c) = buf[t]
    BY <2>1, <2>3, HeldOne DEF Inv
  <2> QED BY <1>2, <2>2, <2>4 DEF Inv, ServerInv, FreshInv
<1>4. CASE ~ \E t \in Threads : Peer(t) = c /\ buf[t] # << >>
  <2>1. Held(c) = << >>
    BY <1>1, <1>4, HeldOne DEF Inv
  <2> QED BY <1>2, <2>1
<1> QED BY <1>3, <1>4

LEMMA StreamClient ==
  ASSUME Inv, OnTime, NewInv, StreamKept, NEW x \in Clients, Client(x) PROVE StreamKept'
<1> SUFFICES ASSUME presentation', NEW c \in Clients,
                    cl'[c] \in {"type", "wait"}, ~ ServerGone(c)'
             PROVE  Stream(c)'
  BY DEF StreamKept, OnTime, Stream
<1>0. UNCHANGED <<presentation, server, closed, table, fd, buf>>
  BY DEF Client, Connect, ConnectFails, WriteMessage, Receive, Leave, mainVars, threadVars,
         netVars, setup
<1>1. presentation /\ ~ ServerGone(c)
  BY <1>0 DEF ServerGone
<1>2. \A u \in Threads : (IF Peer(u)' = c THEN buf'[u] ELSE << >>)
                           = (IF Peer(u) = c THEN buf[u] ELSE << >>)
  BY <1>0, HeldStays
<1>3. Held(c)' = Held(c)
  <2>1. [u \in Threads |-> IF Peer(u)' = c THEN buf'[u] ELSE << >>]
          = [u \in Threads |-> IF Peer(u) = c THEN buf[u] ELSE << >>]
    BY <1>2
  <2> QED BY <2>1 DEF Held
<1>4. Held(c) \in Seq(Bytes) /\ (cl[c] = "new" => Held(c) = << >>)
  BY HeldType
<1> DEFINE F == FlattenSeq(replies[c])
           H == Held(c)
<1>5. /\ F \in Seq(Bytes) /\ down[c] \in Seq(Bytes) /\ up[c] \in Seq(Bytes)
      /\ << >> \in Seq(Bytes) /\ F \o down[c] \in Seq(Bytes)
      /\ asked[c] \in Seq(Seq(Bytes)) /\ replies[c] \in Seq(Seq(Bytes))
      /\ (F \o down[c]) \o H \in Seq(Bytes)
  <2>1. /\ << >> \in Seq(Bytes) /\ replies[c] \in Seq(Seq(Bytes))
        /\ down[c] \in Seq(Bytes) /\ up[c] \in Seq(Bytes) /\ asked[c] \in Seq(Seq(Bytes))
    BY EmptySeq DEF Inv, TypeInv
  <2>2. F \in Seq(Bytes)
    BY <2>1, FlatAppend
  <2>3. H \in Seq(Bytes)
    BY <1>4
  <2> HIDE DEF F, H
  <2>4. F \o down[c] \in Seq(Bytes)
    BY <2>1, <2>2, ConcatProperties
  <2> QED BY <2>1, <2>2, <2>3, <2>4, ConcatProperties
<1> HIDE DEF F, H
<1>6. CASE x # c
  <2>1. /\ cl'[c] = cl[c] /\ asked'[c] = asked[c] /\ replies'[c] = replies[c]
        /\ up'[c] = up[c] /\ down'[c] = down[c]
    BY ZenonT(30), <1>6 DEF Client, Connect, ConnectFails, WriteMessage, Receive, Leave, netVars,
                Inv, TypeInv
  <2>2. Stream(c)
    BY <1>1, <2>1 DEF StreamKept, OnTime, Stream
  <2> QED BY <1>2, <2>1, <2>2, StreamSame
<1>7. CASE x = c /\ Connect(c)
  <2>1. cl[c] = "new" /\ UNCHANGED <<asked, replies, up, down>>
    BY <1>7 DEF Connect, netVars
  <2>2. /\ up[c] = << >> /\ down[c] = << >> /\ asked[c] = << >> /\ replies[c] = << >>
        /\ Held(c) = << >>
    BY <1>4, <2>1 DEF NewInv
  <2>3. FlattenSeq(<< >>) = << >> /\ << >> \o << >> = << >>
    <3>1. Len(<< >>) = 0 /\ << >> \o << >> = << >>
      BY <1>5, EmptySeq, ConcatEmptySeq
    <3> QED BY <3>1 DEF FlattenSeq
  <2> QED BY <1>3, <2>1, <2>2, <2>3 DEF Stream
<1>8. CASE x = c /\ WriteMessage(c)
  <2>1. PICK n \in Lengths :
          /\ asked' = [asked EXCEPT ![c] = Append(@, Message(c, n))]
          /\ up' = [up EXCEPT ![c] = @ \o Message(c, n)]
    BY <1>1, <1>8 DEF WriteMessage
  <2> DEFINE m == Message(c, n)
  <2>2. m \in Seq(Bytes)
    BY BoundsAssumption, MessageType DEF Inv
  <2>3. /\ asked'[c] = Append(asked[c], m) /\ up'[c] = up[c] \o m
        /\ replies' = replies /\ down' = down
    BY <1>8, <2>1 DEF WriteMessage, Inv, TypeInv
  <2> HIDE DEF m
  <2>4. FlattenSeq(asked'[c]) = FlattenSeq(asked[c]) \o m
    BY <1>5, <2>2, <2>3, FlatAppend
  <2>5. Stream(c)
    BY <1>1, <1>8 DEF StreamKept, OnTime, Stream, WriteMessage
  <2>6. ((F \o down[c]) \o H) \o (up[c] \o m) = (((F \o down[c]) \o H) \o up[c]) \o m
    <3>1. \A a, b, d \in Seq(Bytes) : (a \o b) \o d = a \o (b \o d)
      BY SMTT(30), ConcatAssociative
    <3>2. (F \o down[c]) \o H \in Seq(Bytes) /\ up[c] \in Seq(Bytes) /\ m \in Seq(Bytes)
      BY <1>5, <2>2
    <3> QED BY Zenon, <3>1, <3>2
  <2> QED BY <1>3, <2>3, <2>4, <2>5, <2>6 DEF Stream, F, H
<1>9. CASE x = c /\ Receive(c)
  <2>2. PICK chunk \in Chunks(down[c]) :
          /\ replies' = [replies EXCEPT ![c] = Append(@, chunk)]
          /\ down' = [down EXCEPT ![c] = Rest(@, chunk)]
    BY <1>1, <1>9 DEF Receive
  <2> DEFINE r == Rest(down[c], chunk)
  <2>3. chunk \in Seq(Bytes) /\ r \in Seq(Bytes) /\ down[c] = chunk \o r
    BY <1>5, ChunkOf
  <2>4. /\ replies'[c] = Append(replies[c], chunk) /\ down'[c] = r
        /\ asked' = asked /\ up' = up
    BY <1>9, <2>2 DEF Receive, Inv, TypeInv
  <2> HIDE DEF r
  <2>5. FlattenSeq(replies'[c]) = F \o chunk
    BY ZenonT(30), <1>5, <2>3, <2>4, FlatAppend DEF F
  <2>6. Stream(c)
    BY <1>1, <1>9 DEF StreamKept, OnTime, Stream, Receive
  <2>7. (F \o chunk) \o r = F \o (chunk \o r)
    <3>1. \A a, b, d \in Seq(Bytes) : (a \o b) \o d = a \o (b \o d)
      BY SMTT(30), ConcatAssociative
    <3>2. F \in Seq(Bytes) /\ chunk \in Seq(Bytes) /\ r \in Seq(Bytes)
      BY <1>5, <2>3
    <3> QED BY Zenon, <3>1, <3>2
  <2> QED BY <1>3, <2>3, <2>4, <2>5, <2>6, <2>7 DEF Stream, F
<1>10. CASE x = c /\ (ConnectFails(c) \/ Leave(c))
  BY <1>10 DEF ConnectFails, Leave, Inv, TypeInv
<1> QED BY <1>6, <1>7, <1>8, <1>9, <1>10 DEF Client

LEMMA StreamHolds == Spec => []((OnTime => NewInv) /\ StreamKept)
<1>1. Init => NewInv /\ StreamKept
  BY DEF Init, NewInv, StreamKept
<1>2. /\ TypeInv /\ TypeInv' /\ (OnTime => Inv) /\ (OnTime => NewInv) /\ StreamKept
      /\ [Next]_vars
      => (OnTime' => NewInv') /\ StreamKept'
  <2>0. OnTime' \/ StreamKept'
    BY DEF StreamKept, OnTime
  <2> SUFFICES ASSUME Inv, OnTime, TypeInv', NewInv, StreamKept, [Next]_vars PROVE StreamKept'
    BY <2>0, NewStep, OnTimeBefore
  <2>1. CASE UNCHANGED vars
    <3>1. UNCHANGED <<presentation, server, closed, cl, asked, replies, up, down, table, fd, buf>>
      BY <2>1 DEF vars, mainVars, threadVars, clientVars, netVars, setup
    <3>2. ASSUME NEW c \in Clients, Stream(c) PROVE Stream(c)'
      BY <3>1, <3>2, HeldStays, StreamSame
    <3> QED BY <3>1, <3>2 DEF StreamKept, OnTime, Stream, ServerGone
  <2> QED BY <2>1, StreamMain, StreamThread, StreamClient DEF Next, Idle
<1> QED BY <1>1, <1>2, InvHolds, PTL DEF Spec

\* Every byte a client of the presentation's server has written is, once and in
\* order, in an answer, under way or in its thread's buffer, however TCP cuts
\* the stream, until the server closes the connection or main overtakes a thread.
THEOREM StreamsAreKept == Spec => []StreamKept
BY StreamHolds, PTL

-----------------------------------------------------------------------------
(* The service that a client sees *)

\* A connection the server has closed is never its client's again.
GoneInv == \A c \in Clients : closed[c] =>
  cl[c] # "new" /\ ~ Queued(c) /\ \A f \in Fds : table[f] # c

\* What the client of the presentation's server has read, and what is on its way
\* to the client, is the beginning of what it has written.
Behind(c) == \E r \in Seq(Bytes) :
  (FlattenSeq(replies[c]) \o down[c]) \o r = FlattenSeq(asked[c])
BehindInv == presentation => \A c \in Clients : Behind(c)

LEMMA Regroup ==
  \A a, b, d \in Seq(Bytes) :
    a \o b \in Seq(Bytes) /\ (a \o b) \o d = a \o (b \o d)
<1>1. \A a, b \in Seq(Bytes) : a \o b \in Seq(Bytes)
  BY SMTT(30), ConcatProperties
<1>2. \A a, b, d \in Seq(Bytes) : (a \o b) \o d = a \o (b \o d)
  BY SMTT(30), ConcatAssociative
<1> QED BY Zenon, <1>1, <1>2

LEMMA StreamTypes ==
  ASSUME TypeInv, NEW c \in Clients
  PROVE  /\ asked[c] \in Seq(Seq(Bytes)) /\ replies[c] \in Seq(Seq(Bytes))
         /\ FlattenSeq(asked[c]) \in Seq(Bytes) /\ FlattenSeq(replies[c]) \in Seq(Bytes)
         /\ up[c] \in Seq(Bytes) /\ down[c] \in Seq(Bytes) /\ << >> \in Seq(Bytes)
<1>1. /\ asked[c] \in Seq(Seq(Bytes)) /\ replies[c] \in Seq(Seq(Bytes))
      /\ up[c] \in Seq(Bytes) /\ down[c] \in Seq(Bytes) /\ << >> \in Seq(Bytes)
  BY EmptySeq DEF TypeInv
<1>2. FlattenSeq(asked[c]) \in Seq(Bytes) /\ FlattenSeq(replies[c]) \in Seq(Bytes)
  BY <1>1, FlatAppend
<1> QED BY <1>1, <1>2

\* close(f), as it concerns the connections that are closed.
LEMMA CloseGone ==
  ASSUME Inv, GoneInv, NEW f \in Fds \cup {None}, CloseFd(f), UNCHANGED <<cl, backlog>>
  PROVE  GoneInv'
<1> SUFFICES ASSUME NEW c \in Clients, closed'[c]
             PROVE  cl[c] # "new" /\ ~ Queued(c) /\ \A g \in Fds : table'[g] # c
  BY DEF GoneInv, Queued
<1>1. CASE UNCHANGED <<table, closed>>
  BY <1>1 DEF GoneInv
<1>2. CASE f # None /\ table[f] # None /\ table' = [table EXCEPT ![f] = None]
           /\ closed' = [closed EXCEPT ![table[f]] = TRUE]
  <2>1. f \in Fds /\ table[f] \in Clients
    BY <1>2 DEF Inv, TypeInv
  <2>2. \A g \in Fds : table'[g] = IF g = f THEN None ELSE table[g]
    BY <1>2, <2>1 DEF Inv, TypeInv
  <2>3. CASE c = table[f]
    <3>1. \A g \in Fds : table[g] = c => g = f
      BY <1>2, <2>1, <2>3 DEF Inv, ServerInv, OwnerInv
    <3>2. \A g \in Fds : table'[g] # c
      BY <2>1, <2>2, <3>1, Numbers
    <3> QED BY <2>1, <2>3, <3>2 DEF Inv, ServerInv, FreshInv
  <2>4. CASE c # table[f]
    <3>1. closed[c]
      BY <1>2, <2>4 DEF Inv, TypeInv
    <3> QED BY <2>2, <3>1, Numbers DEF GoneInv
  <2> QED BY <2>3, <2>4
<1> QED BY <1>1, <1>2 DEF CloseFd

LEMMA GoneStep == ASSUME Inv, GoneInv, [Next]_vars PROVE GoneInv'
<1>1. CASE UNCHANGED <<table, closed, cl, backlog>>
  BY <1>1 DEF GoneInv, Queued
<1>2. CASE Accept
  <2>1. /\ UNCHANGED <<closed, cl>> /\ backlog # << >>
        /\ who' = Head(backlog) /\ backlog' = Tail(backlog)
    BY <1>2 DEF Accept, clientVars, netVars
  <2>2. PICK f \in Fds : table[f] = None /\ table' = [table EXCEPT ![f] = who']
    BY <1>2, LowestFree DEF Accept, Free
  <2>3. /\ backlog \in Seq(Clients) /\ Len(backlog) \in Nat \ {0}
        /\ who' = backlog[1] /\ Len(backlog') = Len(backlog) - 1
        /\ \A k \in 1 .. Len(backlog') : backlog'[k] = backlog[k + 1]
    <3>1. backlog \in Seq(Clients)
      BY DEF Inv, TypeInv
    <3>2. Len(backlog) \in Nat \ {0}
      BY <2>1, <3>1, EmptySeq
    <3> QED BY <2>1, <3>1, <3>2, HeadTailProperties
  <2>4. Queued(who')
    BY <2>3 DEF Queued
  <2>5. \A c \in Clients : Queued(c)' => Queued(c)
    BY <2>3 DEF Queued
  <2>6. \A g \in Fds : table'[g] = IF g = f THEN who' ELSE table[g]
    BY <2>2 DEF Inv, TypeInv
  <2> QED BY <2>1, <2>4, <2>5, <2>6 DEF GoneInv
<1>3. ASSUME NEW x \in Clients, Connect(x) PROVE GoneInv'
  <2>1. /\ UNCHANGED <<closed, table>> /\ cl[x] = "new"
        /\ cl' = [cl EXCEPT ![x] = "type"] /\ backlog' = Append(backlog, x)
    BY <1>3 DEF Connect, netVars
  <2>2. ~ closed[x]
    BY <2>1 DEF GoneInv
  <2>3. \A c \in Clients \ {x} : Queued(c)' => Queued(c)
    <3>1. backlog \in Seq(Clients) /\ Len(backlog) \in Nat
      BY LenProperties DEF Inv, TypeInv
    <3>2. /\ Len(backlog') = Len(backlog) + 1 /\ backlog'[Len(backlog) + 1] = x
          /\ \A k \in 1 .. Len(backlog) : backlog'[k] = backlog[k]
      BY <2>1, <3>1, AppendProperties
    <3> QED BY <3>1, <3>2 DEF Queued
  <2>4. \A c \in Clients \ {x} : cl'[c] = cl[c]
    BY <2>1 DEF Inv, TypeInv
  <2> QED BY <2>1, <2>2, <2>3, <2>4 DEF GoneInv
<1>4. CASE CreateFails
  <2>1. UNCHANGED <<cl, backlog>> /\ (UNCHANGED <<table, closed>> \/ CloseFd(connfd))
    BY <1>4 DEF CreateFails, Dies, clientVars
  <2>2. connfd \in Fds \cup {None}
    BY DEF Inv, TypeInv
  <2> QED BY <1>1, <2>1, <2>2, CloseGone
<1>5. ASSUME NEW t \in Threads, Close(t) PROVE GoneInv'
  <2>1. UNCHANGED <<cl, backlog>> /\ CloseFd(fd[t]) /\ fd[t] \in Fds \cup {None}
    BY <1>5 DEF Close, mainVars, clientVars, Inv, TypeInv
  <2> QED BY <2>1, CloseGone
<1>6. CASE AcceptFails \/ CreateThread
  BY <1>1, <1>6 DEF AcceptFails, CreateThread, Dies, clientVars, netVars
<1>7. ASSUME NEW t \in Threads, Thread(t), ~ Close(t) PROVE GoneInv'
  BY <1>1, <1>7 DEF Thread, Begin, Read, ReadEnds, Write, WriteKills, Dies, mainVars,
                    clientVars, netVars
<1>8. ASSUME NEW x \in Clients, Client(x), ~ Connect(x) PROVE GoneInv'
  <2>1. UNCHANGED <<table, closed, backlog>> /\ \A c \in Clients : cl[c] # "new" => cl'[c] # "new"
    BY <1>8 DEF Client, ConnectFails, WriteMessage, Receive, Leave, mainVars, netVars,
                Inv, TypeInv
  <2> QED BY <2>1 DEF GoneInv, Queued
<1>9. CASE UNCHANGED vars
  BY <1>1, <1>9 DEF vars, mainVars, clientVars, netVars
<1> QED BY <1>2, <1>3, <1>4, <1>5, <1>6, <1>7, <1>8, <1>9 DEF Next, Idle, Main, Thread, Client

\* While the connection is open StreamKept says what the rest is.
OpenBehind == presentation => \A c \in Clients :
  cl[c] \in {"type", "wait"} /\ ~ ServerGone(c) => Behind(c)

LEMMA KeptBehind == Inv /\ OnTime /\ StreamKept => OpenBehind
<1> SUFFICES ASSUME Inv, OnTime, StreamKept, presentation, NEW c \in Clients,
                    cl[c] \in {"type", "wait"}, ~ ServerGone(c)
             PROVE  Behind(c)
  BY DEF OpenBehind
<1>1. /\ FlattenSeq(replies[c]) \in Seq(Bytes) /\ down[c] \in Seq(Bytes)
      /\ Held(c) \in Seq(Bytes) /\ up[c] \in Seq(Bytes)
  BY StreamTypes, HeldType DEF Inv
<1>2. FlattenSeq(replies[c]) \o down[c] \o Held(c) \o up[c] = FlattenSeq(asked[c])
  BY DEF StreamKept, OnTime
<1> DEFINE a == FlattenSeq(replies[c]) \o down[c]
           b == Held(c)
           d == up[c]
<1>3. a \in Seq(Bytes) /\ b \in Seq(Bytes) /\ d \in Seq(Bytes)
  BY Zenon, <1>1, Regroup
<1>4. (a \o b) \o d = FlattenSeq(asked[c])
  BY <1>2
<1>5. Behind(c) <=> \E r \in Seq(Bytes) : a \o r = FlattenSeq(asked[c])
  BY DEF Behind
<1> HIDE DEF a, b, d
<1>6. b \o d \in Seq(Bytes) /\ a \o (b \o d) = FlattenSeq(asked[c])
  BY ZenonT(60), <1>3, <1>4, Regroup
<1> QED BY Zenon, <1>5, <1>6

LEMMA BehindSame ==
  ASSUME NEW c, Behind(c), asked'[c] = asked[c], replies'[c] = replies[c], down'[c] = down[c]
  PROVE  Behind(c)'
BY DEF Behind

LEMMA BehindThread ==
  ASSUME Inv, OpenBehind', GoneInv, BehindInv, NEW t \in Threads, Thread(t)
  PROVE  BehindInv'
<1>1. UNCHANGED <<presentation, cl, asked, replies>>
  BY DEF Thread, Begin, Read, ReadEnds, Write, WriteKills, Close, clientVars, setup
<1> SUFFICES ASSUME presentation, NEW c \in Clients, Behind(c) PROVE Behind(c)'
  BY <1>1 DEF BehindInv
<1>2. CASE down'[c] = down[c]
  BY <1>1, <1>2, BehindSame
<1>3. CASE down'[c] # down[c]
  <2>1. Write(t)
    BY <1>3 DEF Thread, Begin, Read, ReadEnds, WriteKills, Close, netVars
  <2>2. /\ pc[t] = "write" /\ server # "dead" /\ UNCHANGED <<server, closed>>
    BY <2>1 DEF Write, Goto, mainVars
  <2>3. Peer(t) = mine[t] /\ Peer(t) \in Clients /\ Peer(t) # None
    BY <2>2, PeerOf, Numbers DEF Inv, ServerInv, BufInv, TypeInv
  <2>4. cl[Peer(t)] # "left" /\ Send(t)
    BY <1>3, <2>1, <2>3 DEF Write
  <2>5. c = Peer(t)
    BY <1>3, <2>3, <2>4 DEF Send, Inv, TypeInv
  <2>6. fd[t] \in Fds /\ table[fd[t]] = c
    BY <2>3, <2>5 DEF Peer, Inv, TypeInv
  <2>7. ~ closed[c] /\ cl[c] # "new"
    BY <2>6 DEF GoneInv, Inv, ServerInv, FreshInv
  <2>8. cl'[c] \in {"type", "wait"} /\ ~ ServerGone(c)'
    BY <1>1, <2>2, <2>4, <2>5, <2>7 DEF ServerGone, Inv, TypeInv
  <2> QED BY <1>1, <2>8 DEF OpenBehind
<1> QED BY <1>2, <1>3

LEMMA BehindClient ==
  ASSUME Inv, BehindInv, NEW x \in Clients, Client(x) PROVE BehindInv'
<1>1. UNCHANGED presentation
  BY DEF Client, setup
<1> SUFFICES ASSUME presentation, NEW c \in Clients, Behind(c) PROVE Behind(c)'
  BY <1>1 DEF BehindInv
<1> DEFINE a == FlattenSeq(asked[c])
           f == FlattenSeq(replies[c])
<1>2. /\ asked[c] \in Seq(Seq(Bytes)) /\ replies[c] \in Seq(Seq(Bytes))
      /\ f \in Seq(Bytes) /\ down[c] \in Seq(Bytes)
  BY StreamTypes DEF Inv
<1>3. CASE asked'[c] = asked[c] /\ replies'[c] = replies[c] /\ down'[c] = down[c]
  BY <1>3, BehindSame
<1>4. CASE x = c /\ WriteMessage(c)
  <2>1. PICK n \in Lengths : asked' = [asked EXCEPT ![c] = Append(@, Message(c, n))]
    BY <1>4 DEF WriteMessage
  <2> DEFINE m == Message(c, n)
  <2>2. m \in Seq(Bytes)
    BY BoundsAssumption, MessageType DEF Inv
  <2>3. /\ asked'[c] = Append(asked[c], m)
        /\ replies' = replies /\ down' = down
    BY <1>4, <2>1 DEF WriteMessage, Inv, TypeInv
  <2> HIDE DEF m
  <2>4. FlattenSeq(asked'[c]) = a \o m
    BY <1>2, <2>2, <2>3, FlatAppend
  <2>5. PICK r \in Seq(Bytes) : (f \o down[c]) \o r = a
    BY DEF Behind
  <2> HIDE DEF f, a
  <2>6. r \o m \in Seq(Bytes) /\ (f \o down[c]) \o (r \o m) = a \o m
    <3>1. f \o down[c] \in Seq(Bytes)
      BY Zenon, <1>2, Regroup
    <3>2. ((f \o down[c]) \o r) \o m = (f \o down[c]) \o (r \o m)
      BY Zenon, <2>2, <3>1, Regroup
    <3> QED BY Zenon, <2>2, <2>5, <3>2, Regroup
  <2>7. Behind(c)' <=> \E s \in Seq(Bytes) : (f \o down[c]) \o s = a \o m
    BY <2>3, <2>4 DEF Behind, f
  <2> QED BY Zenon, <2>6, <2>7
<1>5. ASSUME x = c, Receive(c), NEW chunk \in Chunks(down[c]),
             replies' = [replies EXCEPT ![c] = Append(@, chunk)],
             down' = [down EXCEPT ![c] = Rest(@, chunk)]
      PROVE  Behind(c)'
  <2> DEFINE r == Rest(down[c], chunk)
  <2>1. chunk \in Seq(Bytes) /\ r \in Seq(Bytes) /\ down[c] = chunk \o r
    BY <1>2, ChunkOf
  <2>2. /\ replies'[c] = Append(replies[c], chunk) /\ down'[c] = r /\ asked' = asked
    BY <1>5 DEF Receive, Inv, TypeInv
  <2> HIDE DEF r
  <2>3. FlattenSeq(replies'[c]) = f \o chunk
    BY ZenonT(30), <1>2, <2>1, <2>2, FlatAppend
  <2> HIDE DEF f
  <2>4. (f \o chunk) \o r = f \o down[c]
    <3>1. (f \o chunk) \o r = f \o (chunk \o r)
      BY ZenonT(40), <1>2, <2>1, Regroup
    <3> QED BY <2>1, <3>1
  <2> QED BY <2>2, <2>3, <2>4 DEF Behind, f
<1>6. CASE x # c
  <2>1. asked'[c] = asked[c] /\ replies'[c] = replies[c] /\ down'[c] = down[c]
    BY ZenonT(30), <1>6 DEF Client, Connect, ConnectFails, WriteMessage, Receive, Leave,
                            netVars, Inv, TypeInv
  <2> QED BY <1>3, <2>1
<1>7. CASE x = c /\ ~ WriteMessage(c) /\ ~ Receive(c)
  BY <1>3, <1>7 DEF Client, Connect, ConnectFails, Leave, netVars
<1>8. CASE x = c /\ Receive(c)
  BY <1>3, <1>5, <1>8 DEF Receive
<1> QED BY <1>4, <1>6, <1>7, <1>8

LEMMA BehindStep ==
  ASSUME Inv, OpenBehind', GoneInv, BehindInv, [Next]_vars PROVE BehindInv'
<1>1. CASE Main \/ UNCHANGED vars
  <2>1. UNCHANGED <<presentation, asked, replies, down>>
    BY <1>1 DEF Main, Accept, AcceptFails, CreateThread, CreateFails, clientVars, netVars,
                setup, vars
  <2> QED BY <2>1, BehindSame DEF BehindInv
<1> QED BY <1>1, BehindThread, BehindClient DEF Next, Idle

\* A sequence begins another one.
LEMMA Begins ==
  ASSUME NEW B, NEW s \in Seq(B), NEW t \in Seq(B),
         Len(s) <= Len(t), Alike(s, t, Len(s))
  PROVE  IsPrefix(s, t) /\ (Len(s) < Len(t) => IsStrictPrefix(s, t))
<1> DEFINE n == Len(s)
           u == SubSeq(t, 1, n)
<1>1. n \in Nat /\ Len(t) \in Nat
  BY LenProperties
<1>2. \A i \in 1 .. n : t[i] \in B
  BY <1>1, ElementOfSeq
<1>3. u \in Seq(B) /\ Len(u) = n /\ \A i \in 1 .. n : u[i] = t[i]
  BY <1>1, <1>2, SubSeqProperties
<1>4. u = s
  <2> HIDE DEF u
  <2>1. \A i \in 1 .. n : u[i] = s[i]
    BY <1>3 DEF Alike
  <2> QED BY <1>3, <2>1, SeqEqual
<1>5. SubSeq(s, 1, n) = s
  BY SubSeqFull
<1>6. IsPrefix(s, t)
  BY <1>4, <1>5 DEF IsPrefix
<1> QED BY <1>1, <1>6 DEF IsStrictPrefix

LEMMA BeginsConcat ==
  ASSUME NEW B, NEW s \in Seq(B), NEW t \in Seq(B)
  PROVE  IsPrefix(s, s \o t) /\ (t # << >> => IsStrictPrefix(s, s \o t))
<1>1. Len(s) \in Nat /\ Len(t) \in Nat /\ (t # << >> => Len(t) > 0)
  BY LenProperties, EmptySeq
<1>2. /\ s \o t \in Seq(B) /\ Len(s \o t) = Len(s) + Len(t)
      /\ \A i \in 1 .. Len(s) : (s \o t)[i] = s[i]
  BY <1>1, ConcatProperties
<1>3. Alike(s, s \o t, Len(s)) /\ Len(s) <= Len(s \o t)
  BY <1>1, <1>2 DEF Alike
<1>4. IsPrefix(s, s \o t) /\ (Len(s) < Len(s \o t) => IsStrictPrefix(s, s \o t))
  BY <1>2, <1>3, Begins
<1> QED BY <1>1, <1>2, <1>4

LEMMA BeginsAppend ==
  ASSUME NEW B, NEW s \in Seq(B), NEW e \in B
  PROVE  IsStrictPrefix(s, Append(s, e))
<1>1. /\ Len(s) \in Nat /\ Append(s, e) \in Seq(B) /\ Len(Append(s, e)) = Len(s) + 1
      /\ Alike(s, Append(s, e), Len(s))
  BY LenProperties, AppendProperties DEF Alike
<1>2. Len(s) < Len(Append(s, e)) /\ Len(s) <= Len(Append(s, e))
  BY <1>1
<1> QED BY <1>1, <1>2, Begins

\* The service begins sequences as its implementation does.
LEMMA SameBegins ==
  ASSUME NEW s, NEW t
  PROVE  /\ Service!IsPrefix(s, t) <=> IsPrefix(s, t)
         /\ Service!IsStrictPrefix(s, t) <=> IsStrictPrefix(s, t)
BY DEF Service!IsPrefix, Service!IsStrictPrefix, IsPrefix, IsStrictPrefix

Dues == [c \in Clients |-> DueTo(c)]
Givens == [c \in Clients |-> GivenTo(c)]

\* More is due to one client, and for the others nothing changes.
LEMMA OneAsks ==
  ASSUME NEW x \in Clients, IsStrictPrefix(DueTo(x), DueTo(x)'),
         \A c \in Clients \ {x} : DueTo(c)' = DueTo(c),
         \A c \in Clients : GivenTo(c)' = GivenTo(c),
         overtaken' = overtaken
  PROVE  Service!Next
<1>1. Dues[x] = DueTo(x) /\ Dues'[x] = DueTo(x)'
  BY DEF Dues
<1>2. Dues' = [Dues EXCEPT ![x] = Dues'[x]]
  BY DEF Dues
<1>3. Givens' = Givens
  BY DEF Givens
<1>4. Service!IsStrictPrefix(Dues[x], Dues'[x])
  BY <1>1, SameBegins
<1>5. Service!Ask(x)
  BY <1>2, <1>3, <1>4 DEF Service!Ask, Dues, Givens
<1> QED BY <1>5 DEF Service!Next

LEMMA OneGets ==
  ASSUME NEW x \in Clients, IsStrictPrefix(GivenTo(x), GivenTo(x)'),
         IsPrefix(GivenTo(x)', DueTo(x)),
         \A c \in Clients \ {x} : GivenTo(c)' = GivenTo(c),
         \A c \in Clients : DueTo(c)' = DueTo(c),
         overtaken' = overtaken
  PROVE  Service!Next
<1>1. Givens[x] = GivenTo(x) /\ Givens'[x] = GivenTo(x)' /\ Dues[x] = DueTo(x)
  BY DEF Givens, Dues
<1>2. Givens' = [Givens EXCEPT ![x] = Givens'[x]]
  BY DEF Givens
<1>3. Dues' = Dues
  BY DEF Dues
<1>4. Service!IsStrictPrefix(Givens[x], Givens'[x]) /\ Service!IsPrefix(Givens'[x], Dues[x])
  BY <1>1, SameBegins
<1>5. Service!Give(x)
  BY <1>2, <1>3, <1>4 DEF Service!Give, Dues, Givens
<1> QED BY <1>5 DEF Service!Next

LEMMA ServiceTypes ==
  ASSUME TypeInv, NEW c \in Clients, ~ presentation, ~ split
  PROVE  /\ DueTo(c) = [k \in 1 .. Len(asked[c]) |-> Answer(asked[c][k])]
         /\ DueTo(c) \in Seq(Seq(Bytes)) /\ Len(DueTo(c)) = Len(asked[c])
         /\ GivenTo(c) = replies[c] /\ GivenTo(c) \in Seq(Seq(Bytes))
<1>1. /\ asked[c] \in Seq(Seq(Bytes)) /\ Len(asked[c]) \in Nat
      /\ DOMAIN asked[c] = 1 .. Len(asked[c])
      /\ \A k \in 1 .. Len(asked[c]) : asked[c][k] \in Seq(Bytes)
  BY StreamTypes, LenProperties, ElementOfSeq
<1>2. DueTo(c) = [k \in 1 .. Len(asked[c]) |-> Answer(asked[c][k])]
  BY <1>1 DEF DueTo
<1>3. \A k \in 1 .. Len(asked[c]) : Answer(asked[c][k]) \in Seq(Bytes)
  BY <1>1, AnswerType
<1>4. DueTo(c) \in [1 .. Len(asked[c]) -> Seq(Bytes)]
  BY <1>2, <1>3
<1>5. DueTo(c) \in Seq(Seq(Bytes))
  <2>1. Seq(Seq(Bytes)) = UNION {[1 .. n -> Seq(Bytes)] : n \in Nat}
    BY SeqDef
  <2> QED BY Zenon, <1>1, <1>4, <2>1
<1>6. Len(DueTo(c)) = Len(asked[c])
  BY <1>1, <1>4, <1>5, LenProperties
<1> QED BY <1>2, <1>5, <1>6, StreamTypes DEF GivenTo

LEMMA ServiceSame ==
  ASSUME NEW c, presentation' = presentation, split' = split
  PROVE  /\ asked'[c] = asked[c] => DueTo(c)' = DueTo(c)
         /\ replies'[c] = replies[c] => GivenTo(c)' = GivenTo(c)
BY DEF DueTo, GivenTo, Answer

LEMMA ServiceAsk ==
  ASSUME Inv, NEW x \in Clients, Client(x), WriteMessage(x)
  PROVE  [Service!Next]_<<Dues, Givens, overtaken>>
<1>1. UNCHANGED <<presentation, split, replies, overtaken>>
  BY DEF Client, WriteMessage, setup
<1>2. PICK n \in Lengths : asked' = [asked EXCEPT ![x] = Append(@, Message(x, n))]
  BY DEF WriteMessage
<1> DEFINE m == Message(x, n)
<1>3. m \in Seq(Bytes)
  BY BoundsAssumption, MessageType DEF Inv
<1>4. asked'[x] = Append(asked[x], m) /\ \A c \in Clients \ {x} : asked'[c] = asked[c]
  BY <1>2 DEF Inv, TypeInv
<1> HIDE DEF m
<1>5. /\ \A c \in Clients : GivenTo(c)' = GivenTo(c)
      /\ \A c \in Clients \ {x} : DueTo(c)' = DueTo(c)
  BY <1>1, <1>4, ServiceSame
<1>6. asked[x] \in Seq(Seq(Bytes)) /\ FlattenSeq(asked[x]) \in Seq(Bytes)
  BY StreamTypes DEF Inv
<1>7. CASE presentation
  <2>1. DueTo(x) = FlattenSeq(asked[x]) /\ DueTo(x)' = FlattenSeq(asked[x]) \o m
    BY <1>1, <1>3, <1>4, <1>6, <1>7, FlatAppend DEF DueTo
  <2>2. CASE m # << >>
    <3>1. IsStrictPrefix(DueTo(x), DueTo(x)')
      BY <1>3, <1>6, <2>1, <2>2, BeginsConcat
    <3> QED BY <1>1, <1>5, <3>1, OneAsks
  <2>3. CASE m = << >>
    <3>1. DueTo(x)' = DueTo(x)
      BY <1>6, <2>1, <2>3, ConcatEmptySeq
    <3> QED BY <1>1, <1>5, <3>1 DEF Dues, Givens
  <2> QED BY <2>2, <2>3
<1>8. CASE ~ presentation /\ ~ split
  <2> DEFINE d == DueTo(x)
             l == Len(asked[x])
  <2>1. /\ d \in Seq(Seq(Bytes)) /\ Len(d) = l /\ l \in Nat
        /\ d = [k \in 1 .. l |-> Answer(asked[x][k])]
    BY <1>6, <1>8, ServiceTypes, LenProperties DEF Inv
  <2>2. /\ Len(asked'[x]) = l + 1 /\ asked'[x][l + 1] = m
        /\ DOMAIN asked'[x] = 1 .. l + 1
        /\ \A k \in 1 .. l : asked'[x][k] = asked[x][k]
    <3>1. Append(asked[x], m) \in Seq(Seq(Bytes)) /\ Len(Append(asked[x], m)) = l + 1
      BY <1>3, <1>6, AppendProperties
    <3> QED BY <1>3, <1>4, <1>6, <3>1, AppendProperties, LenProperties
  <2>3. DueTo(x)' = [k \in 1 .. l + 1 |-> Answer(asked'[x][k])]
    BY <1>1, <1>8, <2>2 DEF DueTo, Answer
  <2>4. Answer(m) \in Seq(Bytes)
    BY <1>3, AnswerType
  <2>5. /\ Append(d, Answer(m)) = [k \in 1 .. l + 1 |-> IF k = l + 1 THEN Answer(m) ELSE d[k]]
    <3> HIDE DEF d, l
    <3> QED BY <2>1, <2>4
  <2>6. DueTo(x)' = Append(d, Answer(m))
    <3>1. \A k \in 1 .. l + 1 :
            Answer(asked'[x][k]) = IF k = l + 1 THEN Answer(m) ELSE d[k]
      <4> HIDE DEF l
      <4> QED BY <2>1, <2>2
    <3> QED BY <2>3, <2>5, <3>1
  <2>7. IsStrictPrefix(DueTo(x), DueTo(x)')
    BY <2>1, <2>4, <2>6, BeginsAppend
  <2> QED BY <1>1, <1>5, <2>7, OneAsks
<1>9. CASE ~ presentation /\ split
  <2>1. DueTo(x)' = DueTo(x)
    BY <1>1, <1>9 DEF DueTo
  <2> QED BY <1>1, <1>5, <2>1 DEF Dues, Givens
<1> QED BY <1>7, <1>8, <1>9

\* A read of a client returns something.
LEMMA ChunkNotEmpty ==
  ASSUME NEW b \in Seq(Bytes), NEW chunk \in Chunks(b) PROVE chunk # << >>
<1>1. Len(b) \in Nat /\ \A i \in 1 .. Len(b) : b[i] \in Bytes
  BY LenProperties, ElementOfSeq
<1>2. PICK n \in 1 .. Len(b) : chunk = SubSeq(b, 1, n)
  BY <1>1 DEF Chunks
<1>3. Len(chunk) = n /\ n # 0
  BY <1>1, <1>2, SubSeqProperties
<1> QED BY <1>3, EmptySeq

LEMMA ServiceGive ==
  ASSUME Inv, Inv', PairInv', BehindInv', NEW x \in Clients, Client(x), Receive(x)
  PROVE  [Service!Next]_<<Dues, Givens, overtaken>>
<1>1. UNCHANGED <<presentation, split, asked, overtaken>>
  BY DEF Client, Receive, setup
<1>2. CASE replies' = replies
  <2>1. \A c \in Clients : DueTo(c)' = DueTo(c) /\ GivenTo(c)' = GivenTo(c)
    BY <1>1, <1>2, ServiceSame
  <2> QED BY <1>1, <2>1 DEF Dues, Givens
<1>3. ASSUME NEW chunk \in Chunks(down[x]),
             replies' = [replies EXCEPT ![x] = Append(@, chunk)]
      PROVE  [Service!Next]_<<Dues, Givens, overtaken>>
  <2>1. /\ replies'[x] = Append(replies[x], chunk)
        /\ \A c \in Clients \ {x} : replies'[c] = replies[c]
    BY <1>3 DEF Inv, TypeInv
  <2>2. /\ \A c \in Clients : DueTo(c)' = DueTo(c)
        /\ \A c \in Clients \ {x} : GivenTo(c)' = GivenTo(c)
    BY <1>1, <2>1, ServiceSame
  <2>3. chunk \in Seq(Bytes) /\ chunk # << >>
    BY <1>3, StreamTypes, ChunkOf, ChunkNotEmpty DEF Inv
  <2>4. replies[x] \in Seq(Seq(Bytes)) /\ FlattenSeq(replies[x]) \in Seq(Bytes)
    BY StreamTypes DEF Inv
  <2>5. CASE presentation
    <3> DEFINE f == FlattenSeq(replies[x]) \o chunk
    <3>1. GivenTo(x) = FlattenSeq(replies[x]) /\ GivenTo(x)' = f
          /\ DueTo(x) = FlattenSeq(asked[x])
      BY <1>1, <2>1, <2>3, <2>4, <2>5, FlatAppend DEF GivenTo, DueTo
    <3>2. IsStrictPrefix(GivenTo(x), GivenTo(x)')
      BY <2>3, <2>4, <3>1, BeginsConcat
    <3>3. f \in Seq(Bytes) /\ down'[x] \in Seq(Bytes)
      BY <2>3, <2>4, ConcatProperties DEF Inv, TypeInv
    <3>4. PICK r \in Seq(Bytes) : (FlattenSeq(replies'[x]) \o down'[x]) \o r = FlattenSeq(asked'[x])
      BY <1>1, <2>5 DEF BehindInv, Behind
    <3>5. (f \o down'[x]) \o r = DueTo(x)
      BY ZenonT(40), <1>1, <2>1, <2>3, <2>4, <3>1, <3>4, FlatAppend
    <3> HIDE DEF f
    <3>6. down'[x] \o r \in Seq(Bytes) /\ DueTo(x) = f \o (down'[x] \o r)
      BY ZenonT(60), <3>3, <3>5, Regroup
    <3>7. IsPrefix(GivenTo(x)', DueTo(x))
      BY <3>1, <3>3, <3>6, BeginsConcat
    <3> QED BY <1>1, <2>2, <3>2, <3>7, OneGets
  <2>6. CASE ~ presentation /\ ~ split
    <3>1. /\ GivenTo(x) = replies[x] /\ GivenTo(x)' = replies'[x]
          /\ replies'[x] \in Seq(Seq(Bytes))
      BY <1>1, <2>6 DEF GivenTo, Inv, TypeInv
    <3>2. IsStrictPrefix(GivenTo(x), GivenTo(x)')
      BY <2>1, <2>3, <2>4, <3>1, BeginsAppend
    <3>3. /\ DueTo(x) = [k \in 1 .. Len(asked[x]) |-> Answer(asked[x][k])]
          /\ DueTo(x) \in Seq(Seq(Bytes)) /\ Len(DueTo(x)) = Len(asked[x])
      BY <2>6, ServiceTypes DEF Inv
    <3>4. /\ Len(replies'[x]) <= Len(asked[x])
          /\ \A k \in 1 .. Len(replies'[x]) : replies'[x][k] = Answer(asked[x][k])
      BY <1>1, <2>6 DEF PairInv, Whole, Pair, Answer
    <3>5. Len(asked[x]) \in Nat /\ Len(replies'[x]) \in Nat
      BY <3>1, StreamTypes, LenProperties DEF Inv
    <3>6. Alike(replies'[x], DueTo(x), Len(replies'[x]))
      BY <3>3, <3>4, <3>5 DEF Alike
    <3>7. IsPrefix(GivenTo(x)', DueTo(x))
      BY <3>1, <3>3, <3>4, <3>6, Begins
    <3> QED BY <1>1, <2>2, <3>2, <3>7, OneGets
  <2>7. CASE ~ presentation /\ split
    <3>1. GivenTo(x)' = GivenTo(x)
      BY <1>1, <2>7 DEF GivenTo
    <3> QED BY <1>1, <2>2, <3>1 DEF Dues, Givens
  <2> QED BY <2>5, <2>6, <2>7
<1> QED BY <1>2, <1>3 DEF Receive

LEMMA ServiceStep ==
  ASSUME TypeInv, TypeInv', OnTime => Inv, OnTime' => Inv' /\ PairInv' /\ BehindInv',
         [Next]_vars
  PROVE  [Service!Next]_<<Dues, Givens, overtaken>>
<1>0. CASE ~ OnTime'
  BY <1>0 DEF OnTime, TypeInv, Service!Next
<1> SUFFICES ASSUME OnTime, overtaken' = overtaken, Inv, Inv', PairInv', BehindInv'
             PROVE  [Service!Next]_<<Dues, Givens, overtaken>>
  BY <1>0, OnTimeBefore
<1>1. CASE UNCHANGED <<presentation, split, asked, replies>>
  <2>1. \A c \in Clients : DueTo(c)' = DueTo(c) /\ GivenTo(c)' = GivenTo(c)
    BY <1>1, ServiceSame
  <2> QED BY <1>1, <2>1 DEF Dues, Givens
<1>2. CASE Main \/ UNCHANGED vars
  BY <1>1, <1>2 DEF Main, Accept, AcceptFails, CreateThread, CreateFails, clientVars, setup, vars
<1>3. ASSUME NEW t \in Threads, Thread(t) PROVE [Service!Next]_<<Dues, Givens, overtaken>>
  BY <1>1, <1>3 DEF Thread, Begin, Read, ReadEnds, Write, WriteKills, Close, clientVars, setup
<1>4. ASSUME NEW x \in Clients, Client(x) PROVE [Service!Next]_<<Dues, Givens, overtaken>>
  <2>1. CASE WriteMessage(x)
    BY <1>4, <2>1, ServiceAsk
  <2>2. CASE Receive(x)
    BY <1>4, <2>2, ServiceGive
  <2>3. CASE ~ WriteMessage(x) /\ ~ Receive(x)
    BY <1>1, <1>4, <2>3 DEF Client, Connect, ConnectFails, Leave, setup
  <2> QED BY <2>1, <2>2, <2>3
<1> QED BY <1>2, <1>3, <1>4 DEF Next, Idle

LEMMA ServiceInit == Init => Service!Init
<1> SUFFICES ASSUME Init, NEW c \in Clients PROVE DueTo(c) = << >> /\ GivenTo(c) = << >>
  BY DEF Service!Init, Init
<1>1. asked[c] = << >> /\ replies[c] = << >>
  BY DEF Init
<1>2. << >> \in Seq(Bytes) /\ Len(<< >>) = 0 /\ DOMAIN << >> = 1 .. 0
  BY EmptySeq
<1>3. FlattenSeq(<< >>) = << >>
  BY <1>2 DEF FlattenSeq
<1> QED BY <1>1, <1>2, <1>3 DEF DueTo, GivenTo

\* Whatever the threads, the network and the other clients do, and whichever
\* call fails: to each client the server is a service that gives it the answers
\* to what it has asked for, in order, once, until main overtakes a thread.
THEOREM ImplementsEchoService == Spec => ServiceSpec
<1>1. Init => Service!Init /\ GoneInv /\ BehindInv
  <2>1. Init => GoneInv
    BY DEF Init, GoneInv
  <2>2. ASSUME Init, NEW c \in Clients PROVE Behind(c)
    <3>1. asked[c] = << >> /\ replies[c] = << >> /\ down[c] = << >>
      BY <2>2 DEF Init
    <3>2. << >> \in Seq(Bytes) /\ Len(<< >>) = 0
      BY EmptySeq
    <3>3. FlattenSeq(<< >>) = << >> /\ << >> \o << >> = << >>
      BY <3>2, ConcatEmptySeq DEF FlattenSeq
    <3> QED BY <3>1, <3>2, <3>3 DEF Behind
  <2> QED BY <2>1, <2>2, ServiceInit DEF BehindInv
<1>2. /\ TypeInv /\ (OnTime => Inv) /\ (OnTime => GoneInv) /\ [Next]_vars
      => (OnTime' => GoneInv')
  BY GoneStep, OnTimeBefore
<1>3. /\ TypeInv /\ (OnTime => Inv) /\ (OnTime' => OpenBehind') /\ (OnTime => GoneInv)
      /\ (OnTime => BehindInv) /\ [Next]_vars
      => (OnTime' => BehindInv')
  BY BehindStep, OnTimeBefore
<1>4. /\ TypeInv /\ TypeInv' /\ (OnTime => Inv) /\ (OnTime' => Inv' /\ PairInv' /\ BehindInv')
      /\ [Next]_vars
      => [Service!Next]_<<Dues, Givens, overtaken>>
  BY ServiceStep
<1> QED BY <1>1, <1>2, <1>3, <1>4, InvHolds, PairHolds, StreamHolds, KeptBehind, PTL
        DEF Spec, ServiceSpec, Service!Spec, Dues, Givens

-----------------------------------------------------------------------------
(* Lists of blocks *)

Blocks == [at : Nat, size : Nat \ {0}, free : BOOLEAN]
Writers == Objects \cup {"meta", "libc", "none"}

\* The blocks lie one behind the other below the break b.
Sorted(l, b) == /\ \A i, j \in 1 .. Len(l) : i < j => End(l[i]) <= l[j].at
                /\ \A i \in 1 .. Len(l) : End(l[i]) <= b

Headers(l, m) == \A i \in 1 .. Len(l) : \A c \in Span(l[i].at, Meta) : m[c] = "meta"

Layout(l, b, m) == /\ l \in Seq(Blocks) /\ b \in 0 .. MaxBreak /\ m \in [Cells -> Writers]
                   /\ Sorted(l, b) /\ Headers(l, m)

Used(l) == {u \in Blocks : ~ u.free /\ \E i \in 1 .. Len(l) : l[i] = u}

\* Cell c is in no block of l.
Outside(l, c) == \A i \in 1 .. Len(l) : c < l[i].at \/ End(l[i]) <= c

\* Tiled, for the list l and the break b.
Tiles(l, b) == /\ \A i \in 1 .. Len(l) - 1 : End(l[i]) = l[i + 1].at
               /\ l # << >> => l[1].at = 0 /\ End(l[Len(l)]) = b
               /\ l = << >> => b = 0

LEMMA Sizes == Meta \in Nat /\ Meta > 0 /\ MaxSize \in Nat /\ MaxBreak \in Nat
BY HeapAssumption

LEMMA BlockTypes ==
  ASSUME NEW u \in Blocks
  PROVE  /\ u.at \in Nat /\ u.size \in Nat /\ u.size > 0 /\ u.free \in BOOLEAN
         /\ Payload(u) = u.at + Meta /\ End(u) = u.at + Meta + u.size
         /\ u = Block(u.at, u.size, u.free)
BY DEF Blocks, Payload, End, Block

LEMMA SpanWithin == \A a, p, q \in Nat : p <= q => Span(a, p) \subseteq Span(a, q)
BY DEF Span

LEMMA BlockEnds ==
  \A u \in Blocks : /\ u.at \in Nat /\ End(u) \in Nat
                    /\ u.at + Meta < End(u) /\ u.at < End(u)
<1> SUFFICES ASSUME NEW u \in Blocks
             PROVE  u.at \in Nat /\ End(u) \in Nat /\ u.at + Meta < End(u) /\ u.at < End(u)
  OBVIOUS
<1> QED BY BlockTypes, Sizes

LEMMA SameBlock ==
  ASSUME NEW u \in Blocks, NEW v \in Blocks, u.at = v.at, u.size = v.size, u.free = v.free
  PROVE  u = v
BY DEF Blocks

LEMMA Marked ==
  ASSUME NEW u \in Blocks, NEW f \in BOOLEAN
  PROVE  /\ [u EXCEPT !.free = f] \in Blocks /\ [u EXCEPT !.free = f].free = f
         /\ [u EXCEPT !.free = f].at = u.at /\ [u EXCEPT !.free = f].size = u.size
BY DEF Blocks

\* Two blocks of a list are apart.
LEMMA Apart ==
  ASSUME NEW l \in Seq(Blocks), NEW b, Sorted(l, b),
         NEW i \in 1 .. Len(l), NEW j \in 1 .. Len(l), i # j
  PROVE  End(l[i]) <= l[j].at \/ End(l[j]) <= l[i].at
BY LenProperties DEF Sorted

LEMMA UsedApart ==
  ASSUME NEW l \in Seq(Blocks), NEW b, Sorted(l, b),
         NEW u \in Used(l), NEW i \in 1 .. Len(l), u # l[i]
  PROVE  End(l[i]) <= u.at \/ End(u) <= l[i].at
BY Apart DEF Used

\* Two blocks in use with one payload are one.
LEMMA UsedByPayload ==
  ASSUME NEW l \in Seq(Blocks), NEW b, Sorted(l, b),
         NEW u \in Used(l), NEW i \in 1 .. Len(l), Payload(u) = Payload(l[i])
  PROVE  u = l[i]
<1>1. u \in Blocks /\ l[i] \in Blocks
  BY ElementOfSeq DEF Used
<1>2. Payload(u) = u.at + Meta /\ Payload(l[i]) = l[i].at + Meta
  BY DEF Payload
<1>3. /\ u.at \in Nat /\ End(u) \in Nat /\ u.at < End(u)
      /\ l[i].at \in Nat /\ End(l[i]) \in Nat /\ l[i].at < End(l[i])
  BY Zenon, <1>1, BlockEnds
<1>4. u.at = l[i].at
  <2>1. \A p, q, r \in Nat : p + r = q + r => p = q
    OBVIOUS
  <2> QED BY Zenon, <1>2, <1>3, <2>1, Sizes
<1>5. u = l[i] \/ End(l[i]) <= u.at \/ End(u) <= l[i].at
  BY Zenon, UsedApart
<1> QED BY <1>3, <1>4, <1>5

-----------------------------------------------------------------------------
(* Carve *)

\* Block i of the list l, carved to n cells.
Carved(l, i, n) == Block(l[i].at, IF Splits(l[i], n) THEN n ELSE l[i].size, FALSE)

LEMMA CarvedTypes ==
  ASSUME NEW l \in Seq(Blocks), NEW i \in 1 .. Len(l), NEW n \in Nat \ {0}, n <= l[i].size
  PROVE  /\ Carved(l, i, n) \in Blocks /\ ~ Carved(l, i, n).free
         /\ Carved(l, i, n).at = l[i].at /\ n <= Carved(l, i, n).size
         /\ End(Carved(l, i, n)) <= End(l[i])
         /\ Splits(l[i], n) => /\ Remainder(l[i], n) \in Blocks /\ Remainder(l[i], n).free
                              /\ Remainder(l[i], n).at = End(Carved(l, i, n))
                              /\ End(Remainder(l[i], n)) = End(l[i])
         /\ ~ Splits(l[i], n) => End(Carved(l, i, n)) = End(l[i])
<1> DEFINE c == Carved(l, i, n)
           r == Remainder(l[i], n)
<1>1. l[i] \in Blocks /\ l[i].at \in Nat /\ l[i].size \in Nat /\ l[i].size > 0
  BY ElementOfSeq, BlockTypes
<1>2. /\ c.at = l[i].at /\ c.free = FALSE
      /\ c.size = IF Splits(l[i], n) THEN n ELSE l[i].size
  BY DEF Carved, Block
<1>3. c \in Blocks
  BY <1>1 DEF Carved, Block, Blocks
<1>4. /\ r.at = l[i].at + Meta + n /\ r.free = TRUE
      /\ r.size = l[i].size - n - Meta
  BY DEF Remainder, Block, Payload
<1>5. Splits(l[i], n) <=> l[i].size > n + Meta
  BY DEF Splits
<1>6. Splits(l[i], n) => r \in Blocks
  BY SMTT(60), <1>1, <1>5, Sizes DEF Remainder, Block, Blocks, Payload
<1> HIDE DEF c, r
<1>7. /\ End(c) = c.at + Meta + c.size /\ End(l[i]) = l[i].at + Meta + l[i].size
      /\ End(r) = r.at + Meta + r.size
  BY DEF End
<1>8. /\ c \in Blocks /\ ~ c.free /\ c.at = l[i].at /\ n <= c.size /\ End(c) <= End(l[i])
      /\ Splits(l[i], n) => r \in Blocks /\ r.free /\ r.at = End(c) /\ End(r) = End(l[i])
      /\ ~ Splits(l[i], n) => End(c) = End(l[i])
  <2>1. CASE Splits(l[i], n)
    BY SMTT(30), <1>1, <1>2, <1>3, <1>4, <1>5, <1>6, <1>7, <2>1, Sizes
  <2>2. CASE ~ Splits(l[i], n)
    BY <1>1, <1>2, <1>3, <1>7, <2>2, Sizes
  <2> QED BY <2>1, <2>2
<1> QED BY <1>8 DEF c, r

\* r is the list l with block i replaced by x and y.
SplitAt(r, l, i, x, y) ==
  /\ r \in Seq(Blocks) /\ Len(r) = Len(l) + 1
  /\ \A k \in 1 .. Len(l) + 1 :
       r[k] = IF k < i THEN l[k] ELSE IF k = i THEN x
              ELSE IF k = i + 1 THEN y ELSE l[k - 1]

\* The list, place by place, after block i has been split.
LEMMA CarveSplits ==
  ASSUME NEW l \in Seq(Blocks), NEW i \in 1 .. Len(l), NEW n \in Nat \ {0}, n <= l[i].size,
         Splits(l[i], n)
  PROVE  SplitAt(Carve(l, i, n), l, i, Carved(l, i, n), Remainder(l[i], n))
<1> DEFINE x == Carved(l, i, n)
           y == Remainder(l[i], n)
           s == SubSeq(l, 1, i - 1)
           t == SubSeq(l, i + 1, Len(l))
           m == <<x, y>>
<1>0. Len(l) \in Nat /\ \A k \in 1 .. Len(l) : l[k] \in Blocks
  BY LenProperties, ElementOfSeq
<1>1. x \in Blocks /\ y \in Blocks
  BY CarvedTypes
<1>2. m \in Seq(Blocks) /\ Len(m) = 2 /\ m[1] = x /\ m[2] = y
  <2> HIDE DEF x, y
  <2> QED BY <1>1
<1>3. s \in Seq(Blocks) /\ Len(s) = i - 1 /\ \A k \in 1 .. i - 1 : s[k] = l[k]
  BY <1>0, SubSeqProperties
<1>4. /\ t \in Seq(Blocks) /\ Len(t) = Len(l) - i
      /\ \A k \in 1 .. Len(l) - i : t[k] = l[k + i]
  BY <1>0, SubSeqProperties
<1>5. Carve(l, i, n) = (s \o m) \o t
  BY DEF Carve, Carved
<1> HIDE DEF x, y, s, t, m
<1>6. /\ s \o m \in Seq(Blocks) /\ Len(s \o m) = i + 1
      /\ \A k \in 1 .. i + 1 : (s \o m)[k] = IF k < i THEN l[k] ELSE IF k = i THEN x ELSE y
  <2>1. /\ s \o m \in Seq(Blocks) /\ Len(s \o m) = Len(s) + Len(m)
        /\ \A k \in 1 .. Len(s) + Len(m) :
             (s \o m)[k] = IF k <= Len(s) THEN s[k] ELSE m[k - Len(s)]
    BY ZenonT(30), <1>2, <1>3, ConcatProperties
  <2> QED BY SMTT(30), <2>1, <1>0, <1>2, <1>3
<1>7. /\ (s \o m) \o t \in Seq(Blocks) /\ Len((s \o m) \o t) = Len(s \o m) + Len(t)
      /\ \A k \in 1 .. Len(s \o m) + Len(t) :
           ((s \o m) \o t)[k] = IF k <= Len(s \o m) THEN (s \o m)[k] ELSE t[k - Len(s \o m)]
  BY ZenonT(30), <1>4, <1>6, ConcatProperties
<1>8. ASSUME NEW k \in 1 .. Len(l) + 1
      PROVE  ((s \o m) \o t)[k] = IF k < i THEN l[k] ELSE IF k = i THEN x
                                  ELSE IF k = i + 1 THEN y ELSE l[k - 1]
  <2>1. CASE k <= i + 1
    BY SMTT(30), <1>0, <1>4, <1>6, <1>7, <2>1
  <2>2. CASE k > i + 1
    <3>1. /\ k \in 1 .. Len(s \o m) + Len(t) /\ ~ (k <= Len(s \o m))
          /\ k - Len(s \o m) \in 1 .. Len(l) - i /\ k - Len(s \o m) + i = k - 1
      BY <1>0, <1>4, <1>6, <2>2
    <3>2. ((s \o m) \o t)[k] = t[k - Len(s \o m)]
      BY <1>7, <3>1
    <3>3. t[k - Len(s \o m)] = l[k - 1]
      BY <1>4, <3>1
    <3> QED BY <2>2, <3>2, <3>3
  <2>3. k <= i + 1 \/ k > i + 1
    BY <1>0
  <2> QED BY Zenon, <2>1, <2>2, <2>3
<1>9. Carve(l, i, n) \in Seq(Blocks)
  BY Zenon, <1>5, <1>7
<1>10. Len(Carve(l, i, n)) = Len(l) + 1
  BY <1>0, <1>4, <1>5, <1>6, <1>7
<1>11. \A k \in 1 .. Len(l) + 1 :
         Carve(l, i, n)[k] = IF k < i THEN l[k] ELSE IF k = i THEN x
                             ELSE IF k = i + 1 THEN y ELSE l[k - 1]
  BY Zenon, <1>5, <1>8
<1>12. SplitAt(Carve(l, i, n), l, i, x, y)
  BY Zenon, <1>9, <1>10, <1>11 DEF SplitAt
<1> QED BY <1>12 DEF x, y

LEMMA CarveWhole ==
  ASSUME NEW l \in Seq(Blocks), NEW i \in 1 .. Len(l), NEW n \in Nat \ {0}, n <= l[i].size,
         ~ Splits(l[i], n)
  PROVE  /\ Carve(l, i, n) \in Seq(Blocks) /\ Len(Carve(l, i, n)) = Len(l)
         /\ \A k \in 1 .. Len(l) : Carve(l, i, n)[k] = IF k = i THEN Carved(l, i, n) ELSE l[k]
<1> DEFINE x == Carved(l, i, n)
<1>1. x \in Blocks
  BY CarvedTypes
<1>2. l[i] \in Blocks
  BY ElementOfSeq
<1>3. [l[i] EXCEPT !.free = FALSE] = x
  BY ZenonT(60), <1>1, <1>2, Marked, SameBlock DEF Carved, Block
<1>4. Carve(l, i, n) = [l EXCEPT ![i] = x]
  <2>1. Carve(l, i, n) = [l EXCEPT ![i] = [l[i] EXCEPT !.free = FALSE]]
    BY DEF Carve
  <2> QED BY <1>3, <2>1
<1> HIDE DEF x
<1>5. /\ [l EXCEPT ![i] = x] \in Seq(Blocks) /\ Len([l EXCEPT ![i] = x]) = Len(l)
      /\ \A k \in 1 .. Len(l) : [l EXCEPT ![i] = x][k] = IF k = i THEN x ELSE l[k]
  BY <1>1, ExceptSeq
<1> QED BY <1>4, <1>5 DEF x

LEMMA CarveSorted ==
  ASSUME NEW l \in Seq(Blocks), NEW i \in 1 .. Len(l), NEW n \in Nat \ {0}, n <= l[i].size,
         NEW b \in Nat, Sorted(l, b)
  PROVE  Sorted(Carve(l, i, n), b)
<1> DEFINE r == Carve(l, i, n)
           x == Carved(l, i, n)
           y == Remainder(l[i], n)
<1>0. /\ Len(l) \in Nat
      /\ \A k \in 1 .. Len(l) : l[k].at \in Nat /\ End(l[k]) \in Nat /\ l[k].at < End(l[k])
  <2>1. Len(l) \in Nat /\ \A k \in 1 .. Len(l) : l[k] \in Blocks
    BY LenProperties, ElementOfSeq
  <2> QED BY Zenon, <2>1, BlockEnds
<1>1. /\ x.at = l[i].at /\ End(x) <= End(l[i])
      /\ x.at \in Nat /\ End(x) \in Nat /\ x.at < End(x)
  <2>1. x \in Blocks /\ x.at = l[i].at /\ End(x) <= End(l[i])
    BY CarvedTypes
  <2> HIDE DEF x
  <2> QED BY Zenon, <2>1, BlockEnds
<1>2. CASE Splits(l[i], n)
  <2>1. /\ y.at = End(x) /\ End(y) = End(l[i])
    BY <1>2, CarvedTypes
  <2>2. /\ Len(r) = Len(l) + 1
        /\ \A k \in 1 .. Len(l) + 1 : r[k] = IF k < i THEN l[k] ELSE IF k = i THEN x
                                            ELSE IF k = i + 1 THEN y ELSE l[k - 1]
    <3>1. SplitAt(r, l, i, x, y)
      BY <1>2, CarveSplits
    <3> QED BY Zenon, <3>1 DEF SplitAt
  <2> HIDE DEF r, x, y
  <2> DEFINE g(k) == IF k <= i THEN k ELSE k - 1
  <2>3. ASSUME NEW k \in 1 .. Len(r)
        PROVE  /\ g(k) \in 1 .. Len(l) /\ l[g(k)].at <= r[k].at /\ End(r[k]) <= End(l[g(k)])
               /\ r[k].at \in Nat /\ End(r[k]) \in Nat
    <3>1. CASE k < i
      <4>0. k \in 1 .. Len(l) + 1 /\ k \in 1 .. Len(l) /\ k <= i
        BY <1>0, <2>2, <3>1
      <4>1. r[k] = l[k] /\ g(k) = k /\ k \in 1 .. Len(l)
        BY Zenon, <2>2, <3>1, <4>0
      <4>2. l[k].at \in Nat /\ End(l[k]) \in Nat
        BY <1>0, <4>1
      <4>3. l[k].at <= l[k].at /\ End(l[k]) <= End(l[k])
        BY <4>2
      <4> HIDE DEF g
      <4> QED BY Zenon, <4>1, <4>2, <4>3
    <3>2. CASE k = i
      BY <1>0, <1>1, <2>2, <3>2
    <3>3. CASE k = i + 1
      <4>1. r[k] = y /\ g(k) = i
        BY <1>0, <2>2, <3>3
      <4> QED BY <1>0, <1>1, <2>1, <4>1
    <3>4. CASE k > i + 1
      <4>1. r[k] = l[k - 1] /\ g(k) = k - 1 /\ k - 1 \in 1 .. Len(l)
        BY <1>0, <2>2, <3>4
      <4> HIDE DEF g
      <4> QED BY <1>0, <4>1
    <3>5. k < i \/ k = i \/ k = i + 1 \/ k > i + 1
      BY <1>0, <2>2
    <3> HIDE DEF g
    <3> QED BY <3>1, <3>2, <3>3, <3>4, <3>5
  <2>4. ASSUME NEW k \in 1 .. Len(r), NEW j \in 1 .. Len(r), k < j
        PROVE  End(r[k]) <= r[j].at
    <3>1. CASE k = i /\ j = i + 1
      <4>1. r[k] = x /\ r[j] = y
        BY <1>0, <2>2, <3>1
      <4> QED BY <1>1, <2>1, <4>1
    <3>2. CASE ~ (k = i /\ j = i + 1)
      <4>1. g(k) < g(j)
        BY <1>0, <2>2, <2>4, <3>2
      <4> HIDE DEF g
      <4>2. g(k) \in 1 .. Len(l) /\ g(j) \in 1 .. Len(l)
        BY <2>3
      <4>3. End(l[g(k)]) <= l[g(j)].at
        BY <4>1, <4>2 DEF Sorted
      <4>4. End(r[k]) <= End(l[g(k)]) /\ l[g(j)].at <= r[j].at /\ End(r[k]) \in Nat /\ r[j].at \in Nat
        BY <2>3
      <4>5. End(l[g(k)]) \in Nat /\ l[g(j)].at \in Nat
        BY <1>0, <4>2
      <4> QED BY SMTT(30), <4>3, <4>4, <4>5
    <3> QED BY <3>1, <3>2
  <2>5. ASSUME NEW k \in 1 .. Len(r) PROVE End(r[k]) <= b
    <3>1. g(k) \in 1 .. Len(l) /\ End(r[k]) <= End(l[g(k)]) /\ End(r[k]) \in Nat
      BY <2>3
    <3> HIDE DEF g
    <3>2. End(l[g(k)]) <= b /\ End(l[g(k)]) \in Nat
      BY <1>0, <3>1 DEF Sorted
    <3> QED BY <3>1, <3>2
  <2>6. Sorted(r, b)
    BY <2>4, <2>5 DEF Sorted
  <2> QED BY <2>6 DEF r
<1>3. CASE ~ Splits(l[i], n)
  <2>1. End(x) = End(l[i])
    BY <1>3, CarvedTypes
  <2>2. Len(r) = Len(l) /\ \A k \in 1 .. Len(l) : r[k] = IF k = i THEN x ELSE l[k]
    BY <1>3, CarveWhole
  <2> HIDE DEF r, x, y
  <2>3. \A k \in 1 .. Len(l) : r[k].at = l[k].at /\ End(r[k]) = End(l[k])
    BY <1>1, <2>1, <2>2
  <2>4. Sorted(r, b)
    BY <2>2, <2>3 DEF Sorted
  <2> QED BY <2>4 DEF r
<1> QED BY <1>2, <1>3

LEMMA CarveTiles ==
  ASSUME NEW l \in Seq(Blocks), NEW i \in 1 .. Len(l), NEW n \in Nat \ {0}, n <= l[i].size,
         NEW b \in Nat, Tiles(l, b)
  PROVE  Tiles(Carve(l, i, n), b)
<1> DEFINE r == Carve(l, i, n)
           x == Carved(l, i, n)
           y == Remainder(l[i], n)
<1>0. Len(l) \in Nat /\ Len(l) > 0
  BY LenProperties
<1>1. x.at = l[i].at
  BY CarvedTypes
<1>2. /\ \A k \in 1 .. Len(l) - 1 : End(l[k]) = l[k + 1].at
      /\ l[1].at = 0 /\ End(l[Len(l)]) = b
  <2>1. l # << >>
    BY <1>0, EmptySeq
  <2> QED BY <2>1 DEF Tiles
<1>3. CASE Splits(l[i], n)
  <2>1. /\ y.at = End(x) /\ End(y) = End(l[i])
    BY <1>3, CarvedTypes
  <2>2. /\ Len(r) = Len(l) + 1 /\ r \in Seq(Blocks)
        /\ \A k \in 1 .. Len(l) + 1 : r[k] = IF k < i THEN l[k] ELSE IF k = i THEN x
                                            ELSE IF k = i + 1 THEN y ELSE l[k - 1]
    <3>1. SplitAt(r, l, i, x, y)
      BY <1>3, CarveSplits
    <3> QED BY Zenon, <3>1 DEF SplitAt
  <2> HIDE DEF r, x, y
  <2>3. /\ \A k \in 1 .. i - 1 : r[k] = l[k]
        /\ r[i] = x /\ r[i + 1] = y
        /\ \A k \in i + 2 .. Len(l) + 1 : r[k] = l[k - 1]
    BY <1>0, <2>2
  <2>4. ASSUME NEW k \in 1 .. Len(r) - 1 PROVE End(r[k]) = r[k + 1].at
    <3>1. CASE k < i - 1
      <4>1. k \in 1 .. i - 1 /\ k + 1 \in 1 .. i - 1 /\ k \in 1 .. Len(l) - 1
        BY <1>0, <3>1
      <4> QED BY <1>2, <2>3, <4>1
    <3>2. CASE k = i - 1
      <4>1. k \in 1 .. i - 1 /\ k + 1 = i /\ k \in 1 .. Len(l) - 1
        BY <1>0, <3>2
      <4> QED BY <1>1, <1>2, <2>3, <4>1
    <3>3. CASE k = i
      BY <2>1, <2>3, <3>3
    <3>4. CASE k = i + 1
      <4>1. k + 1 \in i + 2 .. Len(l) + 1 /\ i \in 1 .. Len(l) - 1 /\ (k + 1) - 1 = i + 1
        BY <1>0, <2>2, <3>4
      <4>2. r[k] = y /\ r[k + 1] = l[i + 1]
        BY <2>3, <3>4, <4>1
      <4> QED BY <1>2, <2>1, <4>1, <4>2
    <3>5. CASE k > i + 1
      <4>1. /\ k \in i + 2 .. Len(l) + 1 /\ k + 1 \in i + 2 .. Len(l) + 1
            /\ k - 1 \in 1 .. Len(l) - 1 /\ (k + 1) - 1 = (k - 1) + 1
        BY SMTT(30), <1>0, <2>2, <3>5
      <4>2. r[k] = l[k - 1] /\ r[k + 1] = l[(k - 1) + 1]
        BY <2>3, <4>1
      <4> QED BY <1>2, <4>1, <4>2
    <3>6. k < i - 1 \/ k = i - 1 \/ k = i \/ k = i + 1 \/ k > i + 1
      BY <1>0, <2>2
    <3> QED BY <3>1, <3>2, <3>3, <3>4, <3>5, <3>6
  <2>5. r[1].at = 0
    <3>1. CASE i = 1
      BY <1>1, <1>2, <2>3, <3>1
    <3>2. CASE i > 1
      BY <1>2, <2>3, <3>2
    <3> QED BY <1>0, <3>1, <3>2
  <2>6. End(r[Len(r)]) = b
    <3>1. CASE i = Len(l)
      BY <1>2, <2>1, <2>2, <2>3, <3>1
    <3>2. CASE i < Len(l)
      <4>1. Len(r) \in i + 2 .. Len(l) + 1 /\ Len(r) - 1 = Len(l)
        BY <1>0, <2>2, <3>2
      <4> QED BY <1>2, <2>3, <4>1
    <3> QED BY <1>0, <3>1, <3>2
  <2>7. r # << >>
    BY <1>0, <2>2, EmptySeq
  <2>8. Tiles(r, b)
    BY <2>4, <2>5, <2>6, <2>7 DEF Tiles
  <2> QED BY <2>8 DEF r
<1>4. CASE ~ Splits(l[i], n)
  <2>1. End(x) = End(l[i])
    BY <1>4, CarvedTypes
  <2>2. /\ Len(r) = Len(l) /\ r \in Seq(Blocks)
        /\ \A k \in 1 .. Len(l) : r[k] = IF k = i THEN x ELSE l[k]
    BY <1>4, CarveWhole
  <2> HIDE DEF r, x, y
  <2>3. \A k \in 1 .. Len(l) : r[k].at = l[k].at /\ End(r[k]) = End(l[k])
    BY <1>1, <2>1, <2>2
  <2>4. r # << >>
    BY <1>0, <2>2, EmptySeq
  <2>5. 1 \in 1 .. Len(l) /\ Len(l) \in 1 .. Len(l)
    BY <1>0
  <2>6. \A k \in 1 .. Len(r) - 1 : k \in 1 .. Len(l) /\ k + 1 \in 1 .. Len(l) /\ k \in 1 .. Len(l) - 1
    BY <1>0, <2>2
  <2>7. Tiles(r, b)
    BY <1>2, <2>2, <2>3, <2>4, <2>5, <2>6 DEF Tiles
  <2> QED BY <2>7 DEF r
<1> QED BY <1>3, <1>4

LEMMA CarveUsed ==
  ASSUME NEW l \in Seq(Blocks), NEW i \in 1 .. Len(l), NEW n \in Nat \ {0}, n <= l[i].size,
         NEW b \in Nat, Sorted(l, b)
  PROVE  Used(Carve(l, i, n)) = (Used(l) \ {l[i]}) \cup {Carved(l, i, n)}
<1> DEFINE r == Carve(l, i, n)
           x == Carved(l, i, n)
           y == Remainder(l[i], n)
<1>0. Len(l) \in Nat /\ \A k \in 1 .. Len(l) : l[k] \in Blocks
  BY LenProperties, ElementOfSeq
<1>1. /\ x \in Blocks /\ ~ x.free
      /\ Splits(l[i], n) => y.free
  BY CarvedTypes
<1>2. \A k \in 1 .. Len(l) : k # i => l[k] # l[i]
  <2>1. \A k \in 1 .. Len(l) : /\ l[k].at \in Nat /\ l[k].at < End(l[k]) /\ End(l[k]) \in Nat
    BY SMTT(30), <1>0, BlockTypes, Sizes
  <2>2. \A k \in 1 .. Len(l) : k # i => End(l[k]) <= l[i].at \/ End(l[i]) <= l[k].at
    BY Apart
  <2> QED BY SMTT(30), <2>1, <2>2
<1>3. \E k \in 1 .. Len(r) : r[k] = x
  <2>1. CASE Splits(l[i], n)
    <3>1. Len(r) = Len(l) + 1 /\ r[i] = x
      <4>1. /\ Len(r) = Len(l) + 1
            /\ \A m \in 1 .. Len(l) + 1 : r[m] = IF m < i THEN l[m] ELSE IF m = i THEN x
                                              ELSE IF m = i + 1 THEN y ELSE l[m - 1]
        <5>1. SplitAt(r, l, i, x, y)
          BY <2>1, CarveSplits
        <5> QED BY Zenon, <5>1 DEF SplitAt
      <4> HIDE DEF r, x, y
      <4> QED BY <1>0, <4>1
    <3> HIDE DEF r, x
    <3> QED BY <1>0, <3>1
  <2>2. CASE ~ Splits(l[i], n)
    BY <2>2, CarveWhole
  <2> QED BY <2>1, <2>2
<1>4. ASSUME NEW k \in 1 .. Len(r)
      PROVE  \/ r[k] = x \/ r[k].free
             \/ \E j \in 1 .. Len(l) : j # i /\ r[k] = l[j]
  <2>1. CASE Splits(l[i], n)
    <3>1. /\ Len(r) = Len(l) + 1
          /\ \A m \in 1 .. Len(l) + 1 : r[m] = IF m < i THEN l[m] ELSE IF m = i THEN x
                                            ELSE IF m = i + 1 THEN y ELSE l[m - 1]
      <4>1. SplitAt(r, l, i, x, y)
        BY <2>1, CarveSplits
      <4> QED BY Zenon, <4>1 DEF SplitAt
    <3> HIDE DEF r, x, y
    <3>2. CASE k < i
      BY <1>0, <3>1, <3>2
    <3>3. CASE k = i
      BY <1>0, <3>1, <3>3
    <3>4. CASE k = i + 1
      <4>1. r[k] = y
        BY <1>0, <3>1, <3>4
      <4> QED BY <1>1, <2>1, <4>1
    <3>5. CASE k > i + 1
      <4>1. r[k] = l[k - 1] /\ k - 1 \in 1 .. Len(l) /\ k - 1 # i
        BY <1>0, <3>1, <3>5
      <4> QED BY <4>1
    <3>6. k < i \/ k = i \/ k = i + 1 \/ k > i + 1
      BY <1>0, <3>1
    <3> QED BY <3>2, <3>3, <3>4, <3>5, <3>6
  <2>2. CASE ~ Splits(l[i], n)
    <3>1. Len(r) = Len(l) /\ \A m \in 1 .. Len(l) : r[m] = IF m = i THEN x ELSE l[m]
      BY <2>2, CarveWhole
    <3> HIDE DEF r, x, y
    <3> QED BY <3>1
  <2> QED BY <2>1, <2>2
<1>5. ASSUME NEW j \in 1 .. Len(l), j # i
      PROVE  \E k \in 1 .. Len(r) : r[k] = l[j]
  <2>1. CASE Splits(l[i], n)
    <3>1. /\ Len(r) = Len(l) + 1
          /\ \A m \in 1 .. Len(l) + 1 : r[m] = IF m < i THEN l[m] ELSE IF m = i THEN x
                                            ELSE IF m = i + 1 THEN y ELSE l[m - 1]
      <4>1. SplitAt(r, l, i, x, y)
        BY <2>1, CarveSplits
      <4> QED BY Zenon, <4>1 DEF SplitAt
    <3> HIDE DEF r, x, y
    <3>2. CASE j < i
      <4>1. j \in 1 .. Len(r) /\ r[j] = l[j]
        BY <1>0, <3>1, <3>2
      <4> QED BY <4>1
    <3>3. CASE j > i
      <4>1. j + 1 \in 1 .. Len(r) /\ r[j + 1] = l[(j + 1) - 1] /\ (j + 1) - 1 = j
        BY <1>0, <3>1, <3>3
      <4> QED BY <4>1
    <3> QED BY <1>0, <1>5, <3>2, <3>3
  <2>2. CASE ~ Splits(l[i], n)
    <3>1. Len(r) = Len(l) /\ \A m \in 1 .. Len(l) : r[m] = IF m = i THEN x ELSE l[m]
      BY <2>2, CarveWhole
    <3> HIDE DEF r, x, y
    <3> QED BY <1>5, <3>1
  <2> QED BY <2>1, <2>2
<1> HIDE DEF r, x
<1>6. ASSUME NEW u \in Used(r) PROVE u \in (Used(l) \ {l[i]}) \cup {x}
  BY <1>2, <1>4 DEF Used
<1>7. ASSUME NEW u \in (Used(l) \ {l[i]}) \cup {x} PROVE u \in Used(r)
  BY <1>1, <1>3, <1>5 DEF Used
<1>8. Used(r) = (Used(l) \ {l[i]}) \cup {x}
  BY <1>6, <1>7
<1> QED BY <1>8 DEF r, x

\* The header that carving writes is within the block that is carved.
LEMMA HeaderWithin ==
  ASSUME NEW l \in Seq(Blocks), NEW i \in 1 .. Len(l), NEW n \in Nat \ {0}, n <= l[i].size,
         NEW c \in NewHeader(l, i, n)
  PROVE  c \in Nat /\ Payload(l[i]) + n <= c /\ c < End(l[i])
<1>1. l[i] \in Blocks
  BY ElementOfSeq
<1>2. /\ Splits(l[i], n) /\ c \in Span(Remainder(l[i], n).at, Meta)
  BY DEF NewHeader
<1>3. /\ Remainder(l[i], n).at = Payload(l[i]) + n /\ l[i].size > n + Meta
  BY <1>2 DEF Remainder, Block, Splits
<1> QED BY SMTT(60), <1>1, <1>2, <1>3, BlockTypes, Sizes DEF Span

LEMMA CarveHeaders ==
  ASSUME NEW l, NEW b, NEW m, Layout(l, b, m),
         NEW i \in 1 .. Len(l), NEW n \in Nat \ {0}, n <= l[i].size
  PROVE  Headers(Carve(l, i, n), Written(m, NewHeader(l, i, n), "meta"))
<1> DEFINE r == Carve(l, i, n)
           x == Carved(l, i, n)
           y == Remainder(l[i], n)
           w == Written(m, NewHeader(l, i, n), "meta")
<1>0. /\ l \in Seq(Blocks) /\ Len(l) \in Nat /\ b \in Nat /\ b <= MaxBreak
      /\ \A k \in 1 .. Len(l) : l[k] \in Blocks
      /\ Headers(l, m) /\ Sorted(l, b)
  BY LenProperties, ElementOfSeq, Sizes DEF Layout
<1>1. /\ x.at = l[i].at
  BY <1>0, CarvedTypes
<1>2. ASSUME NEW k \in 1 .. Len(l), NEW c \in Span(l[k].at, Meta) PROVE w[c] = "meta"
  <2>1. c \in Cells
    <3>1. End(l[k]) <= b
      BY <1>0 DEF Sorted
    <3>2. l[k].at + Meta <= End(l[k]) /\ End(l[k]) \in Nat /\ l[k].at \in Nat
      BY SMTT(60), <1>0, BlockTypes, Sizes
    <3> QED BY SMTT(30), <1>0, <3>1, <3>2, Sizes DEF Cells, Span
  <2>2. m[c] = "meta"
    BY <1>0 DEF Headers
  <2> QED BY <2>1, <2>2 DEF Written
<1>3. CASE Splits(l[i], n)
  <2>1. ASSUME NEW c \in Span(y.at, Meta) PROVE w[c] = "meta"
    <3>1. c \in NewHeader(l, i, n)
      BY <1>3 DEF NewHeader
    <3>2. c \in Nat /\ c < End(l[i])
      BY <1>0, <3>1, HeaderWithin
    <3>3. End(l[i]) <= b /\ End(l[i]) \in Nat
      BY SMTT(30), <1>0, BlockTypes, Sizes DEF Sorted
    <3>4. c \in Cells
      BY <1>0, <3>2, <3>3, Sizes DEF Cells
    <3> QED BY <3>1, <3>4 DEF Written
  <2>2. /\ Len(r) = Len(l) + 1
        /\ \A k \in 1 .. Len(l) + 1 : r[k] = IF k < i THEN l[k] ELSE IF k = i THEN x
                                          ELSE IF k = i + 1 THEN y ELSE l[k - 1]
    <3>1. SplitAt(r, l, i, x, y)
      BY <1>0, <1>3, CarveSplits
    <3> QED BY Zenon, <3>1 DEF SplitAt
  <2> HIDE DEF r, x, y, w
  <2>3. ASSUME NEW k \in 1 .. Len(r)
        PROVE  r[k].at = y.at \/ \E j \in 1 .. Len(l) : r[k].at = l[j].at
    <3>1. CASE k < i
      BY <1>0, <2>2, <3>1
    <3>2. CASE k = i
      BY <1>0, <1>1, <2>2, <3>2
    <3>3. CASE k = i + 1
      <4>1. r[k] = y
        BY <1>0, <2>2, <3>3
      <4> QED BY <4>1
    <3>4. CASE k > i + 1
      <4>1. r[k] = l[k - 1] /\ k - 1 \in 1 .. Len(l)
        BY <1>0, <2>2, <3>4
      <4> QED BY <4>1
    <3>5. k < i \/ k = i \/ k = i + 1 \/ k > i + 1
      BY <1>0, <2>2
    <3> QED BY <3>1, <3>2, <3>3, <3>4, <3>5
  <2>4. Headers(r, w)
    BY <1>2, <2>1, <2>3 DEF Headers
  <2> QED BY <2>4 DEF r, w
<1>4. CASE ~ Splits(l[i], n)
  <2>1. Len(r) = Len(l) /\ \A k \in 1 .. Len(l) : r[k] = IF k = i THEN x ELSE l[k]
    BY <1>0, <1>4, CarveWhole
  <2> HIDE DEF r, x, y, w
  <2>2. \A k \in 1 .. Len(r) : r[k].at = l[k].at
    BY <1>1, <2>1
  <2>3. Headers(r, w)
    BY <1>2, <2>1, <2>2 DEF Headers
  <2> QED BY <2>3 DEF r, w
<1> QED BY <1>3, <1>4

\* What carving a block does to a layout.
LEMMA CarveLayout ==
  ASSUME NEW l, NEW b, NEW m, Layout(l, b, m),
         NEW i \in 1 .. Len(l), NEW n \in Nat \ {0}, n <= l[i].size
  PROVE  /\ Layout(Carve(l, i, n), b, Written(m, NewHeader(l, i, n), "meta"))
         /\ Used(Carve(l, i, n)) = (Used(l) \ {l[i]}) \cup {Carved(l, i, n)}
         /\ Tiles(l, b) => Tiles(Carve(l, i, n), b)
<1>1. l \in Seq(Blocks) /\ b \in Nat /\ b \in 0 .. MaxBreak /\ m \in [Cells -> Writers] /\ Sorted(l, b)
  BY Sizes DEF Layout
<1>2. Carve(l, i, n) \in Seq(Blocks)
  BY <1>1, CarveSplits, CarveWhole DEF SplitAt
<1>3. Written(m, NewHeader(l, i, n), "meta") \in [Cells -> Writers]
  BY <1>1 DEF Written, Writers
<1>4. Sorted(Carve(l, i, n), b)
  BY <1>1, CarveSorted
<1> QED BY <1>1, <1>2, <1>3, <1>4, CarveHeaders, CarveUsed, CarveTiles DEF Layout

-----------------------------------------------------------------------------
(* my_free *)

MarkedFree(l, i) == [l EXCEPT ![i].free = TRUE]

LEMMA MarkFree ==
  ASSUME NEW l \in Seq(Blocks), NEW b \in Nat, Sorted(l, b), NEW i \in 1 .. Len(l),
         NEW r, r = MarkedFree(l, i)
  PROVE  /\ r \in Seq(Blocks) /\ Len(r) = Len(l)
         /\ \A k \in 1 .. Len(l) : r[k].at = l[k].at /\ End(r[k]) = End(l[k])
         /\ Used(r) = Used(l) \ {l[i]}
<1> DEFINE x == [l[i] EXCEPT !.free = TRUE]
<1>0. Len(l) \in Nat /\ \A k \in 1 .. Len(l) : l[k] \in Blocks
  BY LenProperties, ElementOfSeq
<1>1. x \in Blocks /\ x.free /\ x.at = l[i].at /\ x.size = l[i].size
  BY <1>0, Marked
<1>2. r = [l EXCEPT ![i] = x]
  BY DEF MarkedFree
<1> HIDE DEF x
<1>3. /\ r \in Seq(Blocks) /\ Len(r) = Len(l)
      /\ \A k \in 1 .. Len(l) : r[k] = IF k = i THEN x ELSE l[k]
  <2>1. /\ [l EXCEPT ![i] = x] \in Seq(Blocks) /\ Len([l EXCEPT ![i] = x]) = Len(l)
        /\ \A k \in 1 .. Len(l) : [l EXCEPT ![i] = x][k] = IF k = i THEN x ELSE l[k]
    BY <1>1, ExceptSeq
  <2> QED BY <1>2, <2>1
<1>4. End(x) = End(l[i])
  BY <1>1 DEF End
<1>5. \A k \in 1 .. Len(l) : k # i => l[k] # l[i]
  <2>1. \A k \in 1 .. Len(l) : /\ l[k].at \in Nat /\ l[k].at < End(l[k]) /\ End(l[k]) \in Nat
    BY SMTT(30), <1>0, BlockTypes, Sizes
  <2>2. \A k \in 1 .. Len(l) : k # i => End(l[k]) <= l[i].at \/ End(l[i]) <= l[k].at
    BY Apart
  <2> QED BY <2>1, <2>2
<1>6. Used(r) = Used(l) \ {l[i]}
  <2>1. ASSUME NEW u \in Used(r) PROVE u \in Used(l) /\ u # l[i]
    BY <1>1, <1>3, <1>5 DEF Used
  <2>2. ASSUME NEW u \in Used(l), u # l[i] PROVE u \in Used(r)
    BY <1>3, <2>2 DEF Used
  <2> QED BY <2>1, <2>2
<1> QED BY <1>1, <1>3, <1>4, <1>6

\* What the pass makes of the list from block i on.
Body(l, g, i) == IF i >= Len(l) THEN SubSeq(l, i, Len(l))
                 ELSE IF l[i].free /\ l[i + 1].free THEN <<Merge(l[i], l[i + 1])>> \o g[i + 2]
                 ELSE <<l[i]>> \o g[i + 1]

LEMMA MergeTypes ==
  ASSUME NEW u \in Blocks, NEW v \in Blocks
  PROVE  /\ Merge(u, v) \in Blocks /\ Merge(u, v).at = u.at /\ Merge(u, v).free
         /\ End(Merge(u, v)) = End(u) + Meta + v.size
<1>1. /\ u.at \in Nat /\ u.size \in Nat \ {0} /\ v.size \in Nat \ {0}
  BY DEF Blocks
<1>2. Merge(u, v) \in Blocks
  BY <1>1, Sizes DEF Merge, Block, Blocks
<1>3. /\ Merge(u, v).at = u.at /\ Merge(u, v).free = TRUE
      /\ Merge(u, v).size = u.size + Meta + v.size
  BY DEF Merge, Block
<1>4. End(Merge(u, v)) = End(u) + Meta + v.size
  BY <1>1, <1>3, Sizes DEF End
<1> QED BY <1>2, <1>3, <1>4

LEMMA PassExists ==
  ASSUME NEW l \in Seq(Blocks)
  PROVE  \E g : g = [i \in 1 .. Len(l) + 1 |-> Body(l, g, i)]
<1> DEFINE N == Len(l)
           S == Seq(Blocks)
           Have(k) == \E g \in [1 .. N + 1 -> S] : \A i \in 1 .. N + 1 : i + k > N + 1 => g[i] = Body(l, g, i)
           T == {k \in Nat : Have(k)}
<1>0. N \in Nat /\ \A k \in 1 .. N : l[k] \in Blocks
  BY LenProperties, ElementOfSeq
<1>1. 0 \in T
  <2>1. l \in S
    OBVIOUS
  <2> DEFINE g == [i \in 1 .. N + 1 |-> l]
  <2>2. g \in [1 .. N + 1 -> S]
    BY <2>1
  <2>3. \A i \in 1 .. N + 1 : ~ (i + 0 > N + 1)
    BY <1>0
  <2> HIDE DEF g
  <2>4. Have(0)
    BY <2>2, <2>3
  <2> QED BY <2>4
<1>2. ASSUME NEW k \in T PROVE Have(k + 1)
  <2>0. k \in Nat
    BY <1>2
  <2>1. PICK g \in [1 .. N + 1 -> S] : \A i \in 1 .. N + 1 : i + k > N + 1 => g[i] = Body(l, g, i)
    BY <1>2
  <2> DEFINE h == N + 1 - k
  <2>2. CASE h < 1
    <3>1. \A i \in 1 .. N + 1 : i + (k + 1) > N + 1 => i + k > N + 1
      BY <1>0, <2>0, <2>2
    <3> HIDE DEF N, S
    <3> QED BY <2>1, <3>1
  <2>3. CASE h >= 1
    <3>0. h \in 1 .. N + 1
      BY <1>0, <2>0, <2>3
    <3> DEFINE e == Body(l, g, h)
               r == [g EXCEPT ![h] = e]
    <3>1. e \in S
      <4>1. CASE h >= N
        <5>1. \A i \in h .. N : l[i] \in Blocks
          BY <1>0, <3>0
        <5>2. SubSeq(l, h, N) \in S
          BY <1>0, <3>0, <5>1, SubSeqProperties
        <5> QED BY <4>1, <5>2 DEF Body
      <4>2. CASE h < N
        <5>1. /\ h \in 1 .. N /\ h + 1 \in 1 .. N /\ h + 1 \in 1 .. N + 1 /\ h + 2 \in 1 .. N + 1
              /\ ~ (h >= N)
          BY <1>0, <3>0, <4>2
        <5>2. g[h + 1] \in S /\ g[h + 2] \in S
          BY <2>1, <5>1
        <5>3. <<l[h]>> \in S /\ <<Merge(l[h], l[h + 1])>> \in S
          <6>1. l[h] \in Blocks /\ l[h + 1] \in Blocks
            BY <1>0, <5>1
          <6> HIDE DEF h
          <6>2. Merge(l[h], l[h + 1]) \in Blocks
            BY <6>1, MergeTypes
          <6> QED BY <6>1, <6>2
        <5>4. <<l[h]>> \o g[h + 1] \in S /\ <<Merge(l[h], l[h + 1])>> \o g[h + 2] \in S
          BY <5>2, <5>3, ConcatProperties
        <5> HIDE DEF h
        <5>5. e = IF l[h].free /\ l[h + 1].free THEN <<Merge(l[h], l[h + 1])>> \o g[h + 2]
                  ELSE <<l[h]>> \o g[h + 1]
          BY <5>1 DEF Body
        <5> HIDE DEF e
        <5> QED BY <5>4, <5>5
      <4> QED BY <1>0, <3>0, <4>1, <4>2
    <3> HIDE DEF h, e
    <3>2. /\ r \in [1 .. N + 1 -> S] /\ r[h] = e
          /\ \A i \in 1 .. N + 1 : i # h => r[i] = g[i]
      BY <2>1, <3>0, <3>1
    <3> HIDE DEF r
    <3>3. ASSUME NEW i \in 1 .. N + 1, i >= h PROVE Body(l, r, i) = Body(l, g, i)
      <4>1. i >= N \/ (i + 1 \in 1 .. N + 1 /\ i + 2 \in 1 .. N + 1 /\ i + 1 # h /\ i + 2 # h)
        BY <1>0, <3>0, <3>3
      <4>2. i >= N \/ (r[i + 1] = g[i + 1] /\ r[i + 2] = g[i + 2])
        BY <3>2, <4>1
      <4> QED BY <4>2 DEF Body
    <3>4. ASSUME NEW i \in 1 .. N + 1, i + (k + 1) > N + 1 PROVE r[i] = Body(l, r, i)
      <4>1. i = h \/ (i > h /\ i + k > N + 1)
        BY <1>0, <2>0, <3>4 DEF h
      <4>2. CASE i = h
        BY <3>0, <3>2, <3>3, <4>2 DEF e
      <4>3. CASE i > h /\ i + k > N + 1
        <5>1. r[i] = g[i] /\ Body(l, r, i) = Body(l, g, i)
          BY <1>0, <3>0, <3>2, <3>3, <4>3
        <5> QED BY <2>1, <4>3, <5>1
      <4> QED BY <4>1, <4>2, <4>3
    <3> HIDE DEF N, S
    <3> QED BY <3>2, <3>4
  <2> QED BY <1>0, <2>0, <2>2, <2>3
<1>3. T = Nat
  <2> HIDE DEF Have
  <2>1. \A k \in T : k + 1 \in T
    BY <1>2
  <2>2. T \in SUBSET Nat
    OBVIOUS
  <2> HIDE DEF T
  <2> QED BY <1>1, <2>1, <2>2, Induction
<1>4. Have(N + 1)
  <2>1. N + 1 \in T
    <3> HIDE DEF T
    <3> QED BY <1>0, <1>3
  <2> HIDE DEF Have
  <2> QED BY <2>1
<1>5. PICK g \in [1 .. N + 1 -> S] : \A i \in 1 .. N + 1 : i + (N + 1) > N + 1 => g[i] = Body(l, g, i)
  BY <1>4
<1>6. \A i \in 1 .. N + 1 : g[i] = Body(l, g, i)
  BY <1>0, <1>5
<1>7. g = [i \in 1 .. N + 1 |-> g[i]]
  BY <1>5
<1>8. g = [i \in 1 .. N + 1 |-> Body(l, g, i)]
  <2> HIDE DEF N, S
  <2> QED BY <1>6, <1>7
<1> QED BY <1>8

LEMMA PassOf ==
  ASSUME NEW l \in Seq(Blocks)
  PROVE  \E g : /\ \A i \in 1 .. Len(l) + 1 : g[i] = Body(l, g, i)
                /\ MergePass(l) = g[1]
<1> DEFINE g == CHOOSE g : g = [i \in 1 .. Len(l) + 1 |-> Body(l, g, i)]
<1>1. MergePass(l) = g[1]
  BY DEF MergePass, Body
<1>2. g = [i \in 1 .. Len(l) + 1 |-> Body(l, g, i)]
  BY Zenon, PassExists
<1> HIDE DEF g
<1>3. \A i \in 1 .. Len(l) + 1 : g[i] = Body(l, g, i)
  BY Zenon, <1>2
<1> QED BY <1>1, <1>3

\* s is what the pass has made of the blocks from i on.
Suffix(l, b, i, s) ==
  /\ s \in Seq(Blocks) /\ Sorted(s, b)
  /\ \A k \in 1 .. Len(s) : \E j \in i .. Len(l) : s[k].at = l[j].at /\ (s[k].free \/ s[k] = l[j])
  /\ \A j \in i .. Len(l) : l[j].free \/ \E k \in 1 .. Len(s) : s[k] = l[j]
  /\ i <= Len(l) => Len(s) > 0 /\ s[1].at = l[i].at
  /\ i > Len(l) => Len(s) = 0
  /\ (\A j \in i .. Len(l) - 1 : End(l[j]) = l[j + 1].at) =>
       /\ \A k \in 1 .. Len(s) - 1 : End(s[k]) = s[k + 1].at
       /\ i <= Len(l) => End(s[Len(s)]) = End(l[Len(l)])

LEMMA PassStep ==
  ASSUME NEW l \in Seq(Blocks), NEW b \in Nat, Sorted(l, b),
         NEW i \in 1 .. Len(l), NEW d \in {1, 2}, i + d <= Len(l) + 1, NEW s, Suffix(l, b, i + d, s),
         NEW x \in Blocks, x.at = l[i].at, End(x) <= End(l[i + d - 1]),
         x.free \/ x = l[i], \A j \in i .. i + d - 1 : l[j].free \/ x = l[j],
         (\A j \in i .. Len(l) - 1 : End(l[j]) = l[j + 1].at) => End(x) = End(l[i + d - 1])
  PROVE  Suffix(l, b, i, <<x>> \o s)
<1> DEFINE r == <<x>> \o s
<1>0. /\ Len(l) \in Nat /\ \A j \in 1 .. Len(l) : l[j] \in Blocks
      /\ \A j \in 1 .. Len(l) : l[j].at \in Nat /\ End(l[j]) \in Nat
      /\ x.at \in Nat /\ End(x) \in Nat
      /\ s \in Seq(Blocks) /\ Len(s) \in Nat
      /\ d \in Nat /\ i + d \in Nat /\ i + d - 1 \in 1 .. Len(l) /\ i < i + d
  <2>1. Len(l) \in Nat /\ \A j \in 1 .. Len(l) : l[j] \in Blocks
    BY LenProperties, ElementOfSeq
  <2>2. s \in Seq(Blocks) /\ Len(s) \in Nat
    BY LenProperties DEF Suffix
  <2>3. \A u \in Blocks : u.at \in Nat /\ End(u) \in Nat
    BY BlockEnds
  <2>4. d = 1 \/ d = 2
    OBVIOUS
  <2>5. /\ d \in Nat /\ i + d \in Nat /\ i + d - 1 \in 1 .. Len(l) /\ i < i + d
    BY <2>1, <2>4
  <2> QED BY <2>1, <2>2, <2>3, <2>5
<1>1. /\ r \in Seq(Blocks) /\ Len(r) = Len(s) + 1 /\ r[1] = x
      /\ \A k \in 1 .. Len(s) : r[k + 1] = s[k]
  <2>1. <<x>> \in Seq(Blocks) /\ Len(<<x>>) = 1 /\ <<x>>[1] = x
    OBVIOUS
  <2>2. /\ r \in Seq(Blocks) /\ Len(r) = Len(<<x>>) + Len(s)
        /\ \A k \in 1 .. Len(<<x>>) + Len(s) : r[k] = IF k <= Len(<<x>>) THEN <<x>>[k] ELSE s[k - Len(<<x>>)]
    BY <1>0, <2>1, ConcatProperties
  <2> HIDE DEF r
  <2>3. \A k \in 1 .. Len(s) + 1 : r[k] = IF k <= 1 THEN x ELSE s[k - 1]
    BY SMTT(30), <1>0, <2>1, <2>2
  <2>4. \A k \in 1 .. Len(s) : k + 1 \in 1 .. Len(s) + 1 /\ ~ (k + 1 <= 1) /\ (k + 1) - 1 = k
    BY <1>0
  <2> QED BY SMTT(30), <1>0, <2>1, <2>2, <2>3, <2>4
<1> HIDE DEF r
<1>2. \A k \in 1 .. Len(r) : k = 1 \/ (k - 1 \in 1 .. Len(s) /\ r[k] = s[k - 1])
  <2>1. \A k \in 1 .. Len(r) : k = 1 \/ (k - 1 \in 1 .. Len(s) /\ (k - 1) + 1 = k)
    BY <1>0, <1>1
  <2> QED BY <1>1, <2>1
<1>3. \A k \in 1 .. Len(s) : \E j \in i + d .. Len(l) : s[k].at = l[j].at /\ (s[k].free \/ s[k] = l[j])
  BY DEF Suffix
<1>4. \A k \in 1 .. Len(s) : s[k].at \in Nat /\ End(s[k]) \in Nat
  <2>1. \A u \in Blocks : u.at \in Nat /\ End(u) \in Nat
    BY BlockEnds
  <2>2. \A k \in 1 .. Len(s) : s[k] \in Blocks
    BY <1>0, ElementOfSeq
  <2> QED BY <2>1, <2>2
<1>5. Sorted(r, b)
  <2>1. \A k \in 1 .. Len(s) : End(x) <= s[k].at
    <3>1. \A j \in i + d .. Len(l) : j \in 1 .. Len(l) /\ End(l[i + d - 1]) <= l[j].at
      BY SMTT(60), <1>0 DEF Sorted
    <3>2. ASSUME NEW k \in 1 .. Len(s) PROVE End(x) <= s[k].at
      <4>1. PICK j \in i + d .. Len(l) : s[k].at = l[j].at
        BY <1>3
      <4>2. End(l[i + d - 1]) <= l[j].at /\ l[j].at \in Nat /\ End(l[i + d - 1]) \in Nat
        BY <1>0, <3>1
      <4> QED BY SMTT(30), <1>0, <4>1, <4>2
    <3> QED BY <3>2
  <2>2. Sorted(s, b)
    BY DEF Suffix
  <2>3. ASSUME NEW k \in 1 .. Len(r), NEW m \in 1 .. Len(r), k < m PROVE End(r[k]) <= r[m].at
    <3>1. m - 1 \in 1 .. Len(s) /\ r[m] = s[m - 1]
      BY <1>2, <2>3
    <3>2. CASE k = 1
      BY <1>1, <2>1, <3>1, <3>2
    <3>3. CASE k # 1
      <4>1. k - 1 \in 1 .. Len(s) /\ r[k] = s[k - 1] /\ k - 1 < m - 1
        BY SMTT(60), <1>2, <2>3, <3>3
      <4> QED BY <2>2, <3>1, <4>1 DEF Sorted
    <3> QED BY <3>2, <3>3
  <2>4. ASSUME NEW k \in 1 .. Len(r) PROVE End(r[k]) <= b
    <3>1. CASE k = 1
      <4>1. End(l[i + d - 1]) <= b /\ End(l[i + d - 1]) \in Nat
        BY <1>0 DEF Sorted
      <4>2. r[k] = x
        BY <1>1, <3>1
      <4> QED BY <1>0, <4>1, <4>2
    <3>2. CASE k # 1
      <4>1. k - 1 \in 1 .. Len(s) /\ r[k] = s[k - 1]
        BY <1>2, <3>2
      <4> QED BY <2>2, <4>1 DEF Sorted
    <3> QED BY <3>1, <3>2
  <2> QED BY <2>3, <2>4 DEF Sorted
<1>6. ASSUME NEW k \in 1 .. Len(r)
      PROVE  \E j \in i .. Len(l) : r[k].at = l[j].at /\ (r[k].free \/ r[k] = l[j])
  <2>1. CASE k = 1
    <3>1. i \in i .. Len(l) /\ r[k] = x
      BY <1>0, <1>1, <2>1
    <3> QED BY <3>1
  <2>2. CASE k # 1
    <3>1. k - 1 \in 1 .. Len(s) /\ r[k] = s[k - 1]
      BY <1>2, <2>2
    <3>2. PICK j \in i + d .. Len(l) : s[k - 1].at = l[j].at /\ (s[k - 1].free \/ s[k - 1] = l[j])
      BY <1>3, <3>1
    <3>3. j \in i .. Len(l)
      BY <1>0
    <3> QED BY <3>1, <3>2, <3>3
  <2> QED BY <2>1, <2>2
<1>7. ASSUME NEW j \in i .. Len(l), ~ l[j].free PROVE \E k \in 1 .. Len(r) : r[k] = l[j]
  <2>1. CASE j <= i + d - 1
    <3>1. l[j] = x /\ 1 \in 1 .. Len(r)
      BY SMTT(60), <1>0, <1>1, <1>7, <2>1
    <3> QED BY <1>1, <3>1
  <2>2. CASE j > i + d - 1
    <3>1. j \in i + d .. Len(l)
      BY SMTT(30), <1>0, <2>2
    <3>2. PICK k \in 1 .. Len(s) : s[k] = l[j]
      BY <1>7, <3>1 DEF Suffix
    <3>3. k + 1 \in 1 .. Len(r) /\ r[k + 1] = l[j]
      BY <1>0, <1>1, <3>2
    <3> QED BY <3>3
  <2> QED BY <1>0, <2>1, <2>2
<1>8. ASSUME \A j \in i .. Len(l) - 1 : End(l[j]) = l[j + 1].at
      PROVE  /\ \A k \in 1 .. Len(r) - 1 : End(r[k]) = r[k + 1].at
             /\ End(r[Len(r)]) = End(l[Len(l)])
  <2>0. End(x) = End(l[i + d - 1])
    BY <1>8
  <2>1. \A j \in i + d .. Len(l) - 1 : End(l[j]) = l[j + 1].at
    BY <1>0, <1>8
  <2>2. \A k \in 1 .. Len(s) - 1 : End(s[k]) = s[k + 1].at
    BY <2>1 DEF Suffix
  <2>3. CASE i + d > Len(l)
    <3>1. Len(s) = 0 /\ i + d - 1 = Len(l)
      BY <1>0, <2>3 DEF Suffix
    <3> QED BY <1>0, <1>1, <2>0, <3>1
  <2>4. CASE i + d <= Len(l)
    <3>1. /\ Len(s) > 0 /\ s[1].at = l[i + d].at /\ End(s[Len(s)]) = End(l[Len(l)])
      BY <2>1, <2>4 DEF Suffix
    <3>2. End(x) = s[1].at
      <4>1. i + d - 1 \in i .. Len(l) - 1 /\ (i + d - 1) + 1 = i + d
        <5>1. d >= 1 /\ i \in Nat
          BY <1>0
        <5> QED BY <1>0, <2>4, <5>1
      <4>2. End(l[i + d - 1]) = l[(i + d - 1) + 1].at
        BY <1>8, <4>1
      <4> QED BY <2>0, <3>1, <4>1, <4>2
    <3>3. ASSUME NEW k \in 1 .. Len(r) - 1 PROVE End(r[k]) = r[k + 1].at
      <4>1. r[k + 1] = s[k] /\ k \in 1 .. Len(s)
        BY <1>0, <1>1
      <4>2. CASE k = 1
        BY <1>1, <3>2, <4>1, <4>2
      <4>3. CASE k # 1
        <5>1. k - 1 \in 1 .. Len(s) - 1 /\ r[k] = s[k - 1] /\ (k - 1) + 1 = k
          BY SMTT(60), <1>0, <1>1, <1>2, <4>1, <4>3
        <5> QED BY <2>2, <4>1, <5>1
      <4> QED BY <4>2, <4>3
    <3>4. End(r[Len(r)]) = End(l[Len(l)])
      <4>1. Len(s) \in 1 .. Len(s) /\ Len(r) = Len(s) + 1
        BY <1>0, <1>1, <3>1
      <4>2. r[Len(s) + 1] = s[Len(s)]
        BY <1>1, <4>1
      <4> QED BY <3>1, <4>1, <4>2
    <3> QED BY <3>3, <3>4
  <2> QED BY <1>0, <2>3, <2>4
<1>9. i <= Len(l) /\ Len(r) > 0 /\ r[1].at = l[i].at
  BY <1>0, <1>1
<1>10. Suffix(l, b, i, r)
  <2>1. ~ (i > Len(l))
    BY <1>0, <1>9
  <2> QED BY <1>1, <1>5, <1>6, <1>7, <1>8, <1>9, <2>1 DEF Suffix
<1> QED BY <1>10 DEF r

LEMMA PassSuffix ==
  ASSUME NEW l \in Seq(Blocks), NEW b \in Nat, Sorted(l, b),
         NEW g, \A i \in 1 .. Len(l) + 1 : g[i] = Body(l, g, i)
  PROVE  Suffix(l, b, 1, g[1])
<1> DEFINE N == Len(l)
           Done(k) == \A i \in 1 .. N + 1 : i + k >= N + 1 => Suffix(l, b, i, g[i])
           T == {k \in Nat : Done(k)}
<1>0. /\ N \in Nat /\ \A j \in 1 .. N : l[j] \in Blocks
  BY LenProperties, ElementOfSeq
<1>1. Suffix(l, b, N + 1, << >>)
  <2>1. << >> \in Seq(Blocks) /\ Len(<< >>) = 0
    OBVIOUS
  <2>2. Sorted(<< >>, b)
    BY <2>1 DEF Sorted
  <2> QED BY <1>0, <2>1, <2>2 DEF Suffix
<1>2. g[N + 1] = << >>
  <2>1. N + 1 \in 1 .. N + 1 /\ N + 1 >= N /\ N < N + 1
    BY <1>0
  <2>2. SubSeq(l, N + 1, N) = << >>
    BY <1>0, <2>1, SubSeqEmpty
  <2> HIDE DEF N
  <2> QED BY <2>1, <2>2 DEF Body, N
<1>3. 0 \in T
  <2>1. \A i \in 1 .. N + 1 : i + 0 >= N + 1 => i = N + 1
    BY <1>0
  <2> HIDE DEF N
  <2> QED BY <1>1, <1>2, <2>1
<1>4. ASSUME NEW k \in T, NEW i \in 1 .. N + 1, i + (k + 1) >= N + 1
      PROVE  Suffix(l, b, i, g[i])
  <2>0. k \in Nat /\ \A j \in 1 .. N + 1 : j + k >= N + 1 => Suffix(l, b, j, g[j])
    BY <1>4
  <2>1. CASE i = N + 1
    BY <1>1, <1>2, <2>1
  <2>2. CASE i # N + 1
    <3>0. i \in 1 .. N /\ l[i] \in Blocks /\ End(l[i]) \in Nat
      BY <1>0, <2>2, BlockEnds
    <3>7. /\ i >= N => g[i] = SubSeq(l, i, N)
          /\ ~ (i >= N) /\ ~ (l[i].free /\ l[i + 1].free) => g[i] = <<l[i]>> \o g[i + 1]
          /\ ~ (i >= N) /\ l[i].free /\ l[i + 1].free =>
               g[i] = <<Merge(l[i], l[i + 1])>> \o g[i + 2]
      <4>1. g[i] = Body(l, g, i)
        BY <1>4
      <4> QED BY <4>1 DEF Body
    <3>1. i + 1 \in 1 .. N + 1 /\ (i + 1) + k >= N + 1 /\ i + 1 - 1 = i
      BY <1>0, <1>4, <2>0, <3>0
    <3>2. Suffix(l, b, i + 1, g[i + 1])
      BY <2>0, <3>1
    <3>3. Suffix(l, b, i, <<l[i]>> \o g[i + 1])
      <4>1. \A j \in i .. i + 1 - 1 : j = i
        BY <3>0
      <4>2. /\ 1 \in {1, 2} /\ i + 1 <= N + 1 /\ End(l[i]) <= End(l[i + 1 - 1])
            /\ \A j \in i .. i + 1 - 1 : l[j].free \/ l[i] = l[j]
        BY <3>0, <3>1, <4>1
      <4> QED BY <3>0, <3>1, <3>2, <4>2, PassStep
    <3>4. CASE i = N
      <4>1. g[i] = SubSeq(l, i, N)
        BY <1>0, <3>0, <3>4, <3>7
      <4>2. SubSeq(l, i, N) = <<l[i]>> \o SubSeq(l, i + 1, N)
        BY <3>0, <3>4, SubSeqRecursiveFirst
      <4>3. SubSeq(l, i + 1, N) = << >>
        BY <1>0, <3>4, SubSeqEmpty
      <4> QED BY <1>2, <3>3, <3>4, <4>1, <4>2, <4>3
    <3>5. CASE i < N /\ ~ (l[i].free /\ l[i + 1].free)
      <4>1. g[i] = <<l[i]>> \o g[i + 1]
        BY <1>0, <3>0, <3>5, <3>7
      <4> QED BY <3>3, <4>1
    <3>6. CASE i < N /\ l[i].free /\ l[i + 1].free
      <4> DEFINE x == Merge(l[i], l[i + 1])
      <4>0. /\ i + 1 \in 1 .. N /\ l[i + 1] \in Blocks /\ i + 2 \in 1 .. N + 1
            /\ (i + 2) + k >= N + 1 /\ i + 2 - 1 = i + 1
        BY <1>0, <1>4, <2>0, <3>0, <3>6
      <4>1. g[i] = <<x>> \o g[i + 2]
        BY <1>0, <3>0, <3>6, <3>7
      <4>2. Suffix(l, b, i + 2, g[i + 2])
        BY <2>0, <4>0
      <4>3. x \in Blocks /\ x.at = l[i].at /\ x.free /\ End(x) = End(l[i]) + Meta + l[i + 1].size
        BY <3>0, <4>0, MergeTypes
      <4>4. /\ End(l[i + 1]) = l[i + 1].at + Meta + l[i + 1].size
            /\ l[i + 1].at \in Nat /\ l[i + 1].size \in Nat
        BY <4>0, BlockTypes
      <4>5. End(l[i]) <= l[i + 1].at
        BY <3>0, <4>0 DEF Sorted
      <4> HIDE DEF x
      <4>6. End(x) <= End(l[i + 2 - 1])
        BY SMTT(60), <3>0, <4>0, <4>3, <4>4, <4>5, Sizes
      <4>7. (\A j \in i .. N - 1 : End(l[j]) = l[j + 1].at) => End(x) = End(l[i + 2 - 1])
        <5>1. i \in i .. N - 1
          BY <1>0, <3>0, <3>6
        <5> QED BY <4>0, <4>3, <4>4, <5>1
      <4>8. \A j \in i .. i + 2 - 1 : l[j].free \/ x = l[j]
        <5>1. \A j \in i .. i + 2 - 1 : j = i \/ j = i + 1
          BY <3>0
        <5> QED BY <3>6, <5>1
      <4>9. 2 \in {1, 2} /\ i + 2 <= N + 1
        BY <4>0
      <4>10. Suffix(l, b, i, <<x>> \o g[i + 2])
        BY <3>0, <4>2, <4>3, <4>6, <4>7, <4>8, <4>9, PassStep
      <4> QED BY <4>1, <4>10
    <3> QED BY <1>0, <3>0, <3>4, <3>5, <3>6
  <2> QED BY <2>1, <2>2
<1>5. T = Nat
  <2> HIDE DEF Done
  <2>1. \A k \in T : k + 1 \in T
    <3>1. ASSUME NEW k \in T PROVE k + 1 \in Nat /\ Done(k + 1)
      <4>1. k \in Nat
        OBVIOUS
      <4>2. Done(k + 1)
        <5> HIDE DEF T
        <5> QED BY <1>4 DEF Done
      <4> QED BY <4>1, <4>2
    <3> QED BY <3>1
  <2>2. T \in SUBSET Nat
    OBVIOUS
  <2> HIDE DEF T
  <2> QED BY <1>3, <2>1, <2>2, Induction
<1>6. N \in T
  <2> HIDE DEF T
  <2> QED BY <1>0, <1>5
<1>7. 1 \in 1 .. N + 1 /\ 1 + N >= N + 1
  BY <1>0
<1> QED BY <1>6, <1>7

\* What my_free does to a layout: the block is in use no more, all others are.
LEMMA FreeLayout ==
  ASSUME NEW l, NEW b, NEW m, Layout(l, b, m), NEW u \in Used(l),
         NEW r, r = FreeBlock(l, Payload(u))
  PROVE  /\ Layout(r, b, m) /\ Used(r) = Used(l) \ {u}
         /\ Tiles(l, b) => Tiles(r, b)
<1> DEFINE i == BlockOf(l, Payload(u))
           k == MarkedFree(l, i)
<1>0. /\ l \in Seq(Blocks) /\ b \in Nat /\ Sorted(l, b) /\ Headers(l, m)
      /\ Len(l) \in Nat /\ DOMAIN l = 1 .. Len(l)
  BY LenProperties, Sizes DEF Layout
<1>1. i \in 1 .. Len(l) /\ l[i] = u
  <2>1. \E j \in DOMAIN l : Payload(l[j]) = Payload(u)
    BY <1>0 DEF Used
  <2>2. i \in DOMAIN l /\ Payload(l[i]) = Payload(u)
    BY <2>1 DEF BlockOf
  <2> HIDE DEF i
  <2> QED BY <1>0, <2>2, UsedByPayload
<1>2. r = MergePass(k)
  BY DEF FreeBlock, MarkedFree
<1> HIDE DEF i
<1>3. /\ k \in Seq(Blocks) /\ Len(k) = Len(l)
      /\ \A j \in 1 .. Len(l) : k[j].at = l[j].at /\ End(k[j]) = End(l[j])
      /\ Used(k) = Used(l) \ {u}
  <2>1. k = MarkedFree(l, i)
    OBVIOUS
  <2> HIDE DEF k
  <2>2. i \in 1 .. Len(l)
    BY <1>1
  <2>3. /\ k \in Seq(Blocks) /\ Len(k) = Len(l)
        /\ \A j \in 1 .. Len(l) : k[j].at = l[j].at /\ End(k[j]) = End(l[j])
        /\ Used(k) = Used(l) \ {l[i]}
    BY <1>0, <2>1, <2>2, MarkFree
  <2> QED BY <1>1, <2>3
<1> HIDE DEF k
<1>4. Sorted(k, b)
  BY <1>0, <1>3 DEF Sorted
<1>5. PICK g : /\ \A j \in 1 .. Len(k) + 1 : g[j] = Body(k, g, j)
               /\ MergePass(k) = g[1]
  BY <1>3, PassOf
<1>6. Suffix(k, b, 1, r)
  BY <1>0, <1>2, <1>3, <1>4, <1>5, PassSuffix
<1>7. Headers(r, m)
  BY <1>0, <1>3, <1>6 DEF Suffix, Headers
<1>8. Layout(r, b, m)
  BY <1>6, <1>7 DEF Suffix, Layout
<1>9. Used(r) = Used(k)
  <2>1. \A j \in 1 .. Len(k) : k[j] \in Blocks
    BY <1>3, ElementOfSeq
  <2>2. \A j \in 1 .. Len(r) : r[j].free \/ \E h \in 1 .. Len(k) : r[j] = k[h]
    BY <1>6 DEF Suffix
  <2>3. \A j \in 1 .. Len(k) : k[j].free \/ \E h \in 1 .. Len(r) : r[h] = k[j]
    BY <1>6 DEF Suffix
  <2> QED BY SMTT(30), <2>2, <2>3 DEF Used
<1>10. ASSUME Tiles(l, b) PROVE Tiles(r, b)
  <2>1. Len(l) > 0 /\ l # << >>
    BY <1>0, <1>1, EmptySeq
  <2>2. /\ \A j \in 1 .. Len(l) - 1 : End(l[j]) = l[j + 1].at
        /\ l[1].at = 0 /\ End(l[Len(l)]) = b
    BY <1>10, <2>1 DEF Tiles
  <2>3. \A j \in 1 .. Len(k) - 1 : End(k[j]) = k[j + 1].at
    <3>1. \A j \in 1 .. Len(l) - 1 : j \in 1 .. Len(l) /\ j + 1 \in 1 .. Len(l)
      BY <1>0
    <3> QED BY <1>3, <2>2, <3>1
  <2>4. 1 \in 1 .. Len(l) /\ Len(l) \in 1 .. Len(l) /\ 1 <= Len(k)
    BY <1>0, <1>3, <2>1
  <2>5. k[1].at = 0 /\ End(k[Len(k)]) = b
    BY <1>3, <2>2, <2>4
  <2>6. /\ Len(r) > 0 /\ r[1].at = 0
        /\ \A j \in 1 .. Len(r) - 1 : End(r[j]) = r[j + 1].at
        /\ End(r[Len(r)]) = b
    BY <1>6, <2>3, <2>4, <2>5 DEF Suffix
  <2>7. r # << >>
    BY <2>6, EmptySeq
  <2> QED BY <2>6, <2>7 DEF Tiles
<1> QED BY <1>3, <1>8, <1>9, <1>10

\* Carving a block takes no cell that was in none.
LEMMA CarveOutside ==
  ASSUME NEW l \in Seq(Blocks), NEW i \in 1 .. Len(l), NEW n \in Nat \ {0}, n <= l[i].size,
         NEW c \in Nat, Outside(l, c)
  PROVE  Outside(Carve(l, i, n), c) /\ c \notin NewHeader(l, i, n)
<1> DEFINE r == Carve(l, i, n)
           x == Carved(l, i, n)
           y == Remainder(l[i], n)
<1>0. Len(l) \in Nat /\ \A k \in 1 .. Len(l) : l[k] \in Blocks /\ (c < l[k].at \/ End(l[k]) <= c)
  BY LenProperties, ElementOfSeq DEF Outside
<1>1. /\ l[i].at \in Nat /\ End(l[i]) \in Nat /\ Payload(l[i]) = l[i].at + Meta
      /\ c < l[i].at \/ End(l[i]) <= c
  BY <1>0, BlockEnds DEF Payload
<1>2. /\ x \in Blocks /\ x.at = l[i].at /\ End(x) <= End(l[i]) /\ End(x) \in Nat /\ x.at < End(x)
      /\ Splits(l[i], n) => y \in Blocks /\ y.at = End(x) /\ End(y) = End(l[i])
  BY CarvedTypes, BlockEnds
<1> HIDE DEF r, x, y
<1>3. c < x.at \/ End(x) <= c
  BY <1>1, <1>2
<1>4. c \notin NewHeader(l, i, n)
  <2>1. SUFFICES ASSUME c \in NewHeader(l, i, n) PROVE FALSE
    OBVIOUS
  <2>2. Payload(l[i]) + n <= c /\ c < End(l[i])
    BY <2>1, HeaderWithin
  <2> QED BY <1>1, <2>2, Sizes
<1>5. CASE Splits(l[i], n)
  <2>1. SplitAt(r, l, i, x, y)
    BY <1>5, CarveSplits DEF r, x, y
  <2>2. c < y.at \/ End(y) <= c
    BY <1>1, <1>2, <1>5
  <2>3. ASSUME NEW k \in 1 .. Len(r) PROVE c < r[k].at \/ End(r[k]) <= c
    <3>1. CASE k < i
      <4>1. k \in 1 .. Len(l) /\ k \in 1 .. Len(l) + 1
        BY <1>0, <3>1
      <4>2. r[k] = l[k]
        BY <2>1, <3>1, <4>1 DEF SplitAt
      <4> QED BY <1>0, <4>1, <4>2
    <3>2. CASE k = i \/ k = i + 1
      BY <1>0, <1>3, <2>1, <2>2, <3>2 DEF SplitAt
    <3>3. CASE k > i + 1
      <4>1. k - 1 \in 1 .. Len(l) /\ r[k] = l[k - 1]
        BY <1>0, <2>1, <3>3 DEF SplitAt
      <4> QED BY <1>0, <4>1
    <3> QED BY <3>1, <3>2, <3>3
  <2> QED BY <1>4, <2>3 DEF Outside, r
<1>6. CASE ~ Splits(l[i], n)
  <2>1. Len(r) = Len(l) /\ \A k \in 1 .. Len(l) : r[k] = IF k = i THEN x ELSE l[k]
    BY <1>6, CarveWhole DEF r, x
  <2> QED BY <1>0, <1>3, <1>4, <2>1 DEF Outside, r
<1> QED BY <1>5, <1>6

-----------------------------------------------------------------------------
(* my_malloc *)

\* A new block behind all others.
LEMMA AppendLayout ==
  ASSUME NEW l, NEW b, NEW m, Layout(l, b, m),
         NEW n \in Nat \ {0}, b + Meta + n <= MaxBreak, NEW u, u = Block(b, n, FALSE)
  PROVE  /\ Layout(Append(l, u), b + Meta + n, Written(m, Span(b, Meta), "meta"))
         /\ Used(Append(l, u)) = Used(l) \cup {u}
         /\ Tiles(l, b) => Tiles(Append(l, u), b + Meta + n)
<1> DEFINE r == Append(l, u)
           w == Written(m, Span(b, Meta), "meta")
<1>0. /\ l \in Seq(Blocks) /\ b \in Nat /\ b + Meta + n \in 0 .. MaxBreak
      /\ Sorted(l, b) /\ Headers(l, m) /\ m \in [Cells -> Writers]
      /\ Len(l) \in Nat /\ \A j \in 1 .. Len(l) : l[j] \in Blocks
  BY LenProperties, ElementOfSeq, Sizes DEF Layout
<1>1. /\ u \in Blocks /\ ~ u.free /\ u.at = b /\ End(u) = b + Meta + n
  <2>1. u \in Blocks /\ u.at = b /\ u.size = n /\ u.free = FALSE
    BY <1>0 DEF Block, Blocks
  <2> QED BY <2>1 DEF End
<1>2. /\ r \in Seq(Blocks) /\ Len(r) = Len(l) + 1
      /\ \A j \in 1 .. Len(l) : r[j] = l[j]
      /\ r[Len(l) + 1] = u
  <2>1. /\ Append(l, u) \in Seq(Blocks) /\ Len(Append(l, u)) = Len(l) + 1
        /\ \A j \in 1 .. Len(l) : Append(l, u)[j] = l[j]
        /\ Append(l, u)[Len(l) + 1] = u
    <3>1. l \in Seq(Blocks) /\ u \in Blocks
      BY <1>0, <1>1
    <3> QED BY ONLY <3>1, AppendProperties
  <2> QED BY <2>1
<1> HIDE DEF r
<1>3. \A j \in 1 .. Len(r) : j \in 1 .. Len(l) \/ j = Len(l) + 1
  BY <1>0, <1>2
<1>4. \A j \in 1 .. Len(l) : /\ l[j].at \in Nat /\ End(l[j]) \in Nat
                            /\ End(l[j]) <= b /\ l[j].at + Meta < End(l[j])
  <2>1. \A j \in 1 .. Len(l) : End(l[j]) <= b
    BY <1>0 DEF Sorted
  <2> QED BY <1>0, <2>1, BlockEnds
<1>5. Sorted(r, b + Meta + n)
  <2>1. ASSUME NEW j \in 1 .. Len(r), NEW k \in 1 .. Len(r), j < k PROVE End(r[j]) <= r[k].at
    <3>1. j \in 1 .. Len(l)
      BY <1>0, <1>2, <2>1
    <3>2. CASE k \in 1 .. Len(l)
      BY <1>0, <1>2, <2>1, <3>1, <3>2 DEF Sorted
    <3>3. CASE k = Len(l) + 1
      BY <1>1, <1>2, <1>4, <3>1, <3>3
    <3> QED BY <1>3, <3>2, <3>3
  <2>2. ASSUME NEW j \in 1 .. Len(r) PROVE End(r[j]) <= b + Meta + n
    <3>1. CASE j \in 1 .. Len(l)
      <4>1. r[j] = l[j] /\ End(l[j]) \in Nat /\ End(l[j]) <= b
        BY <1>2, <1>4, <3>1
      <4> QED BY <1>0, <4>1, Sizes
    <3>2. CASE j = Len(l) + 1
      <4>1. End(r[j]) = b + Meta + n
        BY <1>1, <1>2, <3>2
      <4> QED BY <1>0, <4>1
    <3> QED BY <1>3, <3>1, <3>2
  <2> QED BY <2>1, <2>2 DEF Sorted
<1>6. w \in [Cells -> Writers]
  BY <1>0 DEF Written, Writers
<1>7. Headers(r, w)
  <2>1. ASSUME NEW j \in 1 .. Len(r), NEW c \in Span(r[j].at, Meta) PROVE w[c] = "meta"
    <3>1. CASE j \in 1 .. Len(l)
      <4>1. c \in Span(l[j].at, Meta)
        BY <1>2, <3>1
      <4>2. c \in Cells
        BY SMTT(30), <1>0, <1>4, <3>1, <4>1, Sizes DEF Span, Cells
      <4>3. m[c] = "meta"
        BY <1>0, <3>1, <4>1 DEF Headers
      <4> QED BY <4>2, <4>3 DEF Written
    <3>2. CASE j = Len(l) + 1
      <4>1. c \in Span(b, Meta)
        BY <1>1, <1>2, <3>2
      <4>2. c \in Cells
        BY <1>0, <4>1, Sizes DEF Span, Cells
      <4> QED BY <4>1, <4>2 DEF Written
    <3> QED BY <1>3, <3>1, <3>2
  <2> QED BY <2>1 DEF Headers
<1>8. Used(r) = Used(l) \cup {u}
  <2>1. ASSUME NEW v \in Used(r) PROVE v \in Used(l) \cup {u}
    BY <1>2, <1>3 DEF Used
  <2>2. ASSUME NEW v \in Used(l) PROVE v \in Used(r)
    <3>1. PICK j \in 1 .. Len(l) : l[j] = v
      BY DEF Used
    <3>2. j \in 1 .. Len(r) /\ r[j] = v
      BY <1>0, <1>2, <3>1
    <3> QED BY <3>2 DEF Used
  <2>3. u \in Used(r)
    <3>1. Len(l) + 1 \in 1 .. Len(r)
      BY <1>0, <1>2
    <3> QED BY <1>1, <1>2, <3>1 DEF Used
  <2> QED BY <2>1, <2>2, <2>3
<1>9. ASSUME Tiles(l, b) PROVE Tiles(r, b + Meta + n)
  <2>1. Len(r) > 0 /\ r # << >>
    BY <1>0, <1>2, EmptySeq
  <2>2. CASE Len(l) = 0
    <3>1. l = << >>
      BY <1>0, <2>2, EmptySeq
    <3>2. b = 0
      BY <1>9, <3>1 DEF Tiles
    <3>3. Len(r) = 1 /\ r[1] = u
      <4>1. Len(l) + 1 = 1
        BY <2>2
      <4> QED BY ONLY <1>2, <4>1
    <3>4. r[1].at = 0 /\ End(r[Len(r)]) = b + Meta + n
      BY <1>1, <3>2, <3>3
    <3>5. \A j \in 1 .. Len(r) - 1 : FALSE
      BY <3>3
    <3> QED BY <2>1, <3>4, <3>5 DEF Tiles
  <2>3. CASE Len(l) > 0
    <3>1. /\ \A j \in 1 .. Len(l) - 1 : End(l[j]) = l[j + 1].at
          /\ l[1].at = 0 /\ End(l[Len(l)]) = b
      <4>1. l # << >>
        BY <2>3, EmptySeq
      <4> QED BY <1>9, <4>1 DEF Tiles
    <3>2. ASSUME NEW j \in 1 .. Len(r) - 1 PROVE End(r[j]) = r[j + 1].at
      <4>1. j \in 1 .. Len(l)
        BY <1>0, <1>2
      <4>2. CASE j = Len(l)
        BY <1>1, <1>2, <3>1, <4>1, <4>2
      <4>3. CASE j < Len(l)
        <5>1. j \in 1 .. Len(l) - 1 /\ j + 1 \in 1 .. Len(l)
          BY <1>0, <4>1, <4>3
        <5> QED BY <1>2, <3>1, <4>1, <5>1
      <4> QED BY <1>0, <4>1, <4>2, <4>3
    <3>3. r[1].at = 0 /\ End(r[Len(r)]) = b + Meta + n
      <4>1. 1 \in 1 .. Len(l) /\ r[1] = l[1]
        BY <1>0, <1>2, <2>3
      <4>2. r[Len(r)] = u
        BY <1>2
      <4> QED BY <1>1, <3>1, <4>1, <4>2
    <3> QED BY <2>1, <3>2, <3>3 DEF Tiles
  <2> QED BY <1>0, <2>2, <2>3
<1>10. Layout(r, b + Meta + n, w)
  BY <1>0, <1>2, <1>5, <1>6, <1>7 DEF Layout
<1> QED BY <1>8, <1>9, <1>10 DEF r

\* What my_malloc does to a layout, unless it returns NULL: a block is in use that
\* was not, nothing is written in those that were, and what lies below the break
\* in no block stays so.
Gives(l, n, r, u) ==
  /\ u \in Blocks /\ ~ u.free /\ Payload(u) = r.ptr /\ n <= u.size
  /\ Layout(r.list, r.brk, r.mem) /\ brk <= r.brk
  /\ u \notin Used(l) /\ Used(r.list) = Used(l) \cup {u}
  /\ \A v \in Used(l), c \in Cells : v.at <= c /\ c < End(v) => r.mem[c] = mem[c]
  /\ \A c \in Cells : c < brk /\ Outside(l, c) => Outside(r.list, c) /\ r.mem[c] = mem[c]
  /\ Tiles(l, brk) => Tiles(r.list, r.brk)

LEMMA MallocLayout ==
  ASSUME NEW l, Layout(l, brk, mem), NEW n \in Nat \ {0}
  PROVE  \/ Malloc(l, n) = [list |-> l, brk |-> brk, ptr |-> -1, mem |-> mem]
         \/ \E u : Gives(l, n, Malloc(l, n), u)
<1> DEFINE r == Malloc(l, n)
<1>0. /\ l \in Seq(Blocks) /\ brk \in Nat /\ Sorted(l, brk) /\ mem \in [Cells -> Writers]
      /\ Len(l) \in Nat /\ DOMAIN l = 1 .. Len(l) /\ \A j \in 1 .. Len(l) : l[j] \in Blocks
  BY LenProperties, ElementOfSeq, Sizes DEF Layout
<1>1. CASE Fits(l, n) # {}
  <2> DEFINE i == CHOOSE i \in Fits(l, n) : \A j \in Fits(l, n) : i <= j
  <2>1. i \in 1 .. Len(l) /\ l[i].free /\ n <= l[i].size
    <3>1. Fits(l, n) \in SUBSET Nat
      BY <1>0 DEF Fits
    <3>2. \E j \in Fits(l, n) : \A k \in Fits(l, n) : j <= k
      BY <1>1, <3>1, LeastNumber
    <3>3. i \in Fits(l, n)
      BY <3>2
    <3> HIDE DEF i
    <3>4. i \in DOMAIN l /\ l[i].free /\ l[i].size >= n
      BY <3>3 DEF Fits
    <3> QED BY <1>0, <3>4, BlockTypes
  <2>2. r = [list |-> Carve(l, i, n), brk |-> brk, ptr |-> Payload(l[i]),
             mem |-> Written(mem, NewHeader(l, i, n), "meta")]
    BY <1>1 DEF Malloc
  <2> HIDE DEF r, i
  <2> DEFINE u == Carved(l, i, n)
  <2>3. /\ u \in Blocks /\ ~ u.free /\ u.at = l[i].at /\ n <= u.size
    BY <1>0, <2>1, CarvedTypes
  <2>4. /\ Layout(r.list, r.brk, r.mem) /\ Used(r.list) = (Used(l) \ {l[i]}) \cup {u}
        /\ Tiles(l, brk) => Tiles(r.list, r.brk)
    BY <2>1, <2>2, CarveLayout
  <2>5. l[i] \notin Used(l)
    BY <2>1 DEF Used
  <2>6. u \notin Used(l)
    <3>1. ASSUME u \in Used(l) PROVE FALSE
      <4>1. Payload(u) = Payload(l[i]) /\ u # l[i]
        BY <2>3, <2>5, <3>1 DEF Payload
      <4> HIDE DEF u
      <4> QED BY <1>0, <2>1, <3>1, <4>1, UsedByPayload
    <3> QED BY <3>1
  <2>7. ASSUME NEW v \in Used(l), NEW c \in Cells, v.at <= c, c < End(v) PROVE r.mem[c] = mem[c]
    <3>1. End(l[i]) <= v.at \/ End(v) <= l[i].at
      BY <1>0, <2>1, <2>5, UsedApart
    <3>2. c \notin NewHeader(l, i, n)
      <4>1. SUFFICES ASSUME c \in NewHeader(l, i, n) PROVE FALSE
        OBVIOUS
      <4>2. c \in Nat /\ Payload(l[i]) + n <= c /\ c < End(l[i])
        BY <1>0, <2>1, <4>1, HeaderWithin
      <4>3. Payload(l[i]) = l[i].at + Meta /\ l[i].at \in Nat /\ End(l[i]) \in Nat
        BY <1>0, <2>1, BlockEnds DEF Payload
      <4>4. v.at \in Nat /\ End(v) \in Nat
        BY BlockEnds DEF Used
      <4> QED BY <2>7, <3>1, <4>2, <4>3, <4>4, Sizes
    <3> QED BY <2>2, <3>2 DEF Written
  <2>8. Payload(u) = r.ptr /\ brk <= r.brk
    BY <1>0, <2>2, <2>3 DEF Payload
  <2> HIDE DEF u
  <2>10. ASSUME NEW c \in Cells, Outside(l, c) PROVE Outside(r.list, c) /\ r.mem[c] = mem[c]
    <3>1. Outside(Carve(l, i, n), c) /\ c \notin NewHeader(l, i, n)
      BY <1>0, <2>1, <2>10, CarveOutside DEF Cells
    <3> QED BY <2>2, <3>1 DEF Written
  <2>9. Gives(l, n, r, u)
    BY <2>3, <2>4, <2>5, <2>6, <2>7, <2>8, <2>10 DEF Gives
  <2> QED BY <2>9 DEF r
<1>2. CASE Fits(l, n) = {} /\ brk + Meta + n <= MaxBreak
  <2> DEFINE u == Block(brk, n, FALSE)
  <2>1. r = [list |-> Append(l, u), brk |-> brk + Meta + n,
             ptr |-> brk + Meta, mem |-> Written(mem, Span(brk, Meta), "meta")]
    BY <1>2 DEF Malloc
  <2> HIDE DEF r
  <2>2. u \in Blocks /\ ~ u.free /\ u.at = brk /\ u.size = n
    BY <1>0 DEF Block, Blocks
  <2>3. u = Block(brk, n, FALSE)
    OBVIOUS
  <2> HIDE DEF u
  <2>4. /\ Layout(r.list, r.brk, r.mem) /\ Used(r.list) = Used(l) \cup {u}
        /\ Tiles(l, brk) => Tiles(r.list, r.brk)
    BY <1>2, <2>1, <2>3, AppendLayout
  <2>5. \A v \in Used(l) : End(v) <= brk /\ v.at \in Nat /\ v.at < End(v) /\ End(v) \in Nat
    BY <1>0, BlockEnds DEF Used, Sorted
  <2>6. u \notin Used(l)
    BY <1>0, <2>2, <2>5
  <2>7. ASSUME NEW v \in Used(l), NEW c \in Cells, v.at <= c, c < End(v) PROVE r.mem[c] = mem[c]
    <3>1. c \notin Span(brk, Meta)
      BY <1>0, <2>5, <2>7, Sizes DEF Span, Cells
    <3> QED BY <2>1, <3>1 DEF Written
  <2>8. Payload(u) = r.ptr /\ brk <= r.brk /\ n <= u.size
    BY <1>0, <2>1, <2>2, Sizes DEF Payload
  <2>10. ASSUME NEW c \in Cells, c < brk, Outside(l, c) PROVE Outside(r.list, c) /\ r.mem[c] = mem[c]
    <3>1. c \notin Span(brk, Meta)
      BY <1>0, <2>10, Sizes DEF Span, Cells
    <3>2. /\ Len(r.list) = Len(l) + 1 /\ r.list[Len(l) + 1] = u
          /\ \A j \in 1 .. Len(l) : r.list[j] = l[j]
      BY <1>0, <2>1, <2>2, AppendProperties
    <3>3. Outside(r.list, c)
      BY <1>0, <2>2, <2>10, <3>2 DEF Outside
    <3> QED BY <2>1, <3>1, <3>3 DEF Written
  <2>9. Gives(l, n, r, u)
    BY <2>2, <2>4, <2>6, <2>7, <2>8, <2>10 DEF Gives
  <2> QED BY <2>9 DEF r
<1>3. CASE Fits(l, n) = {} /\ ~ (brk + Meta + n <= MaxBreak)
  BY <1>3 DEF Malloc
<1> QED BY <1>1, <1>2, <1>3

-----------------------------------------------------------------------------
(* The caller's objects *)

Records == [ptr : Int, size : Nat]

\* Each live object has a block in use that is large enough, and each block in use
\* (the set U) has one live object.
Owned(L, U) ==
  /\ \A o \in Objects : L[o] # Null => \E u \in U : Payload(u) = L[o].ptr /\ L[o].size <= u.size
  /\ \A o, p \in Objects : L[o] # Null /\ L[p] # Null /\ L[o].ptr = L[p].ptr => o = p
  /\ \A u \in U : \E o \in Objects : L[o] # Null /\ L[o].ptr = Payload(u)

\* The objects hold what they were given, but for what the writers in S wrote.
Holds(L, m, S) == \A o \in Objects : \A c \in Span(L[o].ptr, L[o].size) : m[c] \in {o} \cup S

HeapInv == /\ list \in Seq(Blocks) /\ brk \in 0 .. MaxBreak /\ mem \in [Cells -> Writers]
           /\ Sorted(list, brk)
           /\ \A i \in 1 .. Len(list) : \A c \in Span(list[i].at, Meta) : mem[c] \in {"meta"} \cup Strays
           /\ live \in [Objects -> Records] /\ libcSbrk \in BOOLEAN /\ bridged \in BOOLEAN
           /\ Owned(live, Used(list)) /\ Holds(live, mem, Strays)
           /\ ~ libcSbrk => Tiles(list, brk)

\* Before the merge over it, libc's memory is in no block and as libc wrote it.
LibcApart == /\ libcCells \subseteq 0 .. brk - 1
             /\ ~ bridged => \A c \in libcCells : Outside(list, c) /\ mem[c] = "libc"

\* The caller's calls start from whole headers.
LEMMA CallsSeeLayout ==
  ASSUME HeapInv, HeadersWhole
  PROVE  Layout(list, brk, mem)
<1>1. DOMAIN list = 1 .. Len(list)
  BY LenProperties DEF HeapInv
<1> QED BY <1>1 DEF HeapInv, HeadersWhole, Layout, Headers

\* A step after which the headers are whole keeps what the rest of the invariant
\* says, and adds no stray writer but libc, for good.
LEMMA HeapAgain ==
  ASSUME HeapInv, UNCHANGED libcSbrk, bridged' \in BOOLEAN, bridged => bridged',
         Layout(list', brk', mem'), live' \in [Objects -> Records],
         Owned(live', Used(list')), Holds(live', mem', Strays),
         Tiles(list, brk) => Tiles(list', brk')
  PROVE  HeapInv'
<1>1. Strays \subseteq Strays'
  BY DEF Strays
<1>2. Holds(live', mem', Strays')
  BY <1>1 DEF Holds
<1> QED BY <1>2 DEF HeapInv, Layout, Headers

LEMMA BlockOfUsed ==
  ASSUME NEW l, NEW b, NEW m, Layout(l, b, m), NEW u \in Used(l)
  PROVE  BlockOf(l, Payload(u)) \in 1 .. Len(l) /\ l[BlockOf(l, Payload(u))] = u
<1> DEFINE i == BlockOf(l, Payload(u))
<1>1. l \in Seq(Blocks) /\ Sorted(l, b) /\ DOMAIN l = 1 .. Len(l)
  BY LenProperties DEF Layout
<1>2. \E j \in DOMAIN l : Payload(l[j]) = Payload(u)
  BY <1>1 DEF Used
<1>3. i \in DOMAIN l /\ Payload(l[i]) = Payload(u)
  BY <1>2 DEF BlockOf
<1> HIDE DEF i
<1>4. i \in 1 .. Len(l) /\ l[i] = u
  BY <1>1, <1>3, UsedByPayload
<1> QED BY <1>4 DEF i

\* The block of a live object.
LEMMA OwnBlock ==
  ASSUME HeapInv, NEW o \in Objects, live[o] # Null
  PROVE  \E u \in Used(list) : Payload(u) = live[o].ptr /\ live[o].size <= u.size
BY DEF HeapInv, Owned

\* Where a block in use lies, and what is apart from it.
LEMMA UsedWhere ==
  ASSUME NEW l \in Seq(Blocks), NEW b \in 0 .. MaxBreak, Sorted(l, b), NEW u \in Used(l)
  PROVE  /\ u \in Blocks /\ u.at \in Nat /\ u.size \in Nat
         /\ Payload(u) = u.at + Meta /\ End(u) = Payload(u) + u.size
         /\ Payload(u) \in Nat /\ Payload(u) # -1
         /\ End(u) <= b /\ Span(Payload(u), u.size) \subseteq Cells
         /\ \A v \in Used(l) : v # u => End(u) <= v.at \/ End(v) <= u.at
         /\ \A i \in 1 .. Len(l) : \A c \in Span(l[i].at, Meta) :
              c \in Cells /\ c \notin Span(Payload(u), u.size)
<1>0. /\ l \in Seq(Blocks) /\ b \in Nat /\ b <= MaxBreak /\ Sorted(l, b)
      /\ \A i \in 1 .. Len(l) : l[i] \in Blocks
  BY ElementOfSeq, Sizes
<1>1. PICK k \in 1 .. Len(l) : l[k] = u
  BY DEF Used
<1>2. /\ u \in Blocks /\ u.at \in Nat /\ u.size \in Nat /\ Payload(u) = u.at + Meta
      /\ End(u) = Payload(u) + u.size
  BY <1>0, <1>1, BlockTypes, Sizes DEF Payload, End
<1>3. End(u) <= b
  BY <1>0, <1>1 DEF Sorted
<1>4. Span(Payload(u), u.size) \subseteq Cells
  BY SMTT(30), <1>0, <1>2, <1>3, Sizes DEF Span, Cells
<1>5. \A v \in Used(l) : v # u => End(u) <= v.at \/ End(v) <= u.at
  <2>1. ASSUME NEW v \in Used(l), v # u PROVE End(u) <= v.at \/ End(v) <= u.at
    <3>1. PICK j \in 1 .. Len(l) : l[j] = v
      BY DEF Used
    <3> QED BY <1>0, <1>1, <2>1, <3>1, Apart
  <2> QED BY <2>1
<1>6. ASSUME NEW i \in 1 .. Len(l), NEW c \in Span(l[i].at, Meta)
      PROVE  c \in Cells /\ c \notin Span(Payload(u), u.size)
  <2>1. /\ l[i].at \in Nat /\ End(l[i]) \in Nat /\ l[i].at + Meta < End(l[i])
    BY <1>0, BlockEnds
  <2>2. End(l[i]) <= b
    BY <1>0 DEF Sorted
  <2>3. c \in Cells
    BY <1>0, <2>1, <2>2, Sizes DEF Span, Cells
  <2>4. l[i] = u \/ End(l[i]) <= u.at \/ End(u) <= l[i].at
    BY <1>0, UsedApart
  <2>5. c \notin Span(Payload(u), u.size)
    <3>1. CASE l[i] = u
      BY SMTT(30), <1>2, <2>1, <3>1, Sizes DEF Span
    <3>2. CASE End(l[i]) <= u.at
      BY SMTT(30), <1>2, <2>1, <3>2, Sizes DEF Span
    <3>3. CASE End(u) <= l[i].at
      BY SMTT(60), <1>2, <2>1, <3>3, Sizes DEF Span
    <3> QED BY <2>4, <3>1, <3>2, <3>3
  <2> QED BY <2>3, <2>5
<1> QED BY <1>2, <1>3, <1>4, <1>5, <1>6, Sizes

LEMMA UsedCells ==
  ASSUME NEW l, NEW b, NEW m, Layout(l, b, m), NEW u \in Used(l)
  PROVE  /\ u \in Blocks /\ u.at \in Nat /\ u.size \in Nat
         /\ Payload(u) = u.at + Meta /\ End(u) = Payload(u) + u.size
         /\ Payload(u) \in Nat /\ Payload(u) # -1
         /\ End(u) <= b /\ Span(Payload(u), u.size) \subseteq Cells
         /\ \A v \in Used(l) : v # u => End(u) <= v.at \/ End(v) <= u.at
         /\ \A i \in 1 .. Len(l) : \A c \in Span(l[i].at, Meta) :
              c \in Cells /\ c \notin Span(Payload(u), u.size)
BY UsedWhere DEF Layout

\* Writing within a block in use leaves the layout as it is.
LEMMA WriteWithin ==
  ASSUME NEW l, NEW b, NEW m, Layout(l, b, m), NEW u \in Used(l), NEW w \in [Cells -> Writers],
         \A c \in Cells : c \notin Span(Payload(u), u.size) => w[c] = m[c]
  PROVE  Layout(l, b, w)
<1>1. Headers(l, m)
  BY DEF Layout
<1>2. \A i \in 1 .. Len(l) : \A c \in Span(l[i].at, Meta) : c \in Cells /\ c \notin Span(Payload(u), u.size)
  BY UsedCells
<1>3. Headers(l, w)
  BY <1>1, <1>2 DEF Headers
<1> QED BY <1>3 DEF Layout

\* What the objects other than o hold is left alone, when nothing is written in
\* the blocks in use but that of o.
LEMMA OthersHold ==
  ASSUME HeapInv, NEW o \in Objects, NEW p \in Objects, p # o, NEW w,
         \A v \in Used(list), c \in Cells :
           v.at <= c /\ c < End(v) => w[c] = mem[c] \/ (live[o] # Null /\ Payload(v) = live[o].ptr)
  PROVE  \A c \in Span(live[p].ptr, live[p].size) : w[c] \in {p} \cup Strays
<1>1. CASE live[p] = Null
  <2>1. Span(live[p].ptr, live[p].size) = {}
    BY <1>1 DEF Span, Null
  <2> QED BY <2>1
<1>2. CASE live[p] # Null
  <2>0. /\ list \in Seq(Blocks) /\ brk \in 0 .. MaxBreak /\ Sorted(list, brk)
        /\ live[p] \in Records /\ live[p].ptr \in Int /\ live[p].size \in Nat
    BY DEF HeapInv, Records
  <2>1. PICK v \in Used(list) : Payload(v) = live[p].ptr /\ live[p].size <= v.size
    BY <1>2, OwnBlock
  <2>2. /\ Span(Payload(v), v.size) \subseteq Cells /\ v.at \in Nat /\ v.size \in Nat
        /\ Payload(v) = v.at + Meta /\ End(v) = Payload(v) + v.size
    BY <2>0, UsedWhere
  <2>3. ~ (live[o] # Null /\ Payload(v) = live[o].ptr)
    BY <1>2, <2>1 DEF HeapInv, Owned
  <2>4. ASSUME NEW c \in Span(live[p].ptr, live[p].size) PROVE w[c] \in {p} \cup Strays
    <3>1. mem[c] \in {p} \cup Strays
      BY DEF HeapInv, Holds
    <3>2. c \in Span(Payload(v), v.size)
      BY <2>0, <2>1, <2>2, Sizes, SpanWithin
    <3>3. v.at <= c /\ c < End(v)
      BY <2>2, <3>2, Sizes DEF Span
    <3>4. c \in Cells
      BY <2>2, <3>2
    <3> QED BY <2>3, <3>1, <3>3, <3>4
  <2> QED BY <2>4
<1> QED BY <1>1, <1>2

LEMMA InitHeap == AllocInit => HeapInv /\ LibcApart
<1> SUFFICES ASSUME AllocInit PROVE HeapInv /\ LibcApart
  OBVIOUS
<1>1. list = << >> /\ Len(list) = 0 /\ list \in Seq(Blocks)
  BY DEF AllocInit
<1>2. Used(list) = {}
  BY <1>1 DEF Used
<1>3. Layout(list, brk, mem)
  <2>1. brk \in 0 .. MaxBreak /\ mem \in [Cells -> Writers]
    BY Sizes DEF AllocInit, Writers
  <2>2. Sorted(list, brk) /\ Headers(list, mem)
    BY <1>1 DEF Sorted, Headers
  <2> QED BY <1>1, <2>1, <2>2 DEF Layout
<1>4. \A o \in Objects : live[o] = Null
  BY DEF AllocInit
<1>5. live \in [Objects -> Records] /\ libcSbrk \in BOOLEAN
  BY DEF AllocInit, Records, Null
<1>10. bridged \in BOOLEAN
  BY Zenon DEF AllocInit
<1>6. Owned(live, Used(list))
  BY <1>2, <1>4 DEF Owned
<1>7. Holds(live, mem, Strays)
  BY <1>4 DEF Holds, Null, Span
<1>8. Tiles(list, brk)
  BY <1>1 DEF Tiles, AllocInit
<1>9. LibcApart
  BY DEF LibcApart, AllocInit
<1> QED BY <1>1, <1>3, <1>5, <1>6, <1>7, <1>8, <1>9, <1>10 DEF HeapInv, Layout

\* The caller's pointers when object o gets n cells of block x.
Given(o, x, n) == [live EXCEPT ![o] = [ptr |-> Payload(x), size |-> n]]

\* U is the blocks in use, with x for the one that o has, if it has one.
Replaced(U, o, x) ==
  /\ x \in Used(list) => live[o] # Null /\ Payload(x) = live[o].ptr
  /\ \A u \in U : u # x => Payload(u) # Payload(x)
  /\ \A u : u \in U <=> u = x \/ (u \in Used(list) /\ ~ (live[o] # Null /\ Payload(u) = live[o].ptr))

LEMMA NewOwner ==
  ASSUME HeapInv, NEW o \in Objects, NEW x \in Blocks, NEW n \in Nat \ {0}, n <= x.size,
         NEW L, L = Given(o, x, n),
         NEW U, Replaced(U, o, x)
  PROVE  /\ L \in [Objects -> Records] /\ Owned(L, U)
         /\ L[o] # Null /\ L[o].ptr = Payload(x) /\ L[o].size = n
         /\ \A p \in Objects : p # o => L[p] = live[p]
<1> USE DEF Replaced
<1>0. /\ live \in [Objects -> Records] /\ Owned(live, Used(list))
      /\ x.at \in Nat /\ Payload(x) \in Nat
  BY BlockTypes, Sizes DEF HeapInv, Payload
<1>1. /\ L \in [Objects -> Records] /\ L[o] = [ptr |-> Payload(x), size |-> n]
      /\ \A p \in Objects : p # o => L[p] = live[p]
  BY <1>0 DEF Records, Given
<1>2. L[o].ptr = Payload(x) /\ L[o].size = n /\ L[o] # Null
  <2>1. L[o].ptr = Payload(x) /\ L[o].size = n /\ Null.ptr = -1
    BY <1>1 DEF Null
  <2> QED BY <1>0, <2>1
<1>3. ASSUME NEW p \in Objects, L[p] # Null
      PROVE  \E u \in U : Payload(u) = L[p].ptr /\ L[p].size <= u.size
  <2>1. CASE p = o
    BY <1>2, <2>1
  <2>2. CASE p # o
    <3>1. live[p] # Null /\ L[p] = live[p]
      BY <1>1, <1>3, <2>2
    <3>2. PICK u \in Used(list) : Payload(u) = live[p].ptr /\ live[p].size <= u.size
      BY <1>0, <3>1 DEF Owned
    <3>3. ~ (live[o] # Null /\ Payload(u) = live[o].ptr)
      BY <1>0, <2>2, <3>1, <3>2 DEF Owned
    <3> QED BY <3>1, <3>2, <3>3
  <2> QED BY <2>1, <2>2
<1>4. ASSUME NEW p \in Objects, p # o, L[p] # Null PROVE L[p].ptr # L[o].ptr
  <2>1. live[p] # Null /\ L[p] = live[p]
    BY <1>1, <1>4
  <2>2. PICK u \in Used(list) : Payload(u) = live[p].ptr
    BY <1>0, <2>1 DEF Owned
  <2>3. u \in U
    BY <1>0, <1>4, <2>1, <2>2 DEF Owned
  <2>4. CASE u # x
    BY <1>2, <2>1, <2>2, <2>3, <2>4
  <2>5. CASE u = x
    <3>1. live[o] # Null /\ live[p].ptr = live[o].ptr
      BY <2>2, <2>5
    <3> QED BY <1>0, <1>4, <2>1, <3>1 DEF Owned
  <2> QED BY <2>4, <2>5
<1>5. \A u \in U : \E p \in Objects : L[p] # Null /\ L[p].ptr = Payload(u)
  BY <1>0, <1>1, <1>2 DEF Owned
<1>6. ASSUME NEW p \in Objects, NEW q \in Objects, L[p] # Null, L[q] # Null, L[p].ptr = L[q].ptr
      PROVE  p = q
  <2>1. CASE p # o /\ q # o
    BY <1>0, <1>1, <1>6, <2>1 DEF Owned
  <2>2. CASE p = o \/ q = o
    BY <1>4, <1>6, <2>2
  <2> QED BY <2>1, <2>2
<1>7. Owned(L, U)
  BY <1>3, <1>5, <1>6 DEF Owned
<1> QED BY <1>1, <1>2, <1>7

LEMMA MallocKeeps ==
  ASSUME HeapInv, HeadersWhole, UNCHANGED libcSbrk, NEW o \in Objects, CallMalloc(o) PROVE HeapInv'
<1>0. /\ Layout(list, brk, mem) /\ live \in [Objects -> Records] /\ live[o] = Null
      /\ Owned(live, Used(list)) /\ Holds(live, mem, Strays)
      /\ bridged \in BOOLEAN /\ UNCHANGED bridged
  BY CallsSeeLayout DEF HeapInv, CallMalloc
<1>1. PICK n \in 1 .. MaxSize :
        LET r == Malloc(list, n) IN
          /\ list' = r.list /\ brk' = r.brk
          /\ live' = IF r.ptr = -1 THEN live ELSE [live EXCEPT ![o] = [ptr |-> r.ptr, size |-> n]]
          /\ mem' = IF r.ptr = -1 THEN mem ELSE Written(r.mem, Span(r.ptr, n), o)
  BY DEF CallMalloc, Keep
<1>2. n \in Nat \ {0}
  BY Sizes
<1> DEFINE r == Malloc(list, n)
<1>3. CASE r = [list |-> list, brk |-> brk, ptr |-> -1, mem |-> mem]
  <2>1. UNCHANGED <<list, brk, mem, live>>
    BY <1>1, <1>3
  <2> QED BY <1>0, <2>1, HeapAgain DEF HeapInv
<1>4. CASE \E u : Gives(list, n, r, u)
  <2>1. PICK u : Gives(list, n, r, u)
    BY <1>4
  <2> HIDE DEF r
  <2>2. /\ u \in Blocks /\ ~ u.free /\ Payload(u) = r.ptr /\ n <= u.size
        /\ Layout(r.list, r.brk, r.mem) /\ u \in Used(r.list) /\ u \notin Used(list)
        /\ Used(r.list) = Used(list) \cup {u} /\ r.mem \in [Cells -> Writers]
        /\ \A v \in Used(list), c \in Cells : v.at <= c /\ c < End(v) => r.mem[c] = mem[c]
        /\ Tiles(list, brk) => Tiles(r.list, r.brk)
    BY <2>1 DEF Gives, Layout
  <2>3. /\ Payload(u) = u.at + Meta /\ End(u) = Payload(u) + u.size /\ Payload(u) # -1
        /\ Span(Payload(u), u.size) \subseteq Cells /\ u.at \in Nat /\ u.size \in Nat
        /\ \A v \in Used(r.list) : v # u => End(u) <= v.at \/ End(v) <= u.at
    BY <2>2, UsedCells
  <2>4. /\ list' = r.list /\ brk' = r.brk
        /\ live' = [live EXCEPT ![o] = [ptr |-> Payload(u), size |-> n]]
        /\ mem' = Written(r.mem, Span(Payload(u), n), o)
    BY <1>1, <2>2, <2>3 DEF r
  <2>5. /\ live' \in [Objects -> Records] /\ Owned(live', Used(list'))
        /\ live'[o].ptr = Payload(u) /\ live'[o].size = n
        /\ \A p \in Objects : p # o => live'[p] = live[p]
    <3>1. \A v \in Used(list') : v # u => Payload(v) # Payload(u)
      <4>1. ASSUME NEW v \in Used(list'), v # u PROVE Payload(v) # Payload(u)
        <5>1. v \in Blocks /\ v.at \in Nat /\ Payload(v) = v.at + Meta /\ v.at < End(v) /\ End(v) \in Nat
          BY BlockEnds DEF Used, Payload
        <5>2. u.at < End(u)
          BY <2>2, BlockEnds
        <5> QED BY <2>3, <2>4, <4>1, <5>1, <5>2, Sizes
      <4> QED BY <4>1
    <3>2. \A v : v \in Used(list') <=> v = u \/ (v \in Used(list) /\ ~ (live[o] # Null /\ Payload(v) = live[o].ptr))
      BY <1>0, <2>2, <2>4
    <3>3. live' = Given(o, u, n)
      BY <2>4 DEF Given
    <3>4. Replaced(Used(list'), o, u)
      BY <2>2, <3>1, <3>2 DEF Replaced
    <3> QED BY <1>2, <2>2, <3>3, <3>4, NewOwner
  <2>6. mem' \in [Cells -> Writers]
    BY <2>2, <2>4 DEF Written, Writers
  <2>7. Layout(list', brk', mem')
    <3>1. \A c \in Cells : c \notin Span(Payload(u), u.size) => mem'[c] = r.mem[c]
      <4>1. Span(Payload(u), n) \subseteq Span(Payload(u), u.size)
        BY <1>2, <2>2, <2>3, Sizes DEF Span
      <4> QED BY <2>4, <4>1 DEF Written
    <3> QED BY <2>2, <2>4, <2>6, <3>1, WriteWithin
  <2>8. ASSUME NEW p \in Objects, p # o
        PROVE  \A c \in Span(live[p].ptr, live[p].size) : mem'[c] \in {p} \cup Strays
    <3>1. ASSUME NEW v \in Used(list), NEW c \in Cells, v.at <= c, c < End(v)
          PROVE  mem'[c] = mem[c]
      <4>1. r.mem[c] = mem[c]
        BY <2>2, <3>1
      <4>2. v.at \in Nat /\ End(v) \in Nat
        BY BlockEnds DEF Used
      <4>3. End(u) <= v.at \/ End(v) <= u.at
        BY <2>2, <2>3
      <4>4. c \notin Span(Payload(u), n)
        BY <1>2, <2>2, <2>3, <3>1, <4>2, <4>3, Sizes DEF Span
      <4> QED BY <2>4, <4>1, <4>4 DEF Written
    <3> QED BY <2>8, <3>1, OthersHold
  <2>9. Holds(live', mem', Strays)
    <3>1. \A c \in Span(Payload(u), n) : mem'[c] = o
      <4>1. Span(Payload(u), n) \subseteq Cells
        BY <1>2, <2>2, <2>3, Sizes DEF Span
      <4> QED BY <2>4, <4>1 DEF Written
    <3>2. ASSUME NEW p \in Objects PROVE \A c \in Span(live'[p].ptr, live'[p].size) : mem'[c] \in {p} \cup Strays
      <4>1. CASE p = o
        BY <2>5, <3>1, <4>1
      <4>2. CASE p # o
        BY <2>5, <2>8, <4>2
      <4> QED BY <4>1, <4>2
    <3> QED BY <3>2 DEF Holds
  <2> QED BY <1>0, <2>2, <2>4, <2>5, <2>7, <2>9, HeapAgain
<1> QED BY <1>0, <1>2, <1>3, <1>4, MallocLayout

LEMMA FreeKeeps ==
  ASSUME HeapInv, HeadersWhole, UNCHANGED libcSbrk, NEW o \in Objects, CallFree(o) PROVE HeapInv'
<1>0. /\ Layout(list, brk, mem) /\ live \in [Objects -> Records] /\ live[o] # Null
      /\ Owned(live, Used(list)) /\ Holds(live, mem, Strays)
      /\ bridged' \in BOOLEAN /\ (bridged => bridged')
      /\ list' = FreeBlock(list, live[o].ptr) /\ UNCHANGED <<brk, mem>>
      /\ live' = [live EXCEPT ![o] = Null]
  BY CallsSeeLayout DEF HeapInv, CallFree
<1>1. PICK u \in Used(list) : Payload(u) = live[o].ptr
  BY <1>0, OwnBlock
<1>2. /\ Layout(list', brk, mem) /\ Used(list') = Used(list) \ {u}
      /\ Tiles(list, brk) => Tiles(list', brk)
  BY <1>0, <1>1, FreeLayout
<1>3. /\ live' \in [Objects -> Records] /\ live'[o] = Null
      /\ \A p \in Objects : p # o => live'[p] = live[p]
  BY <1>0 DEF Records, Null
<1>4. Owned(live', Used(list'))
  <2>1. ASSUME NEW p \in Objects, live'[p] # Null
        PROVE  \E v \in Used(list') : Payload(v) = live'[p].ptr /\ live'[p].size <= v.size
    <3>1. p # o /\ live'[p] = live[p]
      BY <1>3, <2>1
    <3>2. PICK v \in Used(list) : Payload(v) = live[p].ptr /\ live[p].size <= v.size
      BY <1>0, <2>1, <3>1 DEF Owned
    <3>3. v # u
      BY <1>0, <1>1, <2>1, <3>1, <3>2 DEF Owned
    <3> QED BY <1>2, <3>1, <3>2, <3>3
  <2>2. \A p, q \in Objects : live'[p] # Null /\ live'[q] # Null /\ live'[p].ptr = live'[q].ptr => p = q
    BY <1>0, <1>3 DEF Owned
  <2>3. ASSUME NEW v \in Used(list') PROVE \E p \in Objects : live'[p] # Null /\ live'[p].ptr = Payload(v)
    <3>1. v \in Used(list) /\ v # u
      BY <1>2
    <3>2. PICK p \in Objects : live[p] # Null /\ live[p].ptr = Payload(v)
      BY <1>0, <3>1 DEF Owned
    <3>3. p # o
      <4>1. v \in Blocks /\ u \in Blocks /\ v.at \in Nat /\ u.at \in Nat
            /\ v.at < End(v) /\ u.at < End(u) /\ End(u) \in Nat /\ End(v) \in Nat
        BY <3>1, BlockEnds DEF Used
      <4>2. End(u) <= v.at \/ End(v) <= u.at
        BY <1>0, <3>1, UsedCells
      <4>3. Payload(v) # Payload(u)
        BY <4>1, <4>2, Sizes DEF Payload
      <4> QED BY <1>1, <3>2, <4>3
    <3> QED BY <1>3, <3>2, <3>3
  <2> QED BY <2>1, <2>2, <2>3 DEF Owned
<1>5. Holds(live', mem', Strays)
  <2>1. Span(Null.ptr, Null.size) = {}
    BY DEF Null, Span
  <2> QED BY <1>0, <1>3, <2>1 DEF Holds
<1> QED BY <1>0, <1>2, <1>3, <1>4, <1>5, HeapAgain

LEMMA LibcKeeps == ASSUME HeapInv, UNCHANGED libcSbrk, LibcGrows PROVE HeapInv'
<1>0. /\ live \in [Objects -> Records] /\ libcSbrk /\ bridged \in BOOLEAN
      /\ Owned(live, Used(list)) /\ Holds(live, mem, Strays) /\ UNCHANGED <<list, live, bridged>>
  BY DEF HeapInv, LibcGrows
<1>1. PICK n \in 1 .. MaxSize : /\ brk + n <= MaxBreak /\ brk' = brk + n
                                /\ mem' = Written(mem, Span(brk, n), "libc")
  BY DEF LibcGrows
<1>2. /\ list \in Seq(Blocks) /\ brk \in Nat /\ brk' \in 0 .. MaxBreak /\ mem \in [Cells -> Writers]
      /\ Sorted(list, brk) /\ n \in Nat /\ brk \in 0 .. MaxBreak
      /\ \A j \in 1 .. Len(list) : \A c \in Span(list[j].at, Meta) : mem[c] \in {"meta"} \cup Strays
  BY <1>1, Sizes DEF HeapInv
<1>3. \A c \in Cells : c < brk => mem'[c] = mem[c]
  BY <1>1, <1>2, Sizes DEF Written, Span, Cells
<1>4. mem' \in [Cells -> Writers]
  BY <1>1, <1>2 DEF Written, Writers
<1>5. \A j \in 1 .. Len(list) : /\ list[j].at \in Nat /\ End(list[j]) \in Nat
                               /\ End(list[j]) <= brk /\ list[j].at + Meta < End(list[j])
  <2>1. \A j \in 1 .. Len(list) : list[j] \in Blocks
    BY <1>2, ElementOfSeq
  <2>2. \A j \in 1 .. Len(list) : End(list[j]) <= brk
    BY <1>2 DEF Sorted
  <2> QED BY <2>1, <2>2, BlockEnds
<1>6. \A j \in 1 .. Len(list) : \A c \in Span(list[j].at, Meta) : mem'[c] \in {"meta"} \cup Strays
  <2>1. ASSUME NEW j \in 1 .. Len(list), NEW c \in Span(list[j].at, Meta)
        PROVE  mem'[c] \in {"meta"} \cup Strays
    <3>1. c \in Cells /\ c < brk
      BY SMTT(30), <1>2, <1>5, <1>1, Sizes DEF Span, Cells
    <3> QED BY <1>2, <1>3, <3>1
  <2> QED BY <2>1
<1>7. Sorted(list, brk')
  <2>1. \A j \in 1 .. Len(list) : End(list[j]) <= brk'
    BY <1>1, <1>2, <1>5
  <2> QED BY <1>2, <2>1 DEF Sorted
<1>9. Holds(live, mem', Strays)
  <2>1. ASSUME NEW o \in Objects, NEW c \in Span(live[o].ptr, live[o].size) PROVE mem'[c] \in {o} \cup Strays
    <3>1. CASE live[o] = Null
      BY <3>1 DEF Null, Span
    <3>2. CASE live[o] # Null
      <4>0. live[o].ptr \in Int /\ live[o].size \in Nat
        BY <1>0 DEF Records
      <4>1. PICK u \in Used(list) : Payload(u) = live[o].ptr /\ live[o].size <= u.size
        BY <3>2, OwnBlock
      <4>2. /\ Span(Payload(u), u.size) \subseteq Cells /\ End(u) = Payload(u) + u.size /\ End(u) <= brk
            /\ u.size \in Nat /\ Payload(u) \in Nat
        BY <1>2, UsedWhere
      <4>3. c \in Span(Payload(u), u.size) /\ c < brk
        BY SMTT(60), <1>2, <4>0, <4>1, <4>2 DEF Span
      <4> QED BY <1>0, <1>3, <4>2, <4>3 DEF Holds
    <3> QED BY <3>1, <3>2
  <2> QED BY <2>1 DEF Holds
<1>10. Strays' = Strays
  BY <1>0 DEF Strays
<1> QED BY <1>0, <1>2, <1>4, <1>6, <1>7, <1>9, <1>10 DEF HeapInv

\* The caller's writes into x, the new block of o: o holds all it was given, and
\* the others what they held.
LEMMA NewHolder ==
  ASSUME HeapInv, NEW o \in Objects, NEW n \in Nat \ {0}, NEW x \in Blocks,
         NEW L, L[o].ptr = Payload(x), L[o].size = n, \A p \in Objects : p # o => L[p] = live[p],
         NEW w, \A c \in Span(Payload(x), n) : w[c] \in {o} \cup Strays,
         \A v \in Used(list), c \in Cells :
           v.at <= c /\ c < End(v) => w[c] = mem[c] \/ (live[o] # Null /\ Payload(v) = live[o].ptr)
  PROVE  Holds(L, w, Strays)
<1>1. ASSUME NEW p \in Objects PROVE \A c \in Span(L[p].ptr, L[p].size) : w[c] \in {p} \cup Strays
  <2>1. CASE p = o
    BY <2>1
  <2>2. CASE p # o
    <3>1. \A c \in Span(live[p].ptr, live[p].size) : w[c] \in {p} \cup Strays
      BY <2>2, OthersHold
    <3> QED BY <2>2, <3>1
  <2> QED BY <2>1, <2>2
<1> QED BY <1>1 DEF Holds

LEMMA Resized ==
  ASSUME NEW e \in Records, NEW n \in Nat
  PROVE  [e EXCEPT !.size = n] = [ptr |-> e.ptr, size |-> n]
<1>1. \A d, f \in Records : d.ptr = f.ptr /\ d.size = f.size => d = f
  BY DEF Records
<1>2. /\ [e EXCEPT !.size = n] \in Records /\ [e EXCEPT !.size = n].size = n
      /\ [e EXCEPT !.size = n].ptr = e.ptr
  BY DEF Records
<1> DEFINE f == [ptr |-> e.ptr, size |-> n]
<1>3. f \in Records /\ f.ptr = e.ptr /\ f.size = n
  BY DEF Records
<1> HIDE DEF f
<1>4. [e EXCEPT !.size = n] = f
  BY <1>1, <1>2, <1>3
<1> QED BY <1>4 DEF f

LEMMA InPlaceKeeps ==
  ASSUME HeapInv, HeadersWhole, UNCHANGED libcSbrk, NEW o \in Objects, live[o] # Null,
         NEW n \in 1 .. MaxSize, ReallocInPlace(o, n)
  PROVE  HeapInv'
<1>0. /\ Layout(list, brk, mem) /\ live \in [Objects -> Records] /\ n \in Nat \ {0}
      /\ Owned(live, Used(list)) /\ Holds(live, mem, Strays) /\ mem \in [Cells -> Writers]
      /\ list \in Seq(Blocks) /\ brk \in Nat /\ Sorted(list, brk)
  BY CallsSeeLayout, Sizes DEF HeapInv
<1>1. PICK u \in Used(list) : Payload(u) = live[o].ptr /\ live[o].size <= u.size
  BY <1>0, OwnBlock
<1> DEFINE i == BlockOf(list, live[o].ptr)
           x == Carved(list, i, n)
           m == Written(mem, NewHeader(list, i, n), "meta")
           k == live[o].size
<1>2. i \in 1 .. Len(list) /\ list[i] = u
  BY <1>0, <1>1, BlockOfUsed
<1>3. /\ n <= list[i].size /\ list' = Carve(list, i, n) /\ brk' = brk
      /\ live' = [live EXCEPT ![o].size = n] /\ UNCHANGED bridged
      /\ mem' = Written(m, Span(live[o].ptr, n) \ Span(live[o].ptr, live[o].size), o)
  BY <1>0, <1>2, BlockTypes, ElementOfSeq DEF ReallocInPlace
<1> HIDE DEF i
<1>4. /\ x \in Blocks /\ ~ x.free /\ x.at = u.at /\ n <= x.size /\ End(x) <= End(u)
  BY <1>0, <1>2, <1>3, CarvedTypes
<1>5. /\ Layout(list', brk, m) /\ Used(list') = (Used(list) \ {u}) \cup {x}
      /\ Tiles(list, brk) => Tiles(list', brk)
  BY <1>0, <1>2, <1>3, CarveLayout
<1>6. /\ u.at \in Nat /\ u.size \in Nat /\ Payload(u) = u.at + Meta /\ End(u) = Payload(u) + u.size
      /\ Span(Payload(u), u.size) \subseteq Cells
      /\ \A v \in Used(list) : v # u => End(u) <= v.at \/ End(v) <= u.at
  BY <1>0, UsedCells
<1>7. /\ x.size \in Nat /\ Payload(x) = Payload(u) /\ End(x) = Payload(u) + x.size
      /\ Span(Payload(x), x.size) \subseteq Cells /\ Span(Payload(u), n) \subseteq Span(Payload(x), x.size)
  <2>1. /\ x.size \in Nat /\ Payload(x) = x.at + Meta /\ End(x) = x.at + Meta + x.size
    BY <1>4, BlockTypes
  <2>2. Payload(x) = Payload(u) /\ End(x) = Payload(u) + x.size /\ x.size <= u.size
    BY <1>4, <1>6, <2>1, Sizes
  <2> HIDE DEF x
  <2>3. /\ Span(Payload(x), x.size) \subseteq Span(Payload(u), u.size)
        /\ Span(Payload(u), n) \subseteq Span(Payload(x), x.size)
    <3>1. Payload(u) \in Nat /\ n <= x.size /\ x.size <= u.size /\ Payload(x) = Payload(u)
      BY <1>4, <1>6, <2>2, Sizes
    <3> QED BY <1>0, <1>6, <2>1, <3>1, SpanWithin
  <2> QED BY <1>6, <2>1, <2>2, <2>3
<1>8. /\ \A c \in Cells : c \in NewHeader(list, i, n) => Payload(u) + n <= c /\ c < End(u)
  BY <1>0, <1>2, <1>3, HeaderWithin
<1> DEFINE Z == Span(Payload(u), n) \ Span(Payload(u), k)
<1>9. /\ mem' \in [Cells -> Writers]
      /\ \A c \in Cells : mem'[c] = IF c \in Z THEN o
                                    ELSE IF c \in NewHeader(list, i, n) THEN "meta" ELSE mem[c]
      /\ \A c \in Cells : c \notin Z => mem'[c] = m[c]
  BY <1>0, <1>1, <1>3 DEF Written, Writers
<1> HIDE DEF x, m
<1>10. live' = Given(o, x, n)
  <2>1. live[o] \in Records /\ live[o].ptr = Payload(x)
    BY <1>0, <1>1, <1>7
  <2>2. [live[o] EXCEPT !.size = n] = [ptr |-> Payload(x), size |-> n]
    BY <1>0, <2>1, Resized
  <2>3. live' = [live EXCEPT ![o] = [live[o] EXCEPT !.size = n]]
    BY <1>3
  <2> QED BY <2>2, <2>3 DEF Given
<1>11. Replaced(Used(list'), o, x)
  <2>1. x \in Used(list) => live[o] # Null /\ Payload(x) = live[o].ptr
    BY <1>1, <1>7
  <2>2. ASSUME NEW v \in Used(list), v # u PROVE Payload(v) # Payload(u)
    <3>1. /\ v.at \in Nat /\ v.at < End(v) /\ End(v) \in Nat /\ u.at < End(u) /\ End(u) \in Nat
          /\ Payload(v) = v.at + Meta
      BY BlockEnds DEF Used, Payload
    <3> QED BY <1>6, <2>2, <3>1, Sizes
  <2>3. \A v \in Used(list') : v # x => Payload(v) # Payload(x)
    BY <1>5, <1>7, <2>2
  <2>4. \A v : v \in Used(list') <=> v = x \/ (v \in Used(list) /\ ~ (live[o] # Null /\ Payload(v) = live[o].ptr))
    BY <1>1, <1>5, <2>2
  <2> QED BY <2>1, <2>3, <2>4 DEF Replaced
<1>12. /\ live' \in [Objects -> Records] /\ Owned(live', Used(list'))
       /\ live'[o].ptr = Payload(x) /\ live'[o].size = n
       /\ \A p \in Objects : p # o => live'[p] = live[p]
  BY <1>0, <1>4, <1>10, <1>11, NewOwner
<1>13. Layout(list', brk', mem')
  <2>1. x \in Used(list')
    BY <1>5
  <2>2. \A c \in Cells : c \notin Span(Payload(x), x.size) => mem'[c] = m[c]
    BY <1>7, <1>9
  <2>3. Layout(list', brk, mem')
    BY <1>5, <1>9, <2>1, <2>2, WriteWithin
  <2> QED BY <1>3, <2>3
<1>14. Holds(live', mem', Strays)
  <2>1. ASSUME NEW c \in Span(Payload(x), n) PROVE mem'[c] \in {o} \cup Strays
    <3>1. c \in Cells /\ c \in Span(Payload(u), n)
      BY <1>7
    <3>2. c \notin NewHeader(list, i, n)
      <4>1. c < Payload(u) + n /\ c \in Int
        BY <1>0, <1>6, <3>1, Sizes DEF Span
      <4> QED BY <1>0, <1>6, <1>8, <3>1, <4>1, Sizes
    <3>3. c \in Span(Payload(u), k) => mem[c] \in {o} \cup Strays
      BY <1>0, <1>1 DEF Holds
    <3> QED BY <1>9, <3>1, <3>2, <3>3
  <2>2. ASSUME NEW v \in Used(list), NEW c \in Cells, v.at <= c, c < End(v)
        PROVE  mem'[c] = mem[c] \/ (live[o] # Null /\ Payload(v) = live[o].ptr)
    <3>1. CASE v = u
      BY <1>1, <3>1
    <3>2. CASE v # u
      <4>0. v.at \in Nat /\ End(v) \in Nat /\ c \in Int
        BY BlockEnds DEF Used, Cells
      <4>1. End(u) <= v.at \/ End(v) <= u.at
        BY <1>6, <3>2
      <4>2. c \notin NewHeader(list, i, n)
        BY SMTT(30), <1>0, <1>6, <1>8, <2>2, <4>0, <4>1, Sizes
      <4>3. c \notin Z
        <5>1. Span(Payload(u), n) \subseteq Span(Payload(u), u.size)
          BY SMTT(60), <1>0, <1>2, <1>3, <1>6, Sizes DEF Span
        <5>2. c \notin Span(Payload(u), u.size)
          BY <1>6, <2>2, <4>0, <4>1, Sizes DEF Span
        <5> QED BY <5>1, <5>2
      <4> QED BY <1>9, <4>2, <4>3
    <3> QED BY <3>1, <3>2
  <2> QED BY <1>0, <1>4, <1>12, <2>1, <2>2, NewHolder
<1> QED BY <1>3, <1>5, <1>12, <1>13, <1>14, HeapAgain DEF HeapInv

LEMMA MoveKeeps ==
  ASSUME HeapInv, HeadersWhole, UNCHANGED libcSbrk, NEW o \in Objects, live[o] # Null,
         NEW n \in 1 .. MaxSize, ReallocMove(o, n)
  PROVE  HeapInv'
<1>0. /\ Layout(list, brk, mem) /\ live \in [Objects -> Records] /\ n \in Nat \ {0}
      /\ Owned(live, Used(list)) /\ Holds(live, mem, Strays) /\ mem \in [Cells -> Writers]
  BY CallsSeeLayout, Sizes DEF HeapInv
<1>1. PICK u \in Used(list) : Payload(u) = live[o].ptr /\ live[o].size <= u.size
  BY <1>0, OwnBlock
<1> DEFINE r == Malloc(list, n)
           p == live[o].ptr
           k == live[o].size
<1>2. list[BlockOf(list, p)] = u
  BY <1>0, <1>1, BlockOfUsed
<1>3. /\ u.size < n /\ brk' = r.brk
      /\ IF r.ptr = -1 THEN UNCHANGED <<list, mem, live, bridged>>
         ELSE /\ list' = FreeBlock(r.list, p)
              /\ live' = [live EXCEPT ![o] = [ptr |-> r.ptr, size |-> n]]
              /\ mem' = Written(Copied(r.mem, p, r.ptr, u.size),
                                Span(r.ptr, n) \ Span(r.ptr, k), o)
              /\ bridged' = (bridged \/ Over(list'))
  BY <1>2 DEF ReallocMove
<1>6. bridged' \in BOOLEAN /\ (bridged => bridged')
  BY <1>3 DEF HeapInv
<1>4. CASE r = [list |-> list, brk |-> brk, ptr |-> -1, mem |-> mem]
  <2>1. UNCHANGED <<list, brk, mem, live>>
    BY <1>3, <1>4
  <2> QED BY <1>0, <1>6, <2>1, HeapAgain DEF HeapInv
<1>5. CASE \E x : Gives(list, n, r, x)
  <2>1. PICK x : Gives(list, n, r, x)
    BY <1>5
  <2> HIDE DEF r
  <2>2. /\ x \in Blocks /\ ~ x.free /\ Payload(x) = r.ptr /\ n <= x.size
        /\ Layout(r.list, r.brk, r.mem) /\ x \in Used(r.list) /\ x \notin Used(list)
        /\ Used(r.list) = Used(list) \cup {x} /\ r.mem \in [Cells -> Writers]
        /\ \A v \in Used(list), c \in Cells : v.at <= c /\ c < End(v) => r.mem[c] = mem[c]
        /\ Tiles(list, brk) => Tiles(r.list, r.brk)
    BY <2>1 DEF Gives, Layout
  <2>3. /\ Payload(x) = x.at + Meta /\ End(x) = Payload(x) + x.size /\ Payload(x) # -1
        /\ Span(Payload(x), x.size) \subseteq Cells /\ x.at \in Nat /\ x.size \in Nat
        /\ Payload(x) \in Nat
        /\ \A v \in Used(r.list) : v # x => End(x) <= v.at \/ End(v) <= x.at
    BY <2>2, UsedCells
  <2>4. /\ Payload(u) = u.at + Meta /\ End(u) = Payload(u) + u.size /\ Payload(u) \in Nat
        /\ Span(Payload(u), u.size) \subseteq Cells /\ u.at \in Nat /\ u.size \in Nat
    BY <1>0, UsedCells
  <2>5. k \in Nat /\ k <= u.size /\ k <= n /\ p = Payload(u) /\ n \in Nat /\ n <= x.size
    BY <1>0, <1>1, <1>3, <2>2, <2>4 DEF Records
  <2>6. /\ list' = FreeBlock(r.list, Payload(u)) /\ brk' = r.brk
        /\ live' = Given(o, x, n)
        /\ mem' = Written(Copied(r.mem, Payload(u), Payload(x), u.size),
                          Span(Payload(x), n) \ Span(Payload(x), k), o)
    BY <1>1, <1>3, <2>2, <2>3 DEF Given
  <2>7. u \in Used(r.list) /\ u # x
    BY <2>2
  <2>8. /\ Layout(list', r.brk, r.mem) /\ Used(list') = Used(r.list) \ {u}
        /\ Tiles(r.list, r.brk) => Tiles(list', r.brk)
    BY <2>2, <2>6, <2>7, FreeLayout
  <2>9. x \in Used(list')
    BY <2>2, <2>7, <2>8
  <2>10. Replaced(Used(list'), o, x)
    <3>1. ASSUME NEW v \in Used(r.list), NEW y \in Used(r.list), v # y PROVE Payload(v) # Payload(y)
      <4>1. v.at \in Nat /\ v.at < End(v) /\ End(v) \in Nat /\ y.at \in Nat /\ y.at < End(y) /\ End(y) \in Nat
        BY BlockEnds DEF Used
      <4>2. End(v) <= y.at \/ End(y) <= v.at
        BY <2>2, <3>1, UsedCells
      <4> QED BY <4>1, <4>2, Sizes DEF Payload
    <3>2. \A v \in Used(list') : v # x => Payload(v) # Payload(x)
      BY <2>2, <2>8, <3>1
    <3>3. \A v : v \in Used(list') <=> v = x \/ (v \in Used(list) /\ ~ (live[o] # Null /\ Payload(v) = live[o].ptr))
      BY <1>1, <2>2, <2>7, <2>8, <3>1
    <3> QED BY <2>2, <3>2, <3>3 DEF Replaced
  <2>11. /\ live' \in [Objects -> Records] /\ Owned(live', Used(list'))
         /\ live'[o].ptr = Payload(x) /\ live'[o].size = n
         /\ \A q \in Objects : q # o => live'[q] = live[q]
    BY <1>0, <2>2, <2>6, <2>10, NewOwner
  <2> DEFINE w == Copied(r.mem, Payload(u), Payload(x), u.size)
             Z == Span(Payload(x), n) \ Span(Payload(x), k)
  <2>12. ASSUME NEW c \in Span(Payload(x), u.size)
         PROVE  c \in Cells /\ c - Payload(x) + Payload(u) \in Span(Payload(u), u.size)
    <3>1. c \in Span(Payload(x), x.size)
      <4>1. u.size <= x.size
        BY <1>3, <2>3, <2>4, <2>5
      <4> QED BY <2>3, <2>4, <4>1, SpanWithin
    <3>2. c - Payload(x) + Payload(u) \in Span(Payload(u), u.size)
      BY <2>3, <2>4 DEF Span
    <3> QED BY <2>3, <3>1, <3>2
  <2>13. w \in [Cells -> Writers]
    <3>1. \A c \in Cells : (IF c \in Span(Payload(x), u.size) THEN r.mem[c - Payload(x) + Payload(u)]
                                                          ELSE r.mem[c]) \in Writers
      BY <2>2, <2>4, <2>12
    <3> QED BY <3>1 DEF Copied
  <2>14. mem' \in [Cells -> Writers]
    BY <2>6, <2>13 DEF Written, Writers
  <2>15. /\ \A c \in Cells : mem'[c] = IF c \in Z THEN o ELSE w[c]
         /\ \A c \in Cells : w[c] = IF c \in Span(Payload(x), u.size)
                                    THEN r.mem[c - Payload(x) + Payload(u)] ELSE r.mem[c]
    BY <2>6 DEF Written, Copied
  <2> HIDE DEF w
  <2>16. \A c \in Cells : c \notin Span(Payload(x), x.size) => mem'[c] = r.mem[c]
    <3>1. /\ Span(Payload(x), n) \subseteq Span(Payload(x), x.size)
          /\ Span(Payload(x), u.size) \subseteq Span(Payload(x), x.size)
      <4>1. u.size <= x.size
        BY <1>3, <2>3, <2>4, <2>5
      <4> QED BY <2>3, <2>4, <2>5, <4>1, SpanWithin
    <3> QED BY <2>15, <3>1
  <2>17. Layout(list', brk', mem')
    <3>1. Layout(list', r.brk, mem')
      BY <2>8, <2>9, <2>14, <2>16, WriteWithin
    <3> QED BY <2>6, <3>1
  <2>18. ASSUME NEW c \in Span(Payload(x), n) PROVE mem'[c] \in {o} \cup Strays
    <3>0. c \in Cells
      BY <2>3, <2>5, SpanWithin
    <3>1. CASE c \in Z
      BY <2>15, <3>0, <3>1
    <3>2. CASE c \notin Z
      <4> DEFINE d == c - Payload(x) + Payload(u)
      <4>1. c \in Span(Payload(x), k)
        BY <3>2
      <4>2. c \in Span(Payload(x), u.size) /\ d \in Span(Payload(u), k)
        BY <2>3, <2>4, <2>5, <4>1 DEF Span
      <4>3. d \in Span(Payload(u), u.size) /\ d \in Cells
        BY <2>4, <2>12, <4>2
      <4>4. u.at <= d /\ d < End(u)
        BY <2>4, <4>3, Sizes DEF Span
      <4> HIDE DEF d
      <4>5. r.mem[d] = mem[d]
        BY <2>2, <4>3, <4>4
      <4>6. mem[d] \in {o} \cup Strays
        BY <1>0, <2>5, <4>2 DEF Holds
      <4>7. mem'[c] = r.mem[d]
        BY <2>15, <3>0, <3>2, <4>2 DEF d
      <4> QED BY <4>5, <4>6, <4>7
    <3> QED BY <3>1, <3>2
  <2>19. ASSUME NEW v \in Used(list), NEW c \in Cells, v.at <= c, c < End(v)
         PROVE  mem'[c] = mem[c]
    <3>0. v.at \in Nat /\ End(v) \in Nat /\ c \in Int
      BY BlockEnds DEF Used, Cells
    <3>1. End(x) <= v.at \/ End(v) <= x.at
      BY <2>2, <2>3
    <3>2. c \notin Span(Payload(x), x.size)
      BY <2>3, <2>19, <3>0, <3>1, Sizes DEF Span
    <3> QED BY <2>2, <2>16, <2>19, <3>2
  <2>20. Holds(live', mem', Strays)
    BY <1>0, <2>2, <2>11, <2>18, <2>19, NewHolder
  <2> QED BY <1>6, <2>2, <2>6, <2>8, <2>11, <2>17, <2>20, HeapAgain
<1> QED BY <1>0, <1>4, <1>5, MallocLayout

\* libc's writes change nothing before the merge, and are the strays after it.
LEMMA LibcWritesKeep ==
  ASSUME HeapInv, LibcApart, UNCHANGED libcSbrk, LibcWrites PROVE HeapInv' /\ LibcApart'
<1>1. PICK c \in libcCells : mem' = Written(mem, {c}, "libc")
  BY DEF LibcWrites
<1>2. UNCHANGED <<list, brk, live, libcCells, bridged, libcSbrk>>
  BY DEF LibcWrites
<1>3. mem' \in [Cells -> Writers]
  BY <1>1 DEF Written, Writers, HeapInv
<1>4. Strays' = Strays
  BY <1>2 DEF Strays
<1>5. CASE bridged
  <2>1. /\ Strays = {"libc"} /\ \A d \in Cells : mem'[d] \in {mem[d], "libc"}
    BY <1>1, <1>5 DEF Strays, Written
  <2>2. \A d : d \notin Cells => mem'[d] = mem[d] \/ d \notin DOMAIN mem
    BY DEF HeapInv
  <2>3. ASSUME NEW i \in 1 .. Len(list), NEW d \in Span(list[i].at, Meta)
        PROVE  mem'[d] \in {"meta"} \cup Strays
    <3>1. list[i] \in Blocks /\ End(list[i]) <= brk /\ brk \in Nat /\ brk <= MaxBreak
      BY ElementOfSeq, Sizes DEF HeapInv, Sorted
    <3>2. list[i].at \in Nat /\ list[i].at + Meta < End(list[i]) /\ End(list[i]) \in Nat
      BY <3>1, BlockEnds
    <3>3. d \in Cells
      BY <3>1, <3>2, Sizes DEF Span, Cells
    <3> QED BY <2>1, <3>3 DEF HeapInv
  <2>4. ASSUME NEW o \in Objects, NEW d \in Span(live[o].ptr, live[o].size)
        PROVE  mem'[d] \in {o} \cup Strays
    <3>1. live[o] # Null
      BY <2>4 DEF Null, Span
    <3>2. PICK u \in Used(list) : Payload(u) = live[o].ptr /\ live[o].size <= u.size
      BY <3>1, OwnBlock
    <3>3. u.size \in Nat /\ Payload(u) \in Nat /\ Span(Payload(u), u.size) \subseteq Cells
      BY UsedWhere DEF HeapInv
    <3>4. live[o].size \in Nat
      BY DEF HeapInv, Records
    <3>5. d \in Cells
      BY <3>2, <3>3, <3>4, SpanWithin
    <3> QED BY <2>1, <3>5 DEF HeapInv, Holds
  <2> QED BY <1>2, <1>3, <1>4, <1>5, <2>3, <2>4 DEF HeapInv, Holds, LibcApart
<1>6. CASE ~ bridged
  <2>1. mem[c] = "libc"
    BY <1>6 DEF LibcApart
  <2>2. mem' = mem
    BY <1>1, <2>1 DEF Written, HeapInv
  <2> QED BY <1>2, <1>4, <2>2 DEF HeapInv, LibcApart, Outside
<1> QED BY <1>5, <1>6

LEMMA HeapInductive == HeapInv /\ LibcApart /\ [AllocNext]_heap => HeapInv'
<1> SUFFICES ASSUME HeapInv, LibcApart, [AllocNext]_heap PROVE HeapInv'
  OBVIOUS
<1>1. ASSUME NEW o \in Objects, HeadersWhole, CallMalloc(o), UNCHANGED libcSbrk PROVE HeapInv'
  BY <1>1, MallocKeeps
<1>2. ASSUME NEW o \in Objects, HeadersWhole, CallFree(o), UNCHANGED libcSbrk PROVE HeapInv'
  BY <1>2, FreeKeeps
<1>3. ASSUME NEW o \in Objects, HeadersWhole, CallRealloc(o), UNCHANGED libcSbrk PROVE HeapInv'
  BY <1>3, InPlaceKeeps, MoveKeeps DEF CallRealloc
<1>4. ASSUME LibcGrows, UNCHANGED libcSbrk PROVE HeapInv'
  BY <1>4, LibcKeeps
<1>5. ASSUME LibcWrites, UNCHANGED libcSbrk PROVE HeapInv'
  BY <1>5, LibcWritesKeep
<1>6. CASE UNCHANGED heap
  BY <1>6 DEF heap, HeapInv, Strays
<1> QED BY <1>1, <1>2, <1>3, <1>4, <1>5, <1>6 DEF AllocNext

-----------------------------------------------------------------------------
(* libc's memory *)

\* No block reaches over a cell of libc's.
LEMMA NotOver ==
  ASSUME NEW l \in Seq(Blocks), libcCells \subseteq Nat, ~ Over(l), NEW c \in libcCells
  PROVE  Outside(l, c)
<1>1. ASSUME NEW i \in 1 .. Len(l) PROVE c < l[i].at \/ End(l[i]) <= c
  <2>1. l[i] \in Blocks /\ i \in DOMAIN l
    BY ElementOfSeq, LenProperties
  <2>2. l[i].at \in Nat /\ l[i].size \in Nat /\ End(l[i]) = l[i].at + Meta + l[i].size
    BY <2>1, BlockTypes
  <2>3. c \notin Span(l[i].at, Meta + l[i].size)
    BY <2>1 DEF Over
  <2> QED BY <2>2, <2>3, Sizes DEF Span
<1> QED BY <1>1 DEF Outside

\* A block in use of a list lies inside it.
LEMMA UsedInside ==
  ASSUME NEW l \in Seq(Blocks), NEW u \in Used(l), NEW c \in Nat, Outside(l, c)
  PROVE  c \notin Span(Payload(u), u.size)
<1>1. PICK i \in 1 .. Len(l) : l[i] = u
  BY DEF Used
<1>2. u \in Blocks /\ (c < u.at \/ End(u) <= c)
  BY <1>1 DEF Outside, Used
<1>3. /\ u.at \in Nat /\ u.size \in Nat /\ Payload(u) = u.at + Meta
      /\ End(u) = u.at + Meta + u.size
  BY <1>2, BlockTypes
<1> QED BY <1>2, <1>3, Sizes DEF Span

LEMMA ApartInductive == HeapInv /\ LibcApart /\ [AllocNext]_heap => LibcApart'
<1> SUFFICES ASSUME HeapInv, LibcApart, [AllocNext]_heap PROVE LibcApart'
  OBVIOUS
<1>0. /\ list \in Seq(Blocks) /\ brk \in Nat /\ brk <= MaxBreak /\ Sorted(list, brk)
      /\ libcCells \subseteq Cells /\ libcCells \subseteq Nat
      /\ \A c \in libcCells : c < brk
  BY Sizes DEF HeapInv, LibcApart, Cells
<1>1. ASSUME NEW o \in Objects, HeadersWhole, CallMalloc(o), UNCHANGED libcCells PROVE LibcApart'
  <2>1. PICK n \in 1 .. MaxSize :
          LET r == Malloc(list, n) IN
            /\ list' = r.list /\ brk' = r.brk /\ UNCHANGED bridged
            /\ mem' = IF r.ptr = -1 THEN mem ELSE Written(r.mem, Span(r.ptr, n), o)
    BY <1>1 DEF CallMalloc, Keep
  <2> DEFINE r == Malloc(list, n)
  <2>2. CASE r = [list |-> list, brk |-> brk, ptr |-> -1, mem |-> mem]
    BY <1>1, <2>1, <2>2 DEF LibcApart, Outside
  <2>3. CASE \E u : Gives(list, n, r, u)
    <3>1. PICK u : Gives(list, n, r, u)
      BY <2>3
    <3>2. /\ list' = r.list /\ brk' = r.brk
          /\ mem' = IF r.ptr = -1 THEN mem ELSE Written(r.mem, Span(r.ptr, n), o)
      BY <2>1
    <3> HIDE DEF r
    <3>3. /\ brk <= r.brk /\ u \in Used(r.list) /\ u.size \in Nat /\ n <= u.size
          /\ r.list \in Seq(Blocks) /\ r.ptr = Payload(u) /\ r.brk \in Nat
      BY <3>1, BlockTypes, Sizes DEF Gives, Layout
    <3>4. ASSUME NEW c \in libcCells, ~ bridged' PROVE Outside(list', c) /\ mem'[c] = "libc"
      <4>1. Outside(list, c) /\ mem[c] = "libc"
        BY <2>1, <3>4 DEF LibcApart
      <4>2. Outside(r.list, c) /\ r.mem[c] = mem[c]
        BY <1>0, <3>1, <4>1 DEF Gives
      <4>3. c \notin Span(Payload(u), u.size)
        BY <1>0, <3>3, <4>2, UsedInside
      <4>4. c \notin Span(r.ptr, n)
        <5>1. u \in Blocks /\ Payload(u) \in Nat /\ n \in Nat
          BY <3>3, BlockTypes, Sizes DEF Used
        <5> QED BY <3>3, <4>3, <5>1, SpanWithin
      <4> QED BY <1>0, <3>2, <4>1, <4>2, <4>4 DEF Written
    <3> QED BY <1>0, <1>1, <3>2, <3>3, <3>4 DEF LibcApart
  <2> QED BY <2>2, <2>3, CallsSeeLayout, MallocLayout, <1>1, Sizes
<1>2. ASSUME NEW o \in Objects, HeadersWhole, CallFree(o), UNCHANGED libcCells, HeapInv' PROVE LibcApart'
  <2>1. list' \in Seq(Blocks) /\ UNCHANGED <<brk, mem>> /\ bridged' = (bridged \/ Over(list'))
    BY <1>2 DEF CallFree, HeapInv
  <2>2. ASSUME NEW c \in libcCells, ~ bridged' PROVE Outside(list', c) /\ mem'[c] = "libc"
    BY <1>0, <2>1, <2>2, NotOver DEF LibcApart
  <2> QED BY <1>2, <2>1, <2>2 DEF LibcApart
<1>3. ASSUME NEW o \in Objects, HeadersWhole, live[o] # Null, NEW n \in 1 .. MaxSize,
             ReallocInPlace(o, n), UNCHANGED libcCells
      PROVE  LibcApart'
  <2> DEFINE i == BlockOf(list, live[o].ptr)
  <2>1. PICK u \in Used(list) : Payload(u) = live[o].ptr /\ live[o].size <= u.size
    BY <1>3, OwnBlock
  <2>2. i \in 1 .. Len(list) /\ list[i] = u
    BY <1>3, <2>1, BlockOfUsed, CallsSeeLayout
  <2>3. /\ list[i].size >= n /\ list' = Carve(list, i, n) /\ UNCHANGED <<brk, bridged>>
        /\ mem' = Written(Written(mem, NewHeader(list, i, n), "meta"),
                          Span(live[o].ptr, n) \ Span(live[o].ptr, live[o].size), o)
    BY <1>3 DEF ReallocInPlace
  <2> HIDE DEF i
  <2>4. u.size \in Nat /\ n <= u.size /\ n \in Nat \ {0} /\ Payload(u) \in Nat
    BY <2>2, <2>3, <2>1, <1>0, BlockTypes, Sizes DEF Used
  <2>5. ASSUME NEW c \in libcCells, ~ bridged' PROVE Outside(list', c) /\ mem'[c] = "libc"
    <3>1. Outside(list, c) /\ mem[c] = "libc"
      BY <2>3, <2>5 DEF LibcApart
    <3>2. Outside(list', c) /\ c \notin NewHeader(list, i, n)
      BY <1>0, <2>2, <2>3, <2>4, <3>1, CarveOutside
    <3>3. c \notin Span(Payload(u), u.size)
      BY <1>0, <3>1, UsedInside
    <3>4. c \notin Span(live[o].ptr, n)
      BY <2>1, <2>4, <3>3, SpanWithin
    <3> QED BY <1>0, <2>3, <3>1, <3>2, <3>4 DEF Written
  <2> QED BY <1>3, <2>3, <2>5 DEF LibcApart
<1>4. ASSUME NEW o \in Objects, HeadersWhole, live[o] # Null, NEW n \in 1 .. MaxSize,
             ReallocMove(o, n), UNCHANGED libcCells, HeapInv'
      PROVE  LibcApart'
  <2> DEFINE r == Malloc(list, n)
             p == live[o].ptr
             k == list[BlockOf(list, p)].size
  <2>1. /\ brk' = r.brk /\ k < n
        /\ IF r.ptr = -1 THEN UNCHANGED <<list, mem, live, bridged>>
           ELSE /\ bridged' = (bridged \/ Over(list'))
                /\ mem' = Written(Copied(r.mem, p, r.ptr, k), Span(r.ptr, n) \ Span(r.ptr, live[o].size), o)
    BY <1>4 DEF ReallocMove
  <2>2. CASE r = [list |-> list, brk |-> brk, ptr |-> -1, mem |-> mem]
    BY <1>4, <2>1, <2>2 DEF LibcApart, Outside
  <2>3. CASE \E u : Gives(list, n, r, u)
    <3>1. PICK u : Gives(list, n, r, u)
      BY <2>3
    <3> HIDE DEF r
    <3>2. /\ brk <= r.brk /\ u \in Used(r.list) /\ u.size \in Nat /\ n <= u.size /\ Payload(u) \in Nat
          /\ r.list \in Seq(Blocks) /\ r.ptr = Payload(u) /\ r.ptr # -1 /\ r.brk \in Nat
      BY <3>1, BlockTypes, Sizes DEF Gives, Layout
    <3>3. k \in Nat
      <4>1. PICK v \in Used(list) : Payload(v) = p
        BY <1>4, OwnBlock
      <4>2. list[BlockOf(list, p)] = v
        BY <1>4, <4>1, BlockOfUsed, CallsSeeLayout
      <4> QED BY <4>2, BlockTypes DEF Used
    <3>4. ASSUME NEW c \in libcCells, ~ bridged' PROVE Outside(list', c) /\ mem'[c] = "libc"
      <4>1. Outside(list, c) /\ mem[c] = "libc"
        BY <2>1, <3>2, <3>4 DEF LibcApart
      <4>2. Outside(r.list, c) /\ r.mem[c] = mem[c]
        BY <1>0, <3>1, <4>1 DEF Gives
      <4>3. c \notin Span(Payload(u), u.size)
        BY <1>0, <3>2, <4>2, UsedInside
      <4> HIDE DEF k, p
      <4>4. c \notin Span(r.ptr, n) /\ c \notin Span(r.ptr, k)
        <5>1. n \in Nat /\ k <= u.size
          BY <2>1, <3>2, <3>3
        <5> QED BY <3>2, <3>3, <4>3, <5>1, SpanWithin
      <4>5. mem'[c] = "libc"
        BY <1>0, <2>1, <3>2, <4>1, <4>2, <4>4 DEF Written, Copied
      <4>6. Outside(list', c)
        BY <1>0, <1>4, <2>1, <3>2, <3>4, NotOver DEF HeapInv, LibcApart
      <4> QED BY <4>5, <4>6
    <3>5. libcCells' = libcCells /\ brk' \in Nat /\ brk <= brk'
      BY <1>4, <2>1, <3>2
    <3>6. libcCells' \subseteq 0 .. brk' - 1
      <4>1. \A a, b \in Nat : a <= b => 0 .. a - 1 \subseteq 0 .. b - 1
        OBVIOUS
      <4>2. 0 .. brk - 1 \subseteq 0 .. brk' - 1
        BY <1>0, <3>5, <4>1
      <4> QED BY <3>5, <4>2 DEF LibcApart
    <3> QED BY <3>4, <3>5, <3>6 DEF LibcApart
  <2> QED BY <2>2, <2>3, CallsSeeLayout, MallocLayout, <1>4, Sizes
<1>5. ASSUME LibcGrows PROVE LibcApart'
  <2>1. PICK n \in 1 .. MaxSize : /\ brk + n <= MaxBreak /\ brk' = brk + n
                                  /\ mem' = Written(mem, Span(brk, n), "libc")
                                  /\ libcCells' = libcCells \cup Span(brk, n)
    BY <1>5 DEF LibcGrows
  <2>2. UNCHANGED <<list, bridged>> /\ n \in Nat
    BY <1>5, Sizes DEF LibcGrows
  <2>3. libcCells' \subseteq 0 .. brk' - 1
    BY <1>0, <2>1, <2>2 DEF Span
  <2>4. ASSUME NEW c \in libcCells', ~ bridged' PROVE Outside(list', c) /\ mem'[c] = "libc"
    <3>1. CASE c \in Span(brk, n)
      <4>1. c \in Cells /\ brk <= c
        BY <1>0, <2>1, <2>2, <3>1, Sizes DEF Span, Cells
      <4>2. \A i \in 1 .. Len(list) : End(list[i]) <= brk /\ End(list[i]) \in Nat
        BY <1>0, ElementOfSeq, BlockEnds DEF Sorted
      <4>3. Outside(list, c)
        BY <1>0, <4>1, <4>2 DEF Outside, Cells
      <4> QED BY <2>1, <2>2, <3>1, <4>1, <4>3 DEF Written, Outside
    <3>2. CASE c \notin Span(brk, n)
      <4>1. c \in libcCells /\ Outside(list, c) /\ mem[c] = "libc"
        BY <2>1, <2>2, <2>4, <3>2 DEF LibcApart
      <4> QED BY <1>0, <2>1, <2>2, <3>2, <4>1 DEF Written, Outside
    <3> QED BY <3>1, <3>2
  <2> QED BY <2>3, <2>4 DEF LibcApart
<1>6. ASSUME LibcWrites, UNCHANGED libcSbrk PROVE LibcApart'
  BY <1>6, LibcWritesKeep
<1>7. CASE UNCHANGED heap
  BY <1>7 DEF heap, LibcApart, Outside
<1>8. HeapInv'
  BY HeapInductive
<1> QED BY <1>1, <1>2, <1>3, <1>4, <1>5, <1>6, <1>7, <1>8 DEF AllocNext, CallRealloc

LEMMA HeapHolds == AllocSpec => [](HeapInv /\ LibcApart)
<1>1. HeapInv /\ LibcApart /\ [AllocNext]_heap => (HeapInv /\ LibcApart)'
  BY HeapInductive, ApartInductive
<1> QED BY <1>1, InitHeap, PTL DEF AllocSpec

\* Until my_free merges two blocks over memory of libc's, nothing that an object
\* was given, no header and nothing of libc's is written by anyone else; after
\* that only libc's own writes appear where they should not.  For objects and
\* sizes of any number: split, append, merge and the copy of my_realloc never
\* overlap a block in use.
THEOREM MemoryIsIntact == AllocSpec => []Intact
<1>1. HeapInv /\ LibcApart => Intact
  <2> SUFFICES ASSUME HeapInv, LibcApart PROVE Intact
    OBVIOUS
  <2>1. DOMAIN list = 1 .. Len(list)
    BY LenProperties DEF HeapInv
  <2> QED BY <2>1 DEF HeapInv, LibcApart, Holds, Intact
<1> QED BY <1>1, HeapHolds, PTL

\* Unless libc moves the break, the blocks follow each other without a gap from
\* the first cell to the break: my_free's merging and my_malloc's splitting lose
\* no cell.
THEOREM BlocksTile == AllocSpec => []Tiled
<1>1. HeapInv => Tiled
  BY DEF HeapInv, Tiles, Tiled, Last
<1> QED BY <1>1, HeapHolds, PTL

\* The blocks in use are those of the live objects, one each and large enough.
THEOREM BlocksAreOwned == AllocSpec => []BlocksOwned
<1>1. HeapInv => BlocksOwned
  <2> SUFFICES ASSUME HeapInv PROVE BlocksOwned
    OBVIOUS
  <2>0. /\ list \in Seq(Blocks) /\ DOMAIN list = 1 .. Len(list) /\ Owned(live, Used(list))
        /\ \A i \in 1 .. Len(list) : list[i] \in Blocks
    BY LenProperties, ElementOfSeq DEF HeapInv
  <2>1. ASSUME NEW i \in DOMAIN list, ~ list[i].free
        PROVE  Cardinality({o \in Objects : live[o].ptr = Payload(list[i])}) = 1
    <3>1. list[i] \in Used(list) /\ list[i] \in Blocks
      BY <2>0, <2>1 DEF Used
    <3>2. PICK o \in Objects : live[o] # Null /\ live[o].ptr = Payload(list[i])
      BY <2>0, <3>1 DEF Owned
    <3>3. ASSUME NEW p \in Objects, live[p].ptr = Payload(list[i]) PROVE p = o
      <4>1. Payload(list[i]) \in Nat
        BY <3>1, BlockTypes, Sizes
      <4>2. live[p] # Null
        BY <3>3, <4>1 DEF Null
      <4> QED BY <2>0, <3>2, <3>3, <4>2 DEF Owned
    <3>4. {p \in Objects : live[p].ptr = Payload(list[i])} = {o}
      BY <3>2, <3>3
    <3> QED BY <3>4, FS_Singleton
  <2>2. ASSUME NEW o \in Objects, live[o] # Null
        PROVE  \E i \in DOMAIN list :
                 Payload(list[i]) = live[o].ptr /\ ~ list[i].free /\ list[i].size >= live[o].size
    <3>1. PICK u \in Used(list) : Payload(u) = live[o].ptr /\ live[o].size <= u.size
      BY <2>2, OwnBlock
    <3>2. PICK i \in 1 .. Len(list) : list[i] = u /\ ~ u.free
      BY DEF Used
    <3>3. u.size \in Nat /\ live[o].size \in Nat
      BY BlockTypes DEF Used, HeapInv, Records
    <3> QED BY <2>0, <3>1, <3>2, <3>3
  <2> QED BY <2>1, <2>2 DEF BlocksOwned
<1> QED BY <1>1, HeapHolds, PTL
=============================================================================
