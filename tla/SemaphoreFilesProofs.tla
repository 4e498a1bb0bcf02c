------------------------ MODULE SemaphoreFilesProofs ------------------------
(***************************************************************************)
(* For every number of threads and turns: one thread at a time uses a file,*)
(* and while only one of the two files is used no increment of             *)
(* common_variable is lost.                                                *)
(***************************************************************************)
EXTENDS SemaphoreFiles, TLAPS

\* main joins the threads in order and frees the semaphores after the last.
Phases == /\ main = "create" => \A t \in Threads : t >= next => pc[t] = "none"
          /\ main = "join" => \A t \in Threads : t < next => pc[t] = "exited"
          /\ main \in {"free", "done"} => \A t \in Threads : pc[t] = "exited"

\* Who is in a section has taken the semaphore of its file.
SectionTaken == \A t \in Threads : pc[t] \in Section => sem[file[t]] = 0

\* A thread that has picked a file is in one of its turns.
InTurn == \A t \in Threads : pc[t] \in Section \cup {"wait"} => i[t] < Turns

\* Who is about to post has written.
PostWrote == \A t \in Threads : pc[t] = "post" => out[file[t]] # << >>

Unused(f) == out[f] = << >> /\ InSection(f) = {}
Consecutive(f) == \A k \in DOMAIN out[f] : out[f][k] = k

\* What common_variable is, by how far the only user of file f has come.
InStep(t, n) == /\ pc[t] = "load" => common = n
                /\ pc[t] = "store" => common = n /\ reg[t] = n
                /\ pc[t] = "print" => common = n + 1
                /\ pc[t] = "write" => common = n + 1 /\ arg[t] = n + 1
                /\ pc[t] = "post" => common = n
Counted(f) == /\ InSection(f) = {} => common = Len(out[f])
              /\ \A t \in InSection(f) : InStep(t, Len(out[f]))

Alone == \A f \in Files : Unused(3 - f) => Consecutive(f) /\ Counted(f)

-----------------------------------------------------------------------------
(* The semaphores *)

Semaphores == TypeOK /\ Phases /\ InTurn /\ SectionTaken /\ FileExclusive

LEMMA InitSemaphores == Init => Semaphores
BY SizesAssumption DEF Init, Semaphores, TypeOK, Phases, InTurn, SectionTaken, FileExclusive,
   InSection, Section, Threads, Files

\* Every variable keeps its type.
LEMMA TypeInductive == Semaphores /\ [Next]_vars => TypeOK'
<1> SUFFICES ASSUME TypeOK, InTurn, SectionTaken, [Next]_vars PROVE TypeOK'
  BY DEF Semaphores
<1>a. next \in Threads /\ 1 \in Threads /\ (next # NumThreads => next + 1 \in Threads)
  BY SizesAssumption DEF TypeOK, Threads
<1> USE SizesAssumption DEF TypeOK, Threads, Files, Section, mainVars, fileVars
<1>1. CASE Create
  <2>1. next' \in Threads /\ main' \in {"create", "join", "failed"}
    BY <1>1, <1>a DEF Create
  <2>2. pc' \in [Threads -> Section \cup {"none", "loop", "wait", "exited"}]
    BY <1>1 DEF Create
  <2> QED BY <1>1, <2>1, <2>2 DEF Create
<1>2. CASE Join
  <2>1. next' \in Threads /\ main' \in {"join", "free"}
    BY <1>2, <1>a DEF Join
  <2> QED BY <1>2, <2>1 DEF Join
<1>3. CASE FreeSemaphore
  BY <1>3 DEF FreeSemaphore
<1>4. ASSUME NEW t \in Threads, PickFile(t) PROVE TypeOK'
  BY <1>4 DEF PickFile, Goto
<1>5. ASSUME NEW t \in Threads, SemWait(t) PROVE TypeOK'
  <2>1. sem[file[t]] - 1 \in {-1, 0, 1}
    BY SMTT(30), <1>5 DEF SemWait
  <2>2. sem' \in [Files -> {-1, 0, 1}] /\ pc' \in [Threads -> Section \cup {"none", "loop", "wait", "exited"}]
    BY <1>5, <2>1 DEF SemWait, Goto
  <2> QED BY <1>5, <2>2 DEF SemWait
<1>6. ASSUME NEW t \in Threads, Load(t) PROVE TypeOK'
  BY <1>6 DEF Load, Goto
<1>7. ASSUME NEW t \in Threads, Store(t) PROVE TypeOK'
  <2>1. common' \in Nat /\ reg' \in [Threads -> Nat]
    BY SMTT(30), <1>7 DEF Store
  <2> QED BY <1>7, <2>1 DEF Store, Goto
<1>8. ASSUME NEW t \in Threads, ReadAgain(t) PROVE TypeOK'
  BY <1>8 DEF ReadAgain, Goto
<1>9. ASSUME NEW t \in Threads, WriteToFile(t) PROVE TypeOK'
  <2>1. file[t] \in Files /\ arg[t] \in Nat /\ out[file[t]] \in Seq(Nat)
    OBVIOUS
  <2>2. Append(out[file[t]], arg[t]) \in Seq(Nat)
    BY <2>1
  <2>3. out' \in [Files -> Seq(Nat)]
    BY <1>9, <2>2 DEF WriteToFile
  <2>4. arg' \in [Threads -> Nat]
    BY <1>9 DEF WriteToFile
  <2> QED BY <1>9, <2>3, <2>4 DEF WriteToFile, Goto
<1>9a. ASSUME NEW t \in Threads, WriteFaults(t) PROVE TypeOK'
  BY <1>9a DEF WriteFaults
<1>10. ASSUME NEW t \in Threads, SemPost(t) PROVE TypeOK'
  <2>1. i[t] + 1 \in 0 .. Turns
    BY SMTT(30), <1>10 DEF SemPost, Goto, InTurn
  <2>2. sem[file[t]] + 1 \in {-1, 0, 1}
    BY SMTT(30), <1>10 DEF SemPost, Goto, SectionTaken
  <2>3. i' \in [Threads -> 0 .. Turns] /\ sem' \in [Files -> {-1, 0, 1}]
    BY <1>10, <2>1, <2>2 DEF SemPost
  <2> QED BY <1>10, <2>3 DEF SemPost, Goto
<1>11. ASSUME NEW t \in Threads, Exit(t) PROVE TypeOK'
  BY <1>11 DEF Exit, Goto
<1>12. CASE UNCHANGED vars
  BY <1>12 DEF vars
<1>q. QED
  BY <1>1, <1>2, <1>3, <1>4, <1>5, <1>6, <1>7, <1>8, <1>9, <1>9a, <1>10, <1>11,
     <1>12 DEF Next, Main, Thread, Ended

LEMMA PhasesInductive == Semaphores /\ [Next]_vars => Phases'
<1> SUFFICES ASSUME TypeOK, Phases, [Next]_vars PROVE Phases'
  BY DEF Semaphores
<1> USE DEF Phases, mainVars, fileVars
<1>a. next \in Int /\ Threads \subseteq Int /\ \A u \in Threads : 1 <= u /\ u <= NumThreads
  BY SizesAssumption DEF TypeOK, Threads
<1>1. CASE Create
  <2>1. \A u \in Threads : u # next => pc'[u] = pc[u]
    BY <1>1 DEF Create, TypeOK
  <2>2. CASE main' = "failed"
    BY <2>2
  <2>3. CASE main' = "join"
    <3>1. next' = 1
      BY <1>1, <2>3 DEF Create
    <3> QED BY <2>3, <3>1, <1>a
  <2>4. CASE main' = "create" /\ main = "create" /\ next' = next + 1
    <3>1. \A u \in Threads : u >= next + 1 => u # next /\ u >= next
      BY <1>a
    <3> QED BY <2>1, <2>4, <3>1
  <2> QED BY <1>1, <2>2, <2>3, <2>4 DEF Create
<1>2. CASE Join
  <2>1. UNCHANGED pc /\ main = "join" /\ pc[next] = "exited"
    BY <1>2 DEF Join
  <2>2. CASE main' = "free" /\ next = NumThreads
    <3>1. \A u \in Threads : u < next \/ u = next
      BY <2>2, <1>a
    <3> QED BY <2>1, <2>2, <3>1
  <2>3. CASE main' = "join" /\ next' = next + 1
    <3>1. \A u \in Threads : u < next + 1 => u < next \/ u = next
      BY <1>a
    <3> QED BY <2>1, <2>3, <3>1
  <2> QED BY <1>2, <2>2, <2>3 DEF Join
<1>3. CASE FreeSemaphore
  BY <1>3 DEF FreeSemaphore
<1>4. ASSUME NEW t \in Threads, Thread(t) PROVE Phases'
  <2>1. CASE WriteFaults(t)
    BY <2>1 DEF WriteFaults
  <2>2. CASE ~ WriteFaults(t)
    <3>1. UNCHANGED <<main, next>> /\ Running
      BY <1>4, <2>2 DEF Thread, PickFile, SemWait, Load, Store, ReadAgain, WriteToFile, SemPost, Exit, Goto
    <3>2. pc[t] \notin {"none", "exited"}
      BY <1>4, <2>2 DEF Thread, PickFile, SemWait, Load, Store, ReadAgain, WriteToFile, SemPost, Exit, Goto
    <3>3. \A u \in Threads : u # t => pc'[u] = pc[u]
      BY <1>4, <2>2 DEF Thread, PickFile, SemWait, Load, Store, ReadAgain, WriteToFile, SemPost, Exit, Goto, TypeOK
    <3> QED BY <3>1, <3>2, <3>3
  <2> QED BY <2>1, <2>2
<1>5. CASE UNCHANGED vars
  BY <1>5 DEF vars
<1>q. QED
  BY <1>1, <1>2, <1>3, <1>4, <1>5 DEF Next, Main, Ended

\* The steps of a thread that leave sections, files and semaphores as they are.
LEMMA SameSections ==
  ASSUME NEW t \in Threads, TypeOK,
         Load(t) \/ Store(t) \/ ReadAgain(t) \/ WriteToFile(t) \/ WriteFaults(t)
  PROVE  /\ pc[t] \in Section /\ pc'[t] \in Section
         /\ \A u \in Threads : u # t => pc'[u] = pc[u]
         /\ UNCHANGED <<file, sem, i>>
BY DEF Load, Store, ReadAgain, WriteToFile, WriteFaults, Goto, TypeOK, Section, fileVars, mainVars

\* A turn is a turn, and a semaphore is taken, until it is posted.
LEMMA SectionsInductive ==
  Semaphores /\ [Next]_vars => InTurn' /\ SectionTaken' /\ FileExclusive'
<1> SUFFICES ASSUME TypeOK, Phases, InTurn, SectionTaken, FileExclusive, [Next]_vars
             PROVE  InTurn' /\ SectionTaken' /\ FileExclusive'
  BY DEF Semaphores
<1> USE DEF InTurn, SectionTaken, FileExclusive, InSection
<1>1. CASE Create \/ Join
  <2>1. UNCHANGED <<i, file, sem>>
    BY <1>1 DEF Create, Join, fileVars
  <2>2. \A u \in Threads : pc'[u] = pc[u] \/ pc'[u] = "loop"
    BY <1>1 DEF Create, Join, TypeOK
  <2> QED BY <2>1, <2>2 DEF Section
<1>2. CASE FreeSemaphore
  BY <1>2 DEF FreeSemaphore, Phases, Section
<1>3. ASSUME NEW t \in Threads, PickFile(t) PROVE InTurn' /\ SectionTaken' /\ FileExclusive'
  <2>1. \A u \in Threads : u # t => pc'[u] = pc[u] /\ file'[u] = file[u]
    BY <1>3 DEF PickFile, Goto, TypeOK
  <2>2. pc'[t] = "wait" /\ i[t] < Turns /\ UNCHANGED <<i, sem>>
    BY <1>3 DEF PickFile, Goto, TypeOK, fileVars
  <2> QED BY <2>1, <2>2 DEF Section
<1>4. ASSUME NEW t \in Threads, SemWait(t) PROVE InTurn' /\ SectionTaken' /\ FileExclusive'
  <2>1. \A u \in Threads : u # t => pc'[u] = pc[u]
    BY <1>4 DEF SemWait, Goto, TypeOK
  <2>2. pc[t] = "wait" /\ pc'[t] = "load" /\ UNCHANGED <<i, file>>
    BY <1>4 DEF SemWait, Goto, TypeOK
  <2>3. sem[file[t]] = 1 /\ sem' = [sem EXCEPT ![file[t]] = 0]
    <3>1. sem[file[t]] \in {-1, 0, 1} /\ sem[file[t]] > 0
      BY <1>4 DEF SemWait, TypeOK
    <3>2. sem[file[t]] = 1
      BY <3>1
    <3>3. sem' = [sem EXCEPT ![file[t]] = sem[file[t]] - 1]
      BY <1>4 DEF SemWait
    <3> QED BY <3>2, <3>3
  <2>4. \A u \in Threads : pc[u] \in Section => file[u] # file[t]
    BY <2>3
  <2>5. file[t] \in Files /\ (\A f \in Files : f # file[t] => sem'[f] = sem[f]) /\ sem'[file[t]] = 0
    BY <2>3 DEF TypeOK
  <2>6. \A u \in Threads : file[u] \in Files
    BY DEF TypeOK
  <2>7. \A u \in Threads : pc'[u] \in Section => u = t \/ (pc[u] \in Section /\ file[u] # file[t])
    BY <2>1, <2>4
  <2>8. InTurn'
    BY <2>1, <2>2
  <2>9. SectionTaken'
    BY <2>1, <2>2, <2>5, <2>6, <2>7
  <2> QED BY <2>2, <2>7, <2>8, <2>9
<1>5. ASSUME NEW t \in Threads, SemPost(t) PROVE InTurn' /\ SectionTaken' /\ FileExclusive'
  <2>1. \A u \in Threads : u # t => pc'[u] = pc[u] /\ i'[u] = i[u]
    BY <1>5 DEF SemPost, Goto, TypeOK
  <2>2. pc[t] = "post" /\ pc'[t] = "loop" /\ UNCHANGED file
    BY <1>5 DEF SemPost, Goto, TypeOK
  <2>3. \A u \in Threads : u # t /\ pc[u] \in Section => file[u] # file[t]
    BY <2>2 DEF Section, TypeOK
  <2>4. \A f \in Files : f # file[t] => sem'[f] = sem[f]
    BY <1>5 DEF SemPost, TypeOK
  <2>5. \A u \in Threads : file[u] \in Files
    BY DEF TypeOK
  <2>6. \A u \in Threads : pc'[u] \in Section \cup {"wait"} => u # t /\ pc'[u] = pc[u] /\ i'[u] = i[u]
    BY <2>1, <2>2 DEF Section
  <2>7. SectionTaken'
    BY <2>2, <2>3, <2>4, <2>5, <2>6
  <2> QED BY <2>2, <2>6, <2>7
<1>6. ASSUME NEW t \in Threads, Exit(t) PROVE InTurn' /\ SectionTaken' /\ FileExclusive'
  <2>1. \A u \in Threads : pc'[u] = pc[u] \/ pc'[u] = "exited"
    BY <1>6 DEF Exit, Goto, TypeOK
  <2> QED BY <1>6, <2>1 DEF Exit, Section, fileVars
<1>7. ASSUME NEW t \in Threads,
             Load(t) \/ Store(t) \/ ReadAgain(t) \/ WriteToFile(t) \/ WriteFaults(t)
      PROVE  InTurn' /\ SectionTaken' /\ FileExclusive'
  BY <1>7, SameSections DEF Section
<1>8. CASE UNCHANGED vars
  BY <1>8 DEF vars, fileVars
<1>q. QED
  BY <1>1, <1>2, <1>3, <1>4, <1>5, <1>6, <1>7, <1>8 DEF Next, Main, Thread, Ended

LEMMA SemaphoresInvariant == Spec => []Semaphores
<1>1. Semaphores /\ [Next]_vars => Semaphores'
  BY TypeInductive, PhasesInductive, SectionsInductive DEF Semaphores
<1> QED BY InitSemaphores, <1>1, PTL DEF Spec

\* Every variable keeps its type, for every number of threads and turns.
THEOREM TypeCorrect == Spec => []TypeOK
<1>1. Semaphores => TypeOK
  BY DEF Semaphores
<1> QED BY <1>1, SemaphoresInvariant, PTL

\* write_to_file is never entered by two threads for the same file.
THEOREM FilesAreExclusive == Spec => []FileExclusive
<1>1. Semaphores => FileExclusive
  BY DEF Semaphores
<1> QED BY <1>1, SemaphoresInvariant, PTL

-----------------------------------------------------------------------------
(* The common variable *)

LEMMA FilesTwo == \A f \in Files : 3 - f \in Files /\ 3 - f # f /\ 3 - (3 - f) = f
                                   /\ \A g \in Files : g # f => g = 3 - f
BY DEF Files

\* A file is only written by a step of its section.
LEMMA PostWroteInductive == Semaphores /\ PostWrote /\ [Next]_vars => PostWrote'
<1> SUFFICES ASSUME TypeOK, PostWrote, [Next]_vars PROVE PostWrote'
  BY DEF Semaphores
<1> USE DEF PostWrote
<1>1. CASE UNCHANGED <<file, out>> /\ \A u \in Threads : pc'[u] = "post" => pc[u] = "post"
  BY <1>1
<1>2. ASSUME NEW t \in Threads, WriteToFile(t) PROVE PostWrote'
  <2>1. file[t] \in Files /\ out[file[t]] \in Seq(Nat) /\ arg[t] \in Nat
    BY DEF TypeOK
  <2>2. Append(out[file[t]], arg[t]) # << >>
    BY <2>1
  <2>3. \A f \in Files : out'[f] = IF f = file[t] THEN Append(out[f], arg[t]) ELSE out[f]
    BY <1>2 DEF WriteToFile, TypeOK
  <2>4. \A u \in Threads : file'[u] \in Files /\ file'[u] = file[u] /\ (u # t => pc'[u] = pc[u])
    BY <1>2 DEF WriteToFile, Goto, TypeOK
  <2> QED BY <2>2, <2>3, <2>4
<1>3. ASSUME NEW t \in Threads, PickFile(t) PROVE PostWrote'
  BY <1>3 DEF PickFile, Goto, TypeOK, fileVars
<1>4. CASE Main \/ Ended \/ UNCHANGED vars
  BY <1>4, <1>1 DEF Main, Create, Join, FreeSemaphore, Ended, vars, mainVars, fileVars, TypeOK
<1>5. ASSUME NEW t \in Threads,
             SemWait(t) \/ Load(t) \/ Store(t) \/ ReadAgain(t) \/ WriteFaults(t) \/ SemPost(t) \/ Exit(t)
      PROVE  PostWrote'
  BY <1>5, <1>1 DEF SemWait, Load, Store, ReadAgain, WriteFaults, SemPost, Exit, Goto, TypeOK, fileVars
<1>q. QED
  BY <1>2, <1>3, <1>4, <1>5 DEF Next, Thread

\* A step outside the sections: PickFile, Exit and those of main.
LEMMA AloneOutside ==
  ASSUME TypeOK, Alone, UNCHANGED <<common, out, reg, arg>>,
         \A u \in Threads : (pc[u] \in Section \/ pc'[u] \in Section)
                              => pc'[u] = pc[u] /\ file'[u] = file[u]
  PROVE  Alone'
<1>1. \A f \in Files : InSection(f)' = InSection(f)
  BY DEF InSection
<1>2. \A u \in Threads, n \in Nat : pc[u] \in Section => (InStep(u, n)' <=> InStep(u, n))
  BY DEF InStep
<1>3. \A f \in Files : Len(out[f]) \in Nat
  BY DEF TypeOK
<1>4. ASSUME NEW f \in Files, Unused(3 - f)' PROVE Consecutive(f)' /\ Counted(f)'
  <2>1. Unused(3 - f)
    BY <1>1, <1>4, FilesTwo DEF Unused
  <2>2. Consecutive(f) /\ Counted(f)
    BY <2>1 DEF Alone
  <2> QED BY <1>1, <1>2, <1>3, <2>2 DEF Consecutive, Counted, InSection
<1> QED BY <1>4 DEF Alone

\* A step from one place of a section to another, or into or out of one: it spoils
\* what is said of the other file only if the other file was in use before.
LEMMA AloneInside ==
  ASSUME Semaphores, PostWrote, Alone,
         NEW t \in Threads, Running,
         pc[t] \in Section \/ pc'[t] \in Section,
         UNCHANGED file,
         \A u \in Threads : u # t => pc'[u] = pc[u],
         pc[t] \in Section /\ pc'[t] \notin Section => pc[t] = "post" /\ UNCHANGED out,
         out'[3 - file[t]] = out[3 - file[t]],
         out[file[t]] # << >> => out'[file[t]] # << >>,
         Unused(3 - file[t]) => Consecutive(file[t])' /\ Counted(file[t])'
  PROVE  Alone'
<1> DEFINE f == file[t]
<1>1. f \in Files /\ file'[t] = f
  BY DEF Semaphores, TypeOK
<1>2. InSection(3 - f)' = InSection(3 - f)
  BY <1>1, FilesTwo DEF InSection
<1>3. Unused(3 - f)' => Unused(3 - f)
  BY <1>2 DEF Unused
<1>4. ~ Unused(f)'
  <2>1. CASE pc'[t] \in Section
    BY <2>1, <1>1 DEF Unused, InSection
  <2>2. CASE pc'[t] \notin Section
    <3>1. out[f] # << >>
      BY <2>2 DEF PostWrote
    <3> QED BY <3>1 DEF Unused
  <2> QED BY <2>1, <2>2
<1>5. ASSUME NEW g \in Files, Unused(3 - g)' PROVE Consecutive(g)' /\ Counted(g)'
  <2>1. g = f
    BY <1>1, <1>4, <1>5, FilesTwo
  <2> QED BY <2>1, <1>3, <1>5
<1> QED BY <1>5 DEF Alone

\* What a step within a section has to keep.
LEMMA OwnSection ==
  ASSUME Semaphores, PostWrote, Alone,
         NEW t \in Threads, Running,
         pc[t] \in Section, pc'[t] \in Section, UNCHANGED <<file, out>>,
         \A u \in Threads : u # t => pc'[u] = pc[u],
         InStep(t, Len(out[file[t]])) => InStep(t, Len(out[file[t]]))'
  PROVE  Alone'
<1> DEFINE f == file[t]
<1>1. f \in Files /\ 3 - f \in Files
  BY FilesTwo DEF Semaphores, TypeOK
<1>2. InSection(f) = {t} /\ InSection(f)' = {t}
  BY <1>1 DEF Semaphores, FileExclusive, InSection
<1>3. Unused(3 - f) => Consecutive(f)' /\ Counted(f)'
  <2> SUFFICES ASSUME Unused(3 - f) PROVE Consecutive(f)' /\ Counted(f)'
    OBVIOUS
  <2>1. Consecutive(f) /\ Counted(f)
    BY <1>1 DEF Alone
  <2>2. InStep(t, Len(out[f]))'
    BY <2>1, <1>2 DEF Counted
  <2> QED BY <2>1, <2>2, <1>2 DEF Consecutive, Counted
<1> QED BY <1>1, <1>3, AloneInside

LEMMA AloneInductive == Semaphores /\ PostWrote /\ Alone /\ [Next]_vars => Alone'
<1> SUFFICES ASSUME Semaphores, PostWrote, Alone, [Next]_vars PROVE Alone'
  OBVIOUS
<1>a. TypeOK /\ FileExclusive /\ SectionTaken
  BY DEF Semaphores
<1>1. CASE Main \/ Ended \/ UNCHANGED vars
  <2>1. UNCHANGED <<common, out, reg, arg, file>>
    BY <1>1 DEF Main, Create, Join, FreeSemaphore, Ended, vars, fileVars
  <2>2. \A u \in Threads : pc'[u] = pc[u] \/ (pc[u] = "none" /\ pc'[u] = "loop")
    <3>1. CASE Create
      <4>1. next >= next /\ next \in Threads
        BY <1>a DEF TypeOK, Threads
      <4>2. pc[next] = "none"
        BY <3>1, <4>1 DEF Create, Semaphores, Phases
      <4> QED BY <3>1, <4>2, <1>a DEF Create, TypeOK
    <3> QED BY <1>1, <3>1 DEF Main, Join, FreeSemaphore, Ended, vars
  <2> QED BY <1>a, <2>1, <2>2, AloneOutside DEF Section
<1>2. ASSUME NEW t \in Threads, PickFile(t) \/ Exit(t) PROVE Alone'
  <2>1. UNCHANGED <<common, out, reg, arg>>
    BY <1>2 DEF PickFile, Exit, fileVars
  <2>2. /\ pc[t] = "loop" /\ pc'[t] \in {"wait", "exited"}
        /\ \A u \in Threads : u # t => pc'[u] = pc[u] /\ file'[u] = file[u]
    BY <1>2, <1>a DEF PickFile, Exit, Goto, TypeOK
  <2> QED BY <1>a, <2>1, <2>2, AloneOutside DEF Section
<1>3. ASSUME NEW t \in Threads, WriteFaults(t) PROVE Alone'
  BY <1>3, <1>a, AloneOutside DEF WriteFaults, fileVars
<1>4. ASSUME NEW t \in Threads, SemWait(t) PROVE Alone'
  <2> DEFINE f == file[t]
  <2>1. /\ pc[t] = "wait" /\ pc'[t] = "load" /\ Running
        /\ UNCHANGED <<file, common, out>>
        /\ \A u \in Threads : u # t => pc'[u] = pc[u]
    BY <1>4, <1>a DEF SemWait, Goto, TypeOK
  <2>2. sem[f] > 0 /\ f \in Files /\ 3 - f \in Files /\ out[f] \in Seq(Nat)
    BY <1>4, <1>a, FilesTwo DEF SemWait, TypeOK
  <2>3. InSection(f) = {} /\ InSection(f)' = {t}
    BY <2>1, <2>2, <1>a DEF SectionTaken, InSection, Section
  <2>4. ASSUME Unused(3 - f) PROVE Consecutive(f)' /\ Counted(f)'
    <3>1. Consecutive(f) /\ common = Len(out[f])
      BY <2>2, <2>3, <2>4 DEF Alone, Counted
    <3> QED BY <2>1, <2>3, <3>1 DEF Consecutive, Counted, InStep
  <2> QED BY <2>1, <2>2, <2>4, AloneInside DEF Section
<1>5. ASSUME NEW t \in Threads, Load(t) PROVE Alone'
  <2>1. /\ pc[t] = "load" /\ pc'[t] = "store" /\ Running
        /\ UNCHANGED <<file, common, out>> /\ reg'[t] = common
        /\ \A u \in Threads : u # t => pc'[u] = pc[u]
    BY <1>5, <1>a DEF Load, Goto, TypeOK, fileVars
  <2> QED BY <2>1, OwnSection DEF InStep, Section
<1>6. ASSUME NEW t \in Threads, Store(t) PROVE Alone'
  <2>1. /\ pc[t] = "store" /\ pc'[t] = "print" /\ Running
        /\ UNCHANGED <<file, out>> /\ common' = reg[t] + 1
        /\ \A u \in Threads : u # t => pc'[u] = pc[u]
    BY <1>6, <1>a DEF Store, Goto, TypeOK
  <2> QED BY <2>1, OwnSection DEF InStep, Section
<1>7. ASSUME NEW t \in Threads, ReadAgain(t) PROVE Alone'
  <2>1. /\ pc[t] = "print" /\ pc'[t] = "write" /\ Running
        /\ UNCHANGED <<file, common, out>> /\ arg'[t] = common
        /\ \A u \in Threads : u # t => pc'[u] = pc[u]
    BY <1>7, <1>a DEF ReadAgain, Goto, TypeOK, fileVars
  <2> QED BY <2>1, OwnSection DEF InStep, Section
<1>8. ASSUME NEW t \in Threads, WriteToFile(t) PROVE Alone'
  <2> DEFINE f == file[t]
             n == Len(out[f])
  <2>1. /\ pc[t] = "write" /\ pc'[t] = "post" /\ Running /\ UNCHANGED <<file, common>>
        /\ \A u \in Threads : u # t => pc'[u] = pc[u]
    BY <1>8, <1>a DEF WriteToFile, Goto, TypeOK
  <2>2. f \in Files /\ 3 - f \in Files /\ 3 - f # f /\ out[f] \in Seq(Nat) /\ arg[t] \in Nat /\ n \in Nat
    BY <1>a, FilesTwo DEF TypeOK
  <2>3. out'[f] = Append(out[f], arg[t]) /\ out'[3 - f] = out[3 - f]
    BY <1>8, <1>a, <2>2 DEF WriteToFile, TypeOK
  <2>4. InSection(f) = {t} /\ InSection(f)' = {t}
    BY <2>1, <2>2, <1>a DEF FileExclusive, InSection, Section
  <2>5. Len(out'[f]) = n + 1 /\ out'[f] # << >> /\ DOMAIN out'[f] = 1 .. n + 1
        /\ (\A k \in 1 .. n : out'[f][k] = out[f][k])
        /\ out'[f][n + 1] = arg[t]
    BY SMTT(30), <2>2, <2>3
  <2>6. ASSUME Unused(3 - f) PROVE Consecutive(f)' /\ Counted(f)'
    <3>1. Consecutive(f) /\ common = n + 1 /\ arg[t] = n + 1
      BY <2>1, <2>2, <2>4, <2>6 DEF Alone, Counted, InStep
    <3>2. \A k \in 1 .. n : out[f][k] = k
      BY <3>1, <2>2 DEF Consecutive
    <3>3. \A k \in 1 .. n + 1 : k \in 1 .. n \/ k = n + 1
      BY <2>2
    <3>4. Consecutive(f)'
      BY <2>1, <2>5, <3>1, <3>2, <3>3 DEF Consecutive
    <3>5. InStep(t, Len(out[f]))'
      BY <2>1, <2>5, <3>1 DEF InStep
    <3> QED BY <2>1, <2>4, <3>4, <3>5 DEF Counted
  <2> QED BY <2>1, <2>2, <2>3, <2>5, <2>6, AloneInside DEF Section
<1>9. ASSUME NEW t \in Threads, SemPost(t) PROVE Alone'
  <2> DEFINE f == file[t]
  <2>1. /\ pc[t] = "post" /\ pc'[t] = "loop" /\ Running
        /\ UNCHANGED <<file, common, out>>
        /\ \A u \in Threads : u # t => pc'[u] = pc[u]
    BY <1>9, <1>a DEF SemPost, Goto, TypeOK
  <2>2. f \in Files /\ 3 - f \in Files
    BY <1>a, FilesTwo DEF TypeOK
  <2>3. InSection(f) = {t} /\ InSection(f)' = {}
    BY <2>1, <2>2, <1>a DEF FileExclusive, InSection, Section
  <2>4. ASSUME Unused(3 - f) PROVE Consecutive(f)' /\ Counted(f)'
    <3>1. Consecutive(f) /\ common = Len(out[f])
      BY <2>1, <2>2, <2>3, <2>4 DEF Alone, Counted, InStep
    <3> QED BY <2>1, <2>3, <3>1 DEF Consecutive, Counted
  <2> QED BY <2>1, <2>2, <2>4, AloneInside DEF Section
<1>q. QED
  BY <1>1, <1>2, <1>3, <1>4, <1>5, <1>6, <1>7, <1>8, <1>9 DEF Next, Thread

\* While only one of the two files is used, no increment is lost: its lines are
\* 1, 2, 3, ..., for every number of threads and turns.
THEOREM OneFileIsConsecutive == Spec => []OneFileConsecutive
<1> DEFINE IInv == Semaphores /\ PostWrote /\ Alone
<1>1. Init => IInv
  <2> SUFFICES ASSUME Init PROVE PostWrote /\ Alone
    BY InitSemaphores
  <2>1. PostWrote /\ \A f \in Files : InSection(f) = {} /\ out[f] = << >> /\ common = 0
    BY DEF Init, PostWrote, InSection, Section
  <2> QED BY <2>1, FilesTwo DEF Alone, Consecutive, Counted
<1>2. IInv /\ [Next]_vars => IInv'
  BY TypeInductive, PhasesInductive, SectionsInductive, PostWroteInductive, AloneInductive
     DEF Semaphores
<1>3. IInv => OneFileConsecutive
  BY DEF Alone, Unused, Consecutive, OneFileConsecutive
<1> QED BY <1>1, <1>2, <1>3, PTL DEF Spec
=============================================================================
