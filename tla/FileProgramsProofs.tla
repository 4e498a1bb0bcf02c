------------------------- MODULE FileProgramsProofs -------------------------
(***************************************************************************)
(* The safety properties of the three file programs, for any number of     *)
(* processes, all names and all directories that their users type.         *)
(***************************************************************************)
EXTENDS FilePrograms, TLAPS

Fields == {"at", "dir", "name", "eof", "fd", "found", "seen", "disturbed", "chosen"}

ProcShape == DOMAIN proc = Procs /\ \A q \in Procs : DOMAIN proc[q] = Fields

\* A step of another process has left q where it was.
Left(q) == /\ proc'[q].at = proc[q].at /\ proc'[q].dir = proc[q].dir
           /\ proc'[q].name = proc[q].name /\ proc'[q].fd = proc[q].fd
           /\ proc'[q].found = proc[q].found /\ proc'[q].seen = proc[q].seen
           /\ proc'[q].chosen = proc[q].chosen
           /\ ~ proc'[q].disturbed => ~ proc[q].disturbed

OthersLeft(p) == \A q \in Procs \ {p} : Left(q)

LEMMA ExceptShape ==
  ASSUME NEW f, DOMAIN f = Procs, \A q \in Procs : DOMAIN f[q] = Fields,
         NEW p \in Procs, NEW others,
         \A q \in Procs \ {p} : f[q] = proc[q],
         proc' = Disturbing(p, f, others)
  PROVE  /\ ProcShape' /\ OthersLeft(p) /\ proc'[p] = f[p]
         /\ \A q \in Procs \ {p} : q \in others => proc'[q].disturbed
BY DEF Disturbing, ProcShape, OthersLeft, Left, Fields

LEMMA InputSteps ==
  ASSUME ProcShape, NEW p \in Procs,
         \/ InputDir(p) \/ InputName(p) \/ InputFile(p) \/ InputText(p)
         \/ EndOfInput(p) \/ GiveUp(p)
  PROVE  ProcShape' /\ OthersLeft(p)
<1> USE DEF ProcShape, OthersLeft, Left, Fields, At
<1>1. CASE InputDir(p)
  BY <1>1 DEF InputDir
<1>2. CASE InputName(p)
  BY <1>2 DEF InputName
<1>3. CASE InputFile(p)
  BY ZenonT(30), <1>3 DEF InputFile
<1>4. CASE InputText(p)
  BY <1>4 DEF InputText
<1>5. CASE EndOfInput(p)
  BY <1>5 DEF EndOfInput
<1>6. CASE GiveUp(p)
  BY <1>6 DEF GiveUp, Exit
<1> QED BY <1>1, <1>2, <1>3, <1>4, <1>5, <1>6

LEMMA ListingSteps ==
  ASSUME ProcShape, NEW p \in Procs,
         RunShell(p) \/ RunLs(p) \/ OpenTemp(p) \/ ReadTemp(p) \/ RemoveTemp(p)
  PROVE  ProcShape' /\ OthersLeft(p)
<1> USE DEF ProcShape, OthersLeft, Left, Fields, At
<1>1. CASE RunShell(p)
  <2> DEFINE f == [proc EXCEPT ![p].at = "ls", ![p].fd = Opened(Temp),
                             ![p].disturbed = FALSE]
  <2>1. DOMAIN f = Procs /\ (\A q \in Procs : DOMAIN f[q] = Fields)
        /\ \A q \in Procs \ {p} : f[q] = proc[q]
    OBVIOUS
  <2>2. proc' = Disturbing(p, f, Between({"ls", "open", "read"}))
    BY <1>1 DEF RunShell
  <2> HIDE DEF f
  <2> QED BY <2>1, <2>2, ExceptShape
<1>2. CASE RunLs(p)
  <2> DEFINE f == [proc EXCEPT ![p].at = "open", ![p].fd = 0, ![p].seen = Ls(p)]
  <2>1. DOMAIN f = Procs /\ (\A q \in Procs : DOMAIN f[q] = Fields)
        /\ \A q \in Procs \ {p} : f[q] = proc[q]
    OBVIOUS
  <2>2. proc' = Disturbing(p, f, Between({"ls", "open", "read"}))
    BY <1>2 DEF RunLs
  <2> HIDE DEF f
  <2> QED BY <2>1, <2>2, ExceptShape
<1>3. CASE OpenTemp(p)
  BY <1>3 DEF OpenTemp
<1>4. CASE ReadTemp(p)
  BY <1>4 DEF ReadTemp
<1>5. CASE RemoveTemp(p)
  <2> DEFINE f == IF program[p] = "list" THEN [proc EXCEPT ![p] = At("ended")]
                   ELSE [proc EXCEPT ![p].at = IF proc[p].found THEN "hard" ELSE "name",
                                     ![p].seen = {}]
  <2>1. DOMAIN f = Procs /\ (\A q \in Procs : DOMAIN f[q] = Fields)
        /\ \A q \in Procs \ {p} : f[q] = proc[q]
    OBVIOUS
  <2>2. proc' = Disturbing(p, f, Between({"ls", "open"}))
    BY <1>5 DEF RemoveTemp
  <2> HIDE DEF f
  <2> QED BY <2>1, <2>2, ExceptShape
<1> QED BY <1>1, <1>2, <1>3, <1>4, <1>5

LEMMA OtherSteps ==
  ASSUME ProcShape, NEW p \in Procs,
         CheckHardLink(p) \/ Link(p) \/ CheckSoftLink(p) \/ Symlink(p)
           \/ OpenForWrite(p) \/ OpenFails(p) \/ WriteText(p) \/ Kill(p)
  PROVE  ProcShape' /\ OthersLeft(p)
<1> USE DEF ProcShape, OthersLeft, Left, Fields, At
<1>1. CASE CheckHardLink(p)
  BY <1>1 DEF CheckHardLink
<1>2. CASE Link(p)
  BY <1>2 DEF Link
<1>3. CASE CheckSoftLink(p)
  BY <1>3 DEF CheckSoftLink, Exit
<1>4. CASE Symlink(p)
  BY <1>4 DEF Symlink, Exit
<1>5. CASE OpenForWrite(p)
  <2> DEFINE f == [proc EXCEPT ![p].at = "fclose", ![p].fd = Opened(Path(p))]
  <2>1. DOMAIN f = Procs /\ (\A q \in Procs : DOMAIN f[q] = Fields)
        /\ \A q \in Procs \ {p} : f[q] = proc[q]
    OBVIOUS
  <2>2. proc' = Disturbing(p, f, ListingIn(Opened(Path(p))))
    BY <1>5 DEF OpenForWrite
  <2> HIDE DEF f
  <2> QED BY <2>1, <2>2, ExceptShape
<1>6. CASE OpenFails(p)
  BY <1>6 DEF OpenFails, Exit
<1>7. CASE WriteText(p)
  <2> DEFINE f == [proc EXCEPT ![p] = At("ended")]
  <2>1. DOMAIN f = Procs /\ (\A q \in Procs : DOMAIN f[q] = Fields)
        /\ \A q \in Procs \ {p} : f[q] = proc[q]
    OBVIOUS
  <2>2. proc' = Disturbing(p, f, ListingIn(proc[p].fd))
    BY <1>7 DEF WriteText
  <2> HIDE DEF f
  <2> QED BY <2>1, <2>2, ExceptShape
<1>8. CASE Kill(p)
  BY <1>8 DEF Kill, Exit
<1> QED BY <1>1, <1>2, <1>3, <1>4, <1>5, <1>6, <1>7, <1>8

-----------------------------------------------------------------------------
(* The directories *)

\* The working directory has no link and no directory under the name temp.txt.
EntryShape ==
  /\ DOMAIN entry = Paths /\ DOMAIN content = Inodes
  /\ entry[Temp].kind \in {"file", "absent"}
  /\ \A q \in Paths : entry[q].kind = "file" =>
                       entry[q].ino \in Inodes /\ entry[q] = File(entry[q].ino)

\* What a step may do to the names.
Kept == \A q \in Paths \ {Temp} : entry[q].kind # "absent" => entry'[q] = entry[q]

LEMMA TempPath == /\ Temp \in Paths /\ {HardLink, SoftLink} \subseteq Paths \ {Temp}
                  /\ HardLink # SoftLink
BY DEF Temp, Paths, Names, HardLink, SoftLink

\* A path leads to an entry or nowhere.
LEMMA Leads ==
  ASSUME NEW path
  PROVE  \/ Resolve(path).kind = "absent"
         \/ \E q \in Paths : Resolve(path) = entry[q]
BY DEF Resolve, Follow, Lookup, Absent, Target

LEMMA TempAlone == ASSUME EntryShape PROVE Resolve(Temp) = entry[Temp] /\ Target(Temp) = Temp
BY TempPath DEF EntryShape, Resolve, Follow, Lookup, Target

\* A name under which nothing is found is not taken.
LEMMA NothingThere ==
  ASSUME NEW path, Resolve(path).kind = "absent", Target(path) \in Paths
  PROVE  entry[Target(path)].kind = "absent"
BY DEF Resolve, Follow, Lookup, Absent, Target

LEMMA OpenedInode ==
  ASSUME EntryShape, NEW path, Resolve(path).kind # "file" => Inodes \ InUse # {}
  PROVE  /\ Opened(path) \in Inodes
         /\ Resolve(path).kind = "file" => Resolve(path) = File(Opened(path)) 
         /\ Resolve(path).kind # "file" => Opened(path) \notin InUse
<1>1. CASE Resolve(path).kind = "file"
  <2>1. PICK q \in Paths : Resolve(path) = entry[q]
    BY <1>1, Leads
  <2> QED BY <1>1, <2>1 DEF EntryShape, Opened
<1>2. CASE Resolve(path).kind # "file"
  BY <1>2 DEF Opened
<1> QED BY <1>1, <1>2

LEMMA TruncateKeeps ==
  ASSUME EntryShape, NEW path, CanOpen(path), Truncate(path)
  PROVE  /\ Kept /\ EntryShape'
         /\ entry[Temp].kind = "file" => entry'[Temp] = entry[Temp]
         /\ Opened(path) \in Inodes
<1>0. Opened(path) \in Inodes
  BY OpenedInode DEF Truncate
<1>1. DOMAIN content' = Inodes
  BY DEF Truncate, Contents
<1>2. CASE Resolve(path).kind = "file"
  <2>1. entry' = entry
    BY <1>2 DEF Truncate
  <2> QED BY <1>0, <2>1, <1>1 DEF Kept, EntryShape
<1>3. CASE Resolve(path).kind # "file"
  <2>1. entry' = [entry EXCEPT ![Target(path)] = File(Opened(path))]
    BY <1>3 DEF Truncate
  <2>2. Resolve(path).kind = "absent" /\ Target(path) \in Paths
    BY <1>3 DEF CanOpen
  <2>3. entry[Target(path)].kind = "absent"
    BY <2>2, NothingThere
  <2>4. File(Opened(path)).kind = "file" /\ File(Opened(path)).ino = Opened(path)
    BY SMTT(30) DEF File
  <2> HIDE DEF File
  <2> QED BY <1>0, <1>1, <2>1, <2>2, <2>3, <2>4, TempPath DEF Kept, EntryShape
<1> QED BY <1>2, <1>3

\* What a path leads to stays the same, unless it leads to nothing or to temp.txt.
LEMMA StillThere ==
  ASSUME EntryShape, EntryShape', Kept, NEW path
  PROVE  /\ Target(path) = Temp => Target(path)' = Temp
         /\ Target(path) # Temp /\ Resolve(path).kind # "absent" =>
              Resolve(path)' = Resolve(path) /\ Target(path)' = Target(path)
         /\ path # Temp /\ Lookup(path).kind # "absent" => Lookup(path)' = Lookup(path)
BY SMTT(30) DEF EntryShape, Kept, Target, Resolve, Follow, Lookup, Absent

-----------------------------------------------------------------------------
(* The names *)

\* All that a process may do but wait.
ProcessStep(p) == Step(p) \/ Answer(p) \/ GiveUp(p) \/ EndOfInput(p) \/ Kill(p)

LEMMA MakeKeeps ==
  ASSUME EntryShape, NEW p \in Procs, NEW l \in {HardLink, SoftLink}, NEW e, Make(p, l, e),
         e.kind = "file" => e.ino \in Inodes /\ e = File(e.ino)
  PROVE  Kept /\ EntryShape' /\ entry'[Temp] = entry[Temp]
BY TempPath DEF Make, Kept, EntryShape, disk

LEMMA SameEntries ==
  ASSUME EntryShape, entry' = entry, (\E c : Contents(c)) \/ content' = content
  PROVE  Kept /\ EntryShape' /\ entry'[Temp] = entry[Temp]
BY DEF Kept, EntryShape, Contents

LEMMA NameSteps == ASSUME EntryShape, NEW p \in Procs, ProcessStep(p) PROVE Kept /\ EntryShape'
<1>1. CASE RunShell(p)
  <2>1. CanOpen(Temp)
    BY TempAlone, TempPath DEF EntryShape, CanOpen
  <2> QED BY <1>1, <2>1, TruncateKeeps DEF RunShell
<1>2. CASE OpenForWrite(p)
  <2>1. PICK path : path = Path(p)
    OBVIOUS
  <2>2. CanOpen(path) /\ Truncate(path)
    BY <1>2, <2>1 DEF OpenForWrite
  <2> QED BY <2>2, TruncateKeeps
<1>3. CASE RunLs(p) \/ ReadTemp(p) \/ WriteText(p) \/ Kill(p)
  <2>1. entry' = entry /\ \E c : Contents(c)
    BY <1>3 DEF RunLs, ReadTemp, WriteText, Kill
  <2> QED BY <2>1, SameEntries
<1>4. CASE RemoveTemp(p)
  <2>1. entry' = [entry EXCEPT ![Temp] = Absent] /\ DOMAIN content' = Inodes
    BY <1>4 DEF RemoveTemp, Contents
  <2> QED BY <2>1, TempPath DEF Kept, EntryShape, Absent
<1>5. CASE Link(p) \/ Symlink(p)
  <2>1. CASE Link(p)
    <3>1. PICK e : e = Lookup(Path(p))
      OBVIOUS
    <3>2. e.kind = "file" => e.ino \in Inodes /\ e = File(e.ino)
      BY <3>1 DEF EntryShape, Lookup, Absent
    <3>3. Make(p, HardLink, e)
      BY <2>1, <3>1 DEF Link
    <3> QED BY <3>2, <3>3, MakeKeeps
  <2>2. CASE Symlink(p)
    <3>1. PICK e : e = LinkTo(Path(p))
      OBVIOUS
    <3>2. e.kind # "file"
      BY <3>1 DEF LinkTo
    <3>3. Make(p, SoftLink, e)
      BY <2>2, <3>1 DEF Symlink
    <3> QED BY <3>2, <3>3, MakeKeeps
  <2> QED BY <1>5, <2>1, <2>2
<1>6. CASE Answer(p) \/ GiveUp(p) \/ EndOfInput(p) \/ OpenTemp(p) \/ CheckHardLink(p)
             \/ CheckSoftLink(p) \/ OpenFails(p)
  <2>1. entry' = entry /\ content' = content
    BY <1>6 DEF Answer, InputDir, InputName, InputFile, InputText, GiveUp, EndOfInput,
                OpenTemp, CheckHardLink, CheckSoftLink, OpenFails, disk
  <2> QED BY <2>1, SameEntries
<1> QED BY <1>1, <1>2, <1>3, <1>4, <1>5, <1>6 DEF ProcessStep, Step

LEMMA ProcSteps ==
  ASSUME ProcShape, NEW p \in Procs, ProcessStep(p)
  PROVE  ProcShape' /\ OthersLeft(p)
BY InputSteps, ListingSteps, OtherSteps DEF ProcessStep, Step, Answer

-----------------------------------------------------------------------------
(* Where a step takes its process *)

LEMMA EndedAt == At("ended").at = "ended"
BY DEF At

LEMMA ShellMoves ==
  ASSUME ProcShape, NEW p \in Procs, RunShell(p)
  PROVE  /\ proc'[p].at = "ls" /\ proc'[p].fd = Opened(Temp)
         /\ proc'[p].dir = proc[p].dir /\ proc'[p].name = proc[p].name
<1>1. proc'[p] = [proc EXCEPT ![p].at = "ls", ![p].fd = Opened(Temp),
                              ![p].disturbed = FALSE][p]
  BY DEF RunShell, Disturbing
<1> QED BY <1>1 DEF ProcShape, Fields

LEMMA LsMoves ==
  ASSUME ProcShape, NEW p \in Procs, RunLs(p)
  PROVE  /\ proc[p].at = "ls" /\ proc'[p].at = "open"
         /\ proc'[p].fd = 0 /\ proc'[p].seen = Ls(p)
         /\ proc'[p].dir = proc[p].dir /\ proc'[p].name = proc[p].name
         /\ proc'[p].disturbed = proc[p].disturbed
<1>1. proc'[p] = [proc EXCEPT ![p].at = "open", ![p].fd = 0, ![p].seen = Ls(p)][p]
  BY DEF RunLs, Disturbing
<1> QED BY ZenonT(30), <1>1 DEF RunLs, ProcShape, Fields

LEMMA OpenMoves ==
  ASSUME ProcShape, NEW p \in Procs, OpenTemp(p)
  PROVE  /\ proc[p].at = "open"
         /\ \/ /\ proc'[p].at = "read" /\ Resolve(Temp).kind = "file"
               /\ proc'[p].fd = Resolve(Temp).ino
            \/ proc'[p].at = "rm" /\ ~ proc'[p].found
         /\ proc'[p].seen = proc[p].seen
         /\ proc'[p].dir = proc[p].dir /\ proc'[p].name = proc[p].name
         /\ proc'[p].disturbed = proc[p].disturbed
BY DEF OpenTemp, ProcShape, Fields

LEMMA ReadMoves ==
  ASSUME ProcShape, NEW p \in Procs, ReadTemp(p)
  PROVE  /\ proc[p].at = "read" /\ proc'[p].at = "rm"
         /\ proc'[p].found = (program[p] = "link" /\ IsNameInDir(p))
         /\ proc'[p].dir = proc[p].dir /\ proc'[p].name = proc[p].name
         /\ proc'[p].disturbed = proc[p].disturbed
BY DEF ReadTemp, ProcShape, Fields

LEMMA RemoveMoves ==
  ASSUME ProcShape, NEW p \in Procs, RemoveTemp(p)
  PROVE  \/ proc'[p] = At("ended")
         \/ /\ proc[p].at = "rm"
            /\ proc'[p].at = IF proc[p].found THEN "hard" ELSE "name"
            /\ proc'[p].dir = proc[p].dir /\ proc'[p].name = proc[p].name
            /\ proc'[p].disturbed = proc[p].disturbed
<1>1. CASE program[p] = "list"
  BY <1>1 DEF RemoveTemp, Disturbing, ProcShape
<1>2. CASE program[p] # "list"
  <2>1. proc'[p] = [proc EXCEPT ![p].at = IF proc[p].found THEN "hard" ELSE "name",
                                ![p].seen = {}][p]
    BY <1>2 DEF RemoveTemp, Disturbing
  <2> QED BY <2>1 DEF RemoveTemp, ProcShape, Fields
<1> QED BY <1>1, <1>2

LEMMA LinkMoves ==
  ASSUME ProcShape, NEW p \in Procs,
         CheckHardLink(p) \/ Link(p) \/ CheckSoftLink(p) \/ Symlink(p)
  PROVE  \/ proc'[p].at = "ended"
         \/ /\ proc[p].at \in {"hard", "link", "soft"}
            /\ proc'[p].at \in {"link", "soft", "symlink"}
            /\ proc'[p].dir = proc[p].dir /\ proc'[p].name = proc[p].name
            /\ proc'[p].disturbed = proc[p].disturbed
<1>1. CASE CheckHardLink(p)
  BY <1>1 DEF CheckHardLink, ProcShape, Fields
<1>2. CASE Link(p)
  BY <1>2 DEF Link, ProcShape, Fields
<1>3. CASE CheckSoftLink(p)
  <2>1. CASE proc' = [proc EXCEPT ![p] = At("ended")]
    BY <2>1, EndedAt DEF ProcShape
  <2>2. CASE proc' = [proc EXCEPT ![p].at = "symlink"]
    BY <1>3, <2>2 DEF CheckSoftLink, ProcShape, Fields
  <2> QED BY <1>3, <2>1, <2>2 DEF CheckSoftLink, Exit
<1>4. CASE Symlink(p)
  <2>1. proc' = [proc EXCEPT ![p] = At("ended")]
    BY <1>4 DEF Symlink, Exit
  <2> QED BY <2>1, EndedAt DEF ProcShape
<1> QED BY <1>1, <1>2, <1>3, <1>4

LEMMA EndMoves ==
  ASSUME ProcShape, NEW p \in Procs, GiveUp(p) \/ Kill(p) \/ OpenFails(p) \/ WriteText(p)
  PROVE  proc'[p].at = "ended"
<1>1. CASE GiveUp(p) \/ Kill(p) \/ OpenFails(p)
  <2>1. proc' = [proc EXCEPT ![p] = At("ended")]
    BY <1>1 DEF GiveUp, Kill, OpenFails, Exit
  <2> QED BY <2>1, EndedAt DEF ProcShape
<1>2. CASE WriteText(p)
  <2>1. proc'[p] = At("ended")
    BY <1>2 DEF WriteText, Disturbing, ProcShape
  <2> QED BY <2>1, EndedAt
<1> QED BY <1>1, <1>2

LEMMA PromptMoves ==
  ASSUME ProcShape, NEW p \in Procs, InputDir(p) \/ InputName(p)
  PROVE  proc'[p].at \in {"name", "shell"}
<1>1. CASE InputDir(p)
  BY ZenonT(30), <1>1 DEF InputDir, ProcShape, Fields
<1>2. CASE InputName(p)
  <2>1. PICK n : proc' = [proc EXCEPT ![p].name = n, ![p].at = "shell"]
    BY ZenonT(40), <1>2 DEF InputName
  <2> QED BY <2>1 DEF ProcShape, Fields
<1> QED BY <1>1, <1>2

LEMMA FileMoves ==
  ASSUME ProcShape, NEW p \in Procs, InputFile(p)
  PROVE  /\ proc'[p].at = "text" /\ CheckFileExist(Path(p)')
         /\ proc'[p].chosen = IF Resolve(Path(p)').kind = "file"
                              THEN Resolve(Path(p)').ino ELSE 0
<1>1. PICK path \in {q \in {".", "d"} \X Given : CheckFileExist(q)} :
        proc' = [proc EXCEPT ![p].dir = path[1], ![p].name = path[2], ![p].at = "text",
                             ![p].chosen = IF Resolve(path).kind = "file"
                                           THEN Resolve(path).ino ELSE 0]
  BY Zenon DEF InputFile
<1>2. /\ proc'[p].at = "text" /\ <<proc'[p].dir, proc'[p].name>> = path
      /\ proc'[p].chosen = IF Resolve(path).kind = "file" THEN Resolve(path).ino ELSE 0
  BY <1>1 DEF ProcShape, Fields
<1>3. Path(p)' = path
  BY <1>2 DEF Path
<1> QED BY <1>2, <1>3

LEMMA TextMoves ==
  ASSUME ProcShape, NEW p \in Procs, InputText(p)
  PROVE  /\ proc[p].at = "text" /\ proc'[p].at = "fopen"
         /\ \/ proc'[p].chosen = Any
            \/ /\ proc'[p].dir = proc[p].dir /\ proc'[p].name = proc[p].name
               /\ proc'[p].chosen = proc[p].chosen
<1>1. CASE proc' = [proc EXCEPT ![p].at = "fopen"]
  BY <1>1 DEF InputText, ProcShape, Fields
<1>2. CASE proc' = [proc EXCEPT ![p].at = "fopen", ![p].dir = ".", ![p].name = "b",
                                ![p].chosen = Any]
  BY <1>2 DEF InputText, ProcShape, Fields
<1> QED BY <1>1, <1>2 DEF InputText

LEMMA WriteMoves ==
  ASSUME ProcShape, NEW p \in Procs, OpenForWrite(p)
  PROVE  /\ proc[p].at = "fopen" /\ proc'[p].at = "fclose"
         /\ proc'[p].fd = Opened(Path(p)) /\ proc'[p].chosen = proc[p].chosen
         /\ proc'[p].dir = proc[p].dir /\ proc'[p].name = proc[p].name
<1>1. proc'[p] = [proc EXCEPT ![p].at = "fclose", ![p].fd = Opened(Path(p))][p]
  BY DEF OpenForWrite, Disturbing
<1> QED BY <1>1 DEF OpenForWrite, ProcShape, Fields

LEMMA EofMoves ==
  ASSUME ProcShape, NEW p \in Procs, EndOfInput(p)
  PROVE  /\ proc[p].at \in {"dir", "name", "file", "text"} /\ proc'[p].at = proc[p].at
         /\ proc'[p].dir = proc[p].dir /\ proc'[p].chosen = proc[p].chosen
         /\ proc[p].at = "text" => proc'[p].name = proc[p].name
<1>1. PICK n : /\ proc' = [proc EXCEPT ![p].eof = TRUE, ![p].name = n]
               /\ proc[p].at = "text" => n = proc[p].name
  BY DEF EndOfInput
<1> QED BY <1>1 DEF EndOfInput, ProcShape, Fields

-----------------------------------------------------------------------------
(* The file that was checked *)

Checked(p) == proc[p].at \in {"text", "fopen", "fclose"} /\ proc[p].chosen # Any =>
  \/ Target(Path(p)) = Temp
  \/ /\ Resolve(Path(p)).kind # "absent"
     /\ Resolve(Path(p)).kind = "file" => proc[p].chosen = Resolve(Path(p)).ino
     /\ proc[p].at = "fclose" => proc[p].fd = proc[p].chosen

\* What has been found for an unchanged path stays right.
LEMMA CheckedStays ==
  ASSUME EntryShape, EntryShape', Kept, NEW q \in Procs, Checked(q),
         proc'[q].dir = proc[q].dir, proc'[q].name = proc[q].name,
         proc'[q].chosen = proc[q].chosen,
         proc'[q].at \in {"text", "fopen", "fclose"} =>
           /\ proc[q].at \in {"text", "fopen", "fclose"}
           /\ proc'[q].at = "fclose" /\ proc[q].chosen # Any /\ Target(Path(q)) # Temp =>
                proc'[q].fd = proc[q].chosen
  PROVE  Checked(q)'
<1>1. PICK path : path = Path(q)
  OBVIOUS
<1>2. path = Path(q)'
  BY <1>1 DEF Path
<1>3. /\ Target(path) = Temp => Target(path)' = Temp
      /\ Target(path) # Temp /\ Resolve(path).kind # "absent" =>
           Resolve(path)' = Resolve(path) /\ Target(path)' = Target(path)
  BY StillThere
<1>4. CASE proc'[q].at \in {"text", "fopen", "fclose"} /\ proc'[q].chosen # Any
  <2>1. CASE Target(path) = Temp
    <3>1. Target(Path(q))' = Temp
      BY <1>2, <1>3, <2>1
    <3> QED BY <3>1 DEF Checked
  <2>2. CASE Target(path) # Temp
    <3>1. /\ Resolve(path).kind # "absent"
          /\ Resolve(path).kind = "file" => proc[q].chosen = Resolve(path).ino
      BY <1>1, <1>4, <2>2 DEF Checked
    <3>2. Resolve(Path(q))' = Resolve(path)
      BY <1>2, <1>3, <2>2, <3>1
    <3>3. proc'[q].at = "fclose" => proc'[q].fd = proc'[q].chosen
      BY <1>1, <1>4, <2>2
    <3> QED BY <3>1, <3>2, <3>3 DEF Checked
  <2> QED BY <2>1, <2>2
<1> QED BY <1>4 DEF Checked

LEMMA CheckedSteps ==
  ASSUME ProcShape, EntryShape, NEW p \in Procs, Checked(p), ProcessStep(p)
  PROVE  Checked(p)'
<1>1. EntryShape' /\ Kept
  BY NameSteps
<1>2. CASE InputFile(p)
  <2>1. PICK path : path = Path(p)'
    OBVIOUS
  <2>2. entry' = entry
    BY <1>2 DEF InputFile, disk
  <2>3. Resolve(path)' = Resolve(path)
    BY <2>2 DEF Resolve, Follow, Lookup
  <2>4. Resolve(Path(p))' = Resolve(path)
    BY <2>1, <2>3
  <2> QED BY <1>2, <2>1, <2>4, FileMoves DEF Checked, CheckFileExist
<1>3. CASE InputText(p)
  <2>1. CASE proc'[p].chosen = Any
    BY <2>1 DEF Checked
  <2>2. CASE proc'[p].chosen # Any
    BY <1>1, <1>3, <2>2, TextMoves, CheckedStays
  <2> QED BY <2>1, <2>2
<1>4. CASE OpenForWrite(p)
  <2>1. CanOpen(Path(p))
    BY <1>4 DEF OpenForWrite
  <2>2. proc[p].chosen # Any /\ Target(Path(p)) # Temp => Opened(Path(p)) = proc[p].chosen
    BY <1>4, <2>1, WriteMoves DEF Checked, CanOpen, Opened
  <2> QED BY <1>1, <1>4, <2>2, WriteMoves, CheckedStays
<1>5. CASE EndOfInput(p)
  <2>1. CASE proc[p].at = "text"
    BY <1>1, <1>5, <2>1, EofMoves, CheckedStays
  <2>2. CASE proc[p].at # "text"
    BY <1>5, <2>2, EofMoves DEF Checked
  <2> QED BY <2>1, <2>2
<1>6. CASE \/ InputDir(p) \/ InputName(p) \/ RunShell(p) \/ RunLs(p) \/ OpenTemp(p)
           \/ ReadTemp(p) \/ CheckHardLink(p) \/ Link(p) \/ CheckSoftLink(p) \/ Symlink(p)
           \/ GiveUp(p) \/ Kill(p) \/ OpenFails(p) \/ WriteText(p)
  <2>1. proc'[p].at \notin {"text", "fopen", "fclose"}
    BY <1>6, PromptMoves, ShellMoves, LsMoves, OpenMoves, ReadMoves, LinkMoves, EndMoves
  <2> QED BY <2>1 DEF Checked
<1>7. CASE RemoveTemp(p)
  <2>1. proc'[p].at \notin {"text", "fopen", "fclose"}
    BY <1>7, RemoveMoves, EndedAt
  <2> QED BY <2>1 DEF Checked
<1> QED BY <1>2, <1>3, <1>4, <1>5, <1>6, <1>7 DEF ProcessStep, Step, Answer

LEMMA CheckedInductive ==
  ASSUME ProcShape, EntryShape, \A q \in Procs : Checked(q), NEW p \in Procs, ProcessStep(p)
  PROVE  \A q \in Procs : Checked(q)'
<1> TAKE q \in Procs
<1>1. CASE q = p
  BY <1>1, CheckedSteps
<1>2. CASE q # p
  <2>1. Left(q)
    BY <1>2, ProcSteps DEF OthersLeft
  <2>2. Kept /\ EntryShape' /\ Checked(q)
    BY NameSteps
  <2>3. proc[q].at = "fclose" /\ proc[q].chosen # Any /\ Target(Path(q)) # Temp =>
          proc[q].fd = proc[q].chosen
    BY <2>2 DEF Checked
  <2> QED BY <2>1, <2>2, <2>3, CheckedStays DEF Left
<1> QED BY <1>1, <1>2

-----------------------------------------------------------------------------
(* A listing of one's own *)

\* What an undisturbed program will read, from its shell on.
Listed(p) == ~ proc[p].disturbed =>
  /\ proc[p].at = "ls" =>
       proc[p].fd \in Inodes /\ entry[Temp] = File(proc[p].fd) /\ content[proc[p].fd] = {}
  /\ proc[p].at = "open" =>
       entry[Temp].kind = "file" /\ content[entry[Temp].ino] = proc[p].seen
  /\ proc[p].at = "read" =>
       proc[p].fd \in Inodes /\ content[proc[p].fd] = proc[p].seen

\* A file that is in use keeps what was not written to it.
LEMMA ContentKept ==
  ASSUME NEW c, Contents(c), NEW n \in Inodes, c[n] = content[n],
         entry'[Temp] = File(n) \/ \E q \in Procs : proc'[q].fd = n
  PROVE  content'[n] = content[n]
<1>1. n \in InUse'
  <2>1. CASE entry'[Temp] = File(n)
    <3>1. entry'[Temp].kind = "file" /\ entry'[Temp].ino = n
      BY <2>1 DEF File
    <3> QED BY <3>1, TempPath DEF InUse
  <2>2. CASE \E q \in Procs : proc'[q].fd = n
    BY <2>2 DEF InUse
  <2> QED BY <2>1, <2>2
<1> QED BY <1>1 DEF Contents

LEMMA ListedStays ==
  ASSUME EntryShape, EntryShape', NEW q \in Procs, Left(q), Listed(q),
         ~ proc'[q].disturbed =>
           /\ proc[q].at \in {"ls", "open"} => entry'[Temp] = entry[Temp]
           /\ \/ content' = content
              \/ \E c : /\ Contents(c)
                        /\ \A n \in Inodes : q \in ListingIn(n) => c[n] = content[n]
  PROVE  Listed(q)'
<1>1. SUFFICES ASSUME ~ proc'[q].disturbed PROVE Listed(q)'
  BY DEF Listed
<1>2. ~ proc[q].disturbed
  BY <1>1 DEF Left
<1>3. CASE content' = content
  BY <1>1, <1>2, <1>3 DEF Listed, Left
<1>4. ASSUME NEW c, Contents(c), \A n \in Inodes : q \in ListingIn(n) => c[n] = content[n]
      PROVE  Listed(q)'
  <2>1. CASE proc[q].at \in {"ls", "read"}
    <3>1. proc[q].fd \in Inodes
      BY <1>2, <2>1 DEF Listed
    <3>2. PICK n \in Inodes : n = proc[q].fd
      BY <3>1
    <3>3. q \in ListingIn(n) /\ proc'[q].fd = n
      BY <2>1, <3>2 DEF ListingIn, Between, Left
    <3>4. content'[n] = content[n]
      BY <1>4, <3>3, ContentKept
    <3> QED BY <1>1, <1>2, <2>1, <3>2, <3>4 DEF Listed, Left
  <2>2. CASE proc[q].at = "open"
    <3>1. entry[Temp].kind = "file" /\ entry[Temp].ino \in Inodes
          /\ entry[Temp] = File(entry[Temp].ino)
      BY <1>2, <2>2, TempPath DEF Listed, EntryShape
    <3>2. PICK n \in Inodes : n = entry[Temp].ino
      BY <3>1
    <3>3. q \in ListingIn(n) /\ entry'[Temp] = entry[Temp]
      BY <1>1, <2>2, <3>1, <3>2, TempAlone DEF ListingIn, Between
    <3>4. content'[n] = content[n]
      BY <1>4, <3>1, <3>2, <3>3, ContentKept
    <3> QED BY <1>1, <1>2, <2>2, <3>2, <3>3, <3>4 DEF Listed, Left
  <2>3. CASE proc[q].at \notin {"ls", "open", "read"}
    BY <2>3 DEF Listed, Left
  <2> QED BY <2>1, <2>2, <2>3
<1> QED BY <1>1, <1>3, <1>4

\* The steps of others.
LEMMA ListedOthers ==
  ASSUME ProcShape, EntryShape, NEW p \in Procs, ProcessStep(p),
         NEW q \in Procs \ {p}, Listed(q)
  PROVE  Listed(q)'
<1>1. EntryShape' /\ Left(q)
  BY NameSteps, ProcSteps DEF OthersLeft
<1>2. CASE RunShell(p) \/ RunLs(p)
  <2>1. q \in Between({"ls", "open", "read"}) => proc'[q].disturbed
    <3>1. CASE RunShell(p)
      BY <3>1 DEF RunShell, Disturbing, ProcShape, Fields
    <3>2. CASE RunLs(p)
      BY <3>2 DEF RunLs, Disturbing, ProcShape, Fields
    <3> QED BY <1>2, <3>1, <3>2
  <2>2. CASE proc[q].at \in {"ls", "open", "read"}
    BY <2>1, <2>2 DEF Between, Listed
  <2>3. CASE proc[q].at \notin {"ls", "open", "read"}
    BY <1>1, <2>3 DEF Listed, Left
  <2> QED BY <2>2, <2>3
<1>3. CASE RemoveTemp(p)
  <2>1. q \in Between({"ls", "open"}) => proc'[q].disturbed
    <3>1. CASE program[p] = "list"
      BY <1>3, <3>1 DEF RemoveTemp, Disturbing, ProcShape, Fields
    <3>2. CASE program[p] # "list"
      BY <1>3, <3>2 DEF RemoveTemp, Disturbing, ProcShape, Fields
    <3> QED BY <3>1, <3>2
  <2>2. CASE proc[q].at \in {"ls", "open"}
    BY <2>1, <2>2 DEF Between, Listed
  <2>3. CASE proc[q].at \notin {"ls", "open"}
    <3>1. Contents(content)
      BY <1>3 DEF RemoveTemp
    <3> QED BY <1>1, <2>3, <3>1, ListedStays
  <2> QED BY <2>2, <2>3
<1>4. CASE OpenForWrite(p)
  <2>1. PICK path : path = Path(p)
    OBVIOUS
  <2>2. CanOpen(path) /\ Truncate(path)
    BY <1>4, <2>1 DEF OpenForWrite
  <2>3. Opened(path) \in Inodes /\ Contents([content EXCEPT ![Opened(path)] = {}])
    BY <2>2, TruncateKeeps DEF Truncate
  <2>5. q \in ListingIn(Opened(path)) => proc'[q].disturbed
    BY <1>4, <2>1 DEF OpenForWrite, Disturbing, ProcShape, Fields
  <2>6. entry[Temp].kind = "file" => entry'[Temp] = entry[Temp]
    BY <2>2, TruncateKeeps
  <2>7. ~ proc'[q].disturbed /\ proc[q].at \in {"ls", "open"} => entry'[Temp] = entry[Temp]
    BY <1>1, <2>6 DEF Listed, Left, File
  <2>8. ~ proc'[q].disturbed => \A n \in Inodes :
          q \in ListingIn(n) => [content EXCEPT ![Opened(path)] = {}][n] = content[n]
    BY <2>5 DEF EntryShape
  <2> QED BY <1>1, <2>3, <2>7, <2>8, ListedStays
<1>5. CASE WriteText(p)
  <2>1. PICK w : Contents([content EXCEPT ![proc[p].fd] = w])
    BY <1>5 DEF WriteText
  <2>3. q \in ListingIn(proc[p].fd) => proc'[q].disturbed
    BY <1>5 DEF WriteText, Disturbing, ProcShape, Fields
  <2>4. entry' = entry
    BY <1>5 DEF WriteText
  <2>5. ~ proc'[q].disturbed => \A n \in Inodes :
          q \in ListingIn(n) => [content EXCEPT ![proc[p].fd] = w][n] = content[n]
    BY <2>3 DEF EntryShape
  <2> QED BY <1>1, <2>1, <2>4, <2>5, ListedStays
<1>6. CASE ReadTemp(p) \/ Kill(p)
  <2>1. entry' = entry /\ Contents(content)
    BY <1>6 DEF ReadTemp, Kill
  <2> QED BY <1>1, <2>1, ListedStays
<1>7. CASE Link(p) \/ Symlink(p)
  <2>1. content' = content /\ entry'[Temp] = entry[Temp]
    BY <1>7, TempPath DEF Link, Symlink, Make, EntryShape, disk
  <2> QED BY <1>1, <2>1, ListedStays
<1>8. CASE Answer(p) \/ GiveUp(p) \/ EndOfInput(p) \/ OpenTemp(p) \/ CheckHardLink(p)
             \/ CheckSoftLink(p) \/ OpenFails(p)
  <2>1. entry' = entry /\ content' = content
    BY <1>8 DEF Answer, InputDir, InputName, InputFile, InputText, GiveUp, EndOfInput,
                OpenTemp, CheckHardLink, CheckSoftLink, OpenFails, disk
  <2> QED BY SMTT(30), <1>1, <2>1, ListedStays
<1> QED BY <1>2, <1>3, <1>4, <1>5, <1>6, <1>7, <1>8 DEF ProcessStep, Step

\* One's own steps.
LEMMA ListedOwn ==
  ASSUME ProcShape, EntryShape, NEW p \in Procs, ProcessStep(p), Listed(p)
  PROVE  Listed(p)'
<1>1. EntryShape'
  BY NameSteps
<1>2. CASE RunShell(p)
  <2>1. CanOpen(Temp) /\ Truncate(Temp)
    BY <1>2, TempAlone, TempPath DEF EntryShape, CanOpen, RunShell
  <2>2. PICK n \in Inodes : n = Opened(Temp)
    BY <2>1, TruncateKeeps
  <2>3. entry'[Temp] = File(n)
    <3>1. CASE entry[Temp].kind = "file"
      BY <2>1, <2>2, <3>1, TruncateKeeps, TempAlone, OpenedInode DEF Truncate
    <3>2. CASE entry[Temp].kind # "file"
      BY <2>1, <2>2, <3>2, TempAlone, TempPath DEF Truncate, EntryShape
    <3> QED BY <3>1, <3>2
  <2>4. content'[n] = {}
    BY <2>1, <2>2 DEF Truncate, Contents, EntryShape
  <2> QED BY <1>2, <2>2, <2>3, <2>4, ShellMoves DEF Listed
<1>3. CASE RunLs(p)
  <2>1. SUFFICES ASSUME ~ proc'[p].disturbed PROVE Listed(p)'
    BY DEF Listed
  <2>2. PICK n \in Inodes : n = proc[p].fd
    BY <1>3, <2>1, LsMoves DEF Listed
  <2>3. entry[Temp] = File(n) /\ content[n] = {} /\ entry' = entry
    BY <1>3, <2>1, <2>2, LsMoves DEF Listed, RunLs
  <2>4. PICK w \in Written(n, Ls(p)) : Contents([content EXCEPT ![n] = w])
    BY <1>3, <2>2 DEF RunLs
  <2>5. w = Ls(p)
    BY <2>3, <2>4 DEF Written
  <2>6. n \in InUse'
    <3>1. entry'[Temp].kind = "file" /\ entry'[Temp].ino = n
      BY <2>3 DEF File
    <3> QED BY <3>1, TempPath DEF InUse
  <2>7. content'[n] = Ls(p)
    BY <2>4, <2>5, <2>6 DEF Contents, EntryShape
  <2>8. entry'[Temp].kind = "file" /\ entry'[Temp].ino = n
    BY <2>3 DEF File
  <2> QED BY <1>3, <2>1, <2>7, <2>8, LsMoves DEF Listed
<1>4. CASE OpenTemp(p)
  <2>1. entry' = entry /\ content' = content
    BY <1>4 DEF OpenTemp, disk
  <2>2. entry[Temp].kind = "file" => entry[Temp].ino \in Inodes
    BY TempPath DEF EntryShape
  <2> QED BY <1>4, <2>1, <2>2, OpenMoves, TempAlone DEF Listed
<1>5. CASE \/ InputDir(p) \/ InputName(p) \/ InputFile(p) \/ InputText(p) \/ EndOfInput(p)
           \/ ReadTemp(p) \/ CheckHardLink(p) \/ Link(p) \/ CheckSoftLink(p) \/ Symlink(p)
           \/ GiveUp(p) \/ Kill(p) \/ OpenForWrite(p) \/ OpenFails(p) \/ WriteText(p)
  <2>1. proc'[p].at \notin {"ls", "open", "read"}
    BY <1>5, PromptMoves, FileMoves, TextMoves, EofMoves, ReadMoves, LinkMoves, EndMoves,
       WriteMoves
  <2> QED BY <2>1 DEF Listed
<1>6. CASE RemoveTemp(p)
  <2>1. proc'[p].at \notin {"ls", "open", "read"}
    BY SMTT(30), <1>6, RemoveMoves, EndedAt
  <2> QED BY <2>1 DEF Listed
<1> QED BY <1>2, <1>3, <1>4, <1>5, <1>6 DEF ProcessStep, Step, Answer

-----------------------------------------------------------------------------
(* The name that was found *)

Named(p) == Lookup(Path(p)).kind # "absent"

\* The name that an undisturbed program finds, and goes on with, is there; unless
\* it is temp.txt, or the directory was a file.
Found(p) == ~ proc[p].disturbed /\ proc[p].dir # "a" /\ proc[p].name # "temp.txt" =>
  /\ /\ program[p] = "link" /\ proc[p].at \in {"open", "read"}
     /\ Short(proc[p].name) \in proc[p].seen
     => Named(p)
  /\ proc[p].at = "rm" /\ proc[p].found => Named(p)
  /\ proc[p].at \in {"hard", "link", "soft", "symlink"} => Named(p)

LEMMA SameProgram == ASSUME NEW p \in Procs, ProcessStep(p) PROVE program' = program
BY DEF ProcessStep, Step, Answer, InputDir, InputName, InputFile, InputText, GiveUp, EndOfInput,
       RunShell, RunLs, OpenTemp, ReadTemp, RemoveTemp, CheckHardLink, Link, CheckSoftLink,
       Symlink, Make, OpenForWrite, OpenFails, WriteText, Kill

LEMMA NamedStays ==
  ASSUME EntryShape, EntryShape', Kept, NEW q \in Procs, Named(q),
         proc'[q].dir = proc[q].dir, proc'[q].name = proc[q].name, proc[q].name # "temp.txt"
  PROVE  Named(q)'
<1>1. PICK path : path = Path(q)
  OBVIOUS
<1>2. path = Path(q)' /\ path # Temp
  BY <1>1 DEF Path, Temp
<1>3. path # Temp /\ Lookup(path).kind # "absent" => Lookup(path)' = Lookup(path)
  BY StillThere
<1>4. Lookup(Path(q))' = Lookup(path)
  BY <1>1, <1>2, <1>3 DEF Named
<1> QED BY <1>1, <1>4 DEF Named

LEMMA FoundOthers ==
  ASSUME ProcShape, EntryShape, NEW p \in Procs, ProcessStep(p), NEW q \in Procs \ {p}, Found(q)
  PROVE  Found(q)'
<1>1. Left(q) /\ EntryShape' /\ Kept /\ program' = program
  BY NameSteps, ProcSteps, SameProgram DEF OthersLeft
<1>2. proc[q].name # "temp.txt" /\ Named(q) => Named(q)'
  BY <1>1, NamedStays DEF Left
<1> QED BY <1>1, <1>2 DEF Found, Left

LEMMA FoundOwn ==
  ASSUME ProcShape, EntryShape, NEW p \in Procs, ProcessStep(p), Listed(p), Found(p)
  PROVE  Found(p)'
<1>1. EntryShape' /\ Kept /\ program' = program
  BY NameSteps, SameProgram
<1>2. proc'[p].dir = proc[p].dir /\ proc'[p].name = proc[p].name
        /\ proc[p].name # "temp.txt" /\ Named(p) => Named(p)'
  BY <1>1, NamedStays
<1>3. CASE RunLs(p)
  <2>1. SUFFICES ASSUME proc[p].dir # "a", program[p] = "link",
                        Short(proc[p].name) \in Ls(p), proc[p].name # "temp.txt"
                 PROVE  Named(p)
    BY <1>1, <1>2, <1>3, LsMoves DEF Found
  <2>2. PICK n \in NamesIn(proc[p].dir) : Short(n) = Short(proc[p].name)
    BY <2>1 DEF Ls
  <2>3. n = proc[p].name
    BY <2>2 DEF Short
  <2> QED BY <2>2, <2>3 DEF NamesIn, Named, Path
<1>4. CASE OpenTemp(p)
  BY <1>1, <1>2, <1>4, OpenMoves DEF Found
<1>5. CASE ReadTemp(p)
  BY <1>1, <1>2, <1>5, ReadMoves DEF Found, Listed, IsNameInDir
<1>6. CASE RemoveTemp(p)
  BY <1>2, <1>6, RemoveMoves, EndedAt DEF Found
<1>7. CASE CheckHardLink(p) \/ Link(p) \/ CheckSoftLink(p) \/ Symlink(p)
  BY <1>2, <1>7, LinkMoves DEF Found
<1>8. CASE \/ InputDir(p) \/ InputName(p) \/ InputFile(p) \/ InputText(p) \/ EndOfInput(p)
           \/ RunShell(p) \/ GiveUp(p) \/ Kill(p) \/ OpenForWrite(p) \/ OpenFails(p)
           \/ WriteText(p)
  <2>1. proc'[p].at \notin {"open", "read", "rm", "hard", "link", "soft", "symlink"}
    BY <1>8, PromptMoves, FileMoves, TextMoves, EofMoves, ShellMoves, EndMoves, WriteMoves
  <2> QED BY <2>1 DEF Found
<1> QED BY <1>3, <1>4, <1>5, <1>6, <1>7, <1>8 DEF ProcessStep, Step, Answer

-----------------------------------------------------------------------------
(* The links *)

\* LinksMeet, and that the links are there.
Good(l) == /\ l.link \in {HardLink, SoftLink}
           /\ l.path[2] # "temp.txt" =>
                IF l.link = HardLink
                THEN Lookup(l.path).kind # "absent" /\ entry[HardLink] = Lookup(l.path)
                ELSE /\ entry[SoftLink] = LinkTo(l.path)
                     /\ l.own /\ l.path[1] # "a" => Lookup(l.path).kind # "absent"

LEMMA GoodStays ==
  ASSUME EntryShape, EntryShape', Kept, NEW l, Good(l)
  PROVE  Good(l)'
<1>1. CASE l.path[2] = "temp.txt"
  BY <1>1 DEF Good
<1>2. CASE l.path[2] # "temp.txt"
  <2>1. l.path # Temp
    BY <1>2 DEF Temp
  <2>2. Lookup(l.path).kind # "absent" => Lookup(l.path)' = Lookup(l.path)
    BY <2>1, StillThere
  <2>3. CASE l.link = HardLink
    <3>1. entry'[HardLink] = entry[HardLink]
      BY <1>2, <2>3, TempPath DEF Good, Kept
    <3> QED BY <1>2, <2>2, <2>3, <3>1 DEF Good
  <2>4. CASE l.link # HardLink
    <3>1. entry[SoftLink].kind # "absent"
      BY <1>2, <2>4 DEF Good, LinkTo
    <3>2. entry'[SoftLink] = entry[SoftLink]
      BY SMTT(30), <3>1, TempPath DEF Kept
    <3> QED BY <1>2, <2>2, <2>4, <3>2 DEF Good
  <2> QED BY <2>3, <2>4
<1> QED BY <1>1, <1>2

LEMMA LinksInductive ==
  ASSUME ProcShape, EntryShape, NEW p \in Procs, ProcessStep(p), Found(p),
         \A l \in links : Good(l)
  PROVE  \A l \in links' : Good(l)'
<1>1. EntryShape' /\ Kept
  BY NameSteps
<1>2. \A l \in links : Good(l)'
  BY <1>1, GoodStays
<1>3. CASE links' = links
  BY <1>2, <1>3
<1>4. CASE Link(p) /\ links' # links
  <2>1. PICK e : e = Lookup(Path(p))
    OBVIOUS
  <2>2. PICK new : /\ new = [link |-> HardLink, path |-> Path(p), own |-> ~ proc[p].disturbed]
                   /\ entry[HardLink].kind = "absent" /\ e.kind \in {"file", "link"}
                   /\ entry' = [entry EXCEPT ![HardLink] = e]
                   /\ links' = links \cup {new}
    BY <1>4, <2>1 DEF Link, Make, disk
  <2>3. PICK path : path = Path(p) /\ new.path = path
    BY <2>2
  <2>4. path \in Paths /\ path # HardLink /\ entry[path] = e
    BY <2>1, <2>2, <2>3, TempPath DEF Lookup, Absent
  <2>5. entry'[HardLink] = e /\ Lookup(path)' = e /\ new.link = HardLink
    BY <2>2, <2>4, TempPath DEF Lookup, EntryShape
  <2>6. Good(new)'
    BY <2>2, <2>3, <2>5 DEF Good
  <2> QED BY <1>2, <2>2, <2>6
<1>5. CASE Symlink(p) /\ links' # links
  <2>1. PICK path : path = Path(p)
    OBVIOUS
  <2>2. PICK new : /\ new = [link |-> SoftLink, path |-> path, own |-> ~ proc[p].disturbed]
                   /\ entry' = [entry EXCEPT ![SoftLink] = LinkTo(path)]
                   /\ links' = links \cup {new}
    BY <1>5, <2>1 DEF Symlink, Make, disk
  <2>3. new.link = SoftLink /\ new.path = path /\ new.own = ~ proc[p].disturbed
    BY <2>2
  <2>4. entry'[SoftLink] = LinkTo(path)
    BY <2>2, TempPath DEF EntryShape
  <2>5. path[1] = proc[p].dir /\ path[2] = proc[p].name
    BY <2>1 DEF Path
  <2>6. new.own /\ path[1] # "a" /\ path[2] # "temp.txt" => Lookup(path)'.kind # "absent"
    <3>1. new.own /\ path[1] # "a" /\ path[2] # "temp.txt" => Lookup(path).kind # "absent"
      BY <1>5, <2>1, <2>3, <2>5 DEF Found, Named, Symlink
    <3>2. path[2] # "temp.txt" => path # Temp
      BY DEF Temp
    <3>3. path # Temp /\ Lookup(path).kind # "absent" => Lookup(path)' = Lookup(path)
      BY <1>1, StillThere
    <3> QED BY <3>1, <3>2, <3>3
  <2>7. Good(new)'
    BY <2>3, <2>4, <2>6, TempPath DEF Good
  <2> QED BY <1>2, <2>2, <2>7
<1> QED BY <1>3, <1>4, <1>5 DEF ProcessStep, Step, Answer, InputDir, InputName, InputFile,
      InputText, GiveUp, EndOfInput, RunShell, RunLs, OpenTemp, ReadTemp, RemoveTemp,
      CheckHardLink, CheckSoftLink, OpenForWrite, OpenFails, WriteText, Kill

-----------------------------------------------------------------------------
(* The invariant *)

Inv == /\ ProcShape /\ EntryShape
       /\ \A p \in Procs : Checked(p) /\ Listed(p) /\ Found(p)
       /\ \A l \in links : Good(l)

LEMMA InitInv == ASSUME Init PROVE Inv
<1>1. /\ DOMAIN proc = Procs
      /\ \A p \in Procs : proc[p] = At("file") \/ proc[p] = At("dir")
  BY DEF Init
<1>2. ProcShape
  <2>1. DOMAIN At("file") = Fields /\ DOMAIN At("dir") = Fields
    BY DEF At, Fields
  <2> QED BY <1>1, <2>1 DEF ProcShape
<1>3. EntryShape
  BY InodeAssumption, TempPath
  DEF Init, EntryShape, Absent, Directory, File, LinkTo, Inodes, Temp
<1>4. \A p \in Procs : proc[p].at \in {"file", "dir"}
  <2>1. At("file").at = "file" /\ At("dir").at = "dir"
    BY DEF At
  <2> QED BY <1>1, <2>1
<1>5. links = {}
  BY DEF Init
<1> QED BY <1>2, <1>3, <1>4, <1>5 DEF Inv, Checked, Listed, Found

LEMMA InvInductive == ASSUME Inv, [Next]_vars PROVE Inv'
<1>1. CASE UNCHANGED vars
  <2>1. /\ program' = program /\ proc' = proc /\ links' = links
        /\ entry' = entry /\ content' = content
    BY <1>1 DEF vars, disk
  <2>2. ProcShape' /\ EntryShape' /\ Kept
    BY <2>1 DEF Inv, ProcShape, EntryShape, Kept
  <2>3. \A p \in Procs : Left(p)
    BY <2>1 DEF Left
  <2>4. \A p \in Procs : Checked(p)'
    BY <2>1, <2>2, CheckedStays DEF Inv, Checked
  <2>5. \A p \in Procs : Listed(p)'
    BY <2>1, <2>2, <2>3, ListedStays DEF Inv
  <2>6. \A p \in Procs : Found(p)'
    BY <2>1 DEF Inv, Found, Named, Lookup, Path
  <2>7. \A l \in links' : Good(l)'
    BY <2>1, <2>2, GoodStays DEF Inv
  <2> QED BY <2>2, <2>4, <2>5, <2>6, <2>7 DEF Inv
<1>2. ASSUME NEW p \in Procs, ProcessStep(p) PROVE Inv'
  <2>1. ProcShape' /\ EntryShape'
    BY <1>2, ProcSteps, NameSteps DEF Inv
  <2>2. \A q \in Procs : Checked(q)'
    BY <1>2, CheckedInductive DEF Inv
  <2>3. \A q \in Procs : Listed(q)' /\ Found(q)'
    <3> TAKE q \in Procs
    <3>1. CASE q = p
      BY <1>2, <3>1, ListedOwn, FoundOwn DEF Inv
    <3>2. CASE q # p
      BY <1>2, <3>2, ListedOthers, FoundOthers DEF Inv
    <3> QED BY <3>1, <3>2
  <2>4. \A l \in links' : Good(l)'
    BY <1>2, LinksInductive DEF Inv
  <2> QED BY <2>1, <2>2, <2>3, <2>4 DEF Inv
<1> QED BY <1>1, <1>2 DEF Next, ProcessStep, Spin, Ended

LEMMA Invariance == Spec => []Inv
BY InitInv, InvInductive, PTL DEF Spec

-----------------------------------------------------------------------------
(* Theorems *)

\* For any number of programs in one directory, and whatever their users type: a
\* program that no other one disturbs at temp.txt reads what its own ls has listed.
THEOREM ListingIsOwn == Spec => []OwnListing
<1>1. ASSUME Inv PROVE OwnListing
  <2> SUFFICES ASSUME NEW p \in Procs, proc[p].at = "read", ~ proc[p].disturbed
               PROVE  IF program[p] = "link"
                      THEN IsNameInDir(p) = (Short(proc[p].name) \in proc[p].seen)
                      ELSE Total \in proc[p].seen =>
                             ExtractFileInfo(p) = {proc[p].seen \ {Total}}
    BY DEF OwnListing
  <2>1. content[proc[p].fd] = proc[p].seen
    BY <1>1 DEF Inv, Listed
  <2> QED BY <2>1 DEF IsNameInDir, ExtractFileInfo
<1> QED BY <1>1, Invariance, PTL

\* The links that are made lead to the file that was named.
THEOREM LinksLeadToNamed == Spec => []LinksMeet
<1>1. Inv => LinksMeet
  BY DEF Inv, Good, LinksMeet
<1> QED BY <1>1, Invariance, PTL

\* The file that was checked before the text was typed is the one that is written.
THEOREM CheckedIsWritten == Spec => []WritesChecked
<1>1. ASSUME Inv PROVE WritesChecked
  <2> SUFFICES ASSUME NEW p \in Procs, proc[p].at = "fclose", proc[p].chosen # Any
               PROVE  proc[p].fd = proc[p].chosen \/ Target(Path(p)) = Temp
    BY DEF WritesChecked
  <2> QED BY <1>1 DEF Inv, Checked
<1> QED BY <1>1, Invariance, PTL

\* No step of any program removes or replaces a name other than temp.txt.
THEOREM NamesAreKept == Spec => NamesKept
<1>1. ASSUME Inv, [Next]_vars
      PROVE  [\A q \in Paths \ {Temp} : entry[q].kind # "absent" => entry'[q] = entry[q]]_vars
  <2>1. CASE UNCHANGED vars
    BY <2>1
  <2>2. ASSUME NEW p \in Procs, ProcessStep(p) PROVE Kept
    BY <1>1, <2>2, NameSteps DEF Inv
  <2> QED BY <1>1, <2>1, <2>2 DEF Next, ProcessStep, Spin, Ended, Kept
<1> QED BY <1>1, Invariance, PTL DEF Spec, NamesKept
=============================================================================
