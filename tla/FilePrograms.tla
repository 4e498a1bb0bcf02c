---------------------------- MODULE FilePrograms ----------------------------
(***************************************************************************)
(* The three programs of Linux_File_System_and_system_calls, run at the    *)
(* same time in one working directory: Create_hard_link_and_soft_link      *)
(* ("link"), Print_file_name ("list"), Write_string_to_file ("write").     *)
(* The first two let a shell write a listing into temp.txt, which they all *)
(* share.  A path is a directory and a name in it; "." is the working      *)
(* directory, "d" a directory in it.                                       *)
(***************************************************************************)
EXTENDS Integers

CONSTANTS Procs,            \* the processes
          Given,            \* the names that users type
          GivenDirectories, \* the directories that they type
          MaxInode          \* bound: files that have a name or are open

Names == {"a", "b", "d", "temp.txt", "hard_link.txt", "soft_link.txt"}

ASSUME GivenAssumption == /\ Given \subseteq Names
                          /\ GivenDirectories \subseteq {".", "d", "a", "two words"}
ASSUME InodeAssumption == MaxInode \in Nat /\ MaxInode >= 3

Inodes == 1 .. MaxInode
Paths == {".", "d"} \X Names

Temp == <<".", "temp.txt">>
HardLink == <<".", "hard_link.txt">>
SoftLink == <<".", "soft_link.txt">>

Absent == [kind |-> "absent"]
Directory == [kind |-> "dir"]
File(n) == [kind |-> "file", ino |-> n]
LinkTo(path) == [kind |-> "link", to |-> path]

VARIABLES program,  \* which program each process runs
          proc,     \* the state of each process
          entry,    \* the directories: what each path is
          content,  \* the lines of each file
          links     \* the links made: which, to what, after whose listing (history)

disk == <<entry, content>>
vars == <<program, proc, disk, links>>

\* Of a process: where it is; the path it was given, "" before that; its input
\* has ended; the file that its shell or its fopen has opened, 0 for none; the
\* result of is_name_in_dir; and as history what its own ls has listed, whether
\* another one used temp.txt meanwhile, and the file that get_file_name found.
At(where) == [at |-> where, dir |-> "", name |-> "", eof |-> FALSE, fd |-> 0,
              found |-> FALSE, seen |-> {}, disturbed |-> FALSE, chosen |-> 0]

Path(p) == <<proc[p].dir, proc[p].name>>
Any == -1  \* no file that was checked

-----------------------------------------------------------------------------
(* The file system *)

\* A path is looked up through symbolic links.  Two in a row are the most that
\* the programs can make.
Lookup(path) == IF path \in Paths THEN entry[path] ELSE Absent
Follow(e) == IF e.kind = "link" THEN Lookup(e.to) ELSE e
Resolve(path) == Follow(Follow(Lookup(path)))

\* Where an open that creates makes a file that is not there.
Target(path) == LET e == Lookup(path) IN
  IF e.kind # "link" THEN path
  ELSE IF Lookup(e.to).kind # "link" THEN e.to ELSE Lookup(e.to).to

\* A file lives as long as it has a name or is open; what it held is gone then.
InUse == {entry[q].ino : q \in {r \in Paths : entry[r].kind = "file"}}
           \cup {proc[r].fd : r \in Procs}
Contents(c) == LET used == InUse' IN
  content' = [n \in Inodes |-> IF n \in used THEN c[n] ELSE {}]

\* The file that fopen(path, "w"), or the shell's ">", opens, and what becomes of
\* the disk, which has room for MaxInode files: an existing file loses its contents,
\* a new one gets its name.
Opened(path) ==
  LET e == Resolve(path) IN
  IF e.kind = "file" THEN e.ino ELSE CHOOSE n \in Inodes : n \notin InUse
Truncate(path) ==
  /\ Resolve(path).kind # "file" => Inodes \ InUse # {}
  /\ entry' = IF Resolve(path).kind = "file" THEN entry
              ELSE [entry EXCEPT ![Target(path)] = File(Opened(path))]
  /\ Contents([content EXCEPT ![Opened(path)] = {}])

Text == <<"text", "", "">>

Init ==
  /\ program \in [Procs -> {"link", "list", "write"}]
  /\ proc = [p \in Procs |-> At(IF program[p] = "write" THEN "file" ELSE "dir")]
  /\ \E soft \in {Absent, LinkTo(<<".", "b">>)} :
       entry = [q \in Paths |-> CASE q = <<".", "a">> -> File(1)
                                  [] q = <<"d", "b">> -> File(2)
                                  [] q = <<".", "d">> -> Directory
                                  [] q = Temp -> File(3)
                                  [] q = SoftLink -> soft
                                  [] OTHER -> Absent]
  /\ content = [n \in Inodes |-> IF n \in InUse THEN {Text} ELSE {}]
  /\ links = {}

-----------------------------------------------------------------------------
(* The prompts, where an answer is any that is accepted in the end: a wrong *)
(* answer, or a line that is too long, is asked again.                      *)

Ready(p, where) == ~ proc[p].eof /\ proc[p].at = where

\* access(F_OK) takes a file for a directory as well.
InputDir(p) ==
  /\ Ready(p, "dir")
  /\ \E d \in GivenDirectories :
       proc' = [proc EXCEPT ![p].dir = d,
                            ![p].at = IF program[p] = "link" THEN "name" ELSE "shell"]
  /\ UNCHANGED <<program, disk, links>>

\* is_validfile_name refuses what is not in Names.  At the end of the input the
\* name of the search before is taken again.
InputName(p) ==
  /\ proc[p].at = "name"
  /\ \E n \in IF proc[p].eof THEN {proc[p].name} \ {""} ELSE Given :
       proc' = [proc EXCEPT ![p].name = n, ![p].at = "shell"]
  /\ UNCHANGED <<program, disk, links>>

\* Mutated CheckFileExist: check_empty_dir alone.
AnyName(path) == path \in Paths

\* fopen for reading, which a directory permits as well.
CheckFileExist(path) == Resolve(path).kind # "absent"

InputFile(p) ==
  /\ Ready(p, "file")
  /\ \E path \in {q \in {".", "d"} \X Given : CheckFileExist(q)} :
       LET e == Resolve(path) IN
       proc' = [proc EXCEPT ![p].dir = path[1], ![p].name = path[2], ![p].at = "text",
                            ![p].chosen = IF e.kind = "file" THEN e.ino ELSE 0]
  /\ UNCHANGED <<program, disk, links>>

\* The text may be longer than its buffer: behind that lies the file's name,
\* which becomes the end of the text, here "b".  The end of the input leaves the
\* text empty.
InputText(p) ==
  /\ proc[p].at = "text"
  /\ \/ proc' = [proc EXCEPT ![p].at = "fopen"]
     \/ ~ proc[p].eof /\ proc' = [proc EXCEPT ![p].at = "fopen", ![p].dir = ".",
                                              ![p].name = "b", ![p].chosen = Any]
  /\ UNCHANGED <<program, disk, links>>

\* The end of a process, which loses its memory and closes its files.
Exit(p) == proc' = [proc EXCEPT ![p] = At("ended")]

\* Mutated GiveUp: "e" at the prompt for a name brings the last name back.
GiveUpEarly(p) ==
  /\ Ready(p, "dir") \/ Ready(p, "file")
  /\ Exit(p)
  /\ UNCHANGED <<program, disk, links>>

\* "e"
GiveUp(p) ==
  /\ Ready(p, "dir") \/ Ready(p, "name") \/ Ready(p, "file")
  /\ Exit(p)
  /\ UNCHANGED <<program, disk, links>>

\* From here on fgets returns NULL, which nobody looks at; a refused answer, if
\* it was the last one, has taken the place of the name.
EndOfInput(p) ==
  /\ ~ proc[p].eof /\ proc[p].at \in {"dir", "name", "file", "text"}
  /\ \E n \in {proc[p].name} \cup (IF proc[p].at = "name" THEN {""} ELSE {}) :
       proc' = [proc EXCEPT ![p].eof = TRUE, ![p].name = n]
  /\ UNCHANGED <<program, disk, links>>

\* A prompt asks for ever once the input has ended, unless there is a name.
Spin(p) ==
  /\ proc[p].eof
  /\ proc[p].at \in {"dir", "file"} \/ (proc[p].at = "name" /\ proc[p].name = "")
  /\ UNCHANGED vars

-----------------------------------------------------------------------------
(* search_file_in_dir and list_file_in_dir *)

Total == <<"long", "total", "">>
Short(n) == <<"short", n, "">>

\* convert_file_type of the first character of an "ls -l" line.
ConvertFileType(e) == CASE e.kind = "dir" -> "directory"
                        [] e.kind = "link" -> "symbolic file"
                        [] OTHER -> "regular file"

\* The last word of an "ls -l" line is the name, or a symbolic link's target.
Long(n, e) == <<"long", IF e.kind = "link" THEN e.to[2] ELSE n, ConvertFileType(e)>>

\* What ls prints for a directory or for a file; a name with a space in it is
\* two names to the shell, neither of which exists.
NamesIn(d) == {n \in Names : Lookup(<<d, n>>).kind # "absent"}
Ls(p) == LET d == proc[p].dir IN
  IF program[p] = "link"
  THEN IF d = "a" THEN {Short("a")} ELSE {Short(n) : n \in NamesIn(d)}
  ELSE CASE d \in {".", "d"} -> {Total} \cup {Long(n, Lookup(<<d, n>>)) : n \in NamesIn(d)}
         [] d = "a" -> {Long("a", entry[<<".", "a">>])}
         [] OTHER -> {}

\* The others have been disturbed by a step of p (history).
Disturbing(p, f, others) == [q \in Procs |->
  IF q # p /\ q \in others THEN [f[q] EXCEPT !.disturbed = TRUE] ELSE f[q]]

Between(places) == {q \in Procs : proc[q].at \in places}

\* Whose listing is, or should be, in file n.
ListingIn(n) == {q \in Between({"ls", "read"}) : proc[q].fd = n}
                  \cup {q \in Between({"open"}) : Resolve(Temp) = File(n)}

\* system: the shell opens temp.txt before it starts ls.
RunShell(p) ==
  /\ proc[p].at = "shell"
  /\ proc' = Disturbing(p, [proc EXCEPT ![p].at = "ls", ![p].fd = Opened(Temp),
                                        ![p].disturbed = FALSE], Between({"ls", "open", "read"}))
  /\ Truncate(Temp)
  /\ UNCHANGED <<program, links>>

\* A writer starts at the beginning of its file: what another one has written
\* into it meanwhile remains as far as it is longer.
Written(n, lines) == IF lines = {} THEN {content[n]}
                     ELSE {lines, lines \cup (content[n] \ {Total})}

RunLs(p) ==
  /\ proc[p].at = "ls"
  /\ proc' = Disturbing(p, [proc EXCEPT ![p].at = "open", ![p].fd = 0,
                                        ![p].seen = Ls(p)], Between({"ls", "open", "read"}))
  /\ UNCHANGED <<program, entry, links>>
  /\ \E w \in Written(proc[p].fd, Ls(p)) :
       Contents([content EXCEPT ![proc[p].fd] = w])

\* fopen for reading: nothing is found, or printed, when temp.txt is gone.
OpenTemp(p) ==
  LET e == Resolve(Temp) IN
  /\ proc[p].at = "open"
  /\ proc' = IF e.kind = "file"
             THEN [proc EXCEPT ![p].at = "read", ![p].fd = e.ino]
             ELSE [proc EXCEPT ![p].at = "rm", ![p].found = FALSE]
  /\ UNCHANGED <<program, disk, links>>

\* A line is the name.
IsNameInDir(p) == Short(proc[p].name) \in content[proc[p].fd]

\* Mutated ExtractFileInfo: the first line is not skipped.
ExtractAll(p) == {content[proc[p].fd]}

\* The last word and the type of each line but the first, which should be "total".
ExtractFileInfo(p) ==
  LET lines == content[proc[p].fd] IN
  IF lines = {} THEN {{}}
  ELSE {lines \ {l} : l \in IF Total \in lines THEN {Total} ELSE lines}

ReadTemp(p) ==
  /\ proc[p].at = "read"
  /\ proc' = [proc EXCEPT ![p].at = "rm", ![p].fd = 0,
                          ![p].found = program[p] = "link" /\ IsNameInDir(p)]
  /\ UNCHANGED <<program, entry, links>>
  /\ Contents(content)

\* rm -rf temp.txt; a name that was not found is asked again.
RemoveTemp(p) ==
  /\ proc[p].at = "rm"
  /\ LET where == IF proc[p].found THEN "hard" ELSE "name" IN
     proc' = Disturbing(p, IF program[p] = "list" THEN [proc EXCEPT ![p] = At("ended")]
                           ELSE [proc EXCEPT ![p].at = where, ![p].seen = {}],
                        Between({"ls", "open"}))
  /\ entry' = [entry EXCEPT ![Temp] = Absent]
  /\ Contents(content)
  /\ UNCHANGED <<program, links>>

-----------------------------------------------------------------------------
(* create_hard_link and create_soft_link *)

CheckHardLink(p) ==
  /\ proc[p].at = "hard"
  /\ proc' = [proc EXCEPT ![p].at = IF CheckFileExist(HardLink) THEN "soft" ELSE "link"]
  /\ UNCHANGED <<program, disk, links>>

\* A link at path l that is a name for what e is; link and symlink do not follow
\* a link at l, do not replace it, and may fail for other reasons.
Make(p, l, e) ==
  \/ /\ entry[l].kind = "absent" /\ e.kind \in {"file", "link"}
     /\ entry' = [entry EXCEPT ![l] = e]
     /\ links' = links \cup {[link |-> l, path |-> Path(p), own |-> ~ proc[p].disturbed]}
     /\ UNCHANGED <<program, content>>
  \/ UNCHANGED <<program, disk, links>>

\* Mutated Link: an existing name is removed first.
LinkReplacing(p) ==
  /\ proc[p].at = "link" /\ proc' = [proc EXCEPT ![p].at = "soft"]
  /\ entry' = [entry EXCEPT ![HardLink] = Lookup(Path(p))]
  /\ UNCHANGED <<program, content, links>>

\* A symbolic link is not followed: it gets a second name.
Link(p) == /\ proc[p].at = "link" /\ proc' = [proc EXCEPT ![p].at = "soft"]
           /\ Make(p, HardLink, Lookup(Path(p)))

CheckSoftLink(p) ==
  /\ proc[p].at = "soft"
  /\ IF CheckFileExist(SoftLink) THEN Exit(p)
     ELSE proc' = [proc EXCEPT ![p].at = "symlink"]
  /\ UNCHANGED <<program, disk, links>>

\* Mutated Symlink: the target is the name without the directory.
SymlinkByName(p) == /\ proc[p].at = "symlink" /\ Exit(p)
                    /\ Make(p, SoftLink, LinkTo(<<".", proc[p].name>>))

\* Nothing looks at the target.
Symlink(p) == /\ proc[p].at = "symlink" /\ Exit(p)
              /\ Make(p, SoftLink, LinkTo(Path(p)))

-----------------------------------------------------------------------------
(* write_to_file *)

CanOpen(path) == LET e == Resolve(path) IN
  e.kind = "file" \/ (e.kind = "absent" /\ Target(path) \in Paths)

OpenForWrite(p) ==
  /\ proc[p].at = "fopen" /\ CanOpen(Path(p))
  /\ proc' = Disturbing(p, [proc EXCEPT ![p].at = "fclose", ![p].fd = Opened(Path(p))],
                        ListingIn(Opened(Path(p))))
  /\ Truncate(Path(p))
  /\ UNCHANGED <<program, links>>

\* fprintf to the null pointer: a directory, or a file that is not writable.
OpenFails(p) == /\ proc[p].at = "fopen" /\ Exit(p)
                /\ UNCHANGED <<program, disk, links>>

WriteText(p) ==
  /\ proc[p].at = "fclose"
  /\ proc' = Disturbing(p, [proc EXCEPT ![p] = At("ended")], ListingIn(proc[p].fd))
  /\ UNCHANGED <<program, entry, links>>
  /\ \E w \in Written(proc[p].fd, {Text}) :
       Contents([content EXCEPT ![proc[p].fd] = w])

-----------------------------------------------------------------------------
\* Ctrl-C, also to the shell that the program has started.
Kill(p) == /\ proc[p].at # "ended" /\ Exit(p)
           /\ UNCHANGED <<program, entry, links>> /\ Contents(content)

Step(p) == \/ RunShell(p) \/ RunLs(p) \/ OpenTemp(p) \/ ReadTemp(p) \/ RemoveTemp(p)
           \/ CheckHardLink(p) \/ Link(p) \/ CheckSoftLink(p) \/ Symlink(p)
           \/ OpenForWrite(p) \/ OpenFails(p) \/ WriteText(p)
Answer(p) == InputDir(p) \/ InputName(p) \/ InputFile(p) \/ InputText(p)

Ended == (\A p \in Procs : proc[p].at = "ended") /\ UNCHANGED vars

Next == \/ \E p \in Procs : \/ Step(p) \/ Answer(p) \/ GiveUp(p) \/ EndOfInput(p)
                            \/ Kill(p) \/ Spin(p)
        \/ Ended

Spec == Init /\ [][Next]_vars

\* Programs run, users answer, and one who is asked again and again gives up.
FairSpec == /\ Spec
            /\ \A p \in Procs : WF_vars(Step(p)) /\ WF_vars(Answer(p)) /\ SF_vars(GiveUp(p))

-----------------------------------------------------------------------------
(* Properties *)

\* A program that nobody disturbs reads what its own ls has listed: the name is
\* found if and only if it is there, and a directory is printed whole.
OwnListing == \A p \in Procs : proc[p].at = "read" /\ ~ proc[p].disturbed =>
  IF program[p] = "link" THEN IsNameInDir(p) = (Short(proc[p].name) \in proc[p].seen)
  ELSE Total \in proc[p].seen => ExtractFileInfo(p) = {proc[p].seen \ {Total}}

\* Though the check and the link after it are two calls, with other programs
\* between them, no program removes or replaces a name other than temp.txt.
NamesKept == [][\A q \in Paths \ {Temp} :
                  entry[q].kind # "absent" => entry'[q] = entry[q]]_vars

\* The links that were made lead to the file that was named, if it was not
\* temp.txt; the soft link leads nowhere only when the name was found in somebody
\* else's listing, or when a file was given as the directory.
LinksMeet == \A l \in {l \in links : l.path[2] # "temp.txt"} :
  IF l.link = HardLink THEN entry[HardLink] = Lookup(l.path)
  ELSE /\ entry[SoftLink] = LinkTo(l.path)
       /\ l.own /\ l.path[1] # "a" => Lookup(l.path).kind # "absent"

\* Between the check of the file and its opening the user types the text: still
\* the file that was checked is written, unless it is temp.txt, or the text is
\* longer than its buffer.
WritesChecked == \A p \in Procs :
  proc[p].at = "fclose" /\ proc[p].chosen # Any =>
    proc[p].fd = proc[p].chosen \/ Target(Path(p)) = Temp

\* Every program ends, whatever the others do to temp.txt, if its input does not.
Ends == \A p \in Procs : <>(proc[p].at = "ended" \/ proc[p].eof)
=============================================================================
