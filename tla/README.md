# A verification of the Linux system programming exercises

The repository is a collection of small C programs written to learn Linux system
programming: threads, processes, signals, sockets, memory, files, and two network
speed tests (`src/Mini_project`, `src/Mini_project_libcurl`) that put the pieces
together.  The programs do not talk to each other; each is a system of its own, with
its own actors, so each is modelled by a module of its own.

This directory holds the TLA+ modules, the TLC configurations, the proofs that TLAPS
checks, and `PROJECT.json`, which says for every definition which lines of the source it
stands for.

- Check a model: `tlc -config MutexCounter.cfg MCMutexCounter`
- Check the proofs: `tlapm MutexCounterProofs.tla`

Contents: 1. inventory; 2. modules; 3. runs; 4. fairness; 5. assumptions and bounds;
6. what the code does otherwise than it says; 7. proofs; 8. only model-checked;
9. not modelled; 10. plan.

## 1. Inventory

### The modelled programs

**Mutex_synchronize_thread** (`src/IPC_Synchronization`).  State: `shared_resource`, one
`pthread_mutex_t`, the handles in main.  main initialises the mutex, creates
`NUM_THREADS` threads, joins them, destroys the mutex.  A thread locks, increments, prints
and unlocks five times.  Interaction: shared memory and the mutex.  Hard: the increment is
a load and a store, the value printed is read again, `pthread_create` may fail and its
result is not looked at.  Correct when no increment is lost, the lines read 1, 2, 3, ...,
and nobody uses the mutex after it is destroyed.

**Semaphore_synchronize_thread** (`src/IPC_Synchronization`).  State: `common_variable`, two
semaphores, two output files.  Three threads ten times pick one of the files, wait for its
semaphore, increment the one variable, print it and append it to the file.  Interaction: shared memory
under a semaphore that the users of the other file do not hold.  Hard: the increment is a load and a
store, the variable is read again for the line; the wait and the post are in two cases of a `switch`.
Correct when the lines of a file are consecutive as long as only that file is used, and every thread
ends.

**Signal_synchronize_processes** (`src/IPC_Synchronization`).  State: `output.txt`, whose
last line number is read and written by both processes, and each process' position.
Process A forks B; they take turns, each one sleeping, reading, writing, sending `SIGUSR1`
to the other and pausing.  Interaction: signals and the file; a later execution goes on over
the same file.  Hard: a signal that comes before `pause()`, or before `signal()`; Ctrl-C in
the middle of a turn; A killed alone; `fopen` failing.  Correct when the file is numbered
consecutively by alternating writers and the two go on for as long as nothing goes wrong.

**Socket** and **Presentation_code/Concurrent_TCP_echo_***.  A server accepts a connection,
starts a thread that reads and answers, and closes; a client types, writes, waits for an
answer.  State: main's `connfd`, the descriptor table, each thread's `connfd` and buffer,
each client's position, the bytes under way.  Interaction: TCP between client and thread,
one shared variable between main and the new thread.  Hard: the hand-over of `connfd`,
descriptors that are reused, messages split by TCP, clients that are killed, resets and
`SIGPIPE`, calls that fail.  Correct when every thread serves its own client, answers match
messages, no descriptor leaks, and one client does not take the others down.

**Memory_Management_in_Linux**.  `my_malloc`, `my_free`, `my_realloc` over a linked list of
blocks taken from `sbrk`.  State: the list, the program break, the contents of the memory.
Hard: long sequences of calls, splits whose rest is just big enough, merging of neighbours
that are not adjacent because libc moved the break in between, the order of copy and free
in realloc.  Correct when no object and no header is overwritten, and the blocks are neither
lost nor handed out twice.

**Mini_project**, an Ookla-style speed test over plain sockets.  `main.c` reads the options.
`speed_test.c: run` fetches the configuration and the server list into files
(*file download*: `get_http_file`, `get_https_file`), keeps the nearest servers and probes
their latency, which fetches a file from each (*server table*), picks one, and measures a download
and an upload (*measuring engine*: up to `-t` threads in the slots of `thread[]`, one statistics
thread per phase).  State: the options, the files under `/tmp`, `nearest_servers`, `thread[]`,
`total_dl_size`, `total_ul_size`, `thread_all_stop`.  Interaction: the parts hand each other files and
the table; the engine's threads share slots, totals and the flag.  Hard: nothing is joined, the
flag is cleared for the upload while download workers still run, `recv` after a `select`
that timed out, chunks of any size, an answer file of an earlier server or execution.

**Mini_project_libcurl**, the same with libcurl.  `main.c` reads the options; `servers.c` parses an
answer of the server API into `servers[]`, filters it by protocol, measures latencies and sorts;
`speed_test.c` runs upload and download threads against one server after the other.  State: the
options, `servers[]`, `server_num`, the `thread_data` array and a mutex on the stack of the measuring
function.  Hard: the last entry of the array in the parser, the filter and the deletion, and the
`server_num` that results; threads that must not outlive the frame; a pair of tests of which one fails.

**Linux_File_System_and_system_calls**: `Create_hard_link_and_soft_link`, `Print_file_name`,
`Write_string_to_file`.  Each asks for a directory, a name or a file until the answer is accepted.  The
first two let a shell write `ls` into `temp.txt` in the working directory, read it and remove it; the
first then makes the two links unless they are there, the third opens the file it has checked and writes
a text.  State: the file system, the input, a process' position.  Interaction: none is intended, but all
of them use one `temp.txt`, the same names, and run in the same directory.  Hard: a check and the call
after it; a listing that another process truncates, overwrites or removes; links that are followed; the
end of the input; a text longer than its buffer.  Correct when undisturbed programs read their own
listing, links lead to what was named, nothing is replaced, and every program can be ended.

**Matrix_multi_thread** (`src/Processes_and_Threads`).  A product computed by one thread
and again by any number of threads with a range of rows each.  State: the ranges, the
threads' indices, the result.  Hard: rows that do not divide, more threads than rows,
threads that could not be created.

### The other programs

| Part | What it is | Why it is not modelled (yet) |
| --- | --- | --- |
| Matrix_multi_thread: input | the entry of matrices | the matrices are arbitrary in the model |
| Presentation_code: UDP echo, pipes, shared memory, file locks | two processes each | in the plan |
| Presentation_code: memory calls, `test.c`, `speed_test.c` | one call each, and a draft of the speed test | no state between the calls |
| Login_daemon | a daemon that systemd restarts | in the plan |
| Signals_and_Timers | one signal call per program | the interplay of signals is in SignalSync |
| Shell_Script_Programming | shell exercises | no state between commands |

`PROJECT.json` lists under `hazards`, at its line, each thing that is hard to test here,
with the properties that cover it.

## 2. Modules

Each program has a module `X` (the model and its properties), a module `MCX` (values for
TLC) and, where there are proofs, a module `XProofs` (`SpeedTestProofs` and
`StreamAndHeapProofs` hold those of two programs each).  The two speed tests consist of parts:
`HttpFile` and `ServerTable` are instantiated by `SpeedTestMain`, `LibcurlServers` and
`LibcurlSpeedTest` by `LibcurlMain`, and it is these programs that are checked, from `main` on.
(`SpeedTestEngine` stays apart: it starts from any server, and its threads would multiply the states
of the rest.)  `SerialCounter`, `Numbering`, `EchoService` and `Measurement` are
abstract specifications, which MutexCounter, SignalSync, EchoServer and SpeedTestEngine implement.  A definition named `<Name>...` that is preceded by a comment
"Mutated <Name>" is a plausible bug of that definition; it is used nowhere in the model and
serves to show that the properties notice it.

**MutexCounter** — `main` and `next` are main and its loop index, `pc` and `i` each thread
and its `i`, `reg` the register of `shared_resource++`.  `Create`, `Join`, `DestroyMutex`
are main's calls, `Lock`, `Load`, `Store`, `Report`, `Unlock`, `Exit` the lines of
`thread_function`.  A thread that could not be created leaves a zero handle on which `Join`
crashes.  **SerialCounter** is what the program promises: a log whose k-th entry has value k.

**SemaphoreFiles** — `main` and `next` are main, `pc`, `i`, `file`, `reg`, `arg` each thread.  `PickFile`
is `rand`, `SemWait`, `Load`, `Store`, `ReadAgain` (the argument of `write_to_file`), `WriteToFile`,
`SemPost` the lines of `thread_function`; `WriteFaults` is `fprintf` after a failed `fopen`, and a failed
`pthread_create` ends the process in `Create`.

**SignalSync** — `pc[r][p]` is where process `p` of execution `r` is; `last` and `writer` are
the file.  `CreateFile`, `Fork`, `Register` lead to the loop of `Sleep`, `Read`, `Write`,
`Kill`, `EnterPause`; the signal's effect on its receiver (`AfterSignal`) is part of `Kill`.
`Start`, `Stop` and `KillA` are the user.  `faults` is chosen at the start from all subsets
of {A may be killed alone, files may fail to open, `sleep(1)` may be too short}.
**Numbering** is the promise about `output.txt`, across executions.

**EchoServer** — one module for both servers: `presentation` selects the one that exits on a
failed call and sends back what it reads; the other one goes on and reverses.  `split`
selects a network that delivers any part of what was written.  `Accept`, `AcceptFails`,
`CreateThread`, `CreateFails` are main, `Begin` (the read of `connfd` through the
argument), `Read`, `ReadEnds`, `Write`, `WriteKills`, `Close` a thread, and `Connect`,
`WriteMessage`, `Receive`, `Leave` a client.  `table` maps a descriptor to the client behind
it, so that reuse is visible.  A message has any number of bytes of `Lengths`, also none: client.c ignores
`fgets`'s result (line 71), and with no line before, it writes nothing and waits.  The presentation's
client differs in `Receive`: after a connection that was closed it may go on typing.  `mine`, `asked`,
`replies` are history, and so is `overtaken`: main has called `accept` again before a thread it had
created has read `connfd` (`Overtakes`).
**EchoService** is what a server promises: to each client, all that it has asked for is due, and it is
given that in order and once, whatever the others do; there is no thread, descriptor or network in it.  Once `broken`, which is
`overtaken` here, it promises nothing.
`DueTo` and `GivenTo` map the states: byte by byte for the presentation's server (a stream may
be cut anywhere), message by message, each reversed, for server.c unsplit.  For server.c on a
network that splits, which reverses whatever pieces it reads, nothing is promised.

**SpeedTestEngine** — the main thread (`StartStats`, `ReadClock`, `WriteRequest`, `FillSlot`,
`EndOfRound`, `StopAllThread`) runs the two phases; `Spawn` fills a free slot; a worker
connects, sends its request, and receives or sends chunks, each of which it adds to the
total between `LockTotal` and `AddToTotal`; `CheckStop` looks at the flag and `Close` gives
the slot back.  `PrintSpeed` and `PollStop` are the statistics threads.  `Tick` is half a
second.  `WriteRequest` marks the slot's texts as "mixed" until `FillSlot`, because a worker
may read them while they are copied.
**Measurement** is what the engine promises: a download, then an upload; an agent takes a free lane for the
measurement that goes on and keeps both to its end, and what it transfers is added to that
measurement's volume one chunk at a time.  The lanes are the slots, the job of a live worker is its
slot and its phase (`Job`), the volumes are the two totals.

**HttpFile** — `get_http_file` and, with `tls`, `get_https_file`: the response is the bytes
1 .. Total, `content` says where its body has blank lines and NULs, `Select` and `Receive` are the
loop, `StoreChunk` what is done with a chunk: it is written only when `select` had said there was one.
`strstr` is applied to every chunk, also to those of the body (`BlankLines`), and it and `strlen` see
a chunk up to its first NUL (`Seen`): what is written is what lies between the two, and the whole
chunk when no blank line is seen.  `Stored` has one more outcome for a full buffer, which has no
terminating NUL.  `odd` records why the file need not be the body: "cut", "late", "full", "split",
"blank", "nul".  `fetch` in SpeedTestMain says for whom it runs.

**ServerTable** — `run` up to the measurement: `NearestServer` inserts a line of the list
into the table, `Probe` is one turn of `get_best_server` (fetch, open, `fgets`, compare,
unlink; `AfterFetch` is what comes after the fetch), `Sort` its qsort (any order `compare_latency` allows), `SelectBest`, `Choose`,
`CheckAccepts` and `CheckRefuses` the choice.

**SpeedTestMain** — `Manual`, `Protocol`, `ThreadNumOption`, `Usage`, `BadOption`, `EndOfOptions` are `main`'s
loop over the options.  (The formulas `MainInit`, `MainNext`, `MainSpec` and the constant `NearestNum`,
ServerTable's `Slots`, have names of their own, because the proofs extend SpeedTestEngine as well.)  `StartFetch`, `FetchStep`, `EndFetch` run HttpFile for the two files of
`run`; `SkipFile` is the lookup that fails and stops nothing.  Then ServerTable runs, and the fetch
inside its first probe is HttpFile again, byte by byte (`StartProbe`, `FetchStep`, `EndProbe`): what
HttpFile leaves in `latency.txt`, whole or cut, is what ServerTable reads (`LatencyFiles`).  The
probes of the other servers are ServerTable's own `Probe`, by their results.

**LibcurlServers** — `ParseToken`, `FilterEntry` with `DeleteServerByIndex`, `EndFilter`,
`FormatUrl` (crashes on an empty entry, as strcpy from null does), `MeasureLatency`, and the
bubble sort one comparison at a time.

**LibcurlSpeedTest** — `StartUpload`, `StartDownload`, `TestFails`, `Finish` are
`run_speed_test`; `Create`, `Join` and their ends are the two loops of a test; `Perform`,
`Lock`, `Store`, `Unlock` a thread.  `NaN` is the result of 0.0 / 0.

**LibcurlMain** — `Option` is a turn of `main`'s loop over the options, in any order and number;
`GetServers` are LibcurlServers' steps, `Measure` hands its result over (`server_num` is the parser's
`i`), `RunTest` are LibcurlSpeedTest's.

**FilePrograms** — `proc[p]` is a process, `entry` the directories (a path leads to a file, a
directory or another path), `content` the set of lines of each file.  `InputDir`, `InputName`, `InputFile`,
`InputText`, `GiveUp` are the prompts, `EndOfInput` and `Spin` what happens when `fgets` returns NULL;
`RunShell` (which opens `temp.txt`) and `RunLs` are the child of `system`; `OpenTemp`, `ReadTemp`,
`RemoveTemp` the search; `CheckHardLink`, `Link`, `CheckSoftLink`, `Symlink`, and `OpenForWrite`,
`WriteText` the rest of the programs.  `Kill` is Ctrl-C.  `seen`, `disturbed`, `chosen`, `links` are history.

**Allocator** — `Malloc`, `FreeBlock`, `ReallocInPlace`, `ReallocMove` over a list of blocks;
every cell of the memory holds the name of whoever wrote it last.  `MergePass` is my_free's
one pass over the list.  libc is another user of `sbrk`, present or not (`libcSbrk`): `LibcGrows` takes
memory (`libcCells`) and `LibcWrites` writes it again at any time, whoever has it by then.  `bridged` is
history: my_free has merged two blocks with libc's memory between them (`Over`).  A caller's operation needs
headers that libc has not written over (`HeadersWhole`); what the walk along the list does with such a
header is undefined.

**MatrixThreads** — `Create` hands out the next range (`NextRange`), `AddTerm` and `StoreCell`
are the loops of `multiply`, one term at a time, `Join` waits; a thread that is not created
leaves an uninitialised handle.  `Single` is the product by one thread, by the memory it
may overrun.

## 3. Runs

Deadlock is checked in every run: where a program may really stop, the model has an explicit
step that says so (`Ended`, `Over`, `Idle`, `Exited`), so that a state in which
everybody waits is an error.  In MutexCounter, MatrixThreads and the automatic
mode of LibcurlMain all behaviours are finite, and "nothing waits for ever" is all there
is to say about liveness; no separate property states it.

| Run | Instance | What it shows |
| --- | --- | --- |
| `mutex_counter` | 3 threads, 2 turns | `FinalTotal`: when main returns every increment is there; `SerialSpec`: the program implements SerialCounter |
| `speed_test_engine` | 2 slots, 3 threads, 2 chunks, ticks 1 and 2 | `MeterSpec`: the engine implements Measurement, so a slot has one worker at a time and a download worker left over in the upload adds to the download's total; `SlotOwned`: a slot is not lost before threads run out; `TotalsExact`: no addition is lost; `RequestOfPhase`: workers ask for their own phase's thing, except a download worker left over in the upload; `StatsSerial`: the two statistics threads do not overlap; `OvershootBounded`: a worker counts at most one chunk (upload: two) after the flag |
| `semaphore_files` | 3 threads, 2 turns | `OneFileConsecutive`: increments are lost between the files only; `Termination`: the process ends |
| `signal_sync` | 2 executions, numbers modulo 4, every set of faults | `TurnExclusive` and `OrphanBound` under all faults, `Numbered` (implements Numbering) as long as files open and A is not killed alone, `Progress` when nothing goes wrong |
| `signal_wakeup` | 1 execution | violation: a signal that comes too early is lost |
| `echo_server` | 2 clients, 2 descriptors, 2 messages of 0 or 2 bytes, 1 failing call; server.c unsplit, the presentation's server split | Each until main overtakes a thread (`overtaken`): `OwnClient`, `NoLeak` for both; `ServiceSpec`: both implement EchoService; `ServerStays` for server.c; `StreamKept` for the other; `Answered`, a client that is owed an answer hears, for both |
| `echo_race` | 2 clients, 1 message | violation of `ServesOwn`: main overtakes a thread, and two threads serve one client |
| `speed_test_main` | header 3 (blank line 2), body 3, buffer 4; four bodies: plain text, a blank line at its end, a NUL at its beginning, and both; table of 3, lists of up to 4, distances 0, 1, latencies 1, 2; lists of 1 probed byte by byte | `FileIsBody`: each fetched file is the body unless one of six named things happened (connection closed early, chunk after select's timeout, full buffer, header split, blank line in a chunk of the body, NUL behind a blank line); `Returns`: a fetch ends once the server closes; `NearestKept` against a reference definition; `LatencyEarned`: a latency comes from the server's own answer unless an old or an empty file was there; `AnswerCounts`: whatever the chunks, a server gets a latency exactly when the bytes it sent are the expected text; `AutoLeastLatency` |
| `libcurl_main` | `-s` up to 3, answers of up to 4 servers, up to 2 of them measured by up to 2 threads in up to 2 transfers, speeds 0, 1 | `ListServed` against a reference definition; `FrameOutlivesThreads`; `UploadExact`; `FastestWorking`: the list is sorted, the result is that of the first server that works, so of those the fastest, and it has the protocol asked for |
| `allocator` | 3 objects of up to 3 cells, headers of 2, 11 cells | `BlocksOwned` with and without libc; `Intact`: until my_free merges over libc's memory, objects, headers and libc's memory are written by nobody else, and after it libc is the only intruder; `Tiled` without libc |
| `matrix_threads` | 5 x 2 times 2 x 3, 3 threads | `RangesDisjoint`, `ProductCorrect` |
| `file_programs` | any 2 of the 3 programs, names b and temp.txt, directories ., d and the file a as a directory | `OwnListing`: an undisturbed program reads its own listing; `NamesKept`: no name but temp.txt is removed or replaced; `LinksMeet`: the links lead to what was named; `WritesChecked`: the file that was checked is the one written; `Ends` |

The type invariants `TypeOK` of the five modules that have one are proved for all constants and
not checked again by TLC.

Why these bounds are enough for the interesting cases:
- *mutex_counter*: three threads let one hold the mutex, one wait, and one be at either end;
  two turns let a thread come back.
- *speed_test_engine*: three threads for two slots let a slot be given to a second worker and
  let creation fail after it; two chunks separate the first (header) from the last; both
  phases run, with download workers that outlive the first.
- *signal_sync*: an execution, and one after it with an orphan of the first still alive; the
  modulus is above the number of writers so that a repeated or skipped number shows.
- *echo_server*: two clients are enough for one thread to hold what belongs to the other; two
  descriptors with a failing call reuse numbers; two bytes split in all ways, and none make the empty
  message of client.c:71, after which the other message may follow.
- *semaphore_files*: the third thread can wait while two hold one semaphore each.
- *speed_test_main*: the buffer (4) is larger than the header, smaller than the response, so
  that full buffers, split headers and a chunk with header and body all occur; the four bodies put a blank
  line and a NUL before, behind and into a chunk with the header, and each of the six values of `odd` is
  needed for `FileIsBody` to hold.  The list has one more
  server than the table, with ties in distance and in latency; the probe that is made byte by byte is
  the first one of a list of one, since what the later ones start from (a file and a line of the
  buffer) is in ServerTable's initial states and choices.
- *libcurl_main*: one more server than `-s` takes, on both sides of the filter; two servers are
  enough for one to fail and for the next to be taken, two threads for one to be late.
- *file_programs*: two processes are enough for one to come between two calls of the other; `MaxInode`
  is above the files that can have a name or be open.  More processes and all names are covered by the proof.
- *allocator*: headers of two cells make a rest of one or two cells too small; three objects give a
  free block between two in use and three free in a row.  Within 11 cells my_free merges over libc's memory,
  libc overwrites a header and an object of the merged block, the object libc's memory, and realloc copies
  what libc has written.
- *matrix_threads*: five rows over three threads do not divide.  More threads than rows
  are covered by the proof.

## 4. Fairness

Fairness is stated only where a run checks a temporal property.
- *SignalSync*: every process that can take a step takes one (the scheduler); `Start`, `Stop` and
  `KillA` are the user's and have none.  `Progress` is claimed only without faults.
- *EchoServer*: main, every thread and a client that is inside `read` run when they can;
  nobody has to connect, type or leave.
- *SpeedTestMain*: the program runs when it can (`ClientStep`, `EndFetch`, `EndProbe`), and the server
  closes the connection at last (`CloseStep`).  The second is an assumption about the server: without it
  the function freezes (section 6).
- *SemaphoreFiles*: main and every thread run when they can.  No fairness of the semaphores is needed.
- *FilePrograms*: a program that can go on does, a user who is asked answers; and a user who is asked
  again and again, although other steps come in between, gives up some time (strong fairness of
  `GiveUp`).  `Ends` is claimed only for a process whose input does not end.

## 5. Assumptions

- *Steps.*  A step is a library or system call, or the smallest access to shared memory that
  matters: `shared_resource++`, `total += size` are two steps.  `printf` of one line and
  `write` to a pipe or socket are atomic.
- *Time* (SpeedTestEngine).  A tick is half a second; a thread whose sleep is over runs before the
  next tick.  `PollTicks < SettleTicks` states `usleep(500000)` < `sleep(2)`.
- *Timely hand-over.*  What two programs rely on without enforcing it is not assumed of any execution;
  the properties that need it say so.  In EchoServer main may overtake a thread at any time, and
  the properties speak of an execution until it does (`overtaken`); `ServesOwn`, in the run `echo_race`,
  does without.  In SignalSync the fault "late" (a process does not reach `pause()` within the other's
  `sleep(1)`) is one of those chosen; `Progress` needs its absence, and the run `signal_wakeup` shows why.
- *Instances.*  The constants of a part are constrained by its `Sizes`, which the composed module
  assumes: among them that one latency is the largest there is (the code takes one that failed for
  9999999999).  Clients
  and descriptors of EchoServer are finite in number.
- *Files* (FilePrograms).  A file is a set of lines; a writer's lines may replace an older text or be
  mixed with what is longer (`Written`).  A file without a name lives while it is open.
- *Undefined behaviour* is a choice: a full receive buffer (HttpFile) ends where its text ends
  or one byte later; `multiply_matrix` writing past a row, or `pthread_join` on an uninitialised
  handle, ends the process or does nothing.
- *Libraries.*  `qsort` may produce any order the comparison allows; `getaddrinfo` of an empty name
  is this machine; libc may move the break, and writes its memory when it likes.  It goes on doing so when
  an object of the caller's has been written over that memory, although its behaviour is then undefined; and the
  caller makes no more calls once libc has written over a header.  A measured latency is positive.  Which definitions stand for the kernel, TCP, the user or the server is marked
  `external` in `PROJECT.json`.
- *Bounds.*  `Turns`, `MaxRuns`, `Wrap` (line numbers), `MaxMsgs`, `Lengths`, `MaxErrors`, `Chunks`,
  `ThreadLimit`, `MaxSize`, `MaxBreak`, `MaxListed`, `MaxRequested`, `MaxTokens`, `MaxServers`,
  `MaxThreads`, `MaxRounds`, `MaxMeasured` (the servers that are measured and not only sorted), `MaxDetailed`
  (the longest list whose first probe is byte by byte), `MaxInode`; `Contents` (the bodies of HttpFile).

## 6. Where the code does not do what it says

Two disagreements are kept as runs that TLC refutes:

- **signal_wakeup** — `signal_synchronize.c:5` says the handler is there "to resume pause()
  function".  A sends `SIGUSR1` while B is between `fork` and `signal()`, or between its own
  check and `pause()`: the signal ends B or is consumed, and both pause for ever.
  (`sigprocmask` with `sigsuspend` would close the gap.)
- **echo_race** — `server.c:101` says "Create a new thread to handle the client".  The thread gets
  the address of main's `connfd`, and the next `accept` overwrites it: two threads serve the
  second client and nobody the first.

Others were met while modelling.  They are in the models as the code has them, and the properties
are worded around them; they are listed here for whoever maintains the code:

- `recv` and `SSL_read` are called also after `select` has timed out: they block until the server
  does something, and what they return is dropped (`odd` contains "late").
- The header is recognised only when the whole blank line is in one chunk ("split"); and `strstr` looks
  for it in every chunk (`speed_test_utils.c:140`, `252`), so that of a chunk of the body with a blank line
  what is before it is dropped ("blank").  Behind a blank line `strlen` ends at the first NUL (lines 143,
  255), and what follows in the chunk is dropped ("nul").
- The echo clients ignore `fgets`'s result (`client.c:71`): at the end of the input `client.c` writes the
  last line again, or, when there was none, no byte at all, and then waits for an answer that nobody
  owes it.  `Answered` speaks of clients that are owed one.
- An empty `latency.txt` leaves the previous server's line in the buffer, and a file left behind by a
  stopped execution is taken for an answer (`odd` in ServerTable).
- The prompt for a server accepts `NEAREST_SERVERS_NUM` itself, one more than the table has
  (`Choose`).
- my_free merges pairs: of three free blocks in a row the third stays apart.  And "Merge consecutive free
  blocks" (`dynamic_memory_allocation.c:79`) merges neighbours in the list, which libc's memory may lie
  between (line 85).  The merged block then covers that memory and lacks as many cells at its end:
  handed out again, it is written by libc, and libc's memory by its owner.  No such thing happens before
  the first such merge, and nothing else does after it (`Intact`).
- `multiply_matrix` gives the result the columns of the first matrix (`Single`).
- With `-p https` the libcurl program keeps up to one server more than `-s`, with http up to one less
  or more (`ListServed`); an entry without url crashes `format_url`.
- Under `-m` the libcurl download goes to server 0 whatever was chosen (`DownloadServer`), and keeps
  the speed of its last transfer only (`Added`); 0.0 / 0 is not `<= 0` and passes as a success.
- `server_num` can be -1 or 0 (`LibcurlMain`, no server of the protocol): the automatic mode then ends
  without a result, and `-m` asks for ever for a number from 0 to -1.  `-s=100` writes one entry behind
  `servers[MAX_SERVER]`.  `measure_latency` uses `TIMEOUT_THRESHOLD`, not `-ti`.
- `-p` without a value, or an argument without a name, is compared with `strcmp` although it is null
  (`BadOption`), in both speed tests.  Mini_project passes over options it does not know.
- A name that cannot be resolved does not end Mini_project: it goes on with the files of an earlier
  execution (`SkipFile`).  With `-p https` the probes are still made by http.
- `semaphore_multithread.c:58` is "Increasment common variable", but the variable is shared by the
  holders of two semaphores: increments are lost between the files.
- `str_len`, called in several programs, is defined nowhere: they do not link as they are.  It is taken
  for `strlen`.
- Linux file system: `check_file_exist` is documented to return 0 or -1 and returns 1 or 0; the listing
  "excluding subdirectories" lists them; `temp.txt` lists itself, and a `temp.txt` of the user is
  destroyed; the first line of the listing is skipped even when it is a file (a file given as the
  directory); a symbolic link is printed as its target's name, and a name with spaces by its last word;
  a text of 200 characters or more overwrites the name of the file it is for; the end of the input at a
  prompt loops for ever (`Spin`), and at the text empties the file.
- Threads that could not be created are not noticed anywhere but in the two servers.

## 7. Proofs

TLAPS proves the following for every value of the constants that satisfies the named
assumptions.  For each program the layout is the same: the parts of an inductive invariant, a lemma for
the initial states, one lemma per group of actions, their composition, and then the theorems.

**MutexCounterProofs** (any number of threads and turns).  `HolderInv`: the thread in the critical
section is the holder of the mutex.  `RegisterInv`: between load and store the register is not
stale.  `LengthInv`: the output has as many lines as `shared_resource`, or one less while a
thread is about to print.  `LoopInv`, `MainInv`: loop counters and joins agree with the control
state.  `CountInv`: `shared_resource` is the cardinality of the set of increments made, from
which `FinalTotal` follows with `AllIncrements`, the cardinality of the full grid.  Theorems: `TypeCorrect`,
`OutputIsConsecutive`, `FinalTotalCorrect`, `DestroyIsLast`, and `ImplementsSerialCounter`, the
refinement of SerialCounter (a `Report` step is an abstract step, all others stutter).

**SpeedTestProofs** holds the proofs about both programs of Mini_project.

*SpeedTestEngine* (any number of slots, threads, chunks; `PollTicks < SettleTicks`).
`SlotInv`: a live worker's slot is marked running and is nobody else's.  `MutexInv`: the worker
between load and store holds the mutex and its register is the total.  `RequestInv`: a live worker of
the current phase finds its own request in its slot.  `StatsInv`: while main sleeps, the statistics
thread has ended or its remaining sleep is shorter than main's.  `LateInv`: how much a worker
may have counted since the flag, by where it is.  `ImplementsMeasurement`, the refinement of
Measurement, follows from `SlotInv` and `MutexInv`: `FillSlot`, when it creates a worker, begins a job (its
slot is nobody else's), `AddToTotal` transfers a chunk (the register is still the total, so the total
goes up by one), `Close` finishes the job, main's change of phase advances, and every other step
leaves jobs and totals alone (`MeterMain`, `MeterWorker`).  Main goes on from the download while
workers of it are still there; what makes that harmless is that a job keeps its own measurement.

*SpeedTestMain* (any lengths of header, body, blank line and buffer; any number of servers that are kept,
any list, distances and latencies; any `MaxDetailed`).  `MainInv` is the inductive invariant.  It has
three parts.
- `FetchInv`: what recv has returned and what SSL_read still holds is at most what has arrived; the end is
  met with everything received; and as long as nothing odd has happened the file is what lies behind the
  header of what was received (`Written`).  For that, a chunk with nothing odd has the header as a whole or
  nothing of it, no blank line but the header's, and behind that no NUL (`ChunkStored`, for any `content`).  `FileIsBody` speaks of the end only.
- `TableInv`.  `NearestInv`: the urls of the table are the best of the list (`Best`), and until the sort the
  table is in order (`OrderedIn`) and what is not in it is no nearer than any entry (`FartherIn`).  The
  latter says what has fallen out; from the two together follows, by counting, that the table is the reference's
  (`TableIsBest`): an entry at k has k - 1 nearer ones, a line outside has all the table.
  `InsertOrders`, `InsertLeavesFarther`: an insertion keeps both.  `SortPermutes`: the qsort loses nothing.
  `EarnedInv`: a latency.txt that is there has been left behind.  `ChoiceInv`: after the sort adjacent order is
  order (`AdjacentSorted`), and the entries before the one that is asked have refused.
- `FrameInv`: a fetch for a probe runs only in front of that probe.

Theorems: the properties of the run `speed_test_engine` (`ImplementsMeasurement` among them),
`SlotsAreExclusive`, the part of it that speaks of the slots alone, and `TypeCorrect`; for the run `speed_test_main`
`FilesAreBodies`, `NearestAreKept`, `LatenciesAreEarned`, `LeastLatencyIsTaken` and, of each step,
`AnswersCount` (`ProbeDecides`).

**SignalSyncProofs** (any number of executions, all faults; `Numbered` for those that are `Tame`: A never killed alone, no
file operation failing).  `RunInv`: B exists once A has forked
and has no turn before A's first (`BeginInv`), and an orphan that still has a line to write has
written none (`OrphanInv`).  `TurnExclusive` is inductive together with it: a turn is passed on
only by the signal that ends it.  `NumberInv`, for executions that are `Tame`: an execution is started
when those before it have lost their A (`OrderInv`); where A and B of an execution are says who has
written the last line (`WriterInv`), so that a process between `Read` and `Write` is the only one that
may write and its number is still the one after the last (`FreshInv`).  `Numbering` follows
step by step.  Theorems: `TurnsExclude`, `OrphansAreBounded`, `NumbersAreConsecutive` (the refinement
of Numbering), `TypeCorrect`.

**SemaphoreFilesProofs** (any number of threads and turns).  `SectionTaken` and
`FileExclusive`: one thread is in the section of a file, and then its semaphore is 0.  `Alone`: as long as
nobody has used the other file, the file's lines are consecutive and `common_variable` is their number,
by how far the only user has come (`InStep`), so that its register is not stale.  `OneFileConsecutive`
alone is not inductive: it does not say what the next line will be.  Theorems: `FilesAreExclusive`, `OneFileIsConsecutive`, `TypeCorrect`.

**FileProgramsProofs** (any number of processes; any of the names and directories, in any number).
`ProcShape` and `OthersLeft`: a step moves its own process only, and of the others changes `disturbed` at
most.  `EntryShape`, `Kept`: `temp.txt` is a plain file or absent, and no step changes another name that
is taken; hence what a path leads to stays the same, unless it leads to nothing or to `temp.txt`
(`StillThere`).  `Checked`: from the check to the writing, the path of a process leads to the file it has
checked.  `Listed`: as long as nobody has disturbed it, the file of a process' listing is there, in use, and
holds what it should (empty before its `ls`, then what that listed).  `Found`: what it has found, and goes on
with, is there.  `Good`: the links.  The four properties are not inductive without them, since they speak of
the last of several steps only.  Theorems: `ListingIsOwn`, `LinksLeadToNamed`, `CheckedIsWritten`, `NamesAreKept`.

**LibcurlMainProofs** (any number of servers, tokens, threads and transfers, any speeds, any latencies
of which one is the largest, both modes).
- *The measurement.*  `FrameInv`: an active thread has been created and not yet joined, and main is in
  the one of the two loops that says so.  `HolderInv`: who stores its result holds the mutex.
  `OrderInv`: without `-m`, the servers before `index` have all failed, and the tests that run are those
  of `index`.  `UploadInv`: what a thread has measured is what it has in `speed`, and after its store
  in `avg_speed`; the total is the sum over the threads that have been joined.
- *The list.*  `UrlInv`, `ReadInv`, `FilterInv`, `FormatInv`, `LatencyInv`: what the entries hold in each
  phase.  `SortInv`: the bubble sort has the last `count` entries in their places, and at `j` the largest
  up to there.  `ServedInv`, `WholeInv`: which of the answer's servers the entries are.  While the
  filter goes down the list, it is in one of three situations: the entry at `i` is the zeroed one behind the
  last server, the last step has deleted the last entry, or nothing has been deleted at all; in each,
  what is below `i` is `Kept`: in the answer's order and with all that are wanted.  `KeptCount` turns
  that into the number that is served.
- *The program.*  Until the list is there the measurement is in a state it may start from, whatever
  the options (`WaitInv`); what the list hands over is a number of entries; and each of the part's steps in
  the program is a step of the part (`SameStep`), so that its inductive invariant carries over.

Theorems: `ThreadsStayInFrame`, `UploadsAreExact`, `ServedIsPrefix`, `FastestIsTaken`, `FirstWorkingIsTaken` for
the program, `StoresExclude` for the measurement.

**StreamAndHeapProofs** holds the proofs about two programs, which share the lemmas about sequences at its
head: EchoServer, whose state is streams of bytes, and Allocator, whose state is a list of blocks.  Nothing
of one is used for the other.

*EchoServer* (both servers, split or not; any number of clients, descriptors, messages and failing
calls, messages of any length, the empty one included).  The inductive invariant is `TypeInv /\ (OnTime => Inv)`:
its second part, on which all six theorems rest, holds until main overtakes a thread (`OnTime` is
`~ overtaken`); what happens afterwards the run `echo_race` shows.
- `TypeInv`, and `ServerInv` in five parts.  `CountInv`: each thread that is made or owed is due to a
  client that has connected or to a call that has failed, so main never lacks one.  `FreshInv`: main has not
  met a client that is new or in the backlog.  `MainInv`: what main holds in `connfd` is no thread's
  yet, and at most one thread has still to read it.  `OwnerInv`: no two descriptors lead to one client, no
  two threads have one client, and a thread's descriptor leads to its client.  `BufInv`: a thread has
  something in its buffer just when it is about to write.
- `OneWay` (nothing split): of a client's message and its answer, one is on its way or in a thread, never
  both, so that a client that has left cannot be written to twice; hence no `SIGPIPE`.
- `PairInv` (nothing split): what is on its way is the last message or its answer.
- `Stream`, for the server that sends back what it reads: what a client has received, what is on its way to
  it, what its thread holds and what is on its way from it, put together, are what it has written, however
  the network cuts it.  `NewInv`: nothing of a client that has not connected is anywhere.

- `ImplementsEchoService`: `WriteMessage` makes more due, `Receive` gives, all other steps stutter.  That what
  is given is due, in order and once, is `Stream` for the one server and `OneWay` with `PairInv` for the
  other.  It needs two more parts, because a closed connection drops bytes, after which `Stream` says nothing of
  the client: `GoneInv` (a connection that the server has closed is in no descriptor and no backlog
  again) and `Behind` (what a client has read, with what is on its way to it, is still the beginning of what
  it has written).

Theorems: `ThreadsServeTheirClient`, `NoDescriptorLeaks`, `ServerNeverDies`, `StreamsAreKept`, `ImplementsEchoService`, and
`RepliesMatch`, the part of it that server.c's clients see in a state.

*Allocator* (any header size, any objects, any bounds on sizes and on the break; libc moving the break or
not, and writing its memory at any time).  `HeapInv` and `LibcApart` are the inductive
invariant.
- `Layout`, where a caller's operation begins: the blocks of the list lie one behind the other below the
  break (`Sorted`), and their headers are the allocator's (`Headers`).  `Intact` says nothing of blocks, so it is not inductive without.
- `Owned`, the caller's side: a live object has a block in use that is large enough, no two have one, and
  each block in use has an object.  `Holds`: what an object was given is its own, apart from libc's writes
  after a merge over libc's memory (`Strays`).
- `LibcApart`: until such a merge no block reaches over libc's memory, so neither a caller's write nor
  libc's can do harm.
- `Tiles`, as long as libc leaves the break alone: `Tiled`, for any list and break.

What an operation does to a list is proved of the list alone: `CarveLayout`, `CarveUsed` (a block split at n
or taken whole), `CarveOutside` (it reaches over no memory that the list did not reach over), `AppendLayout`,
`FreeLayout` (mark and merge).  `MergePass` goes over the list once and is
defined by a recursive function, so its lemma (`Suffix`: the part of the list that it leaves behind block i is
sorted, tiled, has old headers only and exactly the old blocks in use) goes from the end of the list to its beginning, as
an induction over the set of the lengths for which it holds (`PassExists`, `PassStep`, `PassSuffix`).
`MallocKeeps`, `FreeKeeps`, `InPlaceKeeps`, `MoveKeeps`, `LibcKeeps` and `LibcWritesKeep` are then one case each
(`CallsSeeLayout`: a caller's operation begins with whole headers); in `MoveKeeps` the
new block must be apart from the old one while both are in use, for the copy to arrive.
Theorems: `MemoryIsIntact`, `BlocksTile`, `BlocksAreOwned`.

**MatrixThreadsProofs** (all matrices, all sizes, any number of threads).  `QuotaInv`: the rows left are
enough for the threads left, each taking `Rows \div NumThreads`.  `RangeInv`: the ranges handed out
follow each other and cover the rows up to `start`.  `LoopInv`: `sum` is the prefix of the inner
product, `Dot`, that the loop has reached.  `CellInv`: the cells a thread has passed hold the product.
`Dot` is a constant that satisfies the recurrence of the inner product (`DotAssumption`), so that no
recursion has to be unfolded.  Theorems: `RangesNeverMeet`, `ProductIsCorrect`, `TypeCorrect`.

## 8. Only model-checked

- Liveness (`Progress`, `Answered`, `Returns`, `Termination`, `Ends`): liveness under fairness and
  ENABLED are out of reach of the prover used here.
- What a recursive definition computes for every input: the library's induction theorems take an
  operator as a parameter, which the provers here cannot instantiate.  Where a proof needed it for one
  definition (the sums of an upload, `FlattenSeq` of a client's messages, `MergePass`), the induction is made over a
  set: the numbers for which the claim holds have no least one outside (`LeastNumber`, `Induction`,
  from the library's well-founded induction).  No module declares a RECURSIVE operator.

## 9. Left out of the modelled programs

- The texts: URLs, headers, the XML of the list, what is printed; the great-circle distance;
  the arithmetic of the speeds beyond the sign that decides over success.
- Name lookups, except where they decide what is called next; `get_best_server_https` and the other
  https twins in `speed_test_server.c`, which `run` does not call.
- In the options of the speed tests: the numbers themselves, of which only the range matters; the
  reading of floats and characters, which nothing calls.
- In the file programs: `read_from_file`, `get_current_directory`, `create_new_file_name`, the reading of
  numbers, which none of the three mains calls; directory names too long for the shell command's buffer.
- Failing calls: `fopen` of the file to fetch (`speed_test_utils.c:112`), `pthread_create` in the libcurl
  program (`speed_test.c:97`, `191`), `upload.txt` that is not there, `SIGPIPE` in the measuring engine.
- In the libcurl parser, a `!` inside a server's name, at which `strtok` splits as well.
- Alignment and the width of `size` in the allocator; a request for 0 bytes; `NULL` passed to
  my_free or my_realloc, and pointers that were not allocated; the string calls of `main.c`, of which
  line 17 writes 12 bytes into a block of 10.
- The terminating NUL that the presentation's client writes behind a full buffer.
- `sum_matrix` and the entry of matrices.
- Signals other than `SIGUSR1`, `SIGINT` and the one that kills A or a client; that Ctrl-C during `system()`
  ends the shell and not the program that waits for it.

## 10. Plan

1. **Breadth.**  `LoginDaemon` with systemd's restarts; UDP echo (a lost datagram, a client without a
   timeout); pipes; shared memory; file locks.
2. **Composition.**  SpeedTestEngine after SpeedTestMain, with the chosen server as its input.
3. **Proofs.**  Every safety property that a run checks is proved, the four refinements included.  What is left
   is to carry `ImplementsMeasurement` over to the whole program, once SpeedTestEngine is composed with
   SpeedTestMain.
