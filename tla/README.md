# Common plus: specifications and proofs

Common plus is a set of C++ utilities for Linux programs: a thread pool, a small TCP
server and client, a wrapper around fork/exec, file helpers, IPv4 types and scope
guards. The code is copied into programs; there is no build of the whole and no test
of these classes. This directory holds TLA+ models of them, the TLC configurations
that check the models on small instances, and theorems that TLAPS checks for every
instance.

Run, in this directory, `tlc -config <run's cfg> <run's module>` and `tlapm <one of the
*Proofs modules>`. `PROJECT.json` lists the runs, which lines each definition models, the
hazards, the mutants (a plausible bug per property that the run finds) and the theorems.

## 1. The system

The components share no global state. They interact by calls (TcpServer owns a
ThreadPool; Executable calls uprocess), by threads that share one object, and through
the kernel: descriptors, process ids, sockets, pipes and files, which other code of the
same process and other processes use too. That is where the difficulties are.

| Component (sources) | State | Operations | What is hard | Model |
|---|---|---|---|---|
| ThreadPool (`network/threadpool.*`) | queue, ticket count, limit, vector of threads, one mutex, one condition variable | add/remove threads, enqueue, set_queue_limit, wait, clean_queue, destructor | workers and callers of wait() sleep on the same condition variable; line 53 reads the queue after the unlock | `ThreadPool`, `TaskQueue` |
| TcpServer (`network/tcpserver.*`, `ihandler.hpp`) | m_running, m_server_fd, m_clients, server thread, a pool of handlers | start, stop, run, handle_client, close_server, destructor | unlocked flags, a connection accepted while stop() runs, descriptor numbers that are used again | `TcpServer` |
| TcpClient (`network/tcpclient.*`) | m_sockfd | connect, disconnect, send, request | late answers, parts of answers, failed connects | `TcpClient` |
| Executable (`linux/executable.*`) | m_pid per object | start, kill, join, isRunning, copy, move, destructor | pids that are used again, zombies, objects that are copied or moved | `Executable` |
| uprocess (`linux/process.*`) | none but the process table | runBackground, runForeground, isRunning, waitForProcess, getChildProcesses | background processes that hold the pipe, interrupted calls, leaked descriptors | `Executable`, `Foreground` |
| File receive (`linux/utils.*`: recvFile, os_recvFile) | the open file, SO_RCVTIMEO of the caller's socket | one call per file | partial and failed writes, silence and hang-up of the peer, several files on one connection | `FileReceiver`, `OutStream` |
| IPv4Address (`support/ip4types.*`) | m_address | five constructors, operator[], ip4addr_aton | byte order, widths, limits of a parser | `IPv4Address` |
| Whole-file helpers (`linux/utils.*`: writeStringFile, dumpToFile, readStringFile, ReadWholeFile) | none | one call each | writes that fail after the last test, `size_t` returned as `int`, a file rewritten while it is read | `WholeFile`, `OutStream` |
| ScopeGuard (`helpers/scopedguards.hpp`, `linux/utils.hpp`) | active_, the callable | construct, move, release, destroy | exactly one call over moves and throws | `ScopeGuard` (proved, no run) |
| fsutil (`linux/fsutil.*`) | none | four listings, mkdir, mkdir_p, touch, removeFile, removeDir; queries | a tree that others change between two calls of the system; wildcards turned into regular expressions; `noexcept` over code that throws | `FsUtil` |
| sockutils, the small utils (untar, getdate, PrintFDInfo), uni_ctor, buffer_p, Message, concepts and macros, project templates | none | queries, formatting, compile-time code | nothing with a state of its own | not modelled |

What makes each component correct:

- **ThreadPool**: a task accepted by enqueue is run once or its future is broken, never
  lost or doubled; tasks start in order and none starts once the destructor has begun;
  tickets to end workers never outlive the call that issued them; accepted tasks are
  served; remove_threads, wait and the destructor return.
- **TcpServer**: m_clients is the set of open connections; no handler outlives the
  server; while the server runs it closes no descriptor but its own; start, after
  whatever failed before, never assigns over a joinable thread; stop returns, unless a
  thread it waits for is caught in a call on a file that is not the server's.
- **TcpClient**: answers are returned in the order of the requests, and the answer to a
  request when nothing was on its way before it; m_sockfd never names a file of other
  code; a program that disconnects leaks nothing; a timeout ends the wait for an answer.
- **Executable**: m_pid names a child that nobody has waited for, or nothing; kill kills.
- **runForeground**: all output is collected, the child is waited for, the call returns.
- **recvFile**: each file gets its own bytes of the stream; a call that returns 0 has
  written them (it need not have: section 4).
- **IPv4Address**: an object made of a.b.c.d has these bytes in memory in that order (not
  so for two of the constructors: section 4); of the texts that consist of C's numbers
  the parser accepts the addresses, and of others it should accept none (it does).
- **Whole-file helpers**: a write that did not reach the file is reported (it need not
  be: section 4); whoever reads
  a file that is rewritten gets bytes at their own places and never an older call's byte
  behind a newer one's; an error code means an error.
- **fsutil**: a list has what an ordinary wildcard or extension asks for and only that,
  whatever comes and goes; 0 means that the thing was done; touch empties no file that
  was there when it looked.
- **ScopeGuard**: a clean-up is called once, or was released; never twice, never forgotten.

## 2. Modules

| Module | Models | Composition |
|---|---|---|
| `TaskQueue` | what the pool promises: a bounded first-in-first-out queue, each task answering one future once | abstract specification |
| `ThreadPool` | the pool, thread by thread | implements `TaskQueue` (property `QueueSpec`) |
| `TcpServer` | owner thread, server thread, handlers, descriptor table | uses `TaskQueue` as its pool by INSTANCE |
| `TcpClient` | one client, the handle_client thread of a TcpServer as its peer, descriptor table | |
| `Executable` | objects, the calling thread, process table, other processes | |
| `Foreground` | one call of runForeground, the shell and what it forks, the pipe | |
| `OutStream` | std::ofstream over a disk that may refuse a write (external) | used by `FileReceiver` and `WholeFile` |
| `FileReceiver` | recvFile and os_recvFile over one socket and its peer | EXTENDS `OutStream` |
| `WholeFile` | a writer and a reader of one whole file, unsynchronised | EXTENDS `OutStream` |
| `FsUtil` | the calls of fsutil on one directory that others change | |
| `ScopeGuard` | guard objects and their callables | |
| `IPv4Address` | conversions of addresses, ip4addr_aton | |
| `MCThreadPool`, `MCTcpServer` | symmetry sets for TLC; for the pool, restricted behaviours that keep counterexamples small | |
| `MCProcesses` | the objects of `Executable` beside a call of `Foreground`, which share nothing | EXTENDS both |
| `MCHelpers` | the four helpers without common state, one at a time: while one moves the others are where they start | EXTENDS `FileReceiver`, `WholeFile`, `IPv4Address`, `FsUtil` |
| `*Proofs` | theorems | EXTENDS the modules they are about: `ProcessProofs` Executable and Foreground, `HelperProofs` IPv4Address and ScopeGuard, each other one the module of its name |

How state and actions correspond to the code:

- **ThreadPool.** Variables have the names of the members. Every critical section of
  `queue_mutex` is one action; what follows the unlock (notify_one, the unlocked
  `tasks.empty()` of line 53, the task body) is a step of its own. A thread inside
  `condition.wait` has pc `"asleep"`; notify_one wakes any of these, workers or callers
  of wait(), and there are spurious wakeups. The read of line 53 races with every writer
  of the queue: the worker's pc `"raced"` records that the queue has been written since,
  and then the read may give either answer. add_threads, remove_threads and the
  destructor are calls of one owner thread, since `workers` is a plain vector.
- **TcpServer.** `app` is the owner's place in stop() (start() has no point where it
  could block), `run` the server thread's place in run(), `handler[c]` the place of a
  connection's handle_client. `file` is the kernel's table: what each descriptor number
  names. Other code opens and closes files, so a number that stop() closed and a handler
  closes again may be a stranger's. accept, recv and send are two steps each, the call
  and its return: what the number names when the call begins decides what the call is
  on. On a file of other code (`astray`, `lostRead`, `lostSend`) it may fail, deliver
  something, or stay for ever. m_running and m_server_fd are read and written without a
  lock, in any interleaving.
- **TcpClient.** Streams exist for the connection m_sockfd names. Every byte of a request
  is the number of the request, and every byte of an answer the number of the last
  request that the peer had read from when it answered. The peer does what
  handle_client does: one recv takes a part of a request, one, or several of them, and
  what it sends for that may be empty or be lost to a signal. `earliest`, `synced` and
  `overwritten` are history: the oldest request that an answer may still be to, whether
  anything was on its way when request() was called, and whether connect() was called
  on a set m_sockfd.
- **Executable.** `status` and `parent` are the process table: a pid is free, running or
  a zombie, and only a free one is given to a new process. kill() is several steps
  (children read, process signalled, each child signalled), between which processes
  fork, end and are reaped. `loose` is history: pids that join() gave back or that a
  failed fork left uninitialised.
- **Foreground.** `at` is the caller's place, `RunInit`, `RunNext` and `RunSpec` are the
  specification (the names leave Init, Next and Spec to Executable). `holders` are the
  holders of the pipe's write end; bytes are counted in the order they are written. read()
  and waitpid() may fail (EINTR).
- **FileReceiver.** A byte is its position in the peer's stream, and file k ends where
  `Ends[k]` says. recv takes any number of
  bytes up to what is asked for and what has come. Writes may fail or take a part.
- **IPv4Address.** A byte has `Byte` values, so that limits and overflow are a few digits
  away. `Converted` is what each of the constructors makes of a.b.c.d; the one from an
  array is the one from four bytes. One step of ip4addr_aton reads one character.
  `IsNumber`, `IsAddress` and `BytesOf` say from the whole text what C takes for a number
  and inet(3) for an address, and owe nothing to the parser: 0x needs a digit, 0 begins
  an octal number, and a number that a uint32_t cannot hold is not cut.
- **WholeFile.** A byte is the call that wrote it and its place. Opening for writing
  truncates; the write, its test (dumpToFile only) and the close are steps, between which
  the reader opens, reads blocks or reaches the end. `torn` and `failed` are history.
- **FsUtil.** A path is one directory or a name in it; every call of the system is a step,
  and others create and remove entries between any two. An open directory stream is two
  sets: the entries it must still return and those it may. The regular expression that
  wildcardToRegex builds of an ordinary pattern is matched atom by atom: after each, the
  lengths of the name that it can have reached. A pattern with a character that
  wildcardToRegex leaves to std::regex (`Special`) either cannot be made into an
  expression (`Malformed`: the call throws) or matches what `Matches` says. An extension
  is compared with the end of the whole path, case and all. `Glob` is what a wildcard
  means, stated without the expression. `was` is history: the kinds a path had during
  the call.
- **ScopeGuard.** Objects are made, moved from, released and destroyed in any order; a
  callable whose move is a copy may stay behind in the object moved from.

## 3. Runs

| Run | Instance | What it shows |
|---|---|---|
| `pool_safety` | 2 workers, 2 clients, 3 tasks, limits 0, 1, 4; symmetric; 127,287 states | TypeOK, TaskOwnership, TicketsCovered, DestroyedIsQuiet, and that the pool implements TaskQueue |
| `pool_liveness` | 2 workers, 1 client that does not call wait(), 2 tasks; 20,270 states | NoLostWakeup, TaskServed, RemoveAllReturns, DestroyReturns |
| `pool_wait_hangs` | 2 workers, 2 clients, one in wait() | **violated**: WaitReturns |
| `server` | 2 connections, 3 descriptors, a pool of one, one foreign file; 199,555 states | TypeOK, ClientsTracked, NoHandlerOutlives, NeverTerminates, ServingClosesOwn, StopReturns |
| `server_leak` | the same without foreign files, symmetric | **violated**: AllClientsClosed |
| `client` | 3 descriptors, 3 messages of up to 2 bytes, answers of 0, 1 and 3 bytes, a buffer of 2; 169,009 states | TypeOK, OwnDescriptor, NoLeakIfDisconnected, AnswersInOrder, RequestReturns |
| `processes` | 2 objects, 3 pids; beside them 3 processes of a command, a pipe of one byte, up to 2 bytes each; 330,323 states | TypeOK, PidPinned, KilledIsDead; OutputComplete, ChildWaitedFor, ForegroundReturns |
| `helpers` | files of 3, 0 and 2 bytes, a buffer of 2; data of 0, 1, 3 and 7 bytes, 2 writes, blocks of 3, an int of three bits; bytes of two bits, texts of up to 7 of 7 characters; 2 names, 7 patterns, 3 changes by others; 649,881 states | TypeOK, OwnBytes, TimedCallReturns; ReadsInOrder, ErrorsTold; AddressTypeOK, NetworkOrder, AtonReadsAddress; ListingSound, ListingComplete, ZeroMeansDone, TouchKeepsData |
| `loss_at_flush` | the same, recvFile only | **violated**: SuccessIsSaved |
| `loss_at_close` | one write of one byte | **violated**: SuccessIsWritten |
| `octets_reversed` | bytes of one bit | **violated**: OctetsInOrder |
| `aton_no_number` | bytes of two bits, texts of up to 4 of 4 characters | **violated**: AtonTakesAddresses |

The helpers have no state in common, so `helpers` explores each by itself: its states are
the sum of those of four modules, not the product. `processes` likewise.

Why the bounds are enough:

- Pool: the phenomena need a sleeper that is not woken and one that is woken instead,
  so two workers, or a worker and a waiter; three tasks fill a queue of limit 1 and
  still have one taken and one rejected. SizeMax only has to exceed the tasks.
- Server: two connections let one be in service while the other is accepted; with a pool
  of one the second waits in the pool's queue. Three descriptors hold the listening
  socket and two connections, so that accept also fails with EMFILE and numbers are used
  again at once, also by the one foreign file.
- Client: three messages give an answer left by a timeout, one left by send() and one of
  its own; an answer of three bytes needs two recv, two of one byte fit in one. A request
  of two bytes can reach the peer in two parts, two of one byte in one; an answer of no
  byte leaves a request without any. The window of two makes send() block. Three
  descriptors, one foreign.
- Executable: with two objects one can be copied from, moved from or assigned over the
  other; three pids are a process, its child, and a number given to a stranger.
- Foreground: the shell, a background process and one that this starts; each writes more
  than the pipe holds. MaxFd 3 stops the calls when two have leaked.
- Receive: a file of several recv, an empty file, and one more behind it. A chunk of one
  byte is buffered by the stream, one of two is not.
- Files: with ints of -4 to 3, the size 7 is -1, as 2^32 - 1 is in the program; 3 bytes
  are written directly and fill one block, 1 is buffered, 7 take several blocks; two
  writes after the file's first content let a reader see three versions.
- Fs: two names that differ in a point and in a capital tell an escaped point from a
  wildcard, a suffix from a pattern, and a comparison with case from one without, and let
  one entry come or go while the other stays; of the patterns one is no expression, one
  means as an expression what it does not mean as a wildcard, and one, as an extension,
  reaches over the last / of the path; three
  changes remove a directory, replace it, and change it once more during one call.
- IP: 7 characters hold four numbers with their dots, a hexadecimal number that wraps
  (five digits), and every limit (3, 15, 63, 255) is reached by one to three digits.

Deadlock is not checked where a model may stop: callers have no duty to call again, and
the bounded numbers of requests, calls and files run out.

Fairness. Each fair specification lists its conditions in `Fairness` or `FairSpec`. They say
that the operating system runs a thread that can run, that task bodies and request callbacks
return, and that a call that cannot block returns. No fairness is assumed for callers
(nobody must enqueue, stop or disconnect), for peers (they need not connect, send, read,
answer or hang up), for spurious wakeups, for the choice notify_one makes, or for failures.
Two cases differ: the timer of select and of SO_RCVTIMEO fires, and in `Foreground` the
processes of the command write what they have to write (strong fairness, since a pipe that
others fill disables a writer again and again, and the kernel wakes blocked writers in turn)
and end; the property is about the caller, not about them.

In `TcpServer` a call of accept, recv or send must return once stop() has shut its own
socket down. A call that begins later, when the number has gone to a file of other code,
need not: that file may never have anything to read, and nothing of the server can end
the call. The server thread's join in stop() then hangs. The model has this, and
StopReturns says so: it holds of the behaviours in which no thread stays for ever in such
a call (`[]<>~Astray`). No text of the repository promises that stop() returns.

## 4. What the runs found

- `pool_wait_hangs`: `network/threadpool.cpp:12` promises "facilities for waiting". The
  emptied queue is signalled by one notify_one on the condition variable that the
  workers sleep on as well, and the signal can go to an idle worker: wait() then sleeps
  with an empty queue. The same happens the other way round: enqueue's notify_one can go
  to a caller of wait(), which sleeps again, and a queued task stays while every worker
  sleeps. TaskServed therefore is checked without callers of wait() (`Waiter = {}`).
- `server_leak`: a connection that run() has accepted while stop() goes over m_clients is
  not closed by it, against `network/tcpserver.cpp:66`.
- `loss_at_flush`: recvFile returns 0 for a file that lacks bytes. `linux/utils.hpp:62-65`
  has 0 for success and -3 for an error in writing; the flush of the last chunk
  (`linux/utils.cpp:86`) comes behind the last test of the stream. What remains true is a
  theorem (*LosesOnlyTheEnd*): only that last chunk can be missing.
- `loss_at_close`: writeStringFile returns true for a file that lacks its data, against
  `linux/utils.hpp:123`: neither the write nor close() is tested. dumpToFile tests the
  write, which a small one passes in the stream's buffer, and not the close, against
  `linux/utils.hpp:200-201`; *LossIsReported* is what remains true of it.
- `octets_reversed`: `support/ip4types.h:36` and `:40` say IP=a.b.c.d of the constructors
  from four bytes and from an array; on a little-endian host they make d.c.b.a
  (`support/ip4types.cpp:43-49`, *BytesAreReversed*). Those from text and from a number
  make a.b.c.d (NetworkOrder).
- `aton_no_number`: `support/ip4types.cpp:91-92` says "Values are specified as for C", but
  the parser takes 0x without a digit (line 103), 8 and 9 in an octal number (line 109)
  and numbers of more than 32 bits, which it cuts (line 110). Of numbers that are C's and
  fit, it takes exactly the addresses (AtonReadsAddress).

Behaviour that the models contain and that no violated property stands for:

- remove_threads joins every thread of the pool, and returns only when there are tickets
  for all of them (RemoveAllReturns), although `network/threadpool.cpp:70` speaks of the
  finished ones.
- start() sets m_running before there is a socket. It stays set when socket, setsockopt,
  bind or listen fails, and when run() leaves its loop on a fatal accept error; the next
  start() then reports a running server (`network/tcpserver.cpp:18`). NeverTerminates
  holds all the same.
- runForeground leaks descriptors and returns the pid; join() leaves m_pid set, and a
  failed fork leaves it uninitialised (PidPinned says what is left).
- A handler closes its number once more after stop() has closed it, and by then it may
  name a file of other code, which is closed; run() and stop() can both close the
  listening one as well. ServingClosesOwn is about the time m_running is set, and these
  closes come after it.
- os_recvFile ignores its timeout argument (`linux/utils.cpp:136`) and counts a partial
  write as a whole one (`linux/utils.cpp:175`).
- ReadWholeFile returns a size that does not fit an int as another number, -1 included
  (ErrorsTold says up to where it can be trusted); readStringFile returns a part of a file
  that it failed to read.
- wildcardToRegex leaves + ( ) [ ] { } ^ $ | \ to std::regex: getFiles(path, pattern)
  throws for some patterns and takes other names than the wildcard means for others.
  ListingSound says what a wildcard means for the patterns without these.
- getFilesWithExtention is noexcept over a loop that throws when a directory cannot be
  read further: the program ends. getFiles(path, pattern) passes no error_code and throws
  when the directory goes away between its test and the listing. removeFile removes an
  empty directory as well. touch empties a file that others create between its two steps.
- request() returns whatever is next on the connection: an answer that an earlier call did
  not wait for, a part of one, or several at once. Only when nothing was on its way is it
  the answer to this request (AnswersInOrder); the client cannot tell.
- TcpClient::connect over a set m_sockfd leaks it; send() may block for longer than the
  timeout of request() (NoLeakIfDisconnected, RequestReturns).

## 5. What is proved

All theorems hold for every value of the constants under the named assumptions of the
modules (`ThreadAssumption`, `TaskAssumption`, `LimitAssumption`, `ConnAssumption`,
`FdAssumption`, `ClientAssumption`, `PidAssumption`, `ForegroundAssumption`,
`DirectAssumption`, `ReceiverAssumption`, `WholeFileAssumption`, `NameAssumption`,
`AddressAssumption`). These only say that kinds of values are disjoint, that descriptors
and bounds are natural numbers, that a block, a buffer and an answer are not empty, that
the files of a stream follow each other, that names and patterns are sequences of
characters, and that a byte has more than one value; the sets of workers and descriptors
are finite. Every safety property that a run checks is proved.

`ThreadPoolProofs`
- *TypeCorrect*: TypeOK, which is inductive.
- *TaskOwned*: TaskOwnership. The inductive invariant is `TaskInv`: TypeOK, TaskOwnership
  and `HeldIsBusy` (a worker holds a task exactly between its pop and the end of the
  task), needed because the steps of a worker are guarded by its pc and TaskOwnership
  speaks of `held`. Appending to and popping from a queue without duplicates are lemmas.
- *TicketsAreCovered*, *DestructionIsQuiet*: from `PoolInv`: TypeOK, TicketsCovered,
  `WorkersListed` (the live workers are those in the vector, each once) and `Phases` (what
  each phase of the owner implies). Without these one could not tell that a worker which
  takes a ticket was among those the tickets were counted for. DestructionIsQuiet also
  uses TaskInv.
- *WakeupsSuffice*: NoLostWakeup as long as no caller is inside wait() (`NobodyWaits`), and
  *NoWaitNoLostWakeup*: always, in a program without callers of wait(). This is the
  condition, not a convenience: with a waiter, on the instance of `pool_wait_hangs`, TLC
  finds it violated in five steps.
  NoLostWakeup counts the workers awake and the notifications to come against the tickets
  and the queue. It is not inductive, since a task may enqueue from inside a worker;
  `WakeInv` counts a busy worker as a piece of work to come.
- *PoolImplementsQueue*: Spec => QueueSpec. Under the mapping queue = tasks, active = what
  the workers hold, closed = stop, every step of a thread is a step of TaskQueue or a
  stutter; TaskInv makes the task that ends an active one.

`TcpServerProofs`: *TypeCorrect*, *ClientsAreTracked*, *NoHandlerIsLeft*, *StartIsSafe* and
*ServingIsHarmless* (an action property) follow from one invariant, `ServerInv`, whose parts
need each other:
- `PoolInv` and `ThreadInv`: each connection is submitted once, its handler runs while it is
  active in the pool, and the pool of a server thread that has gone is empty;
- `OwnerInv`: m_running is FALSE during stop(), and an owner outside stop() whose m_running
  is FALSE has no server thread, so that start() may assign one;
- `ListenInv`: m_server_fd never names a connection, stop() has given it back before it
  locks m_clients, and once it is closed its assignment is next;
- `ConnInv`: a connection has one descriptor, and a handler's is open until stop() closes
  it. After that the number cannot go to another connection while the handler lives, since
  m_server_fd is gone and accept needs it: this is what keeps the second close of a handler
  away from other connections;
- ClientsTracked, which says what the loop of stop() closes.
`FileMoves` is the lemma the rest turns on: how an entry of the descriptor table can change.

`TcpClientProofs`: *TypeCorrect* (`TypeInv`, TypeOK in three parts); *OwnsDescriptor* and
*LeaksNothing*, from the types and the properties themselves; *AnswersComeInOrder*, an
action property, from `StreamInv`: what is on its way (the answers that have come, the
request that the peer is at, the requests that it has not read, one behind the other) is in
the order of the requests (`InOrder`), is no older than the last byte returned, and, when
nothing was on its way before a request, is all of that request (`Recent`). Lemmas say what
an append, a prefix and the rest of a stream keep of the order.

`ProcessProofs`, Executable: *TypeCorrect*, *PidsArePinned*, *KillEndsTheProcess*, from
`PidInv` = TypeOK, PidPinned and KilledIsDead together. A pid that an object names and
that is not loose is our unreaped child, so the kernel cannot give the number away; that
is also why a process stays a zombie once kill() has signalled it.

`ProcessProofs`, Foreground: *CallTypesCorrect*, *WholeOutputCollected*,
*ChildIsWaitedFor*, from `CallInv` = RunTypeOK, OutputComplete, ChildWaitedFor and
`ChildStarted` (the child is among the started processes, so no fork of the command
reuses it). The argument for the output: a process gets the write end only from a holder,
so once there is none there never will be, and reading ends only then.

`FileReceiverProofs`: *TypeCorrect*, for any number of files of any sizes;
*FilesHoldOwnBytes* from `InStep`: as long as every call has returned 0, the socket stands
where the current file begins, plus what the call has received of it, and the open stream
holds bytes of that file only. *LosesOnlyTheEnd* from `Kept`: what recvFile has counted is
in the file up to the last write that the stream may buffer, and all of it while the
stream has not failed. The lemma `WriteFlush` says what a write and a flush can leave
behind.

`WholeFileProofs`: *TypeCorrect*; *LossIsReported* from `WriterInv`, which says for every
place of the writer how much of its data is in the file, in the stream's buffer, or lost
with the stream's bad bit set (`Streamed`); *ReadsAreInOrder* and *ErrorsAreTold* from
`ReaderInv`: the buffer is in order and holds no byte of a call still to come (`InOrder`),
and while nothing changed the file it is a prefix of the file (`Undisturbed`).
The lemma about ToInt bounds what the modulus returns.

`FsUtilProofs`: *TypeCorrect* (`TypeInv`: TypeOK and where the call can be, `Place`);
*ZeroIsTrue* and *ListsAreComplete* from `HistInv` and `ListInv`: the history `was` has
seen what the tree is and what each step relied on (`Recorded`), and an entry of the
wanted kind that was always there is in the list or still in the stream's `must`
(`Pending`, `Unlisted`); *TouchKeeps*, an action property, from `TouchInv`: the creating
step is reached only after the file was absent once (`Absent`).
*WildcardMatches*: for every pattern of ordinary characters, * and ?, and every name of one
line, both of any length, the expression fits exactly when the wildcard means the name.
The matcher is a recursive function over
the pattern; its solution is shown to exist as the set of the cuts that Glob speaks of
(`CutsStep`), and to be the only one by looking at the first row in which two differ
(`ReachUnique`). *ListsAreSound* needs it for the ordinary patterns, *ExtensionMatches*
for extensions without a /, and for all of them `Seen` (what a stream may return was in
the directory during the call) and `Found` (so was what the list has).

`HelperProofs`, IPv4Address: *AddressTypesCorrect*, with `Reading` (there is a current
character while the parser reads); *ConstructorsAgree* (of text and number),
*BytesAreReversed* (of the other two) and *SwappedTwice*, from the lemmas `BytesOfWord` and
`WordOfBytes`: four bytes and a word determine each other. The division of a word by a width
that is not a number known to the provers rests on `Place`, that quotient and remainder are
unique. *AtonIsRight*: AtonReadsAddress for every length of the text; `CNumberReads` and
`CAddressReads` lead from what the parser reads to C's numbers and to addresses. Its
invariant `ReadSoFar` says that the text read so far, split at its dots, is the numbers in
`parts` and the number the parser is in, whose value modulo a word is `val` and whose radix
is `base`. `SplitFacts` and `ValueFacts` tell how the split and the value change with one
character more; `NextDigit` is the step of the number, and `Stored` that the value added to
the parts gives the bytes of the address.

`HelperProofs`, ScopeGuard: *CleanupIsCalledOnce*, from `GuardInv`: GuardTypeOK,
CalledOnce and `Armed` (each active guard has a callable of its own, neither called nor
released), without which a destructor could call one again. There is no run for this
module: its one property is proved for any number of guards and callables.

Induction over the length of a sequence, where a recursive function is concerned, is by
the smallest counterexample (`WFMin` on the natural numbers): `ReachUnique`, `Iterates`
(a function defined by steps exists) and `GoOnAlike` (there is one only).

Only model-checked: the liveness properties (fairness and ENABLED are beyond the prover):
TaskServed, RemoveAllReturns, DestroyReturns, StopReturns, RequestReturns,
ForegroundReturns and TimedCallReturns.

## 6. Abstractions and what is not modelled

- SIGPIPE is ignored by the program, as a program with sockets has to; with the default
  disposition a send to a peer that is gone ends it. Descriptors stay below FD_SETSIZE.
- Data is abstracted: task results, request and response texts, environment, arguments
  and paths. Logging is left out.
- Threads outside the pool and the server are one each: the owner of the pool, the owner
  of the server, the user of a client, of Executable objects and of recvFile.
  Concurrent calls of these are not supported by the code (plain members, no lock).
- ip4addr_aton is compiled only under UFW_IPTOOLS_UNDEFINED, where it calls
  IPv4Address::htonl, which does not exist; the model takes toNetwork for it. Big-endian
  hosts, where toNetwork swaps as well, are left out, and so is a text that inet_addr
  rejects (the object is then 255.255.255.255). inet_addr itself is the C library's.
- TcpServer: the file of other code that has got a number of the server may be anything
  but a socket on which accept delivers a connection to run(); a listening socket of the
  same program that got the number between two calls would do that.
- A connect() that a signal interrupts is a failed one: the connection that the kernel
  may still make behind it is not modelled.
- FsUtil has one directory with entries of one level, no symbolic links, no failing stat
  of an existing path. What a regular expression with metacharacters matches is a
  constant (`Malformed`, `Matches`), not computed. The steps inside
  std::filesystem::create_directories and remove_all (MkdirStatus, MkdirParent,
  RemoveEntry) are those of libstdc++ and external. setExecutable, isExecutable, hasFile,
  pwd and stripFilename are one query, one change of mode or string work, and left out.
- WholeFile: a stream is not shared, and one thread writes. A write over a file that
  another process has removed is a write to another file, and left out.
- ScopeGuard: constructors and moves of callables do not throw (the class would lose the
  callable or end the program there).
- Not modelled: sockutils and the NEON test (queries whose answer is the system's);
  untar (one shell command), getdate and PrintFDInfo (formatting); uni_ctor (placement new
  and a destructor call, stateless); Message (an empty class); concepts and macros
  (compile-time only); the project templates (skeletons without behaviour); buffer_p,
  whose copy and move constructors do not compile when used.

## 7. Plan

In this order, the most important behaviour first:

1. Done: TaskQueue, ThreadPool and their proofs; TcpServer; Executable, Foreground and
   their proofs; FileReceiver; TcpClient; IPv4Address; WholeFile, FsUtil, ScopeGuard and
   their proofs.
2. Done: TcpServer's and TcpClient's safety properties proved.
3. Done: the safety properties that were only model-checked: NoLostWakeup, FileReceiver's,
   IPv4Address's, FsUtil's ListingSound with the meaning of a wildcard.
4. Left: what the abstract queue promises over a whole behaviour (the order of starts,
   one answer per future) as theorems of `TaskQueue` that PoolImplementsQueue carries over
   to the pool; safety lemmas behind the liveness properties, such as that each place of
   stop() and of remove_threads has a next step or a named condition it waits for.
