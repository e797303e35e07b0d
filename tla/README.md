# A verification project for file-storage-server

The repository is a file storage server in C: clients connect over a Unix
socket, open, read, write, lock and remove files that the server keeps in
memory, and the server evicts files when it is full. One main thread selects
over the connections, a pool of workers handles one request at a time. This
directory holds TLA+ modules translated from that code, the TLC runs that check
them and the TLAPS proofs about them. `PROJECT.json` maps every definition to
the lines it stands for.

## 1. Inventory

| Component | State | Operations | Modelled by |
|---|---|---|---|
| file-system, monitors (`file-system/file-system.c`) | `overallMutex`; per file `ordering`, `mutex`, `go`, `activeReaders`, `activeWriters` | the locking skeleton of open, read, readN, append, lock, unlock, close, remove, evictClient, and of eviction | `FileMonitor`, `FileAccess` |
| file-system, stored files (same file) | `filesDict`, `filesList`, two counters; per file its size, `currentlyLockedBy`, `ownerCanWrite`, `waitingLockers`, `openedBy` | what the same operations do to the files | `FileSystem`, `LockQueues` |
| file-system, answers (with `server/server.c`) | what each client was told | the order of the error tests of each operation | `FileSystemAnswers` |
| simple-queue (`simple-queue/simple_queue.c`) | global dictionary of `QueueData` under `iqdl_lock`; per queue `lock`, `read_cond`, `to_be_canceled_soon`, the list | create, enqueue, dequeue (waiting or not), length, delete | `SimpleQueue`, `Mailbox` |
| server (`server/server.c`) | the select set, `fd_num`, `signal`, `nOfConnectedClients`, two pipes | accept, dispatch, take a connection back, handle a request, notify waiting clients, evict a client, shut down | `Server` |
| server configuration (`server.c`, `config-parser/`) | the settings | read once at start-up | not modelled |
| client API, `communication/` (`client/api/api.c`, `communication.c`) | the socket, `errno` | each call sends a request field by field and reads the answer field by field | `Protocol`, `Client` |
| client (`client/client.c`) | the options of the command line, the files of the current one, `error`, directories for the files that come back | handle one option after the other, connect, exit | `Client` |
| list (`list/`) | head, tail, length | sequential | used as sequences |
| logger (`logger/`, with `LOG` in `server.c`) | the pointer to the logger, its mutex, a buffer with its length and size, the file | create, log, flush, delete | `Logger` |
| hashmap (`hashmap/`), command-line parser | | | not modelled (vendored; string handling) |

How they interact. The main thread accepts a connection, selects it, and when
it is readable takes it out of the select set and enqueues its descriptor. A
worker dequeues it, reads one request, calls one operation of the file-system,
answers, and writes the descriptor into a pipe which main reads to select it
again. A client that asks for a locked file gets no answer: its descriptor stays
in the `waitingLockers` of that file, until an unlock, a removal, an eviction or
the departure of the holder returns it to *some other* worker, which answers it
and gives the descriptor back to main. A client that is found to be gone is
taken out of the file-system (`FileSystem_evictClient`), reported as -1 through
the pipe, and closed. SIGHUP stops the server when no client is left, SIGINT
and SIGQUIT at once; stopping starts with `SimpleQueue_delete`, goes on with
joining the workers and ends with the deletion of the logger, into which every
thread has logged up to then. On its side of the socket a client sends one request at
a time, reads its answer, and decides by `errno` whether to go on with the
next file.

What is hard about it: four locks per operation taken in a hand-over-hand
fashion while files are freed under the feet of waiting threads; wakeups with
`pthread_cond_signal` by some leavers and not by others; a queue deleted while
threads sleep in it; books kept by hand on every path; answers that one worker
owes to another worker's client; departures that nest inside notifications;
descriptors that are reused; a wire on which nothing tells one field from
another, with ends that may disappear in between; an `errno` that means both
refused and broken; a logger reached through a pointer that is looked at
without its lock. `PROJECT.json` lists these hazards one by one.

What makes each part correct:

* monitors: writers are alone, nobody uses a freed file, no wakeup is lost,
  every operation returns;
* stored files: locks are first come first served, no waiting client is
  forgotten, `writeFile` belongs to the file's creator until anybody touches
  it, list, dictionary and counters agree, eviction takes the last files and as
  few as possible;
* answers: who has a lock is who was told so last, in an answer or much later when
  others passed it on, and a `writeFile` that succeeds is the first thing that has
  succeeded on its file since it was created;
* client and protocol: the two ends stay in step, a client takes a request for
  refused if and only if it was, and for done only if it was (with the one
  exception named below), `writeFile` follows only an `openFile` that
  worked, every call returns, and a server that is told to stop does;
* logger: the buffer is never overrun, nobody meets a deleted logger, and
  what was logged is on the file once, in the order of each thread;
* queue: a FIFO that loses and repeats nothing, and a deletion that waits for
  everybody inside;
* server: a connection is in one place at a time and none is lost, a closed
  descriptor has left no trace, clients are counted right, answers go to those
  who wait for one and to nobody else, requests are answered, the server stops
  when it should and not earlier.

## 2. The modules

`FileMonitor` follows every thread statement by statement, from one lock,
unlock, wait or test to the next (`pc`). It keeps no contents: a file is the
memory a path stands for. `HandOff`, `Sweeps`, `append` and `remove` are the
four ways in which operations treat `overallMutex`; open, lock, unlock and
close are the same as far as the monitor goes and share their actions. A
condition variable is the set of threads asleep on it, `Signal` wakes one of
them, `SpuriousWakeup` is what POSIX allows. `Refuse` is the early return; that
open and append may also be refused when the file exists stands for their other
error tests. `Evict` picks any other file: which one is `FileSystem`'s business.
`FileAccess` is what the monitors promise: reads together, writes alone,
destruction by somebody who is alone. `FileMonitor` implements it.

`FileSystem` is one step per operation, what the operation does to the files.
This granularity is what `FileMonitor` justifies: operations on a file happen
in the order in which they went through `overallMutex`, two operations are
inside a file only when both read, and readers only store the same zero into
`ownerCanWrite`. Contents are sizes. The one variable that is not in the code,
`parked`, holds the clients that a worker left without an answer, computed from
what the operations return. What goes out of the replacement list, and what
`readNFiles` moves to its top, is a recursive function over its places (`Among`), a
form the prover can reason about. `LockQueues` is the abstract view of the locks,
which `FileSystem` and `Server` implement.

`FileSystemAnswers` extends `FileSystem` with what each request answers. Its
operators list the error tests in the order of the code; `fresh` remembers
who created and locked each file as long as nothing else has succeeded on it,
`told` who was told last that it has the lock of a file: by a success of
`openFile(O_LOCK)` or `lockFile`, or because an unlock or a departure of others
returned it to be notified. `unlockFile`, `removeFile` and the client's departure take
that back; so does the eviction of the file, of which the holder is not told.
Nothing is claimed of which error a refused request hears: two are not what a
comment or the assignment says (section 3). It is the specification of the run
`locks`.

`Protocol` is the wire: the fields of each request and of each answer.
Numbers matter, because they decide what comes next; paths, contents and
messages carry nothing. `Client` is one client with the server's side of its
connection. `cpc` is where the client is, between two options, in a call of the
API (`send`, `receive`), or back from it (`return`); each callback of an option
is an action that looks at `errno` as the code does. A call may also fail before
it has sent anything (`CallFails`): `outcome` is then `"notAsked"`. `spc` is where
the connection is on the server's side; what the file-system makes of a request
is left open (`Perform`), and so is which files are evicted. Either side may go
away between two fields: `Kill`, `Signal`, `Terminate`, `Down`; a client that
writes to a closed connection gets SIGPIPE (`BrokenPipe`), one that reads from it
gets the end of the stream or, if the server left a request unread, a reset
(`EndOfStream`). `NotificationMayFail` is where the other clients of the server
come in: a write that evicts files (`evicting` remembers that it did) may fail to
notify somebody else, and its own connection is closed for that.

`Logger` is the logger and the threads that use it. `LOG` takes a thread through
`check`, `log`, `checkFlush` and `flush`: the pointer is looked at without the
mutex, and what it points to is used under it. `text` is the length that the
buffer really has, `curr_log_len` the one the logger counts, which a message adds
twice and a flush does not set back. Main's own messages fall due as its
phases go by; the thread that handles the one signal flushes twice. `killed` is
SIGTERM or SIGTSTP, which exit the process at once.

`SimpleQueue` is one queue, from its creation to its deletion and beyond:
threads keep the address and call again. The C library of Linux counts threads
in `pthread_cond_wait` as users of the mutex, so that `pthread_mutex_destroy`
answers `EBUSY` while somebody sleeps; `Users` models that external behaviour, on
which `SimpleQueue_delete` relies. `Mailbox` is the FIFO it implements.

`Server` composes the others at the level of their specifications: the queue is
a sequence (`Mailbox`), the locks are a holder and a line per file
(`LockQueues`), an operation of the file-system is one step (`FileSystem`). It
follows the connections. A worker reads a request (`read`), the file-system
does its part and returns the clients to notify, the worker answers (`answer`),
notifies (`notify`), and gives the connection back or closes connections
(`close`). `leaving` is the stack of nested `evictClient` calls; one list
`notify` is enough, because the failure that leads to a nested call ends the
list it happened in. `Drop` frees the files that were evicted or removed; that
the same path may be bound to a new file at once is what `Other` and `LockFile`
leave open. `LocksAreQueues` maps its locks to `LockQueues`: the composition keeps
what the files promise. `AnswersAreAwaited` is about the answers that travel with the
connections: from the worker that read the request, or into a line, out of it
by an unlock, a removal, an eviction or a departure, and on to whichever worker
did that. Main handles one ready descriptor per step: it is the only one that takes
descriptors out of the set, so that the copy `rdset` cannot be out of date in a
way that matters. Clients send whole requests and wait for answers; one that
hangs up early (`Vanish`) may leave its request behind to be read.

Each `MC...` module extends its module for TLC. Operators introduced by "A
plausible bug of" are not part of any specification: they are variants of the
definition that follows, used to make sure that every property notices a wrong
program.

Not modelled anywhere: failures of `malloc`, of the pthread calls and of system
calls (the code gives up on most of them; `Client` and `Logger` have those that
a user meets: local files that cannot be read or written, a log that cannot be
opened), the contents of files, statistics, and the pauses of the client
between requests (`-t`).

## 3. The runs

| Run | Instance | Checks |
|---|---|---|
| `monitor` | 3 threads, 3 paths, room for 2 files, all operations | `TypeOK`, `WritersAreAlone`, `NoUseAfterFree`, `NobodySleepsInVain`, `FilesWithinLimit` |
| `monitor_live` | 3 threads, 2 files, open, read, append, remove, evictClient | `ImplementsFileAccess`, `EveryCallReturns` |
| `locks` | 3 clients, 3 paths, room for 2 files, both policies, with the answers | `TypeOK`, `LocksInLine`, `WritableIsUntouched`, `NobodyForgotten`, `LocksAreQueues`, `WriteComesFirst`, `LocksAreKnown` |
| `eviction` | 2 clients, 4 paths, room for 3 files, sizes 1 and 2, both policies | `BooksBalance`, `EvictsLastAndFew` |
| `queue` | 3 threads, 2 elements, all operations | `NoUseAfterFree`, `NobodySleepsInVain`, `ImplementsMailbox`, `EverybodyLeaves` |
| `server` | 2 workers, 3 descriptors, 3 clients, 1 file, clients that vanish and clients that come late | `OnePlaceAtATime`, `ClosedIsForgotten`, `CountIsRight`, `EverybodyIsHeard`, `LocksAreQueues`, `AnswersAreAwaited` |
| `server_live` | 2 workers, 2 descriptors, 2 files, clients that do neither | `NobodyStranded`, `SoftQuitWaits`, `EveryRequestIsAnswered`, `ServerStops` |
| `server_notify` | 2 workers, 3 clients, clients that vanish | `NobodyStranded` does not hold |
| `server_soft` | 2 workers, 3 clients, clients that come late | `SoftQuitWaits` does not hold |
| `client` | every option, alone and in pairs, up to 2 files each; 2 files per answer, room for 2 fields each way | `TypeOK`, `InStep`, `AnswerBelieved`, `OnlyWritersAreLeft`, `WriteFollowsOpen`, `CallsReturn`, `ShutdownCompletes` |
| `client_saved` | `-r` of two files with `-d` | `SavedWasRead` does not hold |
| `logger` | 2 workers, main and the handler, one message of each worker, three lengths, sizes scaled to 60, 100 and 300 | `BufferFits`, `LoggerIsThere`, `LoggedIsOnFile` |

The bounds. Three threads are one inside a file, one at its gate asleep, and one
that signals, evicts or removes meanwhile; a file admits one sleeper at a time,
because the sleeper keeps `ordering`, so that a fourth thread could only queue
for a mutex. One path more than there is room for makes every open a
possible eviction. Three clients are a holder and two in line, the least for
which order matters. A storage of 3 units with contents of 1 and 2 lets one
append evict no file, one, or several. In the queue three threads are a
sleeper, one that enqueues or dequeues in its place, and one that deletes. In the server
three clients are one that goes away and two that are told, the first of which
may have vanished; two workers handle two connections at once. The server has
no bound on messages: each client has one request at a time. The pipe is never
full: it holds at most one entry per connection, and a pipe of Linux has room for
thousands. `Arrivals` bounds how many clients connect; with three of them on
three descriptors, a descriptor that was closed is taken again by a later
client. In `Client` an answer of two files has a first, which more
follow, and a last; two fields of room make both ends wait for each
other in the middle of requests and answers, of which most are longer. The sizes of
`Logger` are scaled so that the lengths 1, 40 and 400 meet every branch: a message
that fits, one that makes the buffer grow by 1.618, one for which it
may not grow and which is written through. The theorems of section 4 hold
without these bounds.

Fairness. `FileMonitor`: a thread that can go on continuously does go on (`WF`
per thread), which a preemptive scheduler gives; nothing is assumed about who
gets a contended mutex. Therefore `EveryCallReturns` is stated for the case that
calls stop arriving and sleepers are not woken for nothing for ever: otherwise a
thread may lose the race for `overallMutex` for ever. `SimpleQueue`: in addition
a thread that keeps asking for a lock that is free again and again gets it some
day (`SF` on the locking steps). Deletion needs this: `SimpleQueue_delete` takes
the lock over and over until the sleepers, which need it too, are gone.
`Server`: main looks at every ready descriptor in turn (`WF` per descriptor and
for the pipe), a worker goes on when it can; clients, arrivals and signals are
free. `Client`: either side goes on while it can (`WF(ClientStep)`,
`WF(ServerStep)`); nothing makes the server start or be told to stop, nothing
makes the holder of a lock give it up, so that `CallsReturn` excepts a client
that waits for one.

Symmetry is used in runs without liveness properties, over threads, clients and
files, never over descriptors, which are numbers. `CHECK_DEADLOCK FALSE` is set for
`Server` and `Client` only, which really stop; `Logger` has a step for the process
that has ended, so that a deadlock in it would be one of the program.

What the runs found:

* `server_notify`: clients that wait for a file are notified one after the
  other, and when one of them is gone the rest are dropped
  (`List_forEachWithContext` stops at the error of `evictClientCallback`): they
  wait for ever, their connections are leaked, and those that were given a lock keep it.
* `server_soft`: after SIGHUP a new connection is not refused. The listening
  socket is handled as a client, closed by a worker, and counted as a
  disconnection, so that the server can stop while clients are connected.
* `client_saved`: `-r` with `-d` is meant to save what was read if `readFile`
  has succeeded, and saves something also when it has not: the connection that
  ends before the answer sets no `errno`, and the callback takes the buffer it was
  left with for a file.

Not by a run, but met while modelling:

* `writeFile` is documented to work only if the client's previous operation was
  `openFile(O_CREATE|O_LOCK)` (file-system.c:1629); the code allows operations on
  other files, and `readNFiles`, in between.
* `unlockFile` of a file that nobody has locked says that it is locked by
  somebody else: the test at file-system.c:2106 holds for it too, so that the
  branch "fail if the file was not locked" (2111-2115) cannot be reached.
* `EVICTION_POLICY` is read with the comparison inverted (server.c:1219), `LRU`
  selects FIFO and `FIFO` selects LRU.
* `lockFile` by the holder of the lock is an error although the assignment says
  that it succeeds (api.txt:17).
* `writeFile` of a local file that is found but cannot be read (a directory, no
  memory, a short read) sends nothing and looks like a success: `readLocalFile`
  sets `errno` to 0 before it closes the file (api.c:157-178), and
  `writeOptionCallback` looks at `errno` only (client.c:113-121). The file stays on
  the server as `openFile` made it, empty, and locked until the client leaves.
  `AnswerBelieved` names this case as the one in which a client that still has its
  connection is wrong about a success.
* `-R` without `-d` never asks the server: `readNFiles` wants a directory.
* A local file that is opened and cannot be written stops the client when it is the
  last of its answer, and is forgotten when another follows, because `errno` is
  reset. One that cannot even be opened crashes it: `writeLocalFile` closes
  the file all the same, a null pointer or, if `mkdir` could not be run, one that
  was never set (api.c:226-242). So may the end of the stream where a message, a
  path or a content should come: what `getData` did not fill in is freed if it
  happens not to be null (api.c:505). In `Client` both are a `Kill`.
* The errors that the client makes itself (`error = 1`) are taken for refusals,
  as `EPERM` is 1, and do not stop it.
* After SIGHUP only `SoftQuitWaits` notices the listening socket that is taken for
  a client: `CountIsRight` allows for it (`Refused`), and `ServerStops` is checked
  with nobody connecting after the signal.
* A write that fails to notify somebody else has its own connection closed
  (server.c:734), which `OnlyWritersAreLeft` says happens to nobody else; the
  next request of that client kills it with SIGPIPE.

## 4. The proofs

`FileMonitor_proofs` proves, for any number of threads and files, any limit and
any set of operations: `TypeCorrectness`, `WriterExclusion`, `MemorySafety`,
`NoLostWakeup`, `FileLimit`, and `Refinement` (of `FileAccess`). None of these
is inductive alone. The invariant `IInv` adds what ties the shared state to the
program counters:

* `MutexesHeld`: each mutex is held by exactly the thread that is where the code
  holds it;
* `LocalsFit`: what the locals of a thread may be at each place;
* `CountersExact`: `activeReaders` and `activeWriters` count the threads inside,
  a thread in remove excepted, which does not count itself;
* `GateShut`: while a thread inside a file holds `overallMutex`, nobody else is
  at the gate of that file. This is why `evictClient` may leave without a
  signal;
* `RemoverIsAlone`: nobody refers to a file that is being removed.

One lemma per action shows that it keeps `IInv`; `Enter`, `Leave`, `FreeVictim`
and `Remove`, which change counters or free a file, carry the argument, with
four lemmas about cardinalities. Under refinement every action is a stutter
except `Create`, `Enter`, `Leave`, `FreeVictim` and `Remove`.

`FileSystem_proofs` proves, for any clients, paths, limits, sizes and policies:
`LockOrder`, `WriteRight`, `NobodyIsForgotten`, and `LockRefinement` (of
`LockQueues`). `IInv` there adds that a path without a file is locked by nobody
and waited for by nobody. Lemmas about sequences say what happens to a line when
somebody joins, is served or gives up. A second invariant, `Books`, stands on
the types of the fields alone: the replacement list is a line (nobody twice) of
exactly the stored files, one counter is its length, the other the sum of the
sizes, both within the limits. It gives `TypeCorrectness` and `BooksAreRight`.
The work is in what eviction takes out: `NewEvicts` (one file, or none) and
`AppendEvicts` (the last n files other than the one that is written, n being the
least number that leaves room, which exists because that file alone with its new
content is below the limit: this is what the early `E_FS_EXCEEDED_SIZE` of
`appendToFile` is for). `EvictionOrder` is an action property that follows from
`Books`: what goes was at the end of the list, and the evicted file nearest to
the top was needed.

`FileSystemAnswers_proofs` proves `WriteIsFirst` and `HoldersKnow`, and
that requests are steps of `FileSystem` (`AnswersAreFileSystem`). Beside the
`IInv` of `FileSystem` it needs `AIInv`: nobody has a path open that is not
stored, and who may use `writeFile` on a file and has it open is who the file is
`fresh` for. `writeFile` survives `closeFile`, but only for a client that no
longer has the file open, and opening it again takes the right away: this is why
the condition is about clients that have the file open. `FirstOfIs` evaluates a
list of error tests, one lemma per answer does so for the tests of the code.
`HoldersKnow` (`LocksAreKnown`) needs nothing beyond `IInv` and `AIInv`, but all of
them: that a lock which passes on goes to somebody who was waiting and is
returned to be notified (`NextWaits`), that locks of paths without a file are
nobody's (`HeldIsFile`), and for each operation that it answers OK exactly when it
gives, or takes away, the lock.

`Logger_proofs` proves, for any three sizes of the buffer, any growth that does
not shrink, any number of workers, messages and lengths: `TypeCorrectness`,
`NoOverrun` (`BufferFits`), `LoggerOutlivesItsUsers` (`LoggerIsThere`) and
`WhatIsLoggedStays` (`LoggedIsOnFile`). `IInv` there has three parts, which only
together are inductive:

* `Sound`: the counted length is no less than the real one. `CatFits` shows that
  this is enough for every branch of `Logger_log`, although the count drifts
  away from the text;
* `Life`: which threads may run in which phase of main. Main stops only when it
  has heard of the signal, that is after the handler is done (`HandlerIsDone`),
  and deletes the log when the workers have returned (`WorkersAreDone`);
* `Messaged`: what was taken is on the file, or in the buffer of a thread that
  has its flush before it (`NothingIsLost`), and file and buffer together are in
  order. Before the log is open nothing is said (`QuietBefore`), which is why a
  thread that finds no logger loses nothing.

`SimpleQueue_proofs` proves, for any number of threads, elements and set of
operations: `TypeCorrectness`, `MemorySafety` (`NoUseAfterFree`), `NoLostWakeup`
(`NobodySleepsInVain`) and `Refinement` (of `Mailbox`). `IInv` says which thread
holds which of the two locks at each place (`LocksHeld`), which operation and
which element it can have there (`OpsFit`, `ElementsFit`), and when
`to_be_canceled_soon` is up: only while a deletion holds both locks or after it,
with nobody asleep, and never for a thread that has found the queue and still
relies on it (`FlagFits`). That nobody sleeps in vain is a count: while somebody
sleeps, every element has a thread of its own that is on its way to it or about
to signal. Under the refinement every action is a stutter but creation,
insertion, extraction and deletion.

`Server_proofs` proves, for any number of workers, descriptors, clients and
files: `TypeCorrectness`, `OneOwner` (`OnePlaceAtATime`), `NothingInherited`
(`ClosedIsForgotten`), `AllSelected` (`EverybodyIsHeard`), `RightCount`
(`CountIsRight`), `OneAnswerEach` (`AnswersAreAwaited`) and `LockRefinement`
(`LocksAreQueues`). `OnePlaceAtATime` counts, and counting is hard to prove
about; `IInv` says it of pairs instead. `In(c, p, o)` is the connection c in the
place p of its owner o (the select set, the queue, the pipe, a line for a lock,
the descriptor of a worker, what it must notify, whom it must evict); no
connection is in two of them (`OnePlace`), the sequences repeat nobody
(`InOrder`), a worker's variables fit its place in the code (`WorkersFit`), and
a closed connection is nowhere and holds no lock, having lost the locks before
it was closed (`NothingLeft`). One lemma per step says which connection it moves
from where to where, and `OnePlaceKept`, a lemma about moves, does the rest. Two
theorems have a hypothesis on the switches of the model: `NobodyLost`
(`NobodyStranded`) assumes that no client goes away while it waits, `SoftQuit`
(`SoftQuitWaits`) in addition that none connects after the signal. Without these
the code does not have the properties, as the runs `server_notify` and
`server_soft` show; the hypotheses say when the code can be trusted. `Awaiting`
and `Attentive` are what has to be added to `IInv` for them. For
`OneAnswerEach`, `AllDue` says of each place whose connections may be owed an
answer there; `OneIsDue` and `DueStays` carry it over a move. For
`LockRefinement`, `LockChange` lists what a step may do to the lock of one file
and `LinesFit` is the invariant that makes each of these a step of `LockQueues`:
a free lock has no line, and nobody waits for a lock of its own. It rests on
`OnePlace`: a connection that is being served or is leaving is in no line, so
that it joins one only once, and its departure only passes locks on.

`Client_proofs` proves, for any command lines, any number of files in an answer
and any capacity of the socket: `TypeCorrectness`, `SidesInStep` (`InStep`),
`BeliefIsTrue` (`AnswerBelieved`, with the exception of `writeFile` in its
statement), `WritersOnly` (`OnlyWritersAreLeft`) and `WritesAreOpened`
(`WriteFollowsOpen`). The heart of `IInv` is about what is under way. Towards
the server, what is on the wire and what the client has yet to send together are
the request asked for, or the rest of it behind the fields that the server has
read (`ServerSide`). Towards the client, what is on the wire and what the server
has yet to send together are what the client's next field calls for: a result, a
number, and after it as many files, each a path, a flag and perhaps a content,
as the number says (`Answering`, `Promised`). When the server hangs up in
between, what is left is the beginning of that. This is an invariant on
sequences of sequences of any length, which TLC can only sample.

`LineLemmas` holds what these proofs share: lines (sequences without
repetitions), least elements of sets of naturals, sequences joined to one
(`FlattenSeq`), heads and tails, and sums over finite sets (`SumFunctionOnSet`).
Induction over data is used there after all, although the library's induction
theorems cannot be instantiated: the set of the numbers for which a statement
holds is a set, a set of naturals with 0 and with the successor of each member
has all of them (`SetInduction`, from the least element of its complement, which
the library's theorem on well-founded sets gives). That a recursive function
exists is proved in the same way, bound by bound.

Assumptions: the named `ASSUME`s of the modules, which TLC evaluates in the
runs. They say that the sets of threads (of `FileMonitor` and `SimpleQueue`) and
of files (of `FileMonitor` and `Server`) are finite, that the null values
(`NoThread`, `NoFile`, `NoOwner`, `NoElement`) are not members of the sets that
they complete, that limits, sizes and capacities are naturals, positive where
the code refuses zero or could do nothing with it, that contents are not empty,
that the policies are the two the code has, that the operations and the options
are those of the program, that there is a descriptor beyond those of the pipes
and the listening socket, and that growing the logger's buffer does not shrink
it.

`SimpleQueue.TypeOK` and `Server.TypeOK` are conjuncts of the inductive
invariants and proved; no run repeats them.

Only model-checked: all liveness (`EveryCallReturns`, `EverybodyLeaves`,
`EveryRequestIsAnswered`, `ServerStops`, `CallsReturn`, `ShutdownCompletes`),
which needs fairness and ENABLED and so is out of the prover's reach, and the
three properties that do not hold. Every safety property of a passing run is a
theorem.

## 5. Plan

Done: FileMonitor, FileAccess; FileSystem, LockQueues; FileSystemAnswers;
SimpleQueue, Mailbox; Server; Protocol, Client; Logger; and the proofs of all of
them, with every safety property of the passing runs.

Next, in this order:

1. `Startup`: the settings, from the file to the file-system they create.
2. `List`: insertion, extraction and search on nodes and pointers against
   sequences, which is how `FileSystem` uses them.
