------------------------------- MODULE Server -------------------------------
(***************************************************************************)
(* The life of the connections in the server (server.c): accepted by the   *)
(* main thread, selected until a request arrives, handed to a worker       *)
(* through the queue, sent back through a pipe, or left in the line of a   *)
(* locked file until some worker passes the lock on; and closed when the   *)
(* client is found to be gone.  One signal makes the server stop: at once  *)
(* (RAGE_QUIT) or when no client is left (SOFT_QUIT).                      *)
(*                                                                         *)
(* The locks of the files are those of LockQueues, which FileSystem        *)
(* implements; the queue is a Mailbox, which SimpleQueue implements.  What *)
(* is at stake here is that a connection is in one place at a time, that   *)
(* none is lost, and that the server counts them right.                    *)
(***************************************************************************)
EXTENDS Integers, SequencesExt

CONSTANTS
  Workers,   \* the worker threads
  MaxFd,     \* the highest descriptor
  Arrivals,  \* how many clients connect, one after the other
  Files,     \* the files they lock
  Vanish,    \* may a client go away while it waits for an answer?
  Late       \* may a client connect after a signal?

\* Descriptors are numbered in the order in which main opens them.
WorkersPipe == 1                 \* masterWorkersPipe[0]
Listener    == 2                 \* fd_skt
Clients     == 3 .. MaxFd
NoFd        == 0
Disconnect  == -1                \* what goes into the pipe for a lost client

ASSUME MaxFdAssumption    == MaxFd \in Nat /\ MaxFd > Listener
ASSUME ArrivalsAssumption == Arrivals \in Nat
ASSUME FilesAssumption    == IsFiniteSet(Files)
ASSUME SwitchesAssumption == Vanish \in BOOLEAN /\ Late \in BOOLEAN

VARIABLES
  \* the main thread
  set, fd_num,           \* the descriptors it selects, and the highest of them
  signal,                \* the signal it was told of: "none" at first
  nOfConnectedClients,
  phase,                 \* "running", "joining" the workers, or "stopped"
  \* between the threads
  queue, pipe,
  \* the file-system
  holder, line,
  \* the workers
  pc,                    \* where each is
  fd, op,                \* whose request it handles, and which
  closeConnection,
  notify,                \* the clients it has still to notify
  leaving,               \* those it has still to disconnect, innermost last
  \* the clients
  client,                \* by descriptor: "none" if there is no connection,
                         \* "quiet", "asking" (its request is to be read),
                         \* "waiting" (for the answer), "gone", or "left"
                         \* (gone as well, with a request to be read)
  arriving               \* how many have still to connect

mainVars   == <<set, fd_num, signal, nOfConnectedClients, phase>>
lockVars   == <<holder, line>>
workerVars == <<pc, fd, op, closeConnection, notify, leaving>>
clientVars == <<client, arriving>>
vars == <<mainVars, queue, pipe, lockVars, workerVars, clientVars>>

Init ==
  /\ set = {WorkersPipe, Listener}
  /\ fd_num = Listener
  /\ signal = "none"
  /\ nOfConnectedClients = 0
  /\ phase = "running"
  /\ queue = <<>>
  /\ pipe = <<>>
  /\ holder = [f \in Files |-> NoFd]
  /\ line = [f \in Files |-> <<>>]
  /\ pc = [w \in Workers |-> "dequeue"]
  /\ fd = [w \in Workers |-> NoFd]
  /\ op = [w \in Workers |-> "none"]
  /\ closeConnection = [w \in Workers |-> FALSE]
  /\ notify = [w \in Workers |-> <<>>]
  /\ leaving = [w \in Workers |-> <<>>]
  /\ client = [c \in Clients |-> "none"]
  /\ arriving = Arrivals

Goto(w, from, to) == pc[w] = from /\ pc' = [pc EXCEPT ![w] = to]

-----------------------------------------------------------------------------
(* Clients: they ask, wait for the answer and ask again, until they leave. *)

Ask(c) ==
  /\ client[c] = "quiet"
  /\ client' = [client EXCEPT ![c] = "asking"]
  /\ UNCHANGED <<mainVars, queue, pipe, lockVars, workerVars, arriving>>

\* A client that hangs up too early leaves its request behind.
HangUp(c) ==
  /\ client[c] = "quiet" \/ (client[c] \in {"asking", "waiting"} /\ Vanish)
  /\ client' = [client EXCEPT ![c] = IF @ = "asking" THEN "left" ELSE "gone"]
  /\ UNCHANGED <<mainVars, queue, pipe, lockVars, workerVars, arriving>>

Answered(c) == client' = [client EXCEPT ![c] = "quiet"] /\ UNCHANGED arriving

-----------------------------------------------------------------------------
(* The main thread.                                                        *)

\* A plausible bug of GoesOn: any signal ends the loop.
GoesOnUntilSignal == phase = "running" /\ signal = "none"

\* The condition of its loop.
GoesOn ==
  /\ phase = "running"
  /\ signal # "RAGE_QUIT"
  /\ signal # "SOFT_QUIT" \/ nOfConnectedClients > 0

\* accept takes the lowest descriptor that is free.
Accept ==
  /\ GoesOn /\ signal = "none" /\ Listener \in set /\ arriving > 0
  /\ LET unused == {c \in Clients : client[c] = "none"}
         new == Min(unused)
     IN  /\ unused # {}
         /\ client' = [client EXCEPT ![new] = "quiet"]
         /\ set' = set \cup {new}
         /\ fd_num' = Max({fd_num, new})
  /\ arriving' = arriving - 1
  /\ nOfConnectedClients' = nOfConnectedClients + 1
  /\ UNCHANGED <<signal, phase, queue, pipe, lockVars, workerVars>>

\* What else select finds readable and main takes for a client's request: the
\* listening socket too, once a signal has come.
HasInput(d) ==
  IF d = Listener THEN signal # "none" /\ Late /\ arriving > 0
  ELSE d \in Clients /\ client[d] \in {"asking", "left", "gone"}

Dispatch(d) ==
  /\ GoesOn /\ d \in set /\ d <= fd_num /\ HasInput(d)
  /\ set' = set \ {d}
  /\ fd_num' = IF d = fd_num THEN fd_num - 1 ELSE fd_num
  /\ queue' = Append(queue, d)
  /\ UNCHANGED <<signal, nOfConnectedClients, phase, pipe, lockVars, workerVars, clientVars>>

\* A plausible bug of ReadPipe: fd_num is not raised again.
ReadPipeOnly ==
  /\ GoesOn /\ WorkersPipe <= fd_num /\ pipe # <<>>
  /\ pipe' = Tail(pipe)
  /\ IF Head(pipe) = Disconnect
     THEN nOfConnectedClients' = nOfConnectedClients - 1 /\ UNCHANGED set
     ELSE set' = set \cup {Head(pipe)} /\ UNCHANGED nOfConnectedClients
  /\ UNCHANGED <<fd_num, signal, phase, queue, lockVars, workerVars, clientVars>>

ReadPipe ==
  /\ GoesOn /\ WorkersPipe <= fd_num /\ pipe # <<>>
  /\ pipe' = Tail(pipe)
  /\ IF Head(pipe) = Disconnect
     THEN /\ nOfConnectedClients' = nOfConnectedClients - 1
          /\ UNCHANGED <<set, fd_num>>
     ELSE /\ set' = set \cup {Head(pipe)}
          /\ fd_num' = Max({fd_num, Head(pipe)})
          /\ UNCHANGED nOfConnectedClients
  /\ UNCHANGED <<signal, phase, queue, lockVars, workerVars, clientVars>>

\* The signal thread waits for one signal and reports it.
ReadSignal ==
  /\ GoesOn /\ signal = "none"
  /\ signal' \in {"SOFT_QUIT", "RAGE_QUIT"}
  /\ UNCHANGED <<set, fd_num, nOfConnectedClients, phase, queue, pipe,
                 lockVars, workerVars, clientVars>>

\* SimpleQueue_delete: no worker gets anything out of the queue from now on.
DeleteQueue ==
  /\ phase = "running" /\ ~ GoesOn
  /\ phase' = "joining"
  /\ UNCHANGED <<set, fd_num, signal, nOfConnectedClients, queue, pipe,
                 lockVars, workerVars, clientVars>>

JoinWorkers ==
  /\ phase = "joining"
  /\ \A w \in Workers : pc[w] = "returned"
  /\ phase' = "stopped"
  /\ UNCHANGED <<set, fd_num, signal, nOfConnectedClients, queue, pipe,
                 lockVars, workerVars, clientVars>>

-----------------------------------------------------------------------------
(* What the requests do to the locks.                                      *)

HeadOrNoFd(s) == IF s = <<>> THEN NoFd ELSE Head(s)
TailOrEmpty(s) == IF s = <<>> THEN <<>> ELSE Tail(s)

\* A free lock is taken at once.
Acquire(c, f) ==
  /\ holder[f] = NoFd
  /\ holder' = [holder EXCEPT ![f] = c]
  /\ UNCHANGED line

\* A plausible bug of PassOn: the new holder stays in line.
PassOnOnly(f) ==
  /\ holder' = [holder EXCEPT ![f] = HeadOrNoFd(line[f])]
  /\ UNCHANGED line

PassOn(f) ==
  /\ holder' = [holder EXCEPT ![f] = HeadOrNoFd(line[f])]
  /\ line' = [line EXCEPT ![f] = TailOrEmpty(@)]

\* Files that are removed or evicted take their locks and lines with them.
Drop(gone) ==
  /\ holder' = [f \in Files |-> IF f \in gone THEN NoFd ELSE holder[f]]
  /\ line' = [f \in Files |-> IF f \in gone THEN <<>> ELSE line[f]]

Held(c)  == {f \in Files : holder[f] = c}
Heirs(c) == {Head(line[f]) : f \in {g \in Held(c) : line[g] # <<>>}}

\* FileSystem_evictClient: the locks of c pass on, and c waits no longer.
EvictClient(c) ==
  LET left == [f \in Files |-> IF f \in Held(c) THEN TailOrEmpty(line[f]) ELSE line[f]]
  IN  /\ holder' = [f \in Files |-> IF f \in Held(c) THEN HeadOrNoFd(line[f])
                                    ELSE holder[f]]
      /\ line' = [f \in Files |-> RemoveFirst(left[f], c)]

-----------------------------------------------------------------------------
(* A worker takes a connection and handles the request.                    *)

Take(w) ==
  /\ Goto(w, "dequeue", "read")
  /\ phase = "running" /\ queue # <<>>
  /\ fd' = [fd EXCEPT ![w] = Head(queue)]
  /\ queue' = Tail(queue)
  /\ UNCHANGED <<mainVars, pipe, lockVars, op, closeConnection, notify, leaving, clientVars>>

Return(w) ==
  /\ Goto(w, "dequeue", "returned")
  /\ phase # "running"
  /\ UNCHANGED <<mainVars, queue, pipe, lockVars, fd, op, closeConnection,
                 notify, leaving, clientVars>>

\* The worker finds a request to read.
ReadRequest(w) ==
  /\ fd[w] \in Clients /\ client[fd[w]] \in {"asking", "left"}
  /\ client' = [client EXCEPT ![fd[w]] = IF @ = "asking" THEN "waiting" ELSE "gone"]
  /\ UNCHANGED arriving

\* The request was read and the file-system has done its part; `list' are the
\* clients it returned, to be notified after the answer.
Handled(w, o, list) ==
  /\ Goto(w, "read", "answer")
  /\ ReadRequest(w)
  /\ op' = [op EXCEPT ![w] = o]
  /\ notify' = [notify EXCEPT ![w] = list]
  /\ UNCHANGED <<mainVars, queue, pipe, fd, closeConnection, leaving>>

LockFile(w, f) == Acquire(fd[w], f) /\ Handled(w, "other", <<>>)

\* Plausible bugs of Park: the connection is sent back although it waits; the
\* client is told of the error, as it is of others, and stays in the line.
ParkAndSendBack(w, f) ==
  /\ Goto(w, "read", "dequeue")
  /\ ReadRequest(w)
  /\ holder[f] \notin {NoFd, fd[w]}
  /\ line' = [line EXCEPT ![f] = Append(@, fd[w])]
  /\ pipe' = Append(pipe, fd[w])
  /\ fd' = [fd EXCEPT ![w] = NoFd]
  /\ UNCHANGED <<mainVars, queue, holder, op, closeConnection, notify, leaving>>

ParkAnswered(w, f) ==
  /\ Goto(w, "read", "dequeue")
  /\ fd[w] \in Clients /\ client[fd[w]] = "asking"
  /\ Answered(fd[w])
  /\ holder[f] \notin {NoFd, fd[w]}
  /\ line' = [line EXCEPT ![f] = Append(@, fd[w])]
  /\ fd' = [fd EXCEPT ![w] = NoFd]
  /\ UNCHANGED <<mainVars, queue, pipe, holder, op, closeConnection, notify, leaving>>

\* E_FS_FILE_IS_LOCKED: no answer, and the connection stays in the line.
Park(w, f) ==
  /\ Goto(w, "read", "dequeue")
  /\ ReadRequest(w)
  /\ holder[f] \notin {NoFd, fd[w]}
  /\ line' = [line EXCEPT ![f] = Append(@, fd[w])]
  /\ fd' = [fd EXCEPT ![w] = NoFd]
  /\ UNCHANGED <<mainVars, queue, pipe, holder, op, closeConnection, notify, leaving>>

UnlockFile(w, f) ==
  /\ holder[f] = fd[w]
  /\ PassOn(f)
  /\ Handled(w, "other", IF line[f] = <<>> THEN <<>> ELSE <<Head(line[f])>>)

RemoveFile(w, f) ==
  /\ holder[f] = fd[w]
  /\ Drop({f})
  /\ Handled(w, "other", line[f])

\* openFile evicts one file, appendToFile one after the other.
OpenEvicting(w, f) == Drop({f}) /\ Handled(w, "other", line[f])
AppendEvicting(w, gone) ==
  \E files \in SetToSeqs(gone) :
    /\ Drop(gone)
    /\ Handled(w, "appendToFile", FlattenSeq([i \in DOMAIN files |-> line[files[i]]]))

\* Requests that leave the locks alone, errors included.
Other(w) == UNCHANGED lockVars /\ Handled(w, "other", <<>>)

\* If the answer cannot be sent, the connection will be closed.
Answer(w) ==
  /\ Goto(w, "answer", "notify")
  /\ IF client[fd[w]] = "waiting"
     THEN Answered(fd[w]) /\ UNCHANGED closeConnection
     ELSE closeConnection' = [closeConnection EXCEPT ![w] = TRUE] /\ UNCHANGED clientVars
  /\ UNCHANGED <<mainVars, queue, pipe, lockVars, fd, op, notify, leaving>>

-----------------------------------------------------------------------------
(* A worker notifies clients and closes connections.                       *)

\* A plausible bug of Notify: the connection does not go back to main.
NotifyOnly(w) ==
  /\ pc[w] = "notify" /\ notify[w] # <<>>
  /\ client[Head(notify[w])] = "waiting"
  /\ Answered(Head(notify[w]))
  /\ notify' = [notify EXCEPT ![w] = Tail(@)]
  /\ UNCHANGED <<mainVars, queue, pipe, lockVars, pc, fd, op, closeConnection, leaving>>

\* evictClientCallback: the client hears that the lock is its own, or that
\* the file is gone, and its connection goes back to main.
Notify(w) ==
  /\ pc[w] = "notify" /\ notify[w] # <<>>
  /\ client[Head(notify[w])] = "waiting"
  /\ Answered(Head(notify[w]))
  /\ pipe' = Append(pipe, Head(notify[w]))
  /\ notify' = [notify EXCEPT ![w] = Tail(@)]
  /\ UNCHANGED <<mainVars, queue, lockVars, pc, fd, op, closeConnection, leaving>>

\* A plausible bug of Depart: the file-system is not told.
DepartUnnoticed(w, c) ==
  /\ notify' = [notify EXCEPT ![w] = <<>>]
  /\ leaving' = [leaving EXCEPT ![w] = Append(@, c)]
  /\ UNCHANGED <<mainVars, queue, pipe, lockVars, clientVars>>

\* evictClient: c leaves the file-system; those who get its locks are notified,
\* and then c is disconnected.  Whatever list was being worked on is dropped.
Depart(w, c) ==
  /\ EvictClient(c)
  /\ \E heirs \in SetToSeqs(Heirs(c)) : notify' = [notify EXCEPT ![w] = heirs]
  /\ leaving' = [leaving EXCEPT ![w] = Append(@, c)]
  /\ UNCHANGED <<mainVars, queue, pipe, clientVars>>

\* The client to be notified is gone; the error ends List_forEachWithContext.
\* appendToFile alone takes the error for one of its own connection.
NotifyGone(w) ==
  /\ pc[w] = "notify" /\ notify[w] # <<>>
  /\ client[Head(notify[w])] = "gone"
  /\ Depart(w, Head(notify[w]))
  /\ closeConnection' = [closeConnection EXCEPT ![w] = @ \/ op[w] = "appendToFile"]
  /\ UNCHANGED <<pc, fd, op>>

\* Nothing can be read from a listening socket, or from a client that is gone.
NoRequest(d) == d \in Clients => client[d] = "gone"

\* The connection that was handled is to be closed: there was no request to
\* read, the answer was not sent, or see above.
CloseConnection(w) ==
  /\ \/ pc[w] = "read" /\ NoRequest(fd[w])
     \/ pc[w] = "notify" /\ closeConnection[w] /\ fd[w] # NoFd
        /\ notify[w] = <<>> /\ leaving[w] = <<>>
  /\ Depart(w, fd[w])
  /\ pc' = [pc EXCEPT ![w] = "notify"]
  /\ fd' = [fd EXCEPT ![w] = NoFd]
  /\ op' = [op EXCEPT ![w] = "none"]
  /\ closeConnection' = [closeConnection EXCEPT ![w] = FALSE]

\* A plausible bug of TellMain: main is not told.
TellNobody(w) ==
  /\ Goto(w, "notify", "close")
  /\ notify[w] = <<>> /\ leaving[w] # <<>>
  /\ UNCHANGED <<mainVars, queue, pipe, lockVars, fd, op, closeConnection,
                 notify, leaving, clientVars>>

TellMain(w) ==
  /\ Goto(w, "notify", "close")
  /\ notify[w] = <<>> /\ leaving[w] # <<>>
  /\ pipe' = Append(pipe, Disconnect)
  /\ UNCHANGED <<mainVars, queue, lockVars, fd, op, closeConnection, notify,
                 leaving, clientVars>>

Close(w) ==
  LET c == Last(leaving[w]) IN
  /\ Goto(w, "close", IF fd[w] = NoFd /\ Len(leaving[w]) = 1 THEN "dequeue" ELSE "notify")
  /\ client' = [d \in Clients |-> IF d = c THEN "none" ELSE client[d]]
  /\ leaving' = [leaving EXCEPT ![w] = Front(@)]
  /\ UNCHANGED <<mainVars, queue, pipe, lockVars, fd, op, closeConnection,
                 notify, arriving>>

SendBack(w) ==
  /\ Goto(w, "notify", "dequeue")
  /\ fd[w] # NoFd /\ ~ closeConnection[w]
  /\ notify[w] = <<>> /\ leaving[w] = <<>>
  /\ pipe' = Append(pipe, fd[w])
  /\ fd' = [fd EXCEPT ![w] = NoFd]
  /\ op' = [op EXCEPT ![w] = "none"]
  /\ UNCHANGED <<mainVars, queue, lockVars, closeConnection, notify, leaving, clientVars>>

-----------------------------------------------------------------------------

Main ==
  \/ Accept \/ ReadPipe \/ DeleteQueue \/ JoinWorkers
  \/ \E d \in set : Dispatch(d)

Handle(w) ==
  \/ \E f \in Files : LockFile(w, f) \/ Park(w, f) \/ UnlockFile(w, f) \/ RemoveFile(w, f)
                      \/ OpenEvicting(w, f)
  \/ \E gone \in SUBSET Files \ {{}} : AppendEvicting(w, gone)
  \/ Other(w)

Worker(w) ==
  \/ Take(w) \/ Return(w) \/ Handle(w) \/ Answer(w)
  \/ Notify(w) \/ NotifyGone(w) \/ CloseConnection(w)
  \/ TellMain(w) \/ Close(w) \/ SendBack(w)

Next ==
  \/ Main \/ ReadSignal
  \/ \E w \in Workers : Worker(w)
  \/ \E c \in Clients : Ask(c) \/ HangUp(c)

\* Main looks at every descriptor that select reported, in turn, and a worker
\* goes on when it can.  Nothing makes clients connect, ask or hang up, and
\* nothing makes signals arrive.
Fairness ==
  /\ WF_vars(ReadPipe) /\ WF_vars(DeleteQueue) /\ WF_vars(JoinWorkers)
  /\ \A c \in Clients : WF_vars(Dispatch(c))
  /\ \A w \in Workers : WF_vars(Worker(w))

Spec == Init /\ [][Next]_vars /\ Fairness

-----------------------------------------------------------------------------
(* Properties.                                                             *)

\* Type invariant.
TypeOK ==
  /\ set \subseteq 1 .. MaxFd
  /\ fd_num \in 0 .. MaxFd
  /\ signal \in {"none", "SOFT_QUIT", "RAGE_QUIT"}
  /\ nOfConnectedClients \in Int
  /\ phase \in {"running", "joining", "stopped"}
  /\ queue \in Seq(1 .. MaxFd)
  /\ pipe \in Seq(Clients \cup {Disconnect})
  /\ holder \in [Files -> Clients \cup {NoFd}]
  /\ line \in [Files -> Seq(Clients)]
  /\ pc \in [Workers -> {"dequeue", "read", "answer", "notify", "close", "returned"}]
  /\ fd \in [Workers -> 0 .. MaxFd]
  /\ op \in [Workers -> {"none", "appendToFile", "other"}]
  /\ closeConnection \in [Workers -> BOOLEAN]
  /\ notify \in [Workers -> Seq(Clients)]
  /\ leaving \in [Workers -> Seq(Clients \cup {Listener})]
  /\ client \in [Clients -> {"none", "quiet", "asking", "waiting", "left", "gone"}]
  /\ arriving \in Nat

\* Where the connection c is: an entry for every place that has it.
Places(c) ==
  LET Of(s) == {i \in DOMAIN s : s[i] = c}
  IN  {<<"set", d>> : d \in set \cap {c}}
      \cup {<<"queue", i>> : i \in Of(queue)}
      \cup {<<"pipe", i>> : i \in Of(pipe)}
      \cup {<<"fd", w>> : w \in Of(fd)}
      \cup (UNION {{<<"line", f, i>> : i \in Of(line[f])} : f \in Files})
      \cup (UNION {{<<"notify", w, i>> : i \in Of(notify[w])} : w \in Workers})
      \cup (UNION {{<<"leaving", w, i>> : i \in Of(leaving[w])} : w \in Workers})

\* A connection is in one place at a time: selected, in the queue, with one
\* worker, in one line, or in the pipe.  No two threads ever talk to the same
\* client, and main never selects a descriptor that a worker may close.
OnePlaceAtATime == \A c \in Clients : \A p, q \in Places(c) : p = q

\* A descriptor that was closed, and may get a new owner any moment, is left
\* nowhere: the next client neither inherits locks nor a place in a line.
ClosedIsForgotten == \A c \in Clients :
  client[c] = "none" => Places(c) = {} /\ Held(c) = {}

\* No connection is lost while the server runs: one that is nowhere would
\* never be listened to, answered or closed again.
NobodyStranded == \A c \in Clients : client[c] # "none" => Places(c) # {}

\* The number of connected clients is right as soon as the pipe is empty: it
\* counts the connections, less those that main was told about.  A listening
\* socket that was taken for a client makes the server count one too few.
SaidGoodbye == {c \in Clients : \E w \in Workers : pc[w] = "close" /\ c = Last(leaving[w])}
Refused == IF \/ Listener \in set \cup ToSet(queue)
              \/ \E w \in Workers : \/ fd[w] = Listener
                                    \/ pc[w] = "notify" /\ Listener \in ToSet(leaving[w])
           THEN 0 ELSE 1
CountIsRight ==
  nOfConnectedClients =
    Cardinality({c \in Clients : client[c] # "none"} \ SaidGoodbye)
    + Cardinality({i \in DOMAIN pipe : pipe[i] = Disconnect}) - Refused

\* select is told of every descriptor it should look at.
EverybodyIsHeard == \A d \in set : d <= fd_num

\* A soft shutdown waits: as long as some client is connected, the main loop
\* goes on, "until all connected clients have closed the connection".
SoftQuitWaits ==
  signal = "SOFT_QUIT" /\ phase # "running" =>
    \A c \in Clients : client[c] \notin {"quiet", "asking", "waiting"}

InLine(c) == \E f \in Files : c \in ToSet(line[f])

\* The server still owes c an answer: its worker does, or it is in a line, or
\* some other worker is to notify it.
Owed(c) ==
  \/ InLine(c)
  \/ \E w \in Workers : c \in ToSet(notify[w]) \/ (pc[w] = "answer" /\ c = fd[w])

\* One answer to each request, to whom it is due: the server owes answers only
\* to clients that wait for one, or did when they left, never to one that has
\* had its answer or to the next owner of its descriptor; and a client that
\* waits is owed its answer, whichever worker that has fallen to, and is not
\* listened to before.  Those whose connection is lost are left out: see
\* NobodyStranded.
AnswersAreAwaited == \A c \in Clients :
  /\ Owed(c) => client[c] \in {"waiting", "gone"}
  /\ client[c] = "waiting" => Owed(c) \/ Places(c) = {}

\* Every request is answered, or its client gets in a line; one that is called
\* out of a line is answered too, unless the server is told to stop.
EveryRequestIsAnswered == \A c \in Clients :
  (client[c] \in {"asking", "waiting"} /\ ~ InLine(c))
    ~> (client[c] = "quiet" \/ InLine(c) \/ signal # "none")

\* The server stops, at once or when all the clients have gone away.
ServerStops ==
  (\/ signal = "RAGE_QUIT"
   \/ signal = "SOFT_QUIT" /\ \A c \in Clients : client[c] \in {"gone", "none"})
  ~> phase = "stopped"

-----------------------------------------------------------------------------
(* What the server is composed of keeps its promises.                      *)

Locks == INSTANCE LockQueues WITH Owners <- Clients, NoOwner <- NoFd

\* The locks that the connections are parked for are those of LockQueues, as
\* those of FileSystem are: first come first served, whatever workers, dropped
\* files and departing clients do to them.
LocksAreQueues == Locks!Spec
=============================================================================
