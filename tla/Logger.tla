------------------------------- MODULE Logger -------------------------------
(***************************************************************************)
(* The log of the server (logger.c) and the threads that use it            *)
(* (server.c): the main thread creates it, the workers, main and the       *)
(* thread that handles the one signal log through the macro LOG, and main  *)
(* deletes it when it has joined the workers.                              *)
(*                                                                         *)
(* LOG is Logger_log, then Logger_flush.  Each looks at the pointer to the *)
(* logger before it takes the mutex, and works on what it points to        *)
(* afterwards: two steps of this module.  What happens under the mutex is  *)
(* one step.  Only Logger_create shows a state of its own while it holds   *)
(* the mutex: the logger is there before its file is open.                 *)
(*                                                                         *)
(* A message is its author and its number; what counts of its text is the  *)
(* length.  Failures of the mutex, of malloc and of the writes to the file *)
(* are left out; the file that cannot be opened is not.                    *)
(***************************************************************************)
EXTENDS Integers, Sequences

CONSTANTS
  INITIAL_LOG_SIZE, MEDIUM_LOG_SIZE, MAX_LOG_SIZE,
  Grown(_),    \* a length times 1.6180339887, as a size_t
  Workers, Main, Handler,
  Lengths,     \* the lengths of the messages
  Messages     \* bound: how many a worker logs, and main while it serves

Threads == Workers \cup {Main, Handler}

ASSUME SizesAssumption ==
  /\ INITIAL_LOG_SIZE \in Nat \ {0} /\ MEDIUM_LOG_SIZE \in Nat \ {0}
  /\ MAX_LOG_SIZE \in Nat
  /\ \A n \in 0 .. MAX_LOG_SIZE : Grown(n) \in Nat /\ Grown(n) >= n
ASSUME ThreadsAssumption ==
  Main \notin Workers /\ Handler \notin Workers /\ Main # Handler
ASSUME LengthsAssumption == Lengths \subseteq Nat /\ Messages \in Nat

TIMESTAMP_LEN == 26     \* what asctime_r writes, with its end of string

VARIABLES
  logger,        \* does the pointer point to a logger?
  lock,          \* is the mutex held between two steps?
  log,           \* the messages in the buffer
  text,          \* strlen of the buffer
  curr_log_len,  \* what the logger takes for that length
  curr_log_size, \* the bytes of the buffer
  file,          \* the messages on the file
  phase,         \* where main is between its messages
  pc,            \* where each thread is in LOG: "idle" if it is not
  length,        \* of the message each thread logs
  flushes,       \* the calls of Logger_flush each has still to make
  said,          \* how many messages of each were taken
  signum,        \* the signal: "none" at first
  told           \* is it in masterSigHandlerPipe?

buffer == <<log, text, curr_log_len, curr_log_size, file>>
calls  == <<pc, length, flushes, said>>
vars   == <<logger, lock, buffer, phase, calls, signum, told>>

Init ==
  /\ logger = FALSE /\ lock = FALSE
  /\ log = <<>> /\ text = 0 /\ file = <<>>
  /\ curr_log_len = 0 /\ curr_log_size = INITIAL_LOG_SIZE
  /\ phase = "boot"
  /\ pc = [t \in Threads |-> "idle"]
  /\ length = [t \in Threads |-> 0]
  /\ flushes = [t \in Threads |-> 0]
  /\ said = [t \in Threads |-> 0]
  /\ signum = "none" /\ told = FALSE

\* The process has not ended.
Alive == phase \notin {"exited", "killed", "aborted"}

Goto(t, from, to) == Alive /\ pc[t] = from /\ pc' = [pc EXCEPT ![t] = to]

-----------------------------------------------------------------------------
(* Logger_create and Logger_delete.                                        *)

CreateLogger ==
  /\ phase = "boot" /\ ~logger /\ ~lock
  /\ logger' = TRUE /\ lock' = TRUE /\ phase' = "creating"
  /\ UNCHANGED <<buffer, calls, signum, told>>

OpenFile ==
  /\ phase = "creating"
  /\ \/ logger' = TRUE /\ phase' = "launching"
     \/ logger' = FALSE /\ phase' = "failed"
  /\ lock' = FALSE
  /\ UNCHANGED <<buffer, calls, signum, told>>

\* Main gives up when the file cannot be opened.
GiveUp ==
  /\ phase = "failed"
  /\ phase' = "aborted"
  /\ UNCHANGED <<logger, lock, buffer, calls, signum, told>>

DeleteLogger ==
  /\ phase = "closing" /\ pc[Main] = "idle" /\ logger /\ ~lock
  /\ file' = file \o log
  /\ log' = <<>> /\ text' = 0
  /\ logger' = FALSE
  /\ phase' = "exited"
  /\ UNCHANGED <<lock, curr_log_len, curr_log_size, calls, signum, told>>

-----------------------------------------------------------------------------
(* Logger_log.                                                             *)

Enter(t, n, times) ==
  /\ Goto(t, "idle", "check")
  /\ length' = [length EXCEPT ![t] = n]
  /\ flushes' = [flushes EXCEPT ![t] = times]
  /\ UNCHANGED said

CheckLog(t) ==
  /\ Goto(t, "check", IF logger THEN "log" ELSE "checkFlush")
  /\ UNCHANGED <<logger, lock, buffer, phase, length, flushes, said, signum, told>>

\* A plausible bug of LenToWrite: the timestamp is forgotten.
LenWithoutTimestamp(n) == curr_log_len + n + 2

LenToWrite(n) == curr_log_len + n + TIMESTAMP_LEN + 2

\* Must the buffer, which is too small for it, go to the file?
CannotGrow(len_to_write) ==
  len_to_write >= MAX_LOG_SIZE \/ Grown(len_to_write) >= MAX_LOG_SIZE

\* The message, a blank and the timestamp.
Cat(m, n, len_to_write) ==
  /\ log' = Append(log, m)
  /\ text' = text + n + 1 + (TIMESTAMP_LEN - 1)
  /\ curr_log_len' = curr_log_len + len_to_write
  /\ UNCHANGED file

\* A plausible bug of WriteThrough: the new message is forgotten.
WriteBufferOnly(m) ==
  /\ file' = file \o log
  /\ log' = <<>> /\ text' = 0
  /\ curr_log_len' = 0 /\ curr_log_size' = MEDIUM_LOG_SIZE

\* Buffer and message go to the file, and a new buffer is taken.
WriteThrough(m) ==
  /\ file' = Append(file \o log, m)
  /\ log' = <<>> /\ text' = 0
  /\ curr_log_len' = 0 /\ curr_log_size' = MEDIUM_LOG_SIZE

LogMessage(t) ==
  /\ logger /\ ~lock
  /\ Goto(t, "log", "checkFlush")
  /\ said' = [said EXCEPT ![t] = @ + 1]
  /\ LET m == [by |-> t, nth |-> said[t] + 1]
         len_to_write == LenToWrite(length[t])
     IN  \/ /\ len_to_write < curr_log_size
            /\ Cat(m, length[t], len_to_write)
            /\ UNCHANGED curr_log_size
         \/ /\ len_to_write >= curr_log_size
            /\ CannotGrow(len_to_write)
            /\ WriteThrough(m)
         \/ /\ len_to_write >= curr_log_size
            /\ ~CannotGrow(len_to_write)
            /\ Cat(m, length[t], len_to_write)
            /\ curr_log_size' = Grown(len_to_write)
  /\ UNCHANGED <<logger, lock, phase, length, flushes, signum, told>>

-----------------------------------------------------------------------------
(* Logger_flush.  It empties the buffer, and leaves curr_log_len alone.    *)

Returns(t) ==
  /\ flushes' = [flushes EXCEPT ![t] = @ - 1]
  /\ pc' = [pc EXCEPT ![t] = IF flushes[t] > 1 THEN "checkFlush" ELSE "idle"]

CheckFlush(t) ==
  /\ Alive /\ pc[t] = "checkFlush"
  /\ \/ /\ logger
        /\ pc' = [pc EXCEPT ![t] = "flush"]
        /\ UNCHANGED flushes
     \/ ~logger /\ Returns(t)
  /\ UNCHANGED <<logger, lock, buffer, phase, length, said, signum, told>>

Flush(t) ==
  /\ Alive /\ pc[t] = "flush" /\ logger /\ ~lock
  /\ Returns(t)
  /\ file' = file \o log
  /\ log' = <<>> /\ text' = 0
  /\ UNCHANGED <<logger, lock, curr_log_len, curr_log_size, phase, length, said, signum, told>>

\* A thread that meets no logger under the mutex ends the process.
Crash(t) ==
  /\ Alive /\ pc[t] \in {"log", "flush"} /\ ~logger /\ ~lock
  /\ phase' = "aborted"
  /\ UNCHANGED <<logger, lock, buffer, calls, signum, told>>

-----------------------------------------------------------------------------
(* The threads.  A message of main is due in each of these phases, but for *)
(* "running", where it logs what its clients do; the last one stands for   *)
(* four in a row, which no other thread can come between.                  *)

NextPhase ==
  [launching |-> "running", running |-> "running", stopping |-> "deleting",
   freed |-> "joining", joined |-> "closing"]

MainLogs ==
  /\ phase \in DOMAIN NextPhase
  /\ phase = "running" => said[Main] < Messages
  /\ \E n \in Lengths : Enter(Main, n, 1)
  /\ phase' = NextPhase[phase]
  /\ UNCHANGED <<logger, lock, buffer, signum, told>>

\* Main reads the pipe, and its loop ends, at once or after some messages.
Stop ==
  /\ phase = "running" /\ pc[Main] = "idle" /\ told
  /\ phase' = "stopping" /\ told' = FALSE
  /\ UNCHANGED <<logger, lock, buffer, calls, signum>>

\* From now on the workers are told to return.
DeleteQueue ==
  /\ phase = "deleting" /\ pc[Main] = "idle"
  /\ phase' = "freed"
  /\ UNCHANGED <<logger, lock, buffer, calls, signum, told>>

\* A plausible bug of AllReturned: one worker is enough.
SomeReturned == \E w \in Workers : pc[w] = "returned"

AllReturned == \A w \in Workers : pc[w] = "returned"

JoinWorkers ==
  /\ phase = "joining" /\ pc[Main] = "idle" /\ AllReturned
  /\ phase' = "joined"
  /\ UNCHANGED <<logger, lock, buffer, calls, signum, told>>

\* The workers run from their launch until they have returned.
WorkerLogs(w) ==
  /\ phase \notin {"boot", "creating", "failed"}
  /\ said[w] < Messages
  /\ \E n \in Lengths : Enter(w, n, 1)
  /\ UNCHANGED <<logger, lock, buffer, phase, signum, told>>

WorkerReturns(w) ==
  /\ phase \in {"freed", "joining"}
  /\ Goto(w, "idle", "returned")
  /\ UNCHANGED <<logger, lock, buffer, phase, length, flushes, said, signum, told>>

\* The handler takes one signal, whenever it comes; it flushes once more.
Signal ==
  /\ signum = "none"
  /\ signum' \in {"SIGTERM", "SIGINT"}
  /\ \E n \in Lengths : Enter(Handler, n, 2)
  /\ UNCHANGED <<logger, lock, buffer, phase, told>>

SignalHandled ==
  /\ signum # "none"
  /\ Goto(Handler, "idle", "returned")
  /\ \/ signum = "SIGTERM" /\ phase' = "killed" /\ UNCHANGED told
     \/ signum # "SIGTERM" /\ told' = TRUE /\ UNCHANGED phase
  /\ UNCHANGED <<logger, lock, buffer, length, flushes, said, signum>>

\* The process is over.
Ended == ~Alive /\ UNCHANGED vars

LOG(t) == CheckLog(t) \/ LogMessage(t) \/ CheckFlush(t) \/ Flush(t) \/ Crash(t)

Next ==
  \/ CreateLogger \/ OpenFile \/ GiveUp \/ DeleteLogger
  \/ MainLogs \/ Stop \/ DeleteQueue \/ JoinWorkers
  \/ \E w \in Workers : WorkerLogs(w) \/ WorkerReturns(w)
  \/ Signal \/ SignalHandled
  \/ \E t \in Threads : LOG(t)
  \/ Ended

Spec == Init /\ [][Next]_vars

-----------------------------------------------------------------------------

Message == [by : Threads, nth : Nat \ {0}]

\* The type of the state.
TypeOK ==
  /\ logger \in BOOLEAN /\ lock \in BOOLEAN
  /\ log \in Seq(Message) /\ file \in Seq(Message)
  /\ text \in Nat /\ curr_log_len \in Nat /\ curr_log_size \in Nat
  /\ phase \in {"boot", "creating", "failed", "launching", "running", "stopping",
                "deleting", "freed", "joining", "joined", "closing", "exited", "killed", "aborted"}
  /\ pc \in [Threads -> {"idle", "check", "log", "checkFlush", "flush", "returned"}]
  /\ length \in [Threads -> Nat]
  /\ flushes \in [Threads -> 0 .. 2]
  /\ said \in [Threads -> Nat]
  /\ signum \in {"none", "SIGTERM", "SIGINT"}
  /\ told \in BOOLEAN

(***************************************************************************)
(* The text and its end of string are inside the buffer, although its      *)
(* length is counted by hand, is added to itself with every message and is *)
(* not set back by a flush (logger.c: Logger_log, Logger_flush).           *)
(***************************************************************************)
BufferFits == text + 1 <= curr_log_size

(***************************************************************************)
(* Between the check without the mutex and the access under the mutex the  *)
(* logger does not go away (logger.c: Logger_log, Logger_flush): main      *)
(* deletes it when no thread can be logging any more.  The one exception   *)
(* is a signal that comes while the file of the log cannot be opened.      *)
(***************************************************************************)
LoggerIsThere ==
  \A t \in Threads :
    pc[t] \in {"log", "flush"} => logger \/ (phase \in {"failed", "aborted"} /\ t = Handler)

(***************************************************************************)
(* When LOG returns the message is on the file, whoever logs and flushes   *)
(* at the same time, also when the process is then killed (server.c: LOG); *)
(* and the messages of a thread are there once and in their order.         *)
(***************************************************************************)
LoggedIsOnFile ==
  /\ \A t \in Threads : pc[t] \in {"idle", "returned"} =>
       \A n \in 1 .. said[t] : \E i \in DOMAIN file : file[i] = [by |-> t, nth |-> n]
  /\ \A i, j \in DOMAIN file :
       i < j /\ file[i].by = file[j].by => file[i].nth < file[j].nth
=============================================================================
