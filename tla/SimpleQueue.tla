----------------------------- MODULE SimpleQueue -----------------------------
(***************************************************************************)
(* The queue through which the main thread of the server hands connections *)
(* to its workers (simple_queue.c), from its creation to its deletion.     *)
(*                                                                         *)
(* The lock, the condition variable and the deletion flag of a queue live  *)
(* in a QueueData that a global dictionary, under its own iqdl_lock, finds *)
(* by the queue's address.  Every operation takes iqdl_lock, looks the     *)
(* queue up and takes its lock.  enqueue, dequeue and length give          *)
(* iqdl_lock back before they go on; delete keeps it, tells the sleepers,  *)
(* waits until nobody uses the lock any more and frees everything.         *)
(*                                                                         *)
(* An element is the descriptor of a connection: a thread enqueues only    *)
(* what is neither in the queue nor in another thread's hands.             *)
(***************************************************************************)
EXTENDS Naturals, Sequences, FiniteSets

CONSTANTS
  Threads,    \* the threads that use the queue
  Elements,   \* what they put into it
  Ops,        \* the operations they perform
  NoThread,   \* "nobody holds this lock"
  NoElement   \* NULL

AllOps == {"enqueue", "dequeue", "dequeueNow", "length", "delete"}

ASSUME QueueThreadsAssumption  == IsFiniteSet(Threads) /\ NoThread \notin Threads
ASSUME ElementsAssumption == NoElement \notin Elements
ASSUME QueueOpsAssumption == Ops \subseteq AllOps

VARIABLES
  iqdl_lock,            \* the thread holding the lock of the dictionary
  state,                \* the queue: "none" yet, "live" or "freed"
  lock,                 \* the thread holding queue_data->lock
  read_cond,            \* the threads asleep on queue_data->read_cond
  to_be_canceled_soon,
  queue,                \* queue->queue
  pc, op,               \* where each thread is, and in which operation
  element               \* the element it puts in or takes out

lockVars == <<iqdl_lock, lock, read_cond>>
dataVars == <<state, to_be_canceled_soon, queue>>
vars == <<lockVars, dataVars, pc, op, element>>

Init ==
  /\ iqdl_lock = NoThread
  /\ state = "none"
  /\ lock = NoThread
  /\ read_cond = {}
  /\ to_be_canceled_soon = FALSE
  /\ queue = <<>>
  /\ pc = [t \in Threads |-> "idle"]
  /\ op = [t \in Threads |-> "none"]
  /\ element = [t \in Threads |-> NoElement]

Goto(t, from, to) == pc[t] = from /\ pc' = [pc EXCEPT ![t] = to]

InUse == {queue[i] : i \in DOMAIN queue} \cup {element[t] : t \in Threads}

-----------------------------------------------------------------------------
(* Finding the queue.                                                      *)

\* All of SimpleQueue_create happens under iqdl_lock.
Create ==
  /\ state = "none"
  /\ iqdl_lock = NoThread
  /\ state' = "live"
  /\ UNCHANGED <<lockVars, to_be_canceled_soon, queue, pc, op, element>>

\* The queue's address, once there is one, outlives the queue.
Call(t, o) ==
  /\ state # "none"
  /\ Goto(t, "idle", "dictionary")
  /\ op' = [op EXCEPT ![t] = o]
  /\ IF o = "enqueue"
     THEN \E e \in Elements \ InUse : element' = [element EXCEPT ![t] = e]
     ELSE UNCHANGED element
  /\ UNCHANGED <<lockVars, dataVars>>

LockDictionary(t) ==
  /\ Goto(t, "dictionary", "search")
  /\ iqdl_lock = NoThread
  /\ iqdl_lock' = t
  /\ UNCHANGED <<lock, read_cond, dataVars, op, element>>

Find(t) ==
  /\ Goto(t, "search", "lock")
  /\ state = "live" /\ ~ to_be_canceled_soon
  /\ UNCHANGED <<lockVars, dataVars, op, element>>

\* E_SQ_NO_QUEUE or E_SQ_QUEUE_DELETED.
Refuse(t) ==
  /\ Goto(t, "search", "idle")
  /\ state = "freed" \/ to_be_canceled_soon
  /\ iqdl_lock' = NoThread
  /\ op' = [op EXCEPT ![t] = "none"]
  /\ element' = [element EXCEPT ![t] = NoElement]
  /\ UNCHANGED <<lock, read_cond, dataVars>>

LockQueue(t) ==
  /\ Goto(t, "lock", IF op[t] = "delete" THEN "cancel" ELSE "found")
  /\ lock = NoThread
  /\ lock' = t
  /\ UNCHANGED <<iqdl_lock, read_cond, dataVars, op, element>>

UnlockDictionary(t) ==
  /\ Goto(t, "found", CASE op[t] = "enqueue" -> "insert"
                        [] op[t] = "length"  -> "unlock"
                        [] OTHER             -> "test")
  /\ iqdl_lock' = NoThread
  /\ UNCHANGED <<lock, read_cond, dataVars, op, element>>

\* The end of enqueue, dequeue and length; the caller of dequeue now has the
\* element in its hands.
Unlock(t) ==
  /\ Goto(t, "unlock", "returned")
  /\ lock' = NoThread
  /\ UNCHANGED <<iqdl_lock, read_cond, dataVars, op, element>>

\* The thread is done with the element it took, or gave.
Done(t) ==
  /\ Goto(t, "returned", "idle")
  /\ op' = [op EXCEPT ![t] = "none"]
  /\ element' = [element EXCEPT ![t] = NoElement]
  /\ UNCHANGED <<lockVars, dataVars>>

-----------------------------------------------------------------------------
(* enqueue and dequeue.                                                    *)

Insert(t) ==
  /\ Goto(t, "insert", "signal")
  /\ queue' = Append(queue, element[t])
  /\ element' = [element EXCEPT ![t] = NoElement]
  /\ UNCHANGED <<lockVars, state, to_be_canceled_soon, op>>

\* A plausible bug of Signal: only the first element is announced.
SignalFirstOnly(t) ==
  /\ Goto(t, "signal", "unlock")
  /\ \/ read_cond = {} /\ UNCHANGED read_cond
     \/ Len(queue) > 1 /\ UNCHANGED read_cond
     \/ Len(queue) = 1 /\ \E u \in read_cond : read_cond' = read_cond \ {u}
  /\ UNCHANGED <<iqdl_lock, lock, dataVars, op, element>>

\* pthread_cond_signal wakes one sleeping thread, if there is any.
Signal(t) ==
  /\ Goto(t, "signal", "unlock")
  /\ \/ read_cond = {} /\ UNCHANGED read_cond
     \/ \E u \in read_cond : read_cond' = read_cond \ {u}
  /\ UNCHANGED <<iqdl_lock, lock, dataVars, op, element>>

\* A plausible bug of Sleep: the flag is not looked at.
SleepOnAndOn(t) ==
  /\ Goto(t, "test", "asleep")
  /\ queue = <<>> /\ op[t] = "dequeue"
  /\ read_cond' = read_cond \cup {t}
  /\ lock' = NoThread
  /\ UNCHANGED <<iqdl_lock, dataVars, op, element>>

Sleep(t) ==
  /\ Goto(t, "test", "asleep")
  /\ queue = <<>> /\ ~ to_be_canceled_soon /\ op[t] = "dequeue"
  /\ read_cond' = read_cond \cup {t}
  /\ lock' = NoThread
  /\ UNCHANGED <<iqdl_lock, dataVars, op, element>>

\* pthread_cond_wait returns once it was signalled and has the lock again.
Awake(t) ==
  /\ Goto(t, "asleep", "test")
  /\ t \notin read_cond
  /\ lock = NoThread
  /\ lock' = t
  /\ UNCHANGED <<iqdl_lock, read_cond, dataVars, op, element>>

\* POSIX lets a wait end without a signal.
SpuriousWakeup(t) ==
  /\ t \in read_cond
  /\ read_cond' = read_cond \ {t}
  /\ UNCHANGED <<iqdl_lock, lock, dataVars, pc, op, element>>

\* E_SQ_EMPTY_QUEUE, or E_SQ_QUEUE_DELETED whether there are elements or not.
ComeBackEmpty(t) ==
  /\ Goto(t, "test", "unlock")
  /\ to_be_canceled_soon \/ (queue = <<>> /\ op[t] = "dequeueNow")
  /\ UNCHANGED <<lockVars, dataVars, op, element>>

\* A plausible bug of ReadHead: the flag is not looked at.
ReadHeadAnyway(t) ==
  /\ Goto(t, "test", "deleteHead")
  /\ queue # <<>>
  /\ element' = [element EXCEPT ![t] = Head(queue)]
  /\ UNCHANGED <<lockVars, dataVars, op>>

\* The element is read first, and its node deleted afterwards.
ReadHead(t) ==
  /\ Goto(t, "test", "deleteHead")
  /\ queue # <<>> /\ ~ to_be_canceled_soon
  /\ element' = [element EXCEPT ![t] = Head(queue)]
  /\ UNCHANGED <<lockVars, dataVars, op>>

DeleteHead(t) ==
  /\ Goto(t, "deleteHead", "unlock")
  /\ queue' = Tail(queue)
  /\ UNCHANGED <<lockVars, state, to_be_canceled_soon, op, element>>

-----------------------------------------------------------------------------
(* delete, which holds iqdl_lock from here on to its end.                  *)

\* It raises the flag, tells the sleepers and lets go of the lock.
Cancel(t) ==
  /\ Goto(t, "cancel", "destroy")
  /\ to_be_canceled_soon' = TRUE
  /\ read_cond' = {}
  /\ lock' = NoThread
  /\ UNCHANGED <<iqdl_lock, state, queue, op, element>>

\* A plausible bug: the threads in pthread_cond_wait are not waited for.
UsersAwake == {t \in Threads : lock = t}

\* The users of a mutex as the C library of Linux counts them: the thread that
\* holds it and those in pthread_cond_wait, which have let go of it for a while.
Users == {t \in Threads : lock = t \/ pc[t] = "asleep"}

\* pthread_mutex_destroy answers EBUSY: tell the sleepers again.
LockAgain(t) ==
  /\ Goto(t, "destroy", "tellAgain")
  /\ Users # {}
  /\ lock = NoThread
  /\ lock' = t
  /\ UNCHANGED <<iqdl_lock, read_cond, dataVars, op, element>>

TellAgain(t) ==
  /\ Goto(t, "tellAgain", "destroy")
  /\ read_cond' = {}
  /\ lock' = NoThread
  /\ UNCHANGED <<iqdl_lock, dataVars, op, element>>

\* The lock is destroyed, queue_data and the queue are freed.
Free(t) ==
  /\ Goto(t, "destroy", "returned")
  /\ Users = {}
  /\ state' = "freed"
  /\ iqdl_lock' = NoThread
  /\ UNCHANGED <<lock, read_cond, to_be_canceled_soon, queue, op, element>>

-----------------------------------------------------------------------------

Lockings(t) == LockDictionary(t) \/ LockQueue(t) \/ Awake(t) \/ LockAgain(t)

Step(t) ==
  \/ Lockings(t)
  \/ Find(t) \/ Refuse(t) \/ UnlockDictionary(t) \/ Unlock(t) \/ Done(t)
  \/ Insert(t) \/ Signal(t) \/ Sleep(t) \/ ComeBackEmpty(t)
  \/ ReadHead(t) \/ DeleteHead(t)
  \/ Cancel(t) \/ TellAgain(t) \/ Free(t)

Next ==
  \/ Create
  \/ \E t \in Threads, o \in Ops : Call(t, o)
  \/ \E t \in Threads : SpuriousWakeup(t)
  \/ \E t \in Threads : Step(t)

\* A thread that can go on does go on, and one that asks for a lock that is
\* free again and again gets it some day: delete takes the lock over and over
\* while it waits for the sleepers to take it.
Fairness == \A t \in Threads : WF_vars(Step(t)) /\ SF_vars(Lockings(t))

Spec == Init /\ [][Next]_vars /\ Fairness

-----------------------------------------------------------------------------
(* Properties.                                                             *)

Labels == {"idle", "dictionary", "search", "lock", "found", "insert", "signal",
           "test", "asleep", "deleteHead", "unlock", "returned",
           "cancel", "destroy", "tellAgain"}

\* Type invariant.
TypeOK ==
  /\ iqdl_lock \in Threads \cup {NoThread}
  /\ state \in {"none", "live", "freed"}
  /\ lock \in Threads \cup {NoThread}
  /\ read_cond \subseteq Threads
  /\ to_be_canceled_soon \in BOOLEAN
  /\ queue \in Seq(Elements)
  /\ pc \in [Threads -> Labels]
  /\ op \in [Threads -> Ops \cup {"none"}]
  /\ element \in [Threads -> Elements \cup {NoElement}]

\* t is going to touch the lock, the condition variable, the flag or the list.
Uses(t) == pc[t] \notin {"idle", "dictionary", "search", "returned"}

\* A queue is freed only when no thread that found it before is still going to
\* use it, one that sleeps in dequeue included.
NoUseAfterFree == \A t \in Threads : Uses(t) => state = "live"

\* No lost wakeup: while a thread sleeps, every element in the queue has a
\* thread on its way to it, or one that is about to send it there.
NobodySleepsInVain ==
  read_cond # {} =>
    Len(queue) <= Cardinality({t \in Threads :
      \/ pc[t] = "asleep" /\ t \notin read_cond
      \/ pc[t] \in {"test", "deleteHead", "signal"}})

Box == INSTANCE Mailbox WITH
         box    <- queue,
         hand   <- [t \in Threads |->
                      IF op[t] \in {"dequeue", "dequeueNow"} /\ pc[t] \in {"unlock", "returned"}
                      THEN element[t] ELSE NoElement],
         closed <- to_be_canceled_soon

\* Refinement: whatever threads do at the same time, elements come out once,
\* in the order they went in, and none after the queue was cancelled.
ImplementsMailbox == Box!Spec

\* Once delete has raised the flag everybody leaves: the sleepers, the threads
\* that come too late and delete itself, which waits for them.
EverybodyLeaves ==
  \A t \in Threads : (to_be_canceled_soon /\ pc[t] # "idle") ~> pc[t] = "idle"
=============================================================================
