---------------------------- MODULE FileMonitor ----------------------------
(***************************************************************************)
(* How the worker threads of the server share the stored files.            *)
(*                                                                         *)
(* Every file carries a readers/writer monitor (struct File): `ordering',  *)
(* a gate a thread holds while it waits for its turn; `mutex', protecting  *)
(* the two counters; `go', the condition variable; and activeReaders and   *)
(* activeWriters.  The file-system carries one `overallMutex' around its   *)
(* dictionary of files.  The locking order is overallMutex, then ordering, *)
(* then mutex.  An operation                                               *)
(*   - takes overallMutex, looks its file up and takes the file's gate;    *)
(*   - hands overallMutex back at once (open, read, lock, unlock, close)   *)
(*     or keeps it while it works (append, remove, and the sweeps readN    *)
(*     and evictClient, which visit many files);                           *)
(*   - waits on `go' until the file is free, enters, works, and leaves.    *)
(* open and append may evict other files on the way, which frees them.     *)
(*                                                                         *)
(* The contents of the files are left to module FileSystem.  Here a file   *)
(* is the memory that a path stands for, and what is at stake is that no   *)
(* two operations collide on it, that nobody uses it after it was freed    *)
(* and that nobody sleeps forever.                                         *)
(***************************************************************************)
EXTENDS Naturals, FiniteSets

CONSTANTS
  Threads,   \* the worker threads
  Files,     \* the paths clients may name
  MaxFiles,  \* fs->maxNumOfFiles
  Ops,       \* the operations the threads perform
  NoThread,  \* "nobody holds this mutex"
  NoFile     \* "no file selected"

HandOff   == {"open", "read", "lock", "unlock", "close"}
Sweeps    == {"readN", "evictClient"}
ReadOps   == {"read", "readN"}
WriteOps  == {"open", "lock", "unlock", "close", "append", "evictClient"}
AllOps    == HandOff \cup Sweeps \cup {"append", "remove"}

ASSUME ThreadsAssumption  == IsFiniteSet(Threads) /\ NoThread \notin Threads
ASSUME FilesAssumption    == IsFiniteSet(Files) /\ NoFile \notin Files
ASSUME MaxFilesAssumption == MaxFiles \in Nat \ {0}
ASSUME OpsAssumption      == Ops \subseteq AllOps

VARIABLES
  filesDict,      \* the files the file-system holds
  overallMutex,   \* the thread holding fs->overallMutex
  ordering,       \* ... each file->ordering
  mutex,          \* ... each file->mutex
  go,             \* the threads asleep on each file->go
  activeReaders,  \* file->activeReaders
  activeWriters,  \* file->activeWriters
  pc, op,         \* where each thread is, and in which operation
  file,           \* the file its operation is about
  victim,         \* the file it is evicting meanwhile
  todo            \* the files its sweep has still to visit

fsVars     == <<filesDict, overallMutex>>
lockVars   == <<ordering, mutex, go>>
countVars  == <<activeReaders, activeWriters>>
threadVars == <<op, file, victim, todo>>
vars == <<fsVars, lockVars, countVars, pc, threadVars>>

Init ==
  /\ filesDict = {}
  /\ overallMutex = NoThread
  /\ ordering = [f \in Files |-> NoThread]
  /\ mutex = [f \in Files |-> NoThread]
  /\ go = [f \in Files |-> {}]
  /\ activeReaders = [f \in Files |-> 0]
  /\ activeWriters = [f \in Files |-> 0]
  /\ pc = [t \in Threads |-> "idle"]
  /\ op = [t \in Threads |-> "none"]
  /\ file = [t \in Threads |-> NoFile]
  /\ victim = [t \in Threads |-> NoFile]
  /\ todo = [t \in Threads |-> {}]

Goto(t, from, to) == pc[t] = from /\ pc' = [pc EXCEPT ![t] = to]

\* The file whose locks t is taking: the one it evicts, or its own.
Target(t) == IF victim[t] = NoFile THEN file[t] ELSE victim[t]

-----------------------------------------------------------------------------
(* Under the overall mutex: which file, and does it exist?                 *)

Call(t, o, f) ==
  /\ Goto(t, "idle", "overall")
  /\ op' = [op EXCEPT ![t] = o]
  /\ file' = [file EXCEPT ![t] = IF o \in Sweeps THEN NoFile ELSE f]
  /\ UNCHANGED <<fsVars, lockVars, countVars, victim, todo>>

LockOverall(t) ==
  /\ Goto(t, "overall", "lookup")
  /\ overallMutex = NoThread
  /\ overallMutex' = t
  /\ UNCHANGED <<filesDict, lockVars, countVars, threadVars>>

\* The operation fails before it touches a file: there is none of that name,
\* or the flags of open or the size of an append rule it out.
Refuse(t) ==
  /\ Goto(t, "lookup", "release")
  /\ op[t] \notin Sweeps
  /\ file[t] \notin filesDict \/ op[t] \in {"open", "append"}
  /\ UNCHANGED <<fsVars, lockVars, countVars, threadVars>>

Find(t) ==
  /\ Goto(t, "lookup", "ordering")
  /\ op[t] \notin Sweeps
  /\ file[t] \in filesDict
  /\ UNCHANGED <<fsVars, lockVars, countVars, threadVars>>

FindMissing(t) ==
  /\ Goto(t, "lookup", "room")
  /\ op[t] = "open"
  /\ file[t] \notin filesDict
  /\ UNCHANGED <<fsVars, lockVars, countVars, threadVars>>

\* A plausible bug of Create: the limit is off by one.
CreateOneTooMany(t) ==
  /\ Goto(t, "room", "ordering")
  /\ Cardinality(filesDict) <= MaxFiles
  /\ filesDict' = filesDict \cup {file[t]}
  /\ UNCHANGED <<overallMutex, lockVars, countVars, threadVars>>

\* A new file, with fresh locks, goes into the dictionary.
Create(t) ==
  /\ Goto(t, "room", "ordering")
  /\ Cardinality(filesDict) # MaxFiles
  /\ filesDict' = filesDict \cup {file[t]}
  /\ UNCHANGED <<overallMutex, lockVars, countVars, threadVars>>

StartSweep(t) ==
  /\ Goto(t, "lookup", "visit")
  /\ op[t] \in Sweeps
  /\ todo' = [todo EXCEPT ![t] = filesDict]
  /\ UNCHANGED <<fsVars, lockVars, countVars, op, file, victim>>

Visit(t) ==
  /\ Goto(t, "visit", "ordering")
  /\ \E f \in todo[t] :
       /\ file' = [file EXCEPT ![t] = f]
       /\ todo' = [todo EXCEPT ![t] = @ \ {f}]
  /\ UNCHANGED <<fsVars, lockVars, countVars, op, victim>>

\* evictClient visits every file; readN stops when it has read enough.
EndSweep(t) ==
  /\ Goto(t, "visit", "release")
  /\ todo[t] = {} \/ op[t] = "readN"
  /\ todo' = [todo EXCEPT ![t] = {}]
  /\ UNCHANGED <<fsVars, lockVars, countVars, op, file, victim>>

\* A full dictionary makes open evict some file, a full storage makes append
\* evict any file but the one it is writing.
Evict(t) ==
  \E v \in filesDict \ {file[t]} :
    /\ \/ Goto(t, "room", "ordering") /\ Cardinality(filesDict) = MaxFiles
       \/ Goto(t, "work", "ordering") /\ op[t] = "append"
    /\ victim' = [victim EXCEPT ![t] = v]
    /\ UNCHANGED <<fsVars, lockVars, countVars, op, file, todo>>

\* The locals of an operation are gone when it returns.
Forget(t) == file' = [file EXCEPT ![t] = NoFile] /\ UNCHANGED <<victim, todo>>

Release(t) ==
  /\ Goto(t, "release", "idle")
  /\ overallMutex' = NoThread
  /\ op' = [op EXCEPT ![t] = "none"]
  /\ Forget(t)
  /\ UNCHANGED <<filesDict, lockVars, countVars>>

-----------------------------------------------------------------------------
(* The monitor of one file: getting in.                                    *)

LockOrdering(t) ==
  /\ Goto(t, "ordering", "mutex")
  /\ ordering[Target(t)] = NoThread
  /\ ordering' = [ordering EXCEPT ![Target(t)] = t]
  /\ UNCHANGED <<fsVars, mutex, go, countVars, threadVars>>

LockMutex(t) ==
  /\ Goto(t, "mutex", IF op[t] \in HandOff /\ victim[t] = NoFile
                      THEN "handoff" ELSE "wait")
  /\ mutex[Target(t)] = NoThread
  /\ mutex' = [mutex EXCEPT ![Target(t)] = t]
  /\ UNCHANGED <<fsVars, ordering, go, countVars, threadVars>>

HandOverallBack(t) ==
  /\ Goto(t, "handoff", "wait")
  /\ overallMutex' = NoThread
  /\ UNCHANGED <<filesDict, lockVars, countVars, threadVars>>

\* A plausible bug of MustWait: a writer waits for other writers only.
MustWaitForWriters(t) == activeWriters[Target(t)] > 0

\* What the loops around pthread_cond_wait test: readers wait for writers
\* only, everybody else for readers too.
MustWait(t) ==
  \/ activeWriters[Target(t)] > 0
  \/ activeReaders[Target(t)] > 0 /\ op[t] \notin ReadOps

Sleep(t) ==
  /\ Goto(t, "wait", "asleep")
  /\ MustWait(t)
  /\ go' = [go EXCEPT ![Target(t)] = @ \cup {t}]
  /\ mutex' = [mutex EXCEPT ![Target(t)] = NoThread]
  /\ UNCHANGED <<fsVars, ordering, countVars, threadVars>>

\* pthread_cond_wait returns once it was signalled and has the mutex again.
Awake(t) ==
  /\ Goto(t, "asleep", "wait")
  /\ t \notin go[Target(t)]
  /\ mutex[Target(t)] = NoThread
  /\ mutex' = [mutex EXCEPT ![Target(t)] = t]
  /\ UNCHANGED <<fsVars, ordering, go, countVars, threadVars>>

\* POSIX lets a wait end without a signal.
SpuriousWakeup(t) ==
  /\ pc[t] = "asleep"
  /\ t \in go[Target(t)]
  /\ go' = [go EXCEPT ![Target(t)] = @ \ {t}]
  /\ UNCHANGED <<fsVars, ordering, mutex, countVars, pc, threadVars>>

\* remove does not count itself: it keeps everybody out with overallMutex.
Enter(t) ==
  /\ Goto(t, "wait", "unlockOrdering")
  /\ victim[t] = NoFile
  /\ ~ MustWait(t)
  /\ activeReaders' = [activeReaders EXCEPT ![file[t]] =
                         IF op[t] \in ReadOps THEN @ + 1 ELSE @]
  /\ activeWriters' = [activeWriters EXCEPT ![file[t]] =
                         IF op[t] \in WriteOps THEN @ + 1 ELSE @]
  /\ UNCHANGED <<fsVars, lockVars, threadVars>>

UnlockOrdering(t) ==
  /\ Goto(t, "unlockOrdering", "unlockMutex")
  /\ ordering' = [ordering EXCEPT ![file[t]] = NoThread]
  /\ UNCHANGED <<fsVars, mutex, go, countVars, threadVars>>

UnlockMutex(t) ==
  /\ Goto(t, "unlockMutex", "work")
  /\ mutex' = [mutex EXCEPT ![file[t]] = NoThread]
  /\ UNCHANGED <<fsVars, ordering, go, countVars, threadVars>>

-----------------------------------------------------------------------------
(* Working, and getting out.                                               *)

\* A plausible bug of FreeVictim: it does not wait for the users of the file.
FreeVictimAtOnce(t) ==
  /\ Goto(t, "wait", IF op[t] = "open" THEN "room" ELSE "work")
  /\ victim[t] # NoFile
  /\ filesDict' = filesDict \ {victim[t]}
  /\ ordering' = [ordering EXCEPT ![victim[t]] = NoThread]
  /\ mutex' = [mutex EXCEPT ![victim[t]] = NoThread]
  /\ victim' = [victim EXCEPT ![t] = NoFile]
  /\ UNCHANGED <<overallMutex, go, countVars, op, file, todo>>

\* The victim leaves the dictionary and is freed, its locks still taken.
FreeVictim(t) ==
  /\ Goto(t, "wait", IF op[t] = "open" THEN "room" ELSE "work")
  /\ victim[t] # NoFile
  /\ ~ MustWait(t)
  /\ filesDict' = filesDict \ {victim[t]}
  /\ ordering' = [ordering EXCEPT ![victim[t]] = NoThread]
  /\ mutex' = [mutex EXCEPT ![victim[t]] = NoThread]
  /\ victim' = [victim EXCEPT ![t] = NoFile]
  /\ UNCHANGED <<overallMutex, go, countVars, op, file, todo>>

\* remove frees the file, or finds that its client does not hold the lock.
Remove(t) ==
  /\ Goto(t, "work", "release")
  /\ op[t] = "remove"
  /\ filesDict' \in {filesDict, filesDict \ {file[t]}}
  /\ UNCHANGED <<overallMutex, lockVars, countVars, threadVars>>

\* append gives overallMutex back before it leaves the file.
EndWork(t) ==
  /\ Goto(t, "work", "relock")
  /\ op[t] # "remove"
  /\ overallMutex' = IF op[t] = "append" THEN NoThread ELSE overallMutex
  /\ UNCHANGED <<filesDict, lockVars, countVars, threadVars>>

Relock(t) ==
  /\ Goto(t, "relock", "leave")
  /\ mutex[file[t]] = NoThread
  /\ mutex' = [mutex EXCEPT ![file[t]] = t]
  /\ UNCHANGED <<fsVars, ordering, go, countVars, threadVars>>

\* pthread_cond_signal wakes one sleeping thread, if there is any.
Signal(f) ==
  \/ go[f] = {} /\ UNCHANGED go
  \/ \E u \in go[f] : go' = [go EXCEPT ![f] = @ \ {u}]

\* Plausible bugs of leaving a file: the last reader is told by the counter as
\* it was before it left; a reader leaves as a writer would; no writer signals.
LeaveReadUnnoticed(t) ==
  /\ op[t] \in ReadOps
  /\ activeReaders' = [activeReaders EXCEPT ![file[t]] = @ - 1]
  /\ IF activeReaders[file[t]] = 0 THEN Signal(file[t]) ELSE UNCHANGED go
  /\ UNCHANGED activeWriters

LeaveReadAsWriter(t) ==
  /\ op[t] \in ReadOps
  /\ activeWriters' = [activeWriters EXCEPT ![file[t]] = @ - 1]
  /\ Signal(file[t])
  /\ UNCHANGED activeReaders

LeaveWriteQuietly(t) ==
  /\ op[t] \in WriteOps
  /\ activeWriters' = [activeWriters EXCEPT ![file[t]] = @ - 1]
  /\ UNCHANGED <<go, activeReaders>>

\* Readers signal when the last one leaves, writers always, and evictClient
\* never.
LeaveRead(t) ==
  /\ op[t] \in ReadOps
  /\ activeReaders' = [activeReaders EXCEPT ![file[t]] = @ - 1]
  /\ IF activeReaders[file[t]] = 1 THEN Signal(file[t]) ELSE UNCHANGED go
  /\ UNCHANGED activeWriters

LeaveWrite(t) ==
  /\ op[t] \in WriteOps
  /\ activeWriters' = [activeWriters EXCEPT ![file[t]] = @ - 1]
  /\ IF op[t] = "evictClient" THEN UNCHANGED go ELSE Signal(file[t])
  /\ UNCHANGED activeReaders

Leave(t) ==
  /\ Goto(t, "leave", "unlock")
  /\ LeaveRead(t) \/ LeaveWrite(t)
  /\ UNCHANGED <<fsVars, ordering, mutex, threadVars>>

Unlock(t) ==
  /\ \/ Goto(t, "unlock", "visit") /\ op[t] \in Sweeps /\ UNCHANGED op
     \/ Goto(t, "unlock", "idle") /\ op[t] \notin Sweeps
                               /\ op' = [op EXCEPT ![t] = "none"]
  /\ mutex' = [mutex EXCEPT ![file[t]] = NoThread]
  /\ Forget(t)
  /\ UNCHANGED <<fsVars, ordering, go, countVars>>

-----------------------------------------------------------------------------

Step(t) ==
  \/ LockOverall(t) \/ Refuse(t) \/ Find(t) \/ FindMissing(t) \/ Create(t)
  \/ StartSweep(t) \/ Visit(t) \/ EndSweep(t) \/ Evict(t) \/ Release(t)
  \/ LockOrdering(t) \/ LockMutex(t) \/ HandOverallBack(t)
  \/ Sleep(t) \/ Awake(t) \/ Enter(t) \/ UnlockOrdering(t) \/ UnlockMutex(t)
  \/ FreeVictim(t) \/ Remove(t) \/ EndWork(t)
  \/ Relock(t) \/ Leave(t) \/ Unlock(t)

NewCall == \E t \in Threads, o \in Ops, f \in Files : Call(t, o, f)

Next ==
  \/ NewCall
  \/ \E t \in Threads : SpuriousWakeup(t)
  \/ \E t \in Threads : Step(t)

\* A thread that can go on forever does go on; nothing makes clients call, and
\* nothing is assumed about who gets a contended mutex.
Fairness == \A t \in Threads : WF_vars(Step(t))

Spec == Init /\ [][Next]_vars /\ Fairness

-----------------------------------------------------------------------------
(* Properties.                                                             *)

Labels == {"idle", "overall", "lookup", "room", "visit", "ordering", "mutex",
           "handoff", "wait", "asleep", "unlockOrdering", "unlockMutex",
           "work", "relock", "leave", "unlock", "release"}

\* Type invariant: the variables hold what the fields of struct File and of
\* struct FileSystem may hold; in particular no counter drops below zero.
TypeOK ==
  /\ filesDict \in SUBSET Files
  /\ overallMutex \in Threads \cup {NoThread}
  /\ ordering \in [Files -> Threads \cup {NoThread}]
  /\ mutex \in [Files -> Threads \cup {NoThread}]
  /\ go \in [Files -> SUBSET Threads]
  /\ activeReaders \in [Files -> Nat]
  /\ activeWriters \in [Files -> Nat]
  /\ pc \in [Threads -> Labels]
  /\ op \in [Threads -> Ops \cup {"none"}]
  /\ file \in [Threads -> Files \cup {NoFile}]
  /\ victim \in [Threads -> Files \cup {NoFile}]
  /\ todo \in [Threads -> SUBSET Files]

\* t is past the wait and has not yet left: it may touch the contents of f.
Inside(t, f) ==
  /\ file[t] = f
  /\ \/ pc[t] \in {"unlockOrdering", "unlockMutex", "work", "relock", "leave"}
     \/ victim[t] # NoFile /\ op[t] = "append"

\* Whoever writes a file is alone with it: two threads inside the same file,
\* with its locks released, are both readers.
WritersAreAlone ==
  \A t, u \in Threads, f \in Files :
    t # u /\ Inside(t, f) /\ Inside(u, f) => {op[t], op[u]} \subseteq ReadOps

\* t holds a pointer to f that it is going to follow.
Refers(t, f) ==
  \/ Inside(t, f)
  \/ Target(t) = f /\ pc[t] \in {"ordering", "mutex", "handoff", "wait",
                               "asleep", "unlock"}

\* A file that eviction or removal freed is not used afterwards by a thread
\* that looked it up before.
NoUseAfterFree ==
  \A t \in Threads, f \in Files : Refers(t, f) => f \in filesDict

\* No lost wakeup: a thread asleep on `go' is the only one, so that one signal
\* is enough, and what it waits for has not happened yet.
NobodySleepsInVain ==
  \A f \in Files, t \in Threads : t \in go[f] =>
    go[f] = {t} /\ pc[t] = "asleep" /\ Target(t) = f /\ MustWait(t)

\* The dictionary never holds more files than it was configured for, also
\* while several opens race for the last place.
FilesWithinLimit == Cardinality(filesDict) <= MaxFiles

\* The file-system as its operations see it: who reads and who writes what.
ReadersOf(f) == {t \in Threads : Inside(t, f) /\ op[t] \in ReadOps}
WritersOf(f) == {t \in Threads : Inside(t, f) /\ op[t] \notin ReadOps}

Access == INSTANCE FileAccess WITH
            files   <- filesDict,
            readers <- [f \in Files |-> ReadersOf(f)],
            writers <- [f \in Files |-> WritersOf(f)]

\* Refinement: all the mutexes, counters and signals amount to file accesses
\* that exclude one another as FileAccess says.
ImplementsFileAccess == Access!Spec

\* Once calls stop arriving (and sleepers are not woken for nothing over and
\* over), every operation returns: no deadlock among overallMutex, ordering,
\* mutex and go, and no sleeper forgotten, whoever wins a contended mutex.
Quiet == <>[][~ (NewCall \/ \E t \in Threads : SpuriousWakeup(t))]_vars
EveryCallReturns == Quiet => \A t \in Threads : <>[](pc[t] = "idle")

-----------------------------------------------------------------------------
(* The inductive invariant: who holds what, read off the program counters. *)

HoldsOverall(t) ==
  \/ pc[t] \in {"lookup", "room", "visit", "ordering", "mutex", "handoff",
                "release"}
  \/ pc[t] \in {"wait", "asleep"} /\ (op[t] \notin HandOff \/ victim[t] # NoFile)
  \/ pc[t] \in {"unlockOrdering", "unlockMutex", "work"} /\ op[t] \notin HandOff
  \/ pc[t] \in {"relock", "leave", "unlock"} /\ op[t] \in Sweeps

HoldsOrdering(t, f) ==
  /\ Target(t) = f
  /\ pc[t] \in {"mutex", "handoff", "wait", "asleep", "unlockOrdering"}

HoldsMutex(t, f) ==
  /\ Target(t) = f
  /\ pc[t] \in {"handoff", "wait", "unlockOrdering", "unlockMutex", "leave",
                "unlock"}

\* A mutex is held by the one thread that is where it should hold it.
MutexesHeld ==
  /\ \A t \in Threads : overallMutex = t <=> HoldsOverall(t)
  /\ \A t \in Threads, f \in Files : ordering[f] = t <=> HoldsOrdering(t, f)
  /\ \A t \in Threads, f \in Files : mutex[f] = t <=> HoldsMutex(t, f)

\* What the locals of a thread may be at each place of the code.
LocalsFit == \A t \in Threads :
  /\ pc[t] = "idle" => file[t] = NoFile
  /\ pc[t] # "idle" => op[t] \in Ops
  /\ pc[t] \in {"overall", "lookup"} /\ op[t] \notin Sweeps => file[t] \in Files
  /\ pc[t] \in {"overall", "lookup", "visit"} /\ op[t] \in Sweeps => file[t] = NoFile
  /\ pc[t] \in {"room", "ordering", "mutex", "handoff", "wait", "asleep",
                "unlockOrdering", "unlockMutex", "work", "relock", "leave",
                "unlock"} => file[t] \in Files
  /\ pc[t] = "room" => op[t] = "open" /\ file[t] \notin filesDict
  /\ pc[t] = "visit" => op[t] \in Sweeps
  /\ pc[t] = "handoff" => op[t] \in HandOff /\ victim[t] = NoFile
  /\ pc[t] \in {"relock", "leave", "unlock"} => op[t] # "remove"
  /\ victim[t] # NoFile =>
       /\ pc[t] \in {"ordering", "mutex", "wait", "asleep"}
       /\ op[t] \in {"open", "append"} /\ file[t] \in Files /\ victim[t] # file[t]
       /\ op[t] = "open" => file[t] \notin filesDict
  /\ todo[t] \subseteq filesDict
  /\ pc[t] \in {"idle", "overall", "lookup", "release"} \/ op[t] \notin Sweeps
       => todo[t] = {}

\* The counters count the threads inside; remove is inside without counting.
CountersExact == \A f \in Files :
  /\ activeReaders[f] = Cardinality(ReadersOf(f))
  /\ activeWriters[f] = Cardinality({t \in WritersOf(f) : op[t] # "remove"})

\* While a thread inside f keeps overallMutex nobody else is at the gate of f.
\* This is why evictClient need not signal.
GateShut ==
  \A t, u \in Threads, f \in Files :
    t # u /\ Inside(t, f) /\ HoldsOverall(t) => ~ HoldsOrdering(u, f)

\* While a file is being removed nobody else has a hand on it.
RemoverIsAlone ==
  \A t, u \in Threads, f \in Files :
    t # u /\ Inside(t, f) /\ op[t] = "remove" => ~ Refers(u, f)

IInv == /\ TypeOK /\ MutexesHeld /\ LocalsFit /\ CountersExact
        /\ GateShut /\ RemoverIsAlone /\ WritersAreAlone /\ NoUseAfterFree
        /\ NobodySleepsInVain /\ FilesWithinLimit

=============================================================================
