----------------------------- MODULE FileSystem -----------------------------
(***************************************************************************)
(* What the operations of the file-system (file-system.c) do to the stored *)
(* files: who has opened them, who has locked them and who waits for the   *)
(* lock, who may use writeFile, how much they store, and which file the    *)
(* replacement policy evicts.                                              *)
(*                                                                         *)
(* Every operation is one step.  This is what the monitors of module       *)
(* FileMonitor are for: the operations on one file follow each other in    *)
(* the order in which they took overallMutex, readers excepted, which all  *)
(* store the same zero into ownerCanWrite.                                 *)
(*                                                                         *)
(* lockFile, unlockFile, openFile, appendToFile, removeFile and            *)
(* evictClient also return clients: those that must be told that a lock is *)
(* theirs, or that the file they were waiting for is gone.  `parked' is    *)
(* the caller's side of that: it is computed from what the operations      *)
(* return and from nothing else.                                           *)
(***************************************************************************)
EXTENDS Integers, SequencesExt

CONSTANTS
  Owners,      \* OwnerId: the clients
  Paths,       \* the paths they may name
  NoOwner,     \* the id 0
  MaxFiles,    \* fs->maxNumOfFiles
  MaxStorage,  \* fs->maxStorageSize
  Sizes,       \* the sizes of the contents clients append
  Policies     \* the replacement policies the server may be configured with

ASSUME OwnersAssumption == NoOwner \notin Owners
ASSUME LimitsAssumption == MaxFiles \in Nat \ {0} /\ MaxStorage \in Nat \ {0}
ASSUME SizesAssumption  == Sizes \subseteq Nat \ {0}
ASSUME PolicyAssumption == Policies \subseteq {"FIFO", "LRU"}

VARIABLES
  \* struct FileSystem
  replacementPolicy,   \* set once, when the file-system is created
  filesDict,           \* the paths that are bound to a file
  filesList,           \* the same files in replacement order, last one first out
  currentNumOfFiles,
  currentStorageSize,
  \* struct File, by path; its initial value where there is no file
  size,
  currentlyLockedBy,
  ownerCanWrite,
  waitingLockers,
  openedBy,
  \* the caller
  parked               \* <<o, p>>: o was left waiting for the lock of p

bookVars == <<replacementPolicy, filesDict, currentNumOfFiles,
              currentStorageSize, size>>
lockVars == <<currentlyLockedBy, waitingLockers, parked>>
vars     == <<bookVars, filesList, lockVars, ownerCanWrite, openedBy>>

Init ==
  /\ replacementPolicy \in Policies
  /\ filesDict = {}
  /\ filesList = <<>>
  /\ currentNumOfFiles = 0
  /\ currentStorageSize = 0
  /\ size = [p \in Paths |-> 0]
  /\ currentlyLockedBy = [p \in Paths |-> NoOwner]
  /\ ownerCanWrite = [p \in Paths |-> NoOwner]
  /\ waitingLockers = [p \in Paths |-> <<>>]
  /\ openedBy = [p \in Paths |-> {}]
  /\ parked = {}

-----------------------------------------------------------------------------
(* The replacement list.                                                   *)

\* A plausible bug of ToTheTop: the file stays where it was, too.
AlsoToTheTop(p, list) == Cons(p, list)

ToTheTop(p, list) == Cons(p, RemoveFirst(list, p))

\* Under LRU, using a file puts it on top of the list.
Touched(p, list) == IF replacementPolicy = "LRU" THEN ToTheTop(p, list) ELSE list

\* What is left of a list of these files, or without them, in the same order.
Among(list, files) ==
  LET kept[n \in 0 .. Len(list)] ==
        IF n = 0 THEN <<>>
        ELSE IF list[n] \in files THEN Append(kept[n - 1], list[n]) ELSE kept[n - 1]
  IN  kept[Len(list)]

Without(list, gone) == Among(list, Paths \ gone)

\* The last n files of a list.
LastOf(list, n) == {list[i] : i \in Len(list) - n + 1 .. Len(list)}

Stored(files) == SumFunctionOnSet(size, files)

\* A plausible bug of EvictedFor: eviction starts from the top.
EvictedFromTopFor(p, content) ==
  IF currentStorageSize + content < MaxStorage THEN {} ELSE {filesList[1]} \ {p}

\* appendToFile evicts from the end of the list, sparing the file it writes,
\* until the storage has room for the content: that file alone always leaves
\* room, or the append would have been refused.
EvictedFor(p, content) ==
  LET others  == RemoveFirst(filesList, p)
      Room(n) == currentStorageSize - Stored(LastOf(others, n)) + content < MaxStorage
  IN  LastOf(others, CHOOSE n \in 0 .. Len(others) :
                     /\ Room(n) \/ n = Len(others)
                     /\ \A m \in 0 .. n - 1 : ~ Room(m))

\* openFile evicts one file when there are as many as allowed.
EvictedByNew == IF currentNumOfFiles = MaxFiles THEN LastOf(filesList, 1) ELSE {}

\* A field of struct File once the files gone are freed.
Dropped(field, gone, initial) ==
  [p \in Paths |-> IF p \in gone THEN initial ELSE field[p]]

\* A plausible bug of Waiting: only the first client in line is returned.
WaitingFirst(gone) ==
  {w \in Owners \X gone : waitingLockers[w[2]] # <<>> /\ w[1] = Head(waitingLockers[w[2]])}

\* The clients that are returned with files that go away.
Waiting(gone) ==
  {w \in Owners \X gone : w[1] \in ToSet(waitingLockers[w[2]])}

ReturnWaiting(gone) ==
  /\ waitingLockers' = Dropped(waitingLockers, gone, <<>>)
  /\ parked' = parked \ Waiting(gone)

-----------------------------------------------------------------------------
(* Operations.                                                             *)

LockedByOther(o, p) == currentlyLockedBy[p] \notin {o, NoOwner}

\* A plausible bug of ForbidWrite: a lock protects the right to write.
ForbidWriteIfUnlocked(p) ==
  ownerCanWrite' = [ownerCanWrite EXCEPT ![p] =
                      IF currentlyLockedBy[p] = NoOwner THEN NoOwner ELSE @]

\* Nobody may use writeFile on p any more.
ForbidWrite(p) == ownerCanWrite' = [ownerCanWrite EXCEPT ![p] = NoOwner]

\* openFile(pathname, O_CREATE or O_CREATE | O_LOCK) of a new file.
OpenNew(o, p, locking) ==
  LET gone  == EvictedByNew
      owner == IF locking THEN o ELSE NoOwner
  IN  /\ p \notin filesDict
      /\ filesDict' = (filesDict \ gone) \cup {p}
      /\ filesList' = Cons(p, Without(filesList, gone))
      /\ currentNumOfFiles' = currentNumOfFiles - Cardinality(gone) + 1
      /\ currentStorageSize' = currentStorageSize - Stored(gone)
      /\ size' = [Dropped(size, gone, 0) EXCEPT ![p] = 0]
      /\ currentlyLockedBy' =
           [Dropped(currentlyLockedBy, gone, NoOwner) EXCEPT ![p] = owner]
      /\ ownerCanWrite' =
           [Dropped(ownerCanWrite, gone, NoOwner) EXCEPT ![p] = owner]
      /\ openedBy' = [Dropped(openedBy, gone, {}) EXCEPT ![p] = {o}]
      /\ ReturnWaiting(gone)
      /\ UNCHANGED replacementPolicy

OpenRefused(o, p) == LockedByOther(o, p) \/ o \in openedBy[p]

\* openFile(pathname, 0 or O_LOCK) of a file that is there.
Open(o, p, locking) ==
  /\ p \in filesDict
  /\ filesList' = Touched(p, filesList)
  /\ IF OpenRefused(o, p)
     THEN UNCHANGED <<currentlyLockedBy, ownerCanWrite, openedBy>>
     ELSE /\ currentlyLockedBy' = [currentlyLockedBy EXCEPT ![p] =
                                     IF locking THEN o ELSE @]
          /\ openedBy' = [openedBy EXCEPT ![p] = @ \cup {o}]
          /\ ForbidWrite(p)
  /\ UNCHANGED <<bookVars, waitingLockers, parked>>

ReadRefused(o, p) == LockedByOther(o, p) \/ o \notin openedBy[p]

ReadFile(o, p) ==
  /\ p \in filesDict
  /\ filesList' = Touched(p, filesList)
  /\ IF ReadRefused(o, p) THEN UNCHANGED ownerCanWrite ELSE ForbidWrite(p)
  /\ UNCHANGED <<bookVars, lockVars, openedBy>>

\* readNFile reads the first n files that nobody else has locked, or all of
\* them, and puts them on top of the list in the order they already had.
ReadNFile(o, n) ==
  LET free == Among(filesList, {p \in Paths : ~ LockedByOther(o, p)})
      read == ToSet(IF n <= 0 \/ n >= Len(free) THEN free ELSE SubSeq(free, 1, n))
  IN  /\ filesList' = IF replacementPolicy = "LRU"
                      THEN Among(filesList, read) \o Without(filesList, read)
                      ELSE filesList
      /\ UNCHANGED <<bookVars, lockVars, ownerCanWrite, openedBy>>

\* A plausible bug of WriteRefused: the storage limit is off by one.
WriteRefusedBeyond(o, p, content, write) ==
  \/ size[p] + content > MaxStorage
  \/ LockedByOther(o, p)
  \/ write /\ ownerCanWrite[p] # o
  \/ o \notin openedBy[p]

WriteRefused(o, p, content, write) ==
  \/ size[p] + content >= MaxStorage
  \/ LockedByOther(o, p)
  \/ write /\ ownerCanWrite[p] # o
  \/ o \notin openedBy[p]

\* appendToFile and, with the write flag, writeFile.
AppendToFile(o, p, content, write) ==
  LET gone == EvictedFor(p, content)
  IN  /\ p \in filesDict
      /\ ~ WriteRefused(o, p, content, write)
      /\ filesDict' = filesDict \ gone
      /\ filesList' = Touched(p, Without(filesList, gone))
      /\ currentNumOfFiles' = currentNumOfFiles - Cardinality(gone)
      /\ currentStorageSize' = currentStorageSize - Stored(gone) + content
      /\ size' = [Dropped(size, gone, 0) EXCEPT ![p] = @ + content]
      /\ currentlyLockedBy' = Dropped(currentlyLockedBy, gone, NoOwner)
      /\ ownerCanWrite' = Dropped(ownerCanWrite, gone \cup {p}, NoOwner)
      /\ openedBy' = Dropped(openedBy, gone, {})
      /\ ReturnWaiting(gone)
      /\ UNCHANGED replacementPolicy

\* Plausible bugs of GetInLine: it does not look for the client in the line;
\* it puts the client first.
GetInLineAgain(o, p) ==
  /\ waitingLockers' = [waitingLockers EXCEPT ![p] = Append(@, o)]
  /\ parked' = parked \cup {<<o, p>>}

GetInLineFirst(o, p) ==
  /\ ~ Contains(waitingLockers[p], o)
  /\ waitingLockers' = [waitingLockers EXCEPT ![p] = Cons(o, @)]
  /\ parked' = parked \cup {<<o, p>>}

\* A client that is not in the line yet gets in; told E_FS_FILE_IS_LOCKED, its
\* worker leaves it waiting for its answer.
GetInLine(o, p) ==
  IF Contains(waitingLockers[p], o)
  THEN UNCHANGED <<waitingLockers, parked>>
  ELSE /\ waitingLockers' = [waitingLockers EXCEPT ![p] = Append(@, o)]
       /\ parked' = parked \cup {<<o, p>>}

LockFile(o, p) ==
  /\ p \in filesDict
  /\ filesList' = Touched(p, filesList)
  /\ ForbidWrite(p)
  /\ IF LockedByOther(o, p)
     THEN GetInLine(o, p) /\ UNCHANGED currentlyLockedBy
     ELSE /\ currentlyLockedBy' = [currentlyLockedBy EXCEPT ![p] = o]
          /\ UNCHANGED <<waitingLockers, parked>>
  /\ UNCHANGED <<bookVars, openedBy>>

NextLocker(p) == IF waitingLockers[p] = <<>> THEN NoOwner ELSE Head(waitingLockers[p])
LeftInLine(p) == IF waitingLockers[p] = <<>> THEN <<>> ELSE Tail(waitingLockers[p])

UnlockFile(o, p) ==
  /\ p \in filesDict
  /\ filesList' = Touched(p, filesList)
  /\ ForbidWrite(p)
  /\ IF currentlyLockedBy[p] # o
     THEN UNCHANGED lockVars
     ELSE /\ currentlyLockedBy' = [currentlyLockedBy EXCEPT ![p] = NextLocker(p)]
          /\ waitingLockers' = [waitingLockers EXCEPT ![p] = LeftInLine(p)]
          /\ parked' = parked \ {<<NextLocker(p), p>>}
  /\ UNCHANGED <<bookVars, openedBy>>

\* Closing a file neither unlocks it nor takes writeFile away.
CloseFile(o, p) ==
  /\ p \in filesDict
  /\ filesList' = Touched(p, filesList)
  /\ openedBy' = [openedBy EXCEPT ![p] = @ \ {o}]
  /\ UNCHANGED <<bookVars, lockVars, ownerCanWrite>>

RemoveFile(o, p) ==
  /\ p \in filesDict
  /\ currentlyLockedBy[p] = o
  /\ filesDict' = filesDict \ {p}
  /\ filesList' = RemoveFirst(filesList, p)
  /\ currentNumOfFiles' = currentNumOfFiles - 1
  /\ currentStorageSize' = currentStorageSize - size[p]
  /\ size' = Dropped(size, {p}, 0)
  /\ currentlyLockedBy' = Dropped(currentlyLockedBy, {p}, NoOwner)
  /\ ForbidWrite(p)
  /\ openedBy' = Dropped(openedBy, {p}, {})
  /\ ReturnWaiting({p})
  /\ UNCHANGED replacementPolicy

\* A client that is gone leaves every file: its locks pass on, and it stops
\* waiting, writing and having opened anything.
EvictClient(o) ==
  LET held == {p \in filesDict : currentlyLockedBy[p] = o}
      line == [p \in Paths |-> IF p \in held THEN LeftInLine(p)
                               ELSE waitingLockers[p]]
  IN  /\ currentlyLockedBy' =
           [p \in Paths |-> IF p \in held THEN NextLocker(p) ELSE currentlyLockedBy[p]]
      /\ ownerCanWrite' =
           [p \in Paths |-> IF ownerCanWrite[p] = o THEN NoOwner ELSE ownerCanWrite[p]]
      /\ openedBy' = [p \in Paths |-> openedBy[p] \ {o}]
      /\ waitingLockers' = [p \in Paths |-> RemoveFirst(line[p], o)]
      /\ parked' = parked \ ({<<NextLocker(p), p>> : p \in held} \cup ({o} \X Paths))
      /\ UNCHANGED <<bookVars, filesList>>

-----------------------------------------------------------------------------

Next == \E o \in Owners :
  \/ \E p \in Paths, locking \in BOOLEAN : OpenNew(o, p, locking) \/ Open(o, p, locking)
  \/ \E p \in Paths : ReadFile(o, p)
  \/ \E n \in 0 .. MaxFiles - 1 : ReadNFile(o, n)
  \/ \E p \in Paths, content \in Sizes, write \in BOOLEAN :
       AppendToFile(o, p, content, write)
  \/ \E p \in Paths : LockFile(o, p) \/ UnlockFile(o, p)
  \/ \E p \in Paths : CloseFile(o, p) \/ RemoveFile(o, p)
  \/ EvictClient(o)

Spec == Init /\ [][Next]_vars

-----------------------------------------------------------------------------
(* Properties.                                                             *)

FieldsTypeOK ==
  /\ size \in [Paths -> Nat]
  /\ currentlyLockedBy \in [Paths -> Owners \cup {NoOwner}]
  /\ ownerCanWrite \in [Paths -> Owners \cup {NoOwner}]
  /\ waitingLockers \in [Paths -> Seq(Owners)]
  /\ openedBy \in [Paths -> SUBSET Owners]
  /\ parked \subseteq Owners \X Paths

\* Type invariant.  That currentStorageSize is below the limit is strict:
\* the code treats a storage that is exactly full as exceeded.
TypeOK ==
  /\ replacementPolicy \in Policies
  /\ filesDict \subseteq Paths
  /\ filesList \in Seq(Paths)
  /\ currentNumOfFiles \in 0 .. MaxFiles
  /\ currentStorageSize \in 0 .. MaxStorage - 1
  /\ FieldsTypeOK

\* The list, the dictionary and the two counters tell the same story, however
\* files were created, evicted one after the other, removed and moved around.
BooksBalance ==
  /\ ToSet(filesList) = filesDict
  /\ Len(filesList) = Cardinality(filesDict)
  /\ currentNumOfFiles = Cardinality(filesDict)
  /\ currentStorageSize = Stored(filesDict)

\* The line for the lock of a file makes sense: nobody waits for a free lock,
\* nobody waits twice, and nobody waits for the lock it holds.
LocksInLine == \A p \in Paths :
  /\ currentlyLockedBy[p] = NoOwner => waitingLockers[p] = <<>>
  /\ IsInjective(waitingLockers[p])
  /\ currentlyLockedBy[p] \notin ToSet(waitingLockers[p])

\* Whoever may still use writeFile on a file really is the one who created and
\* locked it, holds it alone, and finds it as empty as it was then.
WritableIsUntouched == \A p \in Paths : ownerCanWrite[p] # NoOwner =>
  /\ size[p] = 0
  /\ currentlyLockedBy[p] = ownerCanWrite[p]
  /\ waitingLockers[p] = <<>>
  /\ openedBy[p] \subseteq {ownerCanWrite[p]}

\* No client is forgotten: the clients that still have no answer to lockFile
\* are exactly those in some line.  Whoever leaves a line, because the lock is
\* its own now or because the file was evicted or removed, was returned.
NobodyForgotten ==
  parked = {w \in Owners \X Paths : w[1] \in ToSet(waitingLockers[w[2]])}

Locks == INSTANCE LockQueues WITH
           Files  <- Paths,
           holder <- currentlyLockedBy,
           line   <- waitingLockers

\* Refinement: locks are handed over first come first served, a client gets in
\* line at the end, and a line is given up only with the file itself.
LocksAreQueues == Locks!Spec

Position(p) == CHOOSE i \in DOMAIN filesList : filesList[i] = p
Grown       == {p \in Paths : size'[p] > size[p]}
Evicted     == IF filesDict' \subseteq filesDict /\ Grown = {} THEN {}
               ELSE filesDict \ filesDict'

\* Eviction goes from the end of the list, skips only the file being written,
\* and stops as soon as there is room.
LastAndFew ==
  \A p \in Evicted :
    /\ \A q \in (filesDict \cap filesDict') \ Grown : Position(q) < Position(p)
    /\ IF Grown = {} THEN Evicted = {p} /\ currentNumOfFiles = MaxFiles
       ELSE (\A q \in Evicted : Position(p) <= Position(q))
              => currentStorageSize' + size[p] >= MaxStorage
EvictsLastAndFew == [][LastAndFew]_vars

-----------------------------------------------------------------------------
(* The inductive invariant.                                                *)

\* Only the path of a file can be locked and waited for.
OnlyFilesAreLocked ==
  \A p \in Paths \ filesDict :
    currentlyLockedBy[p] = NoOwner /\ waitingLockers[p] = <<>>

IInv == /\ FieldsTypeOK /\ OnlyFilesAreLocked
        /\ LocksInLine /\ WritableIsUntouched /\ NobodyForgotten
=============================================================================
