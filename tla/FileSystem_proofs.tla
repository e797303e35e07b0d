------------------------- MODULE FileSystem_proofs --------------------------
(***************************************************************************)
(* Proofs about FileSystem, for any number of clients, paths and files and *)
(* either policy: the lines for the locks stay in order, nobody who waits  *)
(* is forgotten, the right to writeFile stays with an untouched file, and  *)
(* the locks of the files are the queues of LockQueues; the list, the      *)
(* dictionary and the counters agree within the limits; and files are      *)
(* evicted from the end of the list, no more of them than needed.          *)
(***************************************************************************)
EXTENDS FileSystem, LineLemmas

-----------------------------------------------------------------------------
(* The lines for the locks are such lines.                                 *)

\* Whoever waits for a lock waits in such a line.
LEMMA WaitersInLine ==
  ASSUME FieldsTypeOK, LocksInLine, NEW p \in Paths
  PROVE  waitingLockers[p] \in Line(Owners)
BY DEF FieldsTypeOK, LocksInLine, Line

\* What serving the first in line does to a line that is in order.
LEMMA ServedLine ==
  ASSUME FieldsTypeOK, LocksInLine, NEW p \in Paths
  PROVE  /\ LeftInLine(p) \in Line(Owners)
         /\ ToSet(LeftInLine(p)) = ToSet(waitingLockers[p]) \ {NextLocker(p)}
         /\ NextLocker(p) \in Owners \cup {NoOwner}
         /\ NextLocker(p) = NoOwner => LeftInLine(p) = <<>>
<1>1. waitingLockers[p] \in Line(Owners)
  BY WaitersInLine
<1>2. CASE waitingLockers[p] = <<>>
  BY <1>2, EmptyLine DEF LeftInLine, NextLocker
<1>3. CASE waitingLockers[p] # <<>>
  BY <1>1, <1>3, TailOfLine, OwnersAssumption DEF LeftInLine, NextLocker
<1> QED
  BY <1>2, <1>3

\* The reset of a field of the files that go keeps the type of the field.
LEMMA DroppedType ==
  ASSUME NEW S, NEW field \in [Paths -> S], NEW gone, NEW initial \in S
  PROVE  Dropped(field, gone, initial) \in [Paths -> S]
BY DEF Dropped

\* The initial state satisfies IInv.
LEMMA IInvInit == Init => IInv
BY EmptyLine, OwnersAssumption
   DEF Init, IInv, FieldsTypeOK, OnlyFilesAreLocked, LocksInLine,
       WritableIsUntouched, NobodyForgotten, Line

\* openFile of a path that is not stored, which may evict a file.
LEMMA OpenNewKeepsIInv ==
  ASSUME IInv, NEW o \in Owners, NEW p \in Paths, NEW locking \in BOOLEAN,
         OpenNew(o, p, locking)
  PROVE  IInv'
<1> DEFINE gone  == EvictedByNew
           owner == IF locking THEN o ELSE NoOwner
<1> HIDE DEF gone
<1> USE DEF IInv
<1>1. owner \in {o, NoOwner}
  OBVIOUS
<1> HIDE DEF owner
<1>2. /\ p \notin filesDict
      /\ filesDict' = (filesDict \ gone) \cup {p}
      /\ size' = [Dropped(size, gone, 0) EXCEPT ![p] = 0]
      /\ currentlyLockedBy' =
           [Dropped(currentlyLockedBy, gone, NoOwner) EXCEPT ![p] = owner]
      /\ ownerCanWrite' =
           [Dropped(ownerCanWrite, gone, NoOwner) EXCEPT ![p] = owner]
      /\ openedBy' = [Dropped(openedBy, gone, {}) EXCEPT ![p] = {o}]
      /\ waitingLockers' = Dropped(waitingLockers, gone, <<>>)
      /\ parked' = parked \ Waiting(gone)
  BY DEF OpenNew, ReturnWaiting, gone, owner
<1>3. waitingLockers[p] = <<>>
  BY <1>2 DEF OnlyFilesAreLocked
<1>4. FieldsTypeOK'
  <2>1. owner \in Owners \cup {NoOwner} /\ <<>> \in Seq(Owners)
    BY <1>1
  <2>2. /\ Dropped(size, gone, 0) \in [Paths -> Nat]
        /\ Dropped(currentlyLockedBy, gone, NoOwner) \in [Paths -> Owners \cup {NoOwner}]
        /\ Dropped(ownerCanWrite, gone, NoOwner) \in [Paths -> Owners \cup {NoOwner}]
        /\ Dropped(waitingLockers, gone, <<>>) \in [Paths -> Seq(Owners)]
        /\ Dropped(openedBy, gone, {}) \in [Paths -> SUBSET Owners]
    BY <2>1, DroppedType DEF FieldsTypeOK
  <2> QED
    BY <1>2, <2>1, <2>2 DEF FieldsTypeOK
<1>5. OnlyFilesAreLocked'
  <2> SUFFICES ASSUME NEW q \in Paths, q \notin filesDict'
               PROVE  currentlyLockedBy'[q] = NoOwner /\ waitingLockers'[q] = <<>>
    BY DEF OnlyFilesAreLocked
  <2>1. q # p /\ (q \in gone \/ q \notin filesDict)
    BY <1>2
  <2>2. /\ currentlyLockedBy'[q] = Dropped(currentlyLockedBy, gone, NoOwner)[q]
        /\ waitingLockers'[q] = Dropped(waitingLockers, gone, <<>>)[q]
    BY <1>2, <2>1 DEF Dropped
  <2> QED
    BY <2>1, <2>2 DEF OnlyFilesAreLocked, Dropped
<1>6. LocksInLine'
  BY <1>1, <1>2, <1>3, EmptyLine DEF LocksInLine, FieldsTypeOK, Dropped, Line
<1>7. WritableIsUntouched'
  BY <1>1, <1>2, <1>3 DEF WritableIsUntouched, FieldsTypeOK, Dropped
<1>8. NobodyForgotten'
  BY <1>2, EmptyLine DEF NobodyForgotten, FieldsTypeOK, Dropped, Waiting
<1> QED
  BY <1>4, <1>5, <1>6, <1>7, <1>8

\* openFile of a file that is stored.
LEMMA OpenKeepsIInv ==
  ASSUME IInv, NEW o \in Owners, NEW p \in Paths, NEW locking \in BOOLEAN,
         Open(o, p, locking)
  PROVE  IInv'
<1> USE DEF IInv
<1>1. CASE OpenRefused(o, p)
  BY <1>1 DEF Open, bookVars, FieldsTypeOK, OnlyFilesAreLocked, LocksInLine,
              WritableIsUntouched, NobodyForgotten
<1>2. CASE ~ OpenRefused(o, p)
  <2>1. /\ p \in filesDict /\ filesDict' = filesDict
        /\ currentlyLockedBy[p] \in {o, NoOwner}
        /\ currentlyLockedBy' = [currentlyLockedBy EXCEPT ![p] =
                                   IF locking THEN o ELSE @]
        /\ openedBy' = [openedBy EXCEPT ![p] = @ \cup {o}]
        /\ ownerCanWrite' = [ownerCanWrite EXCEPT ![p] = NoOwner]
        /\ UNCHANGED <<size, waitingLockers, parked>>
    BY <1>2 DEF Open, OpenRefused, LockedByOther, ForbidWrite, bookVars
  <2>2. FieldsTypeOK' /\ OnlyFilesAreLocked' /\ NobodyForgotten'
    BY <2>1 DEF FieldsTypeOK, OnlyFilesAreLocked, NobodyForgotten
  <2>3. LocksInLine'
    BY <2>1, EmptyLine DEF LocksInLine, FieldsTypeOK
  <2>4. WritableIsUntouched'
    BY <2>1 DEF WritableIsUntouched, FieldsTypeOK
  <2> QED
    BY <2>2, <2>3, <2>4
<1> QED
  BY <1>1, <1>2

\* Reading and closing change neither the locks nor the contents.
LEMMA HarmlessStep ==
  ASSUME IInv, UNCHANGED <<filesDict, size, lockVars>>,
         ownerCanWrite' \in [Paths -> Owners \cup {NoOwner}],
         openedBy' \in [Paths -> SUBSET Owners],
         \A p \in Paths : /\ ownerCanWrite'[p] \in {ownerCanWrite[p], NoOwner}
                          /\ openedBy'[p] \subseteq openedBy[p]
  PROVE  IInv'
<1> USE DEF IInv, lockVars
<1>1. FieldsTypeOK' /\ OnlyFilesAreLocked' /\ NobodyForgotten' /\ LocksInLine'
  BY DEF FieldsTypeOK, OnlyFilesAreLocked, NobodyForgotten, LocksInLine
<1>2. WritableIsUntouched'
  BY DEF WritableIsUntouched
<1> QED
  BY <1>1, <1>2

\* readFile, readNFiles and closeFile.
LEMMA ReadingKeepsIInv ==
  ASSUME IInv, NEW o \in Owners,
         \/ \E p \in Paths : ReadFile(o, p) \/ CloseFile(o, p)
         \/ \E n \in 0 .. MaxFiles - 1 : ReadNFile(o, n)
  PROVE  IInv'
<1>1. FieldsTypeOK
  BY DEF IInv
<1>2. ASSUME NEW p \in Paths, ReadFile(o, p) PROVE IInv'
  BY <1>1, <1>2, HarmlessStep DEF ReadFile, ForbidWrite, bookVars, FieldsTypeOK
<1>3. ASSUME NEW p \in Paths, CloseFile(o, p) PROVE IInv'
  BY <1>1, <1>3, HarmlessStep DEF CloseFile, bookVars, FieldsTypeOK
<1>4. ASSUME NEW n \in 0 .. MaxFiles - 1, ReadNFile(o, n) PROVE IInv'
  BY <1>1, <1>4, HarmlessStep DEF ReadNFile, bookVars, FieldsTypeOK
<1> QED
  BY <1>2, <1>3, <1>4

\* appendToFile and writeFile, which may evict files.
LEMMA AppendKeepsIInv ==
  ASSUME IInv, NEW o \in Owners, NEW p \in Paths, NEW content \in Sizes,
         NEW write \in BOOLEAN, AppendToFile(o, p, content, write)
  PROVE  IInv'
<1> DEFINE gone == EvictedFor(p, content)
<1> HIDE DEF gone
<1> USE DEF IInv
<1>1. /\ p \in filesDict
      /\ filesDict' = filesDict \ gone
      /\ size' = [Dropped(size, gone, 0) EXCEPT ![p] = @ + content]
      /\ currentlyLockedBy' = Dropped(currentlyLockedBy, gone, NoOwner)
      /\ ownerCanWrite' = Dropped(ownerCanWrite, gone \cup {p}, NoOwner)
      /\ openedBy' = Dropped(openedBy, gone, {})
      /\ waitingLockers' = Dropped(waitingLockers, gone, <<>>)
      /\ parked' = parked \ Waiting(gone)
  BY DEF AppendToFile, ReturnWaiting, gone
<1>2. FieldsTypeOK'
  <2>1. content \in Nat
    BY SizesAssumption
  <2>2. Dropped(size, gone, 0) \in [Paths -> Nat]
    BY DEF FieldsTypeOK, Dropped
  <2>3. size' \in [Paths -> Nat]
    BY <1>1, <2>1, <2>2
  <2> QED
    BY <1>1, <2>3 DEF FieldsTypeOK, Dropped
<1>3. OnlyFilesAreLocked'
  BY <1>1 DEF OnlyFilesAreLocked, FieldsTypeOK, Dropped
<1>4. LocksInLine'
  BY <1>1, EmptyLine DEF LocksInLine, FieldsTypeOK, Dropped, Line
<1>5. WritableIsUntouched'
  BY <1>1 DEF WritableIsUntouched, FieldsTypeOK, Dropped
<1>6. NobodyForgotten'
  BY <1>1, EmptyLine DEF NobodyForgotten, FieldsTypeOK, Dropped, Waiting
<1> QED
  BY <1>2, <1>3, <1>4, <1>5, <1>6

\* lockFile, which may get in line.
LEMMA LockKeepsIInv ==
  ASSUME IInv, NEW o \in Owners, NEW p \in Paths, LockFile(o, p)
  PROVE  IInv'
<1> USE DEF IInv
<1>1. /\ p \in filesDict /\ filesDict' = filesDict
      /\ ownerCanWrite' = [ownerCanWrite EXCEPT ![p] = NoOwner]
      /\ UNCHANGED <<size, openedBy>>
  BY DEF LockFile, ForbidWrite, bookVars
<1>2. ASSUME UNCHANGED <<waitingLockers, parked>>, ~ LockedByOther(o, p),
             currentlyLockedBy' = [currentlyLockedBy EXCEPT ![p] = o]
      PROVE  IInv'
  <2>1. FieldsTypeOK' /\ OnlyFilesAreLocked' /\ NobodyForgotten'
    BY <1>1, <1>2 DEF FieldsTypeOK, OnlyFilesAreLocked, NobodyForgotten
  <2>2. LocksInLine'
    BY <1>1, <1>2, EmptyLine DEF LocksInLine, FieldsTypeOK, LockedByOther
  <2>3. WritableIsUntouched'
    BY <1>1, <1>2 DEF WritableIsUntouched, FieldsTypeOK
  <2> QED
    BY <2>1, <2>2, <2>3
<1>3. ASSUME UNCHANGED <<waitingLockers, parked, currentlyLockedBy>>
      PROVE  IInv'
  BY <1>1, <1>3 DEF FieldsTypeOK, OnlyFilesAreLocked, NobodyForgotten,
                    LocksInLine, WritableIsUntouched
<1>4. ASSUME LockedByOther(o, p), ~ Contains(waitingLockers[p], o),
             UNCHANGED currentlyLockedBy,
             waitingLockers' = [waitingLockers EXCEPT ![p] = Append(@, o)],
             parked' = parked \cup {<<o, p>>}
      PROVE  IInv'
  <2>1. /\ Append(waitingLockers[p], o) \in Line(Owners)
        /\ ToSet(Append(waitingLockers[p], o)) = ToSet(waitingLockers[p]) \cup {o}
    BY <1>4, WaitersInLine, AppendToLine
  <2>2. FieldsTypeOK' /\ OnlyFilesAreLocked'
    BY <1>1, <1>4, <2>1 DEF FieldsTypeOK, OnlyFilesAreLocked, Line
  <2>3. LocksInLine'
    BY <1>1, <1>4, <2>1 DEF LocksInLine, FieldsTypeOK, LockedByOther, Line
  <2>4. WritableIsUntouched'
    BY <1>1, <1>4 DEF WritableIsUntouched, FieldsTypeOK
  <2>5. NobodyForgotten'
    BY <1>4, <2>1 DEF NobodyForgotten, FieldsTypeOK
  <2> QED
    BY <2>2, <2>3, <2>4, <2>5
<1> QED
  BY <1>2, <1>3, <1>4 DEF LockFile, GetInLine

\* unlockFile, which hands the lock to the first in line.
LEMMA UnlockKeepsIInv ==
  ASSUME IInv, NEW o \in Owners, NEW p \in Paths, UnlockFile(o, p)
  PROVE  IInv'
<1> USE DEF IInv
<1>1. /\ p \in filesDict /\ filesDict' = filesDict
      /\ ownerCanWrite' = [ownerCanWrite EXCEPT ![p] = NoOwner]
      /\ UNCHANGED <<size, openedBy>>
  BY DEF UnlockFile, ForbidWrite, bookVars
<1>2. CASE currentlyLockedBy[p] # o
  BY <1>1, <1>2 DEF UnlockFile, lockVars, FieldsTypeOK, OnlyFilesAreLocked,
                    NobodyForgotten, LocksInLine, WritableIsUntouched
<1>3. CASE currentlyLockedBy[p] = o
  <2>1. /\ currentlyLockedBy' = [currentlyLockedBy EXCEPT ![p] = NextLocker(p)]
        /\ waitingLockers' = [waitingLockers EXCEPT ![p] = LeftInLine(p)]
        /\ parked' = parked \ {<<NextLocker(p), p>>}
    BY <1>3 DEF UnlockFile
  <2>2. /\ LeftInLine(p) \in Line(Owners)
        /\ ToSet(LeftInLine(p)) = ToSet(waitingLockers[p]) \ {NextLocker(p)}
        /\ NextLocker(p) \in Owners \cup {NoOwner}
        /\ NextLocker(p) = NoOwner => LeftInLine(p) = <<>>
    BY ServedLine
  <2>3. FieldsTypeOK' /\ OnlyFilesAreLocked'
    BY <1>1, <2>1, <2>2 DEF FieldsTypeOK, OnlyFilesAreLocked, Line
  <2>4. LocksInLine'
    BY <2>1, <2>2 DEF LocksInLine, FieldsTypeOK, Line
  <2>5. WritableIsUntouched'
    BY <1>1, <2>1 DEF WritableIsUntouched, FieldsTypeOK
  <2>6. NobodyForgotten'
    BY <2>1, <2>2 DEF NobodyForgotten, FieldsTypeOK
  <2> QED
    BY <2>3, <2>4, <2>5, <2>6
<1> QED
  BY <1>2, <1>3

\* removeFile, which dissolves a line.
LEMMA RemoveKeepsIInv ==
  ASSUME IInv, NEW o \in Owners, NEW p \in Paths, RemoveFile(o, p)
  PROVE  IInv'
<1> USE DEF IInv
<1>1. /\ filesDict' = filesDict \ {p}
      /\ size' = Dropped(size, {p}, 0)
      /\ currentlyLockedBy' = Dropped(currentlyLockedBy, {p}, NoOwner)
      /\ ownerCanWrite' = [ownerCanWrite EXCEPT ![p] = NoOwner]
      /\ openedBy' = Dropped(openedBy, {p}, {})
      /\ waitingLockers' = Dropped(waitingLockers, {p}, <<>>)
      /\ parked' = parked \ Waiting({p})
  BY DEF RemoveFile, ForbidWrite, ReturnWaiting
<1>2. FieldsTypeOK' /\ OnlyFilesAreLocked'
  BY <1>1 DEF FieldsTypeOK, OnlyFilesAreLocked, Dropped
<1>3. LocksInLine'
  BY <1>1, EmptyLine DEF LocksInLine, FieldsTypeOK, Dropped, Line
<1>4. WritableIsUntouched'
  BY <1>1 DEF WritableIsUntouched, FieldsTypeOK, Dropped
<1>5. NobodyForgotten'
  BY <1>1, EmptyLine DEF NobodyForgotten, FieldsTypeOK, Dropped, Waiting
<1> QED
  BY <1>2, <1>3, <1>4, <1>5

\* evictClient: every lock the client held is handed over and it leaves every
\* line.
LEMMA EvictClientKeepsIInv ==
  ASSUME IInv, NEW o \in Owners, EvictClient(o)
  PROVE  IInv'
<1> USE DEF IInv
<1> DEFINE held    == {p \in filesDict : currentlyLockedBy[p] = o}
           line(p) == IF p \in held THEN LeftInLine(p) ELSE waitingLockers[p]
<1>1. /\ filesDict' = filesDict /\ size' = size
      /\ currentlyLockedBy' = [p \in Paths |-> IF p \in held THEN NextLocker(p)
                                               ELSE currentlyLockedBy[p]]
      /\ ownerCanWrite' = [p \in Paths |-> IF ownerCanWrite[p] = o THEN NoOwner
                                           ELSE ownerCanWrite[p]]
      /\ openedBy' = [p \in Paths |-> openedBy[p] \ {o}]
      /\ waitingLockers' = [p \in Paths |-> RemoveFirst(line(p), o)]
      /\ parked' = parked \ ({<<NextLocker(p), p>> : p \in held} \cup ({o} \X Paths))
  BY DEF EvictClient, bookVars
<1>2. \A p \in Paths : currentlyLockedBy[p] = o => p \in held
  BY OwnersAssumption DEF OnlyFilesAreLocked
<1>3. ASSUME NEW p \in Paths
      PROVE  /\ line(p) \in Line(Owners)
             /\ RemoveFirst(line(p), o) \in Line(Owners)
             /\ ToSet(RemoveFirst(line(p), o)) = ToSet(line(p)) \ {o}
             /\ p \in held => /\ NextLocker(p) \in Owners \cup {NoOwner}
                              /\ ToSet(line(p)) =
                                   ToSet(waitingLockers[p]) \ {NextLocker(p)}
                              /\ NextLocker(p) = NoOwner => line(p) = <<>>
             /\ p \notin held => line(p) = waitingLockers[p]
             /\ line(p) = <<>> => RemoveFirst(line(p), o) = <<>>
  <2>1. line(p) \in Line(Owners)
    BY ServedLine, WaitersInLine
  <2>2. /\ RemoveFirst(line(p), o) \in Line(Owners)
        /\ ToSet(RemoveFirst(line(p), o)) = ToSet(line(p)) \ {o}
    BY <2>1, RemoveFromLine
  <2>3. RemoveFirst(<<>>, o) = <<>>
    BY DEF RemoveFirst
  <2> QED
    BY <2>1, <2>2, <2>3, ServedLine
<1> HIDE DEF held, line
<1>4. FieldsTypeOK'
  BY <1>1, <1>3 DEF FieldsTypeOK, Line
<1>5. OnlyFilesAreLocked'
  <2>1. held \subseteq filesDict
    BY DEF held
  <2> QED
    BY <1>1, <1>3, <2>1 DEF OnlyFilesAreLocked, FieldsTypeOK
<1>6. LocksInLine'
  <2> SUFFICES ASSUME NEW p \in Paths
               PROVE  /\ currentlyLockedBy'[p] = NoOwner => waitingLockers'[p] = <<>>
                      /\ IsInjective(waitingLockers'[p])
                      /\ currentlyLockedBy'[p] \notin ToSet(waitingLockers'[p])
    BY DEF LocksInLine
  <2>1. waitingLockers'[p] = RemoveFirst(line(p), o)
    BY <1>1
  <2>2. IsInjective(waitingLockers'[p])
    BY <1>3, <2>1 DEF Line
  <2>3. CASE p \in held
    BY <1>1, <1>3, <2>1, <2>2, <2>3
  <2>4. CASE p \notin held
    BY <1>1, <1>3, <2>1, <2>2, <2>4 DEF LocksInLine
  <2> QED
    BY <2>3, <2>4
<1>7. WritableIsUntouched'
  <2> SUFFICES ASSUME NEW p \in Paths, ownerCanWrite'[p] # NoOwner
               PROVE  /\ size'[p] = 0
                      /\ currentlyLockedBy'[p] = ownerCanWrite'[p]
                      /\ waitingLockers'[p] = <<>>
                      /\ openedBy'[p] \subseteq {ownerCanWrite'[p]}
    BY DEF WritableIsUntouched
  <2>1. ownerCanWrite'[p] = ownerCanWrite[p] /\ ownerCanWrite[p] # o
    BY <1>1
  <2>2. p \notin held
    BY <2>1 DEF WritableIsUntouched, held
  <2> QED
    BY <1>1, <1>3, <2>1, <2>2 DEF WritableIsUntouched, FieldsTypeOK
<1>8. NobodyForgotten'
  <2> SUFFICES ASSUME NEW x \in Owners, NEW p \in Paths
               PROVE  <<x, p>> \in parked' <=> x \in ToSet(waitingLockers'[p])
    <3>1. parked' \subseteq Owners \X Paths
      BY <1>4 DEF FieldsTypeOK
    <3> QED
      BY <3>1 DEF NobodyForgotten
  <2>1. <<x, p>> \in parked <=> x \in ToSet(waitingLockers[p])
    BY DEF NobodyForgotten
  <2>2. <<x, p>> \in parked' <=> /\ <<x, p>> \in parked /\ x # o
                                 /\ ~ (p \in held /\ x = NextLocker(p))
    BY <1>1
  <2>3. x \in ToSet(waitingLockers'[p]) <=> x \in ToSet(line(p)) /\ x # o
    BY <1>1, <1>3
  <2> QED
    BY <1>3, <2>1, <2>2, <2>3
<1> QED
  BY <1>4, <1>5, <1>6, <1>7, <1>8

\* IInv is inductive.
LEMMA NextKeepsIInv == IInv /\ [Next]_vars => IInv'
<1> SUFFICES ASSUME IInv, [Next]_vars
             PROVE  IInv'
  OBVIOUS
<1>1. CASE UNCHANGED vars
  BY <1>1 DEF vars, bookVars, lockVars, IInv, FieldsTypeOK, OnlyFilesAreLocked,
              LocksInLine, WritableIsUntouched, NobodyForgotten
<1>2. CASE Next
  BY <1>2, OpenNewKeepsIInv, OpenKeepsIInv, ReadingKeepsIInv, AppendKeepsIInv,
     LockKeepsIInv, UnlockKeepsIInv, RemoveKeepsIInv, EvictClientKeepsIInv
     DEF Next
<1> QED
  BY <1>1, <1>2

\* In every reachable state IInv holds.
THEOREM Invariance == Spec => []IInv
BY IInvInit, NextKeepsIInv, PTL DEF Spec

\* The lines for the locks are in order: nobody waits for a lock that is free,
\* or twice, or for the lock it holds.
THEOREM LockOrder == Spec => []LocksInLine
<1>1. IInv => LocksInLine
  BY DEF IInv
<1> QED
  BY <1>1, Invariance, PTL

\* Whoever may use writeFile on a file alone has it open and locked, and it is
\* still empty.
THEOREM WriteRight == Spec => []WritableIsUntouched
<1>1. IInv => WritableIsUntouched
  BY DEF IInv
<1> QED
  BY <1>1, Invariance, PTL

\* The clients that wait for an answer to lockFile are those in some line:
\* none was dropped from a line without being returned to be told.
THEOREM NobodyIsForgotten == Spec => []NobodyForgotten
<1>1. IInv => NobodyForgotten
  BY DEF IInv
<1> QED
  BY <1>1, Invariance, PTL

-----------------------------------------------------------------------------
(* The locks are queues.                                                   *)

Same(f)      == /\ currentlyLockedBy'[f] = currentlyLockedBy[f]
                /\ waitingLockers'[f] = waitingLockers[f]
Gone(f)      == currentlyLockedBy'[f] = NoOwner /\ waitingLockers'[f] = <<>>
Taken(o, f)  == /\ currentlyLockedBy[f] = NoOwner
                /\ currentlyLockedBy'[f] = o /\ waitingLockers'[f] = <<>>
Joined(o, f) == /\ LockedByOther(o, f) /\ ~ Contains(waitingLockers[f], o)
                /\ currentlyLockedBy'[f] = currentlyLockedBy[f]
                /\ waitingLockers'[f] = Append(waitingLockers[f], o)
Left(o, f)   == /\ Contains(waitingLockers[f], o)
                /\ currentlyLockedBy'[f] = currentlyLockedBy[f]
                /\ waitingLockers'[f] = RemoveFirst(waitingLockers[f], o)
Served(f)    == /\ currentlyLockedBy[f] # NoOwner
                /\ currentlyLockedBy'[f] = NextLocker(f)
                /\ waitingLockers'[f] = LeftInLine(f)

\* These are all the things a step does to a lock ...
LockChange(f) ==
  \/ Same(f) \/ Gone(f) \/ Served(f)
  \/ \E o \in Owners : Taken(o, f) \/ Joined(o, f) \/ Left(o, f)

\* ... and all of them are steps of LockQueues.
LEMMA LockChangeIsQueueStep ==
  ASSUME IInv, NEW f \in Paths, LockChange(f)
  PROVE  Locks!Change(f)
           \/ Locks!Becomes(f, currentlyLockedBy[f], waitingLockers[f])
<1>1. CASE Same(f) \/ Gone(f)
  BY <1>1 DEF Same, Gone, Locks!Change, Locks!Disappear, Locks!Becomes
<1>2. CASE Served(f)
  <2>1. CASE waitingLockers[f] = <<>>
    BY <1>2, <2>1 DEF Served, NextLocker, LeftInLine, Locks!Change,
                      Locks!SetFree, Locks!Becomes
  <2>2. CASE waitingLockers[f] # <<>>
    BY <1>2, <2>2 DEF Served, NextLocker, LeftInLine, Locks!Change,
                      Locks!PassOn, Locks!Becomes
  <2> QED
    BY <2>1, <2>2
<1>3. ASSUME NEW o \in Owners, Taken(o, f) PROVE Locks!Change(f)
  <2>1. waitingLockers[f] = <<>>
    BY <1>3 DEF Taken, IInv, LocksInLine
  <2> QED
    BY <1>3, <2>1 DEF Taken, Locks!Change, Locks!Acquire, Locks!Becomes
<1>4. ASSUME NEW o \in Owners, Joined(o, f) PROVE Locks!Change(f)
  BY <1>4 DEF Joined, LockedByOther, Contains, Locks!Contains, Locks!Change,
              Locks!GetInLine, Locks!Becomes
<1>5. ASSUME NEW o \in Owners, Left(o, f) PROVE Locks!Change(f)
  <2>1. Locks!RemoveFirst(waitingLockers[f], o) = RemoveFirst(waitingLockers[f], o)
    BY DEF RemoveFirst, Locks!RemoveFirst, RemoveAt, Locks!RemoveAt, SelectInSeq,
           Locks!SelectInSeq, Min, Locks!Min
  <2> QED
    BY <1>5, <2>1 DEF Left, Contains, Locks!Contains, Locks!Change,
                      Locks!GiveUp, Locks!Becomes
<1> QED
  BY <1>1, <1>2, <1>3, <1>4, <1>5 DEF LockChange

\* Each step changes the locks in one of those ways, on all files at once.
LEMMA StepChangesLocks ==
  ASSUME IInv, Next, NEW f \in Paths
  PROVE  LockChange(f)
<1> PICK o \in Owners :
      \/ \E p \in Paths, locking \in BOOLEAN : OpenNew(o, p, locking) \/ Open(o, p, locking)
      \/ \E p \in Paths : ReadFile(o, p)
      \/ \E n \in 0 .. MaxFiles - 1 : ReadNFile(o, n)
      \/ \E p \in Paths, content \in Sizes, write \in BOOLEAN :
           AppendToFile(o, p, content, write)
      \/ \E p \in Paths : LockFile(o, p) \/ UnlockFile(o, p)
      \/ \E p \in Paths : CloseFile(o, p) \/ RemoveFile(o, p)
      \/ EvictClient(o)
  BY DEF Next
<1>1. ASSUME UNCHANGED lockVars PROVE LockChange(f)
  BY <1>1 DEF lockVars, LockChange, Same
<1>2. ASSUME NEW gone, currentlyLockedBy' = Dropped(currentlyLockedBy, gone, NoOwner),
             waitingLockers' = Dropped(waitingLockers, gone, <<>>)
      PROVE  LockChange(f)
  BY <1>2 DEF Dropped, LockChange, Same, Gone
<1>3. ASSUME NEW p \in Paths, NEW locking \in BOOLEAN, OpenNew(o, p, locking)
      PROVE  LockChange(f)
  <2> DEFINE gone  == EvictedByNew
             owner == IF locking THEN o ELSE NoOwner
  <2>0. owner \in {o, NoOwner}
    OBVIOUS
  <2>1. /\ p \notin filesDict
        /\ currentlyLockedBy' =
             [Dropped(currentlyLockedBy, gone, NoOwner) EXCEPT ![p] = owner]
        /\ waitingLockers' = Dropped(waitingLockers, gone, <<>>)
    BY <1>3 DEF OpenNew, ReturnWaiting
  <2> HIDE DEF gone, owner
  <2>2. CASE f = p
    <3>1. /\ currentlyLockedBy[p] = NoOwner /\ waitingLockers[p] = <<>>
          /\ currentlyLockedBy'[p] = owner /\ waitingLockers'[p] = <<>>
      BY <2>1 DEF IInv, OnlyFilesAreLocked, Dropped
    <3> QED
      BY <2>0, <2>2, <3>1 DEF LockChange, Taken, Gone
  <2>3. CASE f # p
    <3>1. /\ currentlyLockedBy'[f] = Dropped(currentlyLockedBy, gone, NoOwner)[f]
          /\ waitingLockers'[f] = Dropped(waitingLockers, gone, <<>>)[f]
      BY <2>1, <2>3 DEF Dropped
    <3> QED
      BY <3>1 DEF Dropped, LockChange, Same, Gone
  <2> QED
    BY <2>2, <2>3
<1>4. ASSUME NEW p \in Paths, NEW locking \in BOOLEAN, Open(o, p, locking)
      PROVE  LockChange(f)
  <2>1. CASE OpenRefused(o, p) \/ ~ locking \/ f # p
    BY <1>4, <2>1 DEF Open, LockChange, Same, IInv, FieldsTypeOK
  <2>2. CASE ~ OpenRefused(o, p) /\ locking /\ f = p
    <3>1. /\ currentlyLockedBy[f] \in {o, NoOwner}
          /\ currentlyLockedBy'[f] = o /\ waitingLockers'[f] = waitingLockers[f]
      BY <1>4, <2>2 DEF Open, OpenRefused, LockedByOther, IInv, FieldsTypeOK
    <3>2. CASE currentlyLockedBy[f] = o
      BY <3>1, <3>2 DEF LockChange, Same
    <3>3. CASE currentlyLockedBy[f] = NoOwner
      BY <3>1, <3>3 DEF LockChange, Taken, IInv, LocksInLine
    <3> QED
      BY <3>1, <3>2, <3>3
  <2> QED
    BY <2>1, <2>2
<1>5. ASSUME NEW p \in Paths, LockFile(o, p)
      PROVE  LockChange(f)
  <2>1. CASE LockedByOther(o, p)
    <3>1. CASE f = p /\ ~ Contains(waitingLockers[p], o)
      BY <1>5, <2>1, <3>1 DEF LockFile, GetInLine, LockChange, Joined, IInv,
                              FieldsTypeOK
    <3>2. CASE ~ (f = p /\ ~ Contains(waitingLockers[p], o))
      BY <1>5, <2>1, <3>2 DEF LockFile, GetInLine, LockChange, Same, IInv,
                              FieldsTypeOK
    <3> QED
      BY <3>1, <3>2
  <2>2. CASE ~ LockedByOther(o, p)
    <3>1. /\ currentlyLockedBy' = [currentlyLockedBy EXCEPT ![p] = o]
          /\ waitingLockers' = waitingLockers
      BY <1>5, <2>2 DEF LockFile
    <3>2. CASE f # p \/ currentlyLockedBy[p] = o
      BY <3>1, <3>2 DEF LockChange, Same, IInv, FieldsTypeOK
    <3>3. CASE f = p /\ currentlyLockedBy[p] = NoOwner
      BY <3>1, <3>3 DEF LockChange, Taken, IInv, FieldsTypeOK, LocksInLine
    <3> QED
      BY <2>2, <3>2, <3>3 DEF LockedByOther
  <2> QED
    BY <2>1, <2>2
<1>6. ASSUME NEW p \in Paths, UnlockFile(o, p)
      PROVE  LockChange(f)
  <2>1. CASE f # p \/ currentlyLockedBy[p] # o
    BY <1>6, <2>1 DEF UnlockFile, lockVars, LockChange, Same, IInv, FieldsTypeOK
  <2>2. CASE f = p /\ currentlyLockedBy[p] = o
    BY <1>6, <2>2, OwnersAssumption
       DEF UnlockFile, LockChange, Served, IInv, FieldsTypeOK
  <2> QED
    BY <2>1, <2>2
<1>7. ASSUME EvictClient(o)
      PROVE  LockChange(f)
  <2> DEFINE held == {p \in filesDict : currentlyLockedBy[p] = o}
  <2>1. /\ currentlyLockedBy'[f] = IF f \in held THEN NextLocker(f)
                                   ELSE currentlyLockedBy[f]
        /\ waitingLockers'[f] = RemoveFirst(IF f \in held THEN LeftInLine(f)
                                            ELSE waitingLockers[f], o)
    BY <1>7 DEF EvictClient
  <2>2. ASSUME NEW s \in Line(Owners), o \notin ToSet(s)
        PROVE  RemoveFirst(s, o) = s
    <3>1. DOMAIN s = 1 .. Len(s)
      BY LenProperties DEF Line
    <3> QED
      BY <2>2, <3>1 DEF RemoveFirst, ToSet
  <2>3. CASE f \in held
    <3>1. o \notin ToSet(LeftInLine(f)) /\ LeftInLine(f) \in Line(Owners)
      <4>1. LeftInLine(f) \in Line(Owners)
            /\ ToSet(LeftInLine(f)) \subseteq ToSet(waitingLockers[f])
        BY ServedLine DEF IInv
      <4>2. o \notin ToSet(waitingLockers[f])
        BY <2>3 DEF IInv, LocksInLine
      <4> QED
        BY <4>1, <4>2
    <3>2. currentlyLockedBy[f] # NoOwner
      BY <2>3, OwnersAssumption
    <3> QED
      BY <2>1, <2>2, <2>3, <3>1, <3>2 DEF LockChange, Served
  <2>4. CASE f \notin held
    <3>1. CASE Contains(waitingLockers[f], o)
      BY <2>1, <2>4, <3>1 DEF LockChange, Left
    <3>2. CASE ~ Contains(waitingLockers[f], o)
      <4>1. RemoveFirst(waitingLockers[f], o) = waitingLockers[f]
        BY <3>2 DEF RemoveFirst, Contains
      <4> QED
        BY <2>1, <2>4, <4>1 DEF LockChange, Same
    <3> QED
      BY <3>1, <3>2
  <2> QED
    BY <2>3, <2>4
<1>8. ASSUME NEW p \in Paths, NEW content \in Sizes, NEW write \in BOOLEAN,
             AppendToFile(o, p, content, write)
      PROVE  LockChange(f)
  <2>1. /\ currentlyLockedBy' = Dropped(currentlyLockedBy, EvictedFor(p, content), NoOwner)
        /\ waitingLockers' = Dropped(waitingLockers, EvictedFor(p, content), <<>>)
    BY <1>8 DEF AppendToFile, ReturnWaiting
  <2> QED
    BY <1>2, <2>1
<1>9. ASSUME NEW p \in Paths, RemoveFile(o, p)
      PROVE  LockChange(f)
  BY <1>2, <1>9 DEF RemoveFile, ReturnWaiting
<1>10. ASSUME NEW p \in Paths, ReadFile(o, p) \/ CloseFile(o, p)
       PROVE  LockChange(f)
  BY <1>1, <1>10 DEF ReadFile, CloseFile
<1>11. ASSUME NEW n \in 0 .. MaxFiles - 1, ReadNFile(o, n)
       PROVE  LockChange(f)
  BY <1>1, <1>11 DEF ReadNFile
<1> QED
  BY <1>3, <1>4, <1>5, <1>6, <1>7, <1>8, <1>9, <1>10, <1>11

\* The locks of all the files together are the queues of LockQueues: whatever
\* operation, eviction or departing client changes a lock, it passes from the
\* holder to the first in line, and clients line up at the end.
THEOREM LockRefinement == Spec => LocksAreQueues
<1>1. Init => Locks!Init
  BY DEF Init, Locks!Init
<1>2. IInv /\ [Next]_vars => [Locks!Next]_(Locks!vars)
  <2> SUFFICES ASSUME IInv, [Next]_vars
               PROVE  [Locks!Next]_(Locks!vars)
    OBVIOUS
  <2>1. CASE UNCHANGED vars
    BY <2>1 DEF vars, lockVars, Locks!vars
  <2>2. CASE Next
    BY <2>2, StepChangesLocks, LockChangeIsQueueStep DEF Locks!Next
  <2> QED
    BY <2>1, <2>2
<1> QED
  BY <1>1, <1>2, Invariance, PTL DEF Spec, LocksAreQueues, Locks!Spec

-----------------------------------------------------------------------------
(* The books: the list, the dictionary, the counters and the limits.       *)

\* What is left of a line is one.
LEMMA AmongLine ==
  ASSUME NEW S, NEW s \in Line(S), NEW files
  PROVE  Among(s, files) \in Line(S) /\ ToSet(Among(s, files)) = ToSet(s) \cap files
<1> DEFINE n == Len(s)
           Step(g, i) == IF i = 0 THEN <<>>
                         ELSE IF s[i] \in files THEN Append(g[i - 1], s[i]) ELSE g[i - 1]
           Before(i) == {x \in files : \E j \in 1 .. i : s[j] = x}
           Good(g, m) == \A i \in 0 .. n : i <= m =>
                           /\ g[i] = Step(g, i)
                           /\ g[i] \in Line(S) /\ ToSet(g[i]) = Before(i)
           T == {m \in Nat : m <= n => \E g \in [0 .. n -> Line(S)] : Good(g, m)}
<1>1. /\ s \in Seq(S) /\ n \in Nat /\ DOMAIN s = 1 .. n
      /\ \A x : x \in ToSet(s) <=> \E i \in 1 .. n : s[i] = x
  BY ElementsOfLine
<1>2. \A i, j \in 1 .. n : s[i] = s[j] => i = j
  BY <1>1 DEF Line, IsInjective
<1>3. \A i \in 1 .. n : s[i] \in S
  BY <1>1
<1>4. <<>> \in Line(S) /\ ToSet(<<>>) = {}
  BY EmptyLine
<1>5. Before(0) = {}
  OBVIOUS
<1> HIDE DEF n
<1>6. 0 \in T
  <2> DEFINE g == [i \in 0 .. n |-> <<>>]
  <2>1. g \in [0 .. n -> Line(S)]
    BY <1>4
  <2>2. ASSUME NEW i \in 0 .. n, i <= 0
        PROVE  i = 0 /\ g[i] = <<>>
    BY <1>1, <2>2
  <2> HIDE DEF g, Before
  <2>3. Good(g, 0)
    BY <1>4, <1>5, <2>2
  <2> QED
    BY <2>1, <2>3
<1>7. ASSUME NEW m \in Nat, m + 1 <= n, NEW g \in [0 .. n -> Line(S)], Good(g, m)
      PROVE  \E h \in [0 .. n -> Line(S)] : Good(h, m + 1)
  <2> DEFINE h == [i \in 0 .. n |-> IF i = m + 1 THEN Step(g, m + 1) ELSE g[i]]
  <2>1. m \in 0 .. n /\ m + 1 \in 0 .. n /\ m + 1 \in 1 .. n /\ (m + 1) - 1 = m /\ m + 1 # 0
    BY <1>1, <1>7
  <2>2. g[m] \in Line(S) /\ ToSet(g[m]) = Before(m)
    BY <1>7, <2>1
  <2>3. Before(m + 1) = Before(m) \cup ({s[m + 1]} \cap files)
    BY <2>1
  <2>4. s[m + 1] \notin Before(m)
    <3>1. ASSUME NEW j \in 1 .. m PROVE s[j] # s[m + 1]
      <4>1. j \in 1 .. n /\ j # m + 1
        BY <1>1, <1>7
      <4> QED
        BY <1>2, <2>1, <4>1
    <3> QED
      BY <3>1
  <2> HIDE DEF Before
  <2>5. Step(g, m + 1) \in Line(S) /\ ToSet(Step(g, m + 1)) = Before(m + 1)
    <3>1. CASE s[m + 1] \in files
      <4>1. ~ Contains(g[m], s[m + 1])
        BY <2>2, <2>4, ElementsOfLine DEF Contains
      <4>2. /\ Append(g[m], s[m + 1]) \in Line(S)
            /\ ToSet(Append(g[m], s[m + 1])) = ToSet(g[m]) \cup {s[m + 1]}
        BY <1>3, <2>1, <2>2, <4>1, AppendToLine
      <4> QED
        BY <2>1, <2>2, <2>3, <3>1, <4>2
    <3>2. CASE s[m + 1] \notin files
      BY <2>1, <2>2, <2>3, <3>2
    <3> QED
      BY <3>1, <3>2
  <2> HIDE DEF Step
  <2>6. h \in [0 .. n -> Line(S)]
    BY <2>5
  <2>7. h[m + 1] = Step(g, m + 1) /\ \A i \in 0 .. n : i <= m => h[i] = g[i]
    BY <2>1
  <2> HIDE DEF h
  <2>8. ASSUME NEW i \in 0 .. n, i <= m + 1
        PROVE  Step(h, i) = Step(g, i)
    <3>1. i # 0 => i - 1 \in 0 .. n /\ i - 1 <= m
      BY <1>1, <2>8
    <3>2. i # 0 => h[i - 1] = g[i - 1]
      BY <2>7, <3>1
    <3> QED
      BY <3>2 DEF Step
  <2>9. ASSUME NEW i \in 0 .. n, i <= m + 1
        PROVE  /\ h[i] = Step(h, i)
               /\ h[i] \in Line(S) /\ ToSet(h[i]) = Before(i)
    <3>1. CASE i = m + 1
      BY <2>5, <2>7, <2>8, <2>9, <3>1
    <3>2. CASE i <= m
      BY <1>7, <2>7, <2>8, <2>9, <3>2
    <3> QED
      BY <2>9, <3>1, <3>2
  <2> QED
    BY <2>6, <2>9
<1>8. ASSUME NEW m \in Nat, m \in T
      PROVE  m + 1 \in T
  <2> HIDE DEF Good
  <2> SUFFICES ASSUME m + 1 <= n
               PROVE  \E g \in [0 .. n -> Line(S)] : Good(g, m + 1)
    OBVIOUS
  <2>1. m <= n
    BY <1>1
  <2>2. PICK g \in [0 .. n -> Line(S)] : Good(g, m)
    BY <1>8, <2>1
  <2> QED
    BY <1>7, <2>2
<1> HIDE DEF T
<1>9. Nat \subseteq T
  BY <1>6, <1>8, SetInduction
<1>10. PICK g \in [0 .. n -> Line(S)] : Good(g, n)
  <2>1. n \in T
    BY <1>1, <1>9
  <2> HIDE DEF Good
  <2> QED
    BY <1>1, <2>1 DEF T
<1> DEFINE Is(k) == k = [i \in 0 .. n |-> Step(k, i)]
           kept == CHOOSE k : Is(k)
<1>11. Is(g)
  <2>1. \A i \in 0 .. n : i <= n
    BY <1>1
  <2>2. \A i \in 0 .. n : g[i] = Step(g, i)
    BY <1>10, <2>1
  <2> HIDE DEF Step
  <2> QED
    BY <2>2
<1>12. Is(kept)
  <2> HIDE DEF Is
  <2> QED
    BY <1>11
<1>13. Among(s, files) = kept[n]
  BY DEF Among, n
<1>14. \A i \in 0 .. n : kept[i] = Step(kept, i)
  BY <1>12
<1>15. \A i \in 0 .. n : g[i] = Step(g, i)
  BY <1>11
<1> HIDE DEF kept, Is
<1> DEFINE U == {m \in Nat : m <= n => kept[m] = g[m]}
<1>16. 0 \in U
  <2>1. 0 \in 0 .. n
    BY <1>1
  <2> QED
    BY <1>14, <1>15, <2>1
<1>17. ASSUME NEW m \in Nat, m \in U
       PROVE  m + 1 \in U
  <2> SUFFICES ASSUME m + 1 <= n
               PROVE  kept[m + 1] = g[m + 1]
    OBVIOUS
  <2>1. m + 1 \in 0 .. n /\ (m + 1) - 1 = m /\ m + 1 # 0 /\ m <= n
    BY <1>1
  <2>2. kept[m] = g[m]
    BY <1>17, <2>1
  <2>3. Step(kept, m + 1) = Step(g, m + 1)
    BY <2>1, <2>2
  <2> HIDE DEF Step
  <2> QED
    BY <1>14, <1>15, <2>1, <2>3
<1> HIDE DEF U
<1>18. Nat \subseteq U
  BY <1>16, <1>17, SetInduction
<1>19. kept[n] = g[n]
  BY <1>1, <1>18 DEF U
<1>20. g[n] \in Line(S) /\ ToSet(g[n]) = Before(n)
  <2>1. n \in 0 .. n /\ n <= n
    BY <1>1
  <2> HIDE DEF Before, Step
  <2> QED
    BY <1>10, <2>1
<1>21. Before(n) = ToSet(s) \cap files
  BY <1>1
<1> QED
  BY <1>13, <1>19, <1>20, <1>21

\* The list, the dictionary and the counters tell the same story, within the
\* limits.
Books ==
  /\ replacementPolicy \in Policies
  /\ filesList \in Line(Paths) /\ ToSet(filesList) = filesDict
  /\ currentNumOfFiles = Cardinality(filesDict) /\ currentNumOfFiles <= MaxFiles
  /\ currentStorageSize = Stored(filesDict) /\ currentStorageSize < MaxStorage

\* What may be said about the files at once.
LEMMA FilesAreCounted ==
  ASSUME FieldsTypeOK, Books
  PROVE  /\ filesDict \subseteq Paths /\ IsFiniteSet(filesDict)
         /\ currentNumOfFiles \in Nat /\ currentNumOfFiles = Len(filesList)
         /\ currentStorageSize \in Nat
         /\ MaxFiles \in Nat \ {0} /\ MaxStorage \in Nat \ {0}
         /\ \A s \in SUBSET filesDict :
              /\ IsFiniteSet(s) /\ Stored(s) \in Nat
              /\ \A x \in s : size[x] \in Nat
<1>1. /\ filesDict \subseteq Paths /\ IsFiniteSet(filesDict)
      /\ Cardinality(filesDict) = Len(filesList) /\ Len(filesList) \in Nat
  BY LineCardinality, ElementsOfLine DEF Books
<1>2. ASSUME NEW s \in SUBSET filesDict
      PROVE  /\ IsFiniteSet(s) /\ Stored(s) \in Nat
             /\ \A x \in s : size[x] \in Nat
  <2>1. IsFiniteSet(s) /\ \A x \in s : size[x] \in Nat
    BY <1>1, FS_Subset DEF FieldsTypeOK
  <2> QED
    BY <2>1, SumIsNat DEF Stored
<1>3. Stored(filesDict) \in Nat
  BY <1>2
<1> QED
  BY <1>1, <1>2, <1>3, LimitsAssumption DEF Books

\* Whatever changes the order of the list only.
LEMMA BooksStay ==
  ASSUME Books, UNCHANGED bookVars, filesList' \in Line(Paths),
         ToSet(filesList') = ToSet(filesList)
  PROVE  Books'
BY DEF Books, bookVars, Stored

\* Under LRU a file that is used goes to the top; the list holds the same files.
LEMMA TouchedLine ==
  ASSUME NEW p \in Paths, NEW list \in Line(Paths), p \in ToSet(list)
  PROVE  Touched(p, list) \in Line(Paths) /\ ToSet(Touched(p, list)) = ToSet(list)
<1>1. /\ RemoveFirst(list, p) \in Line(Paths)
      /\ ToSet(RemoveFirst(list, p)) = ToSet(list) \ {p}
  BY RemoveFromLine
<1>2. /\ Cons(p, RemoveFirst(list, p)) \in Line(Paths)
      /\ ToSet(Cons(p, RemoveFirst(list, p))) = (ToSet(list) \ {p}) \cup {p}
  BY <1>1, ConsToLine
<1> QED
  BY <1>2 DEF Touched, ToTheTop

\* Taking files out of a line leaves a line of the others.
LEMMA WithoutLine ==
  ASSUME NEW list \in Line(Paths), NEW gone
  PROVE  /\ Without(list, gone) \in Line(Paths)
         /\ ToSet(Without(list, gone)) = ToSet(list) \ gone
<1>1. ToSet(list) \subseteq Paths
  BY ElementsOfLine
<1> QED
  BY <1>1, AmongLine DEF Without

\* The files that go away leave the dictionary and their sizes behind.
LEMMA BooksWithout ==
  ASSUME FieldsTypeOK, Books, NEW gone \in SUBSET filesDict
  PROVE  /\ IsFiniteSet(filesDict \ gone) /\ Cardinality(gone) \in Nat
         /\ Cardinality(filesDict \ gone) = currentNumOfFiles - Cardinality(gone)
         /\ Stored(filesDict \ gone) = currentStorageSize - Stored(gone)
         /\ Stored(filesDict \ gone) \in Nat /\ Stored(gone) \in Nat
<1>1. /\ IsFiniteSet(filesDict) /\ \A x \in filesDict : size[x] \in Nat
      /\ IsFiniteSet(gone)
      /\ Stored(gone) \in Nat /\ Stored(filesDict \ gone) \in Nat
  BY FilesAreCounted
<1>2. /\ IsFiniteSet(filesDict \ gone)
      /\ Cardinality(filesDict \ gone) = Cardinality(filesDict) - Cardinality(filesDict \cap gone)
  BY <1>1, FS_Difference
<1>3. filesDict \cap gone = gone
  OBVIOUS
<1>4. Stored(filesDict) = Stored(gone) + Stored(filesDict \ gone)
  BY <1>1, SumSplit DEF Stored
<1>5. Cardinality(gone) \in Nat
  BY <1>1, FS_CardinalityType
<1>6. currentNumOfFiles = Cardinality(filesDict) /\ currentStorageSize = Stored(filesDict)
  BY DEF Books
<1>7. Stored(filesDict \ gone) = currentStorageSize - Stored(gone)
  BY <1>1, <1>4, <1>6
<1>8. Cardinality(filesDict \ gone) = currentNumOfFiles - Cardinality(gone)
  BY <1>2, <1>3, <1>6
<1> QED
  BY <1>1, <1>2, <1>5, <1>7, <1>8

\* The last n elements of a line are n different elements of it.
LEMMA LastOfLine ==
  ASSUME NEW S, NEW s \in Line(S), NEW n \in 0 .. Len(s)
  PROVE  /\ LastOf(s, n) \subseteq ToSet(s)
         /\ n = Len(s) => LastOf(s, n) = ToSet(s)
         /\ n = 0 => LastOf(s, n) = {}
         /\ n # 0 => s[Len(s) - n + 1] \in LastOf(s, n)
<1>1. /\ Len(s) \in Nat /\ \A x : x \in ToSet(s) <=> \E i \in 1 .. Len(s) : s[i] = x
  BY ElementsOfLine
<1>2. \A i \in Len(s) - n + 1 .. Len(s) : i \in 1 .. Len(s)
  BY <1>1
<1>3. n = Len(s) => Len(s) - n + 1 = 1
  BY <1>1
<1>4. n = 0 => Len(s) - n + 1 .. Len(s) = {}
  BY <1>1
<1>5. n # 0 => Len(s) - n + 1 \in Len(s) - n + 1 .. Len(s)
  BY <1>1
<1> QED
  BY <1>1, <1>2, <1>3, <1>4, <1>5 DEF LastOf

\* openFile evicts the last file if there are as many as allowed.
LEMMA NewEvicts ==
  ASSUME FieldsTypeOK, Books
  PROVE  /\ EvictedByNew \subseteq filesDict
         /\ Cardinality(EvictedByNew) = IF currentNumOfFiles = MaxFiles THEN 1 ELSE 0
         /\ currentNumOfFiles = MaxFiles =>
              Len(filesList) \in 1 .. Len(filesList) /\ EvictedByNew = {filesList[Len(filesList)]}
         /\ currentNumOfFiles # MaxFiles => EvictedByNew = {}
<1>1. /\ currentNumOfFiles \in Nat /\ currentNumOfFiles = Len(filesList)
      /\ MaxFiles \in Nat \ {0}
  BY FilesAreCounted
<1>2. CASE currentNumOfFiles = MaxFiles
  <2> DEFINE n == Len(filesList)
  <2>1. n \in Nat \ {0} /\ 1 \in 0 .. n /\ n - 1 + 1 = n /\ n .. n = {n} /\ n \in 1 .. n
    BY <1>1, <1>2
  <2>2. LastOf(filesList, 1) \subseteq ToSet(filesList)
    BY <2>1, LastOfLine DEF Books
  <2>3. LastOf(filesList, 1) = {filesList[n]}
    BY <2>1 DEF LastOf
  <2>4. EvictedByNew = LastOf(filesList, 1)
    BY <1>2 DEF EvictedByNew
  <2>5. Cardinality({filesList[n]}) = 1
    BY FS_Singleton
  <2> QED
    BY <1>2, <2>1, <2>2, <2>3, <2>4, <2>5 DEF Books
<1>3. CASE currentNumOfFiles # MaxFiles
  BY <1>3, FS_EmptySet DEF EvictedByNew
<1> QED
  BY <1>2, <1>3

\* openFile of a path that is not stored: one file out at most, one file in.
LEMMA OpenNewKeepsBooks ==
  ASSUME FieldsTypeOK, Books, NEW o \in Owners, NEW p \in Paths, NEW locking \in BOOLEAN,
         OpenNew(o, p, locking)
  PROVE  Books'
<1>1. PICK gone \in SUBSET filesDict :
        /\ gone = EvictedByNew
        /\ Cardinality(gone) = IF currentNumOfFiles = MaxFiles THEN 1 ELSE 0
  BY NewEvicts
<1>2. /\ p \notin filesDict
      /\ filesDict' = (filesDict \ gone) \cup {p}
      /\ filesList' = Cons(p, Without(filesList, gone))
      /\ currentNumOfFiles' = currentNumOfFiles - Cardinality(gone) + 1
      /\ currentStorageSize' = currentStorageSize - Stored(gone)
      /\ size' = [Dropped(size, gone, 0) EXCEPT ![p] = 0]
      /\ replacementPolicy' = replacementPolicy
  BY <1>1 DEF OpenNew
<1> DEFINE rest == filesDict \ gone
<1>3. /\ IsFiniteSet(rest) /\ Cardinality(gone) \in Nat
      /\ Cardinality(rest) = currentNumOfFiles - Cardinality(gone)
      /\ Stored(rest) = currentStorageSize - Stored(gone)
      /\ Stored(rest) \in Nat /\ Stored(gone) \in Nat
  BY BooksWithout
<1>4. filesDict \subseteq Paths /\ \A x \in rest : size[x] \in Nat
  BY FilesAreCounted
<1>5. filesList' \in Line(Paths) /\ ToSet(filesList') = filesDict'
  <2>1. /\ Without(filesList, gone) \in Line(Paths)
        /\ ToSet(Without(filesList, gone)) = rest
    BY WithoutLine DEF Books
  <2>2. p \notin rest
    BY <1>2
  <2> QED
    BY <1>2, <2>1, <2>2, ConsToLine
<1>6. Cardinality(filesDict') = Cardinality(rest) + 1
  BY <1>2, <1>3, FS_AddElement
<1>7. Stored(filesDict)' = Stored(rest)
  <2>1. \A x \in rest : size'[x] \in Nat /\ size'[x] = size[x]
    <3> SUFFICES ASSUME NEW x \in rest PROVE size'[x] \in Nat /\ size'[x] = size[x]
      OBVIOUS
    <3>1. x \in Paths /\ x # p /\ x \notin gone /\ size[x] \in Nat
      BY <1>2, <1>4
    <3> QED
      BY <1>2, <3>1 DEF Dropped
  <2>2. size'[p] = 0
    BY <1>2 DEF Dropped
  <2>3. IsFiniteSet(filesDict') /\ p \in filesDict' /\ filesDict' \ {p} = rest
    BY <1>2, <1>3, FS_AddElement
  <2>4. \A x \in filesDict' : size'[x] \in Nat
    BY <1>2, <2>1, <2>2
  <2>5. SumFunctionOnSet(size', filesDict') = size'[p] + SumFunctionOnSet(size', rest)
    BY <2>3, <2>4, SumWithout
  <2>6. SumFunctionOnSet(size', rest) = SumFunctionOnSet(size, rest)
    BY <1>3, <2>1, SameSum
  <2> HIDE DEF rest
  <2>7. SumFunctionOnSet(size', filesDict') = SumFunctionOnSet(size, rest)
    BY <1>3, <2>2, <2>5, <2>6 DEF Stored
  <2> QED
    BY <2>7 DEF Stored
<1> HIDE DEF rest
<1>8. /\ currentNumOfFiles' = Cardinality(filesDict') /\ currentNumOfFiles' <= MaxFiles
  <2>1. currentNumOfFiles \in Nat /\ currentNumOfFiles <= MaxFiles /\ MaxFiles \in Nat
    BY FilesAreCounted DEF Books
  <2> QED
    BY <1>1, <1>2, <1>3, <1>6, <2>1
<1>9. currentStorageSize' = Stored(filesDict)' /\ currentStorageSize' < MaxStorage
  <2>1. currentStorageSize \in Nat /\ currentStorageSize < MaxStorage /\ MaxStorage \in Nat
    BY FilesAreCounted DEF Books
  <2> QED
    BY <1>2, <1>3, <1>7, <2>1
<1> QED
  BY <1>2, <1>5, <1>8, <1>9 DEF Books

\* There is room for the content once the last n other files are gone.
RoomAfter(p, content, n) ==
  currentStorageSize - Stored(LastOf(RemoveFirst(filesList, p), n)) + content < MaxStorage

\* appendToFile evicts the last files, other than the one it writes: the fewest
\* that leave room for the content.
LEMMA AppendEvicts ==
  ASSUME FieldsTypeOK, Books, NEW p \in filesDict, NEW content
  PROVE  \E n \in 0 .. Len(RemoveFirst(filesList, p)) :
           /\ EvictedFor(p, content) = LastOf(RemoveFirst(filesList, p), n)
           /\ RoomAfter(p, content, n) \/ n = Len(RemoveFirst(filesList, p))
           /\ \A m \in 0 .. n - 1 : ~ RoomAfter(p, content, m)
<1> DEFINE others == RemoveFirst(filesList, p)
           Fewest(n) == /\ RoomAfter(p, content, n) \/ n = Len(others)
                        /\ \A m \in 0 .. n - 1 : ~ RoomAfter(p, content, m)
           chosen == CHOOSE n \in 0 .. Len(others) : Fewest(n)
<1>1. Len(others) \in Nat
  <2>1. others \in Line(Paths)
    BY RemoveFromLine DEF Books
  <2> QED
    BY <2>1, ElementsOfLine
<1> HIDE DEF others
<1> DEFINE T == {n \in 0 .. Len(others) : RoomAfter(p, content, n) \/ n = Len(others)}
<1>2. T \subseteq Nat /\ Len(others) \in T
  BY <1>1
<1>3. PICK n \in T : \A m \in T : n <= m
  BY <1>2, NatMin
<1>4. \A m \in 0 .. n - 1 : m \in 0 .. Len(others) /\ ~ (n <= m)
  BY <1>1, <1>2, <1>3
<1>5. n \in 0 .. Len(others) /\ Fewest(n)
  BY <1>3, <1>4
<1>6. chosen \in 0 .. Len(others) /\ Fewest(chosen)
  <2> HIDE DEF Fewest
  <2> QED
    BY <1>5
<1>7. EvictedFor(p, content) = LastOf(others, chosen)
  BY DEF EvictedFor, RoomAfter, others
<1> HIDE DEF chosen
<1> QED
  BY <1>6, <1>7 DEF others

\* appendToFile: the bytes of what is evicted go, the content comes.
LEMMA AppendKeepsBooks ==
  ASSUME FieldsTypeOK, Books, NEW o \in Owners, NEW p \in Paths, NEW content \in Sizes,
         NEW write \in BOOLEAN, AppendToFile(o, p, content, write)
  PROVE  Books'
<1> DEFINE gone == EvictedFor(p, content)
           rest == filesDict \ gone
<1>1. /\ p \in filesDict /\ ~ (size[p] + content >= MaxStorage)
      /\ filesDict' = rest
      /\ filesList' = Touched(p, Without(filesList, gone))
      /\ currentNumOfFiles' = currentNumOfFiles - Cardinality(gone)
      /\ currentStorageSize' = currentStorageSize - Stored(gone) + content
      /\ size' = [Dropped(size, gone, 0) EXCEPT ![p] = @ + content]
      /\ replacementPolicy' = replacementPolicy
  BY DEF AppendToFile, WriteRefused
<1>2. content \in Nat /\ size[p] \in Nat /\ filesDict \subseteq Paths
  BY SizesAssumption, FilesAreCounted DEF FieldsTypeOK
<1>3. /\ RemoveFirst(filesList, p) \in Line(Paths)
      /\ ToSet(RemoveFirst(filesList, p)) = filesDict \ {p}
  BY RemoveFromLine DEF Books
<1>4. PICK n \in 0 .. Len(RemoveFirst(filesList, p)) :
        /\ gone = LastOf(RemoveFirst(filesList, p), n)
        /\ RoomAfter(p, content, n) \/ n = Len(RemoveFirst(filesList, p))
  BY <1>1, AppendEvicts
<1>5. /\ gone \subseteq filesDict \ {p}
      /\ n = Len(RemoveFirst(filesList, p)) => gone = filesDict \ {p}
  BY <1>3, <1>4, LastOfLine
<1>6. RoomAfter(p, content, n) => currentStorageSize - Stored(gone) + content < MaxStorage
  BY <1>4 DEF RoomAfter
<1> HIDE DEF gone
<1>7. gone \in SUBSET filesDict /\ p \in rest
  BY <1>1, <1>5
<1>8. /\ IsFiniteSet(rest) /\ Cardinality(gone) \in Nat
      /\ Cardinality(rest) = currentNumOfFiles - Cardinality(gone)
      /\ Stored(rest) = currentStorageSize - Stored(gone)
      /\ Stored(rest) \in Nat /\ Stored(gone) \in Nat
  BY <1>7, BooksWithout
<1>9. filesList' \in Line(Paths) /\ ToSet(filesList') = filesDict'
  <2>1. /\ Without(filesList, gone) \in Line(Paths)
        /\ ToSet(Without(filesList, gone)) = rest
    BY WithoutLine DEF Books
  <2> QED
    BY <1>1, <1>7, <2>1, TouchedLine
<1>10. Stored(filesDict)' = Stored(rest) + content
  <2> DEFINE others == rest \ {p}
  <2>1. \A x \in others : size'[x] \in Nat /\ size'[x] = size[x]
    <3> SUFFICES ASSUME NEW x \in others PROVE size'[x] \in Nat /\ size'[x] = size[x]
      OBVIOUS
    <3>1. x \in Paths /\ x # p /\ x \notin gone /\ size[x] \in Nat
      BY <1>2 DEF FieldsTypeOK
    <3> QED
      BY <1>1, <3>1 DEF Dropped
  <2>2. size'[p] = size[p] + content
    BY <1>1, <1>7 DEF Dropped
  <2>3. \A x \in rest : size'[x] \in Nat /\ size[x] \in Nat
    BY <1>2, <2>1, <2>2 DEF FieldsTypeOK
  <2>4. IsFiniteSet(others)
    BY <1>8, FS_RemoveElement
  <2>5. SumFunctionOnSet(size', rest) = size'[p] + SumFunctionOnSet(size', others)
    BY <1>7, <1>8, <2>3, SumWithout
  <2>6. SumFunctionOnSet(size, rest) = size[p] + SumFunctionOnSet(size, others)
    BY <1>7, <1>8, <2>3, SumWithout
  <2>7. SumFunctionOnSet(size', others) = SumFunctionOnSet(size, others)
    BY <2>1, <2>4, SameSum
  <2>8. SumFunctionOnSet(size, others) \in Nat
    BY <2>3, <2>4, SumIsNat
  <2> HIDE DEF others, rest
  <2>9. SumFunctionOnSet(size', rest) = SumFunctionOnSet(size, rest) + content
    BY <1>2, <2>2, <2>5, <2>6, <2>7, <2>8
  <2> QED
    BY <1>1, <2>9 DEF Stored
<1>11. Stored(rest) + content < MaxStorage
  <2>1. CASE RoomAfter(p, content, n)
    BY <1>6, <1>8, <2>1
  <2>2. CASE n = Len(RemoveFirst(filesList, p))
    <3>1. rest = {p}
      BY <1>1, <1>5, <2>2
    <3>2. IsFiniteSet({p}) /\ {p} \ {p} = {}
      BY FS_Singleton
    <3>3. Stored({p}) = size[p] + Stored({})
      <4>1. \A y \in {p} : size[y] \in Nat
        BY <1>2
      <4> QED
        BY <3>2, <4>1, SumWithout DEF Stored
    <3>4. Stored({}) = 0
      BY SumOfNone DEF Stored
    <3> HIDE DEF rest
    <3>5. Stored(rest) = size[p]
      BY <1>2, <3>1, <3>3, <3>4
    <3> QED
      BY <1>1, <1>2, <3>5, LimitsAssumption
  <2> QED
    BY <1>4, <2>1, <2>2
<1> HIDE DEF rest
<1>12. /\ currentNumOfFiles' = Cardinality(filesDict') /\ currentNumOfFiles' <= MaxFiles
  <2>1. currentNumOfFiles \in Nat /\ currentNumOfFiles <= MaxFiles /\ MaxFiles \in Nat
    BY FilesAreCounted DEF Books
  <2> QED
    BY <1>1, <1>8, <2>1
<1>13. currentStorageSize' = Stored(filesDict)' /\ currentStorageSize' < MaxStorage
  BY <1>1, <1>8, <1>10, <1>11
<1> QED
  BY <1>1, <1>9, <1>12, <1>13 DEF Books

\* removeFile: one file and its bytes go.
LEMMA RemoveKeepsBooks ==
  ASSUME FieldsTypeOK, Books, NEW o \in Owners, NEW p \in Paths, RemoveFile(o, p)
  PROVE  Books'
<1> DEFINE rest == filesDict \ {p}
<1>1. /\ p \in filesDict /\ filesDict' = rest
      /\ filesList' = RemoveFirst(filesList, p)
      /\ currentNumOfFiles' = currentNumOfFiles - 1
      /\ currentStorageSize' = currentStorageSize - size[p]
      /\ size' = Dropped(size, {p}, 0)
      /\ replacementPolicy' = replacementPolicy
  BY DEF RemoveFile
<1>2. Cardinality({p}) = 1 /\ IsFiniteSet({p})
  BY FS_Singleton
<1>3. /\ IsFiniteSet(rest)
      /\ Cardinality(rest) = currentNumOfFiles - 1
      /\ IsFiniteSet(filesDict) /\ \A x \in filesDict : size[x] \in Nat
      /\ filesDict \subseteq Paths
      /\ currentStorageSize \in Nat /\ Stored(rest) \in Nat
      /\ currentNumOfFiles \in Nat
  <2>1. {p} \in SUBSET filesDict
    BY <1>1
  <2> QED
    BY <1>2, <2>1, BooksWithout, FilesAreCounted
<1>4. Stored(filesDict) = size[p] + Stored(rest) /\ size[p] \in Nat
  BY <1>1, <1>3, SumWithout DEF Stored
<1>5. Stored(filesDict)' = Stored(rest)
  <2>1. \A x \in rest : size'[x] \in Nat /\ size'[x] = size[x]
    BY <1>1, <1>3 DEF Dropped
  <2>2. SumFunctionOnSet(size', rest) = SumFunctionOnSet(size, rest)
    BY <1>3, <2>1, SameSum
  <2> QED
    BY <1>1, <2>2 DEF Stored
<1>6. filesList' \in Line(Paths) /\ ToSet(filesList') = filesDict'
  BY <1>1, RemoveFromLine DEF Books
<1> HIDE DEF rest
<1>7. currentNumOfFiles' = Cardinality(filesDict') /\ currentNumOfFiles' <= MaxFiles
  <2>1. currentNumOfFiles <= MaxFiles /\ MaxFiles \in Nat
    BY LimitsAssumption DEF Books
  <2> QED
    BY <1>1, <1>3, <2>1
<1>8. currentStorageSize' = Stored(filesDict)' /\ currentStorageSize' < MaxStorage
  <2>1. currentStorageSize = Stored(filesDict) /\ currentStorageSize < MaxStorage
    BY DEF Books
  <2> QED
    BY <1>1, <1>3, <1>4, <1>5, <2>1, LimitsAssumption
<1> QED
  BY <1>1, <1>6, <1>7, <1>8 DEF Books

\* readNFiles puts what it read on top.
LEMMA ReadNKeepsBooks ==
  ASSUME FieldsTypeOK, Books, NEW o \in Owners, NEW n \in Nat, ReadNFile(o, n)
  PROVE  Books'
<1>1. PICK read :
        /\ filesList' = IF replacementPolicy = "LRU"
                        THEN Among(filesList, read) \o Without(filesList, read)
                        ELSE filesList
        /\ UNCHANGED bookVars
  BY DEF ReadNFile
<1> DEFINE top == Among(filesList, read)
           bottom == Without(filesList, read)
<1>2. /\ top \in Line(Paths) /\ ToSet(top) = ToSet(filesList) \cap read
      /\ bottom \in Line(Paths) /\ ToSet(bottom) = ToSet(filesList) \ read
  BY AmongLine, WithoutLine DEF Books
<1> HIDE DEF top, bottom
<1>3. ToSet(top) \cap ToSet(bottom) = {}
  BY <1>2
<1>4. top \o bottom \in Line(Paths) /\ ToSet(top \o bottom) = ToSet(top) \cup ToSet(bottom)
  BY <1>2, <1>3, ConcatLines
<1>5. ToSet(top \o bottom) = ToSet(filesList)
  BY <1>2, <1>4
<1>6. CASE replacementPolicy = "LRU"
  <2>1. filesList' = top \o bottom
    BY <1>1, <1>6 DEF top, bottom
  <2> QED
    BY <1>1, <1>4, <1>5, <2>1, BooksStay
<1>7. CASE replacementPolicy # "LRU"
  <2>1. filesList' = filesList
    BY <1>1, <1>7
  <2> QED
    BY <1>1, <2>1, BooksStay DEF Books
<1> QED
  BY <1>6, <1>7

\* The operations that at most touch a file.
LEMMA TouchingKeepsBooks ==
  ASSUME FieldsTypeOK, Books, NEW o \in Owners, NEW p \in Paths,
         \/ \E locking \in BOOLEAN : Open(o, p, locking)
         \/ ReadFile(o, p) \/ LockFile(o, p) \/ UnlockFile(o, p) \/ CloseFile(o, p)
  PROVE  Books'
<1>1. p \in filesDict /\ filesList' = Touched(p, filesList) /\ UNCHANGED bookVars
  BY DEF Open, ReadFile, LockFile, UnlockFile, CloseFile
<1>2. filesList' \in Line(Paths) /\ ToSet(filesList') = ToSet(filesList)
  BY <1>1, TouchedLine DEF Books
<1> QED
  BY <1>1, <1>2, BooksStay

\* Books is inductive, given the types of the fields.
LEMMA NextKeepsBooks ==
  ASSUME FieldsTypeOK, Books, [Next]_vars
  PROVE  Books'
<1>1. CASE UNCHANGED vars
  BY <1>1 DEF vars, bookVars, Books, Stored
<1>2. CASE Next
  <2>1. PICK o \in Owners :
      \/ \E p \in Paths, locking \in BOOLEAN : OpenNew(o, p, locking) \/ Open(o, p, locking)
      \/ \E p \in Paths : ReadFile(o, p)
      \/ \E n \in 0 .. MaxFiles - 1 : ReadNFile(o, n)
      \/ \E p \in Paths, content \in Sizes, write \in BOOLEAN :
           AppendToFile(o, p, content, write)
      \/ \E p \in Paths : LockFile(o, p) \/ UnlockFile(o, p)
      \/ \E p \in Paths : CloseFile(o, p) \/ RemoveFile(o, p)
      \/ EvictClient(o)
    BY <1>2 DEF Next
  <2>2. ASSUME EvictClient(o) PROVE Books'
    BY <2>2, BooksStay DEF EvictClient, Books
  <2>3. ASSUME NEW n \in 0 .. MaxFiles - 1, ReadNFile(o, n) PROVE Books'
    BY <2>3, ReadNKeepsBooks
  <2>4. ASSUME NEW p \in Paths, NEW locking \in BOOLEAN, OpenNew(o, p, locking)
        PROVE  Books'
    BY <2>4, OpenNewKeepsBooks
  <2>5. ASSUME NEW p \in Paths, NEW content \in Sizes, NEW write \in BOOLEAN,
               AppendToFile(o, p, content, write)
        PROVE  Books'
    BY <2>5, AppendKeepsBooks
  <2>6. ASSUME NEW p \in Paths, RemoveFile(o, p) PROVE Books'
    BY <2>6, RemoveKeepsBooks
  <2>7. ASSUME NEW p \in Paths,
               \/ \E locking \in BOOLEAN : Open(o, p, locking)
               \/ ReadFile(o, p) \/ LockFile(o, p) \/ UnlockFile(o, p) \/ CloseFile(o, p)
        PROVE  Books'
    BY <2>7, TouchingKeepsBooks
  <2> QED
    BY <2>1, <2>2, <2>3, <2>4, <2>5, <2>6, <2>7
<1> QED
  BY <1>1, <1>2

\* The storage starts empty.
LEMMA BooksInit == Init => Books
<1> SUFFICES ASSUME Init PROVE Books
  OBVIOUS
<1>1. filesList \in Line(Paths) /\ ToSet(filesList) = {} /\ filesDict = {}
  BY EmptyLine DEF Init
<1>2. Cardinality(filesDict) = 0 /\ Stored(filesDict) = 0
  BY <1>1, FS_EmptySet, SumOfNone DEF Stored
<1>3. /\ replacementPolicy \in Policies
      /\ currentNumOfFiles = 0 /\ currentStorageSize = 0
      /\ 0 <= MaxFiles /\ 0 < MaxStorage
  BY LimitsAssumption DEF Init
<1> QED
  BY <1>1, <1>2, <1>3 DEF Books

\* Books, and the types of the fields, say what TypeOK and BooksBalance say.
LEMMA BooksAreBalanced ==
  ASSUME FieldsTypeOK, Books
  PROVE  TypeOK /\ BooksBalance
<1>1. /\ filesDict \subseteq Paths
      /\ currentNumOfFiles \in Nat /\ currentNumOfFiles = Len(filesList)
      /\ currentStorageSize \in Nat
      /\ MaxFiles \in Nat \ {0} /\ MaxStorage \in Nat \ {0}
  BY FilesAreCounted
<1>2. /\ currentNumOfFiles <= MaxFiles /\ currentStorageSize < MaxStorage
      /\ replacementPolicy \in Policies
      /\ currentNumOfFiles = Cardinality(filesDict) /\ currentStorageSize = Stored(filesDict)
      /\ filesList \in Seq(Paths) /\ ToSet(filesList) = filesDict
  BY DEF Books, Line
<1>3. currentNumOfFiles \in 0 .. MaxFiles /\ currentStorageSize \in 0 .. MaxStorage - 1
  BY <1>1, <1>2
<1>4. TypeOK
  BY <1>1, <1>2, <1>3 DEF TypeOK
<1>5. BooksBalance
  BY <1>1, <1>2 DEF BooksBalance
<1> QED
  BY <1>4, <1>5

\* In every reachable state the books are right.
THEOREM BooksInvariance == Spec => []Books
<1>1. IInv => FieldsTypeOK
  BY DEF IInv
<1>2. Init => Books
  BY BooksInit
<1>3. FieldsTypeOK /\ Books /\ [Next]_vars => Books'
  BY NextKeepsBooks
<1> QED
  BY <1>1, <1>2, <1>3, Invariance, PTL DEF Spec

\* Every variable has its type, and the storage never holds more files, nor as
\* many bytes, as its limits allow.
THEOREM TypeCorrectness == Spec => []TypeOK
<1>1. IInv => FieldsTypeOK
  BY DEF IInv
<1>2. FieldsTypeOK /\ Books => TypeOK
  BY BooksAreBalanced
<1> QED
  BY <1>1, <1>2, Invariance, BooksInvariance, PTL

\* The list of the files, the dictionary and the two counters agree: each file
\* is in the list once and is counted once, with the bytes it holds.
THEOREM BooksAreRight == Spec => []BooksBalance
<1>1. IInv => FieldsTypeOK
  BY DEF IInv
<1>2. FieldsTypeOK /\ Books => BooksBalance
  BY BooksAreBalanced
<1> QED
  BY <1>1, <1>2, Invariance, BooksInvariance, PTL

-----------------------------------------------------------------------------
(* Which files are evicted.                                                *)

\* A file has one position in the list.
LEMMA PositionIs ==
  ASSUME Books, NEW i \in 1 .. Len(filesList)
  PROVE  Position(filesList[i]) = i
<1>1. /\ DOMAIN filesList = 1 .. Len(filesList)
      /\ \A j, k \in DOMAIN filesList : filesList[j] = filesList[k] => j = k
  BY ElementsOfLine DEF Books, Line, IsInjective
<1> QED
  BY <1>1 DEF Position

\* A step that only removes files, or only resets sizes, evicts nothing.
LEMMA NothingIsEvicted ==
  ASSUME FieldsTypeOK, filesDict' \subseteq filesDict,
         \A p \in Paths : size'[p] = size[p] \/ size'[p] = 0
  PROVE  LastAndFew
<1>1. ASSUME NEW p \in Paths PROVE ~ (size'[p] > size[p])
  <2>1. size[p] \in Nat
    BY DEF FieldsTypeOK
  <2>2. size'[p] = size[p] \/ size'[p] = 0
    OBVIOUS
  <2> QED
    BY <2>1, <2>2
<1>2. Grown = {}
  BY <1>1 DEF Grown
<1> QED
  BY <1>2 DEF LastAndFew, Evicted

\* openFile evicts the last file, and only when the storage is full of files.
LEMMA OpenNewEvicts ==
  ASSUME FieldsTypeOK, Books, NEW o \in Owners, NEW p \in Paths, NEW locking \in BOOLEAN,
         OpenNew(o, p, locking)
  PROVE  LastAndFew
<1> DEFINE gone == EvictedByNew
           n == Len(filesList)
<1>1. /\ p \notin filesDict
      /\ filesDict' = (filesDict \ gone) \cup {p}
      /\ size' = [Dropped(size, gone, 0) EXCEPT ![p] = 0]
  BY DEF OpenNew
<1>2. /\ gone \subseteq filesDict
      /\ currentNumOfFiles = MaxFiles => n \in 1 .. n /\ gone = {filesList[n]}
      /\ currentNumOfFiles # MaxFiles => gone = {}
  BY NewEvicts
<1> HIDE DEF gone
<1>3. Grown = {}
  <2>1. ASSUME NEW q \in Paths PROVE ~ (size'[q] > size[q])
    <3>1. size'[q] = size[q] \/ size'[q] = 0
      BY <1>1 DEF Dropped
    <3> QED
      BY <3>1 DEF FieldsTypeOK
  <2> QED
    BY <2>1 DEF Grown
<1>4. Evicted = gone
  BY <1>1, <1>2, <1>3 DEF Evicted
<1>5. ASSUME NEW e \in gone
      PROVE  /\ \A q \in (filesDict \cap filesDict') \ Grown : Position(q) < Position(e)
             /\ Evicted = {e} /\ currentNumOfFiles = MaxFiles
  <2>1. currentNumOfFiles = MaxFiles /\ n \in 1 .. n /\ gone = {e} /\ e = filesList[n]
    BY <1>2
  <2>2. Position(e) = n
    BY <2>1, PositionIs
  <2>3. ASSUME NEW q \in filesDict \cap filesDict' PROVE Position(q) < n
    <3>1. PICK i \in 1 .. n : filesList[i] = q
      BY ElementsOfLine DEF Books
    <3>2. q \notin gone
      BY <1>1, <2>3
    <3>3. i # n
      BY <2>1, <3>1, <3>2
    <3>4. Position(q) = i
      BY <3>1, PositionIs
    <3>5. n \in Nat
      BY ElementsOfLine DEF Books
    <3> QED
      BY <3>3, <3>4, <3>5
  <2> QED
    BY <1>4, <2>1, <2>2, <2>3
<1> QED
  BY <1>3, <1>4, <1>5 DEF LastAndFew

\* The list without p is in the same order.
LEMMA OrderOfOthers ==
  ASSUME Books, NEW p \in filesDict
  PROVE  LET others == RemoveFirst(filesList, p) IN
         /\ Len(others) \in Nat /\ others \in Line(Paths) /\ ToSet(others) = filesDict \ {p}
         /\ \A i, j \in 1 .. Len(others) :
              i < j => Position(others[i]) < Position(others[j])
<1> DEFINE others == RemoveFirst(filesList, p)
           n == Len(filesList)
<1>1. /\ filesList \in Seq(Paths) /\ n \in Nat
      /\ \A x : x \in filesDict <=> \E i \in 1 .. n : filesList[i] = x
  BY ElementsOfLine DEF Books
<1>2. PICK k \in 1 .. n : filesList[k] = p
  BY <1>1
<1>3. others \in Line(Paths) /\ ToSet(others) = filesDict \ {p}
  BY RemoveFromLine DEF Books
<1>4. others = RemoveAt(filesList, k)
  BY <1>2, RemoveFirstIsRemoveAt DEF Books
<1>5. /\ DOMAIN others = 1 .. n - 1
      /\ \A i \in 1 .. n - 1 : others[i] = IF i < k THEN filesList[i] ELSE filesList[i + 1]
  BY <1>1, <1>4, RemoveAtProperties
<1>6. Len(others) \in Nat /\ DOMAIN others = 1 .. Len(others)
  BY <1>3, ElementsOfLine
<1>7. Len(others) = n - 1
  BY <1>1, <1>2, <1>5, <1>6
<1> HIDE DEF others
<1>8. ASSUME NEW i \in 1 .. Len(others)
      PROVE  Position(others[i]) = IF i < k THEN i ELSE i + 1
  <2>1. i \in 1 .. n /\ i + 1 \in 1 .. n /\ i \in 1 .. n - 1
    BY <1>1, <1>7
  <2>2. Position(filesList[i]) = i /\ Position(filesList[i + 1]) = i + 1
    BY <2>1, PositionIs
  <2> QED
    BY <1>5, <2>1, <2>2
<1>9. ASSUME NEW i \in 1 .. Len(others), NEW j \in 1 .. Len(others), i < j
      PROVE  Position(others[i]) < Position(others[j])
  BY <1>8, <1>9
<1> QED
  BY <1>3, <1>6, <1>9 DEF others

\* appendToFile evicts the last files, and the first of them that it could spare
\* would have left no room.
LEMMA AppendEvictsLastAndFew ==
  ASSUME FieldsTypeOK, Books, NEW o \in Owners, NEW p \in Paths, NEW content \in Sizes,
         NEW write \in BOOLEAN, AppendToFile(o, p, content, write)
  PROVE  LastAndFew
<1> DEFINE gone == EvictedFor(p, content)
           others == RemoveFirst(filesList, p)
           l == Len(others)
<1>1. /\ p \in filesDict
      /\ filesDict' = filesDict \ gone
      /\ currentStorageSize' = currentStorageSize - Stored(gone) + content
      /\ size' = [Dropped(size, gone, 0) EXCEPT ![p] = @ + content]
  BY DEF AppendToFile
<1>2. content \in Nat \ {0} /\ size[p] \in Nat /\ filesDict \subseteq Paths
  BY SizesAssumption, FilesAreCounted DEF FieldsTypeOK
<1>3. /\ l \in Nat /\ others \in Line(Paths) /\ ToSet(others) = filesDict \ {p}
      /\ \A i, j \in 1 .. l : i < j => Position(others[i]) < Position(others[j])
  BY <1>1, OrderOfOthers
<1>4. PICK n \in 0 .. l : /\ gone = LastOf(others, n)
                          /\ \A m \in 0 .. n - 1 : ~ RoomAfter(p, content, m)
  BY <1>1, AppendEvicts
<1>5. \A m : RoomAfter(p, content, m) <=>
               currentStorageSize - Stored(LastOf(others, m)) + content < MaxStorage
  BY DEF RoomAfter
<1>6. \A x : x \in gone <=> \E i \in l - n + 1 .. l : others[i] = x
  BY <1>4 DEF LastOf
<1>7. gone \subseteq filesDict \ {p}
  BY <1>3, <1>4, LastOfLine
<1> HIDE DEF gone
<1>8. Grown = {p}
  <2>1. size'[p] > size[p]
    <3>1. size'[p] = size[p] + content
      BY <1>1, <1>7 DEF Dropped
    <3> QED
      BY <1>2, <3>1
  <2>2. ASSUME NEW q \in Paths, q # p PROVE ~ (size'[q] > size[q])
    <3>1. size'[q] = size[q] \/ size'[q] = 0
      BY <1>1, <2>2 DEF Dropped
    <3> QED
      BY <3>1 DEF FieldsTypeOK
  <2> QED
    BY <2>1, <2>2 DEF Grown
<1>9. Evicted = gone
  BY <1>1, <1>7, <1>8 DEF Evicted
<1> HIDE DEF others, l
<1>10. \A x \in filesDict \ {p} : \E i \in 1 .. l : others[i] = x
  BY <1>3, ElementsOfLine DEF l
<1>11. ASSUME NEW e \in gone, NEW q \in (filesDict \cap filesDict') \ Grown
       PROVE  Position(q) < Position(e)
  <2>1. PICK i \in l - n + 1 .. l : others[i] = e
    BY <1>6
  <2>2. q \in filesDict \ {p} /\ q \notin gone
    BY <1>1, <1>8
  <2>3. PICK j \in 1 .. l : others[j] = q
    BY <1>10, <2>2
  <2>4. j \notin l - n + 1 .. l
    BY <1>6, <2>2, <2>3
  <2>5. i \in 1 .. l /\ j < i
    BY <1>3, <2>4
  <2> QED
    BY <1>3, <2>1, <2>3, <2>5
<1>12. ASSUME NEW e \in gone, \A q \in gone : Position(e) <= Position(q)
       PROVE  currentStorageSize' + size[e] >= MaxStorage
  <2> DEFINE m == l - n + 1
             fewer == LastOf(others, n - 1)
  <2>1. PICK i \in m .. l : others[i] = e
    BY <1>6
  <2>2. n \in 1 .. l /\ m \in 1 .. l /\ i \in 1 .. l /\ m <= i /\ n - 1 \in 0 .. n - 1
    BY <1>3, <2>1
  <2>3. others[m] \in gone
    BY <1>3, <1>6, <2>2
  <2>4. ~ (m < i)
    <3>1. Position(e) <= Position(others[m])
      BY <1>12, <2>3
    <3>2. ASSUME NEW x \in gone
          PROVE  Position(x) \in Nat
      <4>1. PICK k \in 1 .. Len(filesList) : filesList[k] = x
        BY <1>7, ElementsOfLine DEF Books
      <4>2. Position(x) = k
        BY <4>1, PositionIs
      <4> QED
        BY <4>2
    <3>3. Position(e) \in Nat /\ Position(others[m]) \in Nat
      BY <2>3, <3>2
    <3>4. m < i => Position(others[m]) < Position(e)
      BY <1>3, <2>1, <2>2
    <3> QED
      BY <3>1, <3>3, <3>4
  <2>5. m = i /\ e = others[m]
    BY <2>1, <2>2, <2>4
  <2>6. gone \ {e} = fewer
    <3>1. fewer = {others[k] : k \in m + 1 .. l}
      <4>1. l - (n - 1) + 1 = m + 1
        BY <1>3, <2>2
      <4> QED
        BY <4>1 DEF LastOf, l
    <3>2. \A k \in m + 1 .. l : k \in m .. l /\ k \in 1 .. l /\ k # m
      BY <2>2
    <3>3. \A j, k \in 1 .. l : others[j] = others[k] => j = k
      BY <1>3, ElementsOfLine DEF Line, IsInjective, l
    <3>4. \A k \in m .. l : k = m \/ k \in m + 1 .. l
      BY <2>2
    <3> HIDE DEF m, fewer
    <3>5. \A x \in fewer : x \in gone /\ x # e
      BY <1>6, <2>2, <2>5, <3>1, <3>2, <3>3 DEF m
    <3>6. \A x \in gone \ {e} : x \in fewer
      BY <1>6, <2>5, <3>1, <3>4 DEF m
    <3> QED
      BY <3>5, <3>6
  <2> HIDE DEF m, fewer
  <2>7. ~ (currentStorageSize - Stored(fewer) + content < MaxStorage)
    BY <1>4, <1>5, <2>2 DEF fewer
  <2>8. /\ gone \in SUBSET filesDict /\ fewer \in SUBSET filesDict
    BY <1>7, <2>6
  <2>9. /\ IsFiniteSet(gone) /\ \A x \in gone : size[x] \in Nat
        /\ Stored(gone) \in Nat /\ Stored(fewer) \in Nat
        /\ currentStorageSize \in Nat
    BY <2>8, FilesAreCounted
  <2>10. Stored(gone) = size[e] + Stored(fewer)
    BY <2>6, <2>9, SumWithout DEF Stored
  <2> QED
    BY <1>1, <1>2, <2>7, <2>9, <2>10, LimitsAssumption
<1> QED
  BY <1>8, <1>9, <1>11, <1>12 DEF LastAndFew

\* Each step evicts that way or not at all.
LEMMA StepsEvictLastAndFew ==
  ASSUME FieldsTypeOK, Books, Next
  PROVE  LastAndFew
<1>1. PICK o \in Owners :
    \/ \E p \in Paths, locking \in BOOLEAN : OpenNew(o, p, locking) \/ Open(o, p, locking)
    \/ \E p \in Paths : ReadFile(o, p)
    \/ \E n \in 0 .. MaxFiles - 1 : ReadNFile(o, n)
    \/ \E p \in Paths, content \in Sizes, write \in BOOLEAN :
         AppendToFile(o, p, content, write)
    \/ \E p \in Paths : LockFile(o, p) \/ UnlockFile(o, p)
    \/ \E p \in Paths : CloseFile(o, p) \/ RemoveFile(o, p)
    \/ EvictClient(o)
  BY DEF Next
<1>2. ASSUME UNCHANGED bookVars PROVE LastAndFew
  BY <1>2, NothingIsEvicted DEF bookVars
<1>3. ASSUME NEW p \in Paths, RemoveFile(o, p) PROVE LastAndFew
  <2>1. filesDict' \subseteq filesDict /\ size' = Dropped(size, {p}, 0)
    BY <1>3 DEF RemoveFile
  <2> QED
    BY <2>1, NothingIsEvicted DEF Dropped
<1>4. ASSUME NEW p \in Paths, NEW locking \in BOOLEAN, OpenNew(o, p, locking)
      PROVE  LastAndFew
  BY <1>4, OpenNewEvicts
<1>5. ASSUME NEW p \in Paths, NEW content \in Sizes, NEW write \in BOOLEAN,
             AppendToFile(o, p, content, write)
      PROVE  LastAndFew
  BY <1>5, AppendEvictsLastAndFew
<1>6. ASSUME \/ \E p \in Paths, locking \in BOOLEAN : Open(o, p, locking)
             \/ \E p \in Paths : ReadFile(o, p) \/ LockFile(o, p) \/ UnlockFile(o, p)
                                   \/ CloseFile(o, p)
             \/ \E n \in 0 .. MaxFiles - 1 : ReadNFile(o, n)
             \/ EvictClient(o)
      PROVE  UNCHANGED bookVars
  BY <1>6 DEF Open, ReadFile, LockFile, UnlockFile, CloseFile, ReadNFile, EvictClient
<1> QED
  BY <1>1, <1>2, <1>3, <1>4, <1>5, <1>6

\* Files are evicted from the end of the list: openFile evicts one, when the
\* storage is full of files, and appendToFile no more than its content needs.
THEOREM EvictionOrder == Spec => EvictsLastAndFew
<1>1. IInv => FieldsTypeOK
  BY DEF IInv
<1>2. FieldsTypeOK /\ Books /\ [Next]_vars => [LastAndFew]_vars
  BY StepsEvictLastAndFew
<1> QED
  BY <1>1, <1>2, Invariance, BooksInvariance, PTL DEF Spec, EvictsLastAndFew
=============================================================================
