---------------------- MODULE FileSystemAnswers_proofs ----------------------
(***************************************************************************)
(* Proofs about FileSystemAnswers, for any number of clients, paths and    *)
(* files: a writeFile that succeeds is the first success on its file, and  *)
(* who has a lock is who was told so.                                      *)
(***************************************************************************)
EXTENDS FileSystemAnswers, FileSystem_proofs

-----------------------------------------------------------------------------
(* The first test that holds gives the answer.                             *)

\* When no test holds the answer is OK.
LEMMA FirstOfNone ==
  ASSUME NEW tests, \A i \in DOMAIN tests : ~ tests[i][1]
  PROVE  FirstOf(tests) = "OK"
<1>1. {i \in DOMAIN tests : tests[i][1]} = {}
  OBVIOUS
<1> QED
  BY <1>1 DEF FirstOf

\* Otherwise it is that of the first one that does.
LEMMA FirstOfIs ==
  ASSUME NEW n \in Nat, NEW tests, DOMAIN tests = 1 .. n,
         NEW k \in 1 .. n, tests[k][1], \A i \in 1 .. k - 1 : ~ tests[i][1]
  PROVE  FirstOf(tests) = tests[k][2]
<1> DEFINE failed == {i \in DOMAIN tests : tests[i][1]}
<1>1. k \in failed /\ failed \subseteq Nat /\ \A i \in failed : k <= i
  <2>1. ASSUME NEW i \in failed PROVE k <= i
    <3>1. i \in 1 .. n /\ ~ (i \in 1 .. k - 1)
      OBVIOUS
    <3> QED
      BY <3>1
  <2> QED
    BY <2>1
<1> HIDE DEF failed
<1>2. Min(failed) \in failed /\ \A i \in failed : Min(failed) <= i
  <2>1. \E x \in failed : \A i \in failed : x <= i
    BY <1>1
  <2> QED
    BY <2>1 DEF Min
<1>3. Min(failed) = k
  <2>1. Min(failed) \in Nat /\ Min(failed) <= k /\ k <= Min(failed)
    BY <1>1, <1>2
  <2> QED
    BY <2>1
<1>4. FirstOf(tests) = tests[Min(failed)][2]
  BY <1>1 DEF FirstOf, failed
<1> QED
  BY <1>3, <1>4

\* When one holds the answer is an error.
LEMMA FirstOfSome ==
  ASSUME NEW n \in Nat, NEW tests, DOMAIN tests = 1 .. n,
         \E i \in 1 .. n : tests[i][1], \A i \in 1 .. n : tests[i][2] # "OK"
  PROVE  FirstOf(tests) # "OK"
<1> DEFINE failed == {i \in 1 .. n : tests[i][1]}
<1>1. PICK k \in failed : \A i \in failed : k <= i
  <2>1. failed # {} /\ failed \subseteq Nat
    OBVIOUS
  <2> HIDE DEF failed
  <2> QED
    BY <2>1, NatMin
<1>2. k \in 1 .. n /\ tests[k][1] /\ \A i \in 1 .. k - 1 : ~ tests[i][1]
  BY <1>1
<1> QED
  BY <1>2, FirstOfIs

\* What lockFile answers about a file that is stored.
LEMMA LockAnswerIs ==
  ASSUME NEW o, NEW p, p \in filesDict
  PROVE  LockAnswer(o, p) =
           IF LockedByOther(o, p)
           THEN IF Contains(waitingLockers[p], o) THEN "FILE_ALREADY_LOCKED" ELSE "FILE_IS_LOCKED"
           ELSE IF currentlyLockedBy[p] = o THEN "FILE_ALREADY_LOCKED" ELSE "OK"
<1> DEFINE tests == <<
      NotFound(p),
      <<LockedByOther(o, p) /\ Contains(waitingLockers[p], o), "FILE_ALREADY_LOCKED">>,
      IsLocked(o, p),
      <<currentlyLockedBy[p] = o, "FILE_ALREADY_LOCKED">> >>
<1>1. LockAnswer(o, p) = FirstOf(tests)
  BY DEF LockAnswer
<1>2. DOMAIN tests = 1 .. 4 /\ 4 \in Nat
  OBVIOUS
<1>3. /\ tests[1][1] <=> FALSE
      /\ tests[2][1] <=> (LockedByOther(o, p) /\ Contains(waitingLockers[p], o))
      /\ tests[3][1] <=> LockedByOther(o, p)
      /\ tests[4][1] <=> (currentlyLockedBy[p] = o)
  BY DEF NotFound, IsLocked
<1>4. /\ tests[2][2] = "FILE_ALREADY_LOCKED"
      /\ tests[3][2] = "FILE_IS_LOCKED"
      /\ tests[4][2] = "FILE_ALREADY_LOCKED"
  BY DEF IsLocked
<1> HIDE DEF tests
<1>5. CASE LockedByOther(o, p) /\ Contains(waitingLockers[p], o)
  <2>1. 2 \in 1 .. 4 /\ tests[2][1] /\ \A i \in 1 .. 2 - 1 : ~ tests[i][1]
    BY <1>3, <1>5
  <2> QED
    BY <1>1, <1>2, <1>4, <1>5, <2>1, FirstOfIs
<1>6. CASE LockedByOther(o, p) /\ ~ Contains(waitingLockers[p], o)
  <2>1. 3 \in 1 .. 4 /\ tests[3][1] /\ \A i \in 1 .. 3 - 1 : ~ tests[i][1]
    BY <1>3, <1>6
  <2> QED
    BY <1>1, <1>2, <1>4, <1>6, <2>1, FirstOfIs
<1>7. CASE ~ LockedByOther(o, p) /\ currentlyLockedBy[p] = o
  <2>1. 4 \in 1 .. 4 /\ tests[4][1] /\ \A i \in 1 .. 4 - 1 : ~ tests[i][1]
    BY <1>3, <1>7
  <2> QED
    BY <1>1, <1>2, <1>4, <1>7, <2>1, FirstOfIs
<1>8. CASE ~ LockedByOther(o, p) /\ currentlyLockedBy[p] # o
  <2>1. \A i \in DOMAIN tests : ~ tests[i][1]
    BY <1>2, <1>3, <1>8
  <2> QED
    BY <1>1, <1>8, <2>1, FirstOfNone
<1> QED
  BY <1>5, <1>6, <1>7, <1>8

\* unlockFile succeeds for the holder of the lock alone.
LEMMA UnlockAnswerIs ==
  ASSUME NEW o \in Owners, NEW p, p \in filesDict
  PROVE  UnlockAnswer(o, p) = "OK" <=> currentlyLockedBy[p] = o
<1> DEFINE tests == <<
      NotFound(p),
      <<currentlyLockedBy[p] # o, "FILE_IS_LOCKED">>,
      <<currentlyLockedBy[p] = NoOwner, "FILE_NOT_LOCKED">> >>
<1>1. UnlockAnswer(o, p) = FirstOf(tests)
  BY DEF UnlockAnswer
<1>2. DOMAIN tests = 1 .. 3 /\ 3 \in Nat
  OBVIOUS
<1>3. /\ tests[1][1] <=> FALSE
      /\ tests[2][1] <=> (currentlyLockedBy[p] # o)
      /\ tests[3][1] <=> (currentlyLockedBy[p] = NoOwner)
  BY DEF NotFound
<1>4. \A i \in 1 .. 3 : tests[i][2] # "OK"
  BY DEF NotFound
<1> HIDE DEF tests
<1>5. CASE currentlyLockedBy[p] = o
  <2>1. \A i \in DOMAIN tests : ~ tests[i][1]
    BY <1>2, <1>3, <1>5, OwnersAssumption
  <2> QED
    BY <1>1, <1>5, <2>1, FirstOfNone
<1>6. CASE currentlyLockedBy[p] # o
  <2>1. 2 \in 1 .. 3 /\ tests[2][1]
    BY <1>3, <1>6
  <2> QED
    BY <1>1, <1>2, <1>4, <1>6, <2>1, FirstOfSome
<1> QED
  BY <1>5, <1>6

\* openFile of a path that is not stored succeeds.
LEMMA OpenNewSucceeds ==
  ASSUME NEW o, NEW p, p \notin filesDict, ~ LockedByOther(o, p), o \notin openedBy[p]
  PROVE  OpenAnswer(o, p, TRUE) = "OK"
<1> DEFINE tests == <<
      <<p \in filesDict /\ TRUE, "FILE_ALREADY_IN">>,
      <<p \notin filesDict /\ ~ TRUE, "FILE_NOT_FOUND">>,
      IsLocked(o, p),
      <<o \in openedBy[p], "FILE_ALREADY_OPENED">> >>
<1>1. OpenAnswer(o, p, TRUE) = FirstOf(tests)
  BY DEF OpenAnswer
<1>2. DOMAIN tests = 1 .. 4
  OBVIOUS
<1>3. ~ tests[1][1] /\ ~ tests[2][1] /\ ~ tests[3][1] /\ ~ tests[4][1]
  BY DEF IsLocked
<1> HIDE DEF tests
<1>4. \A i \in DOMAIN tests : ~ tests[i][1]
  BY <1>2, <1>3
<1> QED
  BY <1>1, <1>4, FirstOfNone

\* The operations that refuse say so.
LEMMA OpenRefusedIsTold ==
  ASSUME NEW o, NEW p, OpenRefused(o, p)
  PROVE  OpenAnswer(o, p, FALSE) # "OK"
<1> DEFINE tests == <<
      <<p \in filesDict /\ FALSE, "FILE_ALREADY_IN">>,
      <<p \notin filesDict /\ ~ FALSE, "FILE_NOT_FOUND">>,
      IsLocked(o, p),
      <<o \in openedBy[p], "FILE_ALREADY_OPENED">> >>
<1>1. OpenAnswer(o, p, FALSE) = FirstOf(tests)
  BY DEF OpenAnswer
<1>2. DOMAIN tests = 1 .. 4 /\ 4 \in Nat
  OBVIOUS
<1>3. tests[3][1] \/ tests[4][1]
  BY DEF IsLocked, OpenRefused
<1>4. \A i \in 1 .. 4 : tests[i][2] # "OK"
  BY DEF IsLocked
<1> HIDE DEF tests
<1>5. \E i \in 1 .. 4 : tests[i][1]
  BY <1>3
<1> QED
  BY <1>1, <1>2, <1>4, <1>5, FirstOfSome

\* openFile of a file that is there succeeds unless it is refused.
LEMMA OpenAcceptedIsTold ==
  ASSUME NEW o, NEW p, p \in filesDict, ~ OpenRefused(o, p)
  PROVE  OpenAnswer(o, p, FALSE) = "OK"
<1> DEFINE tests == <<
      <<p \in filesDict /\ FALSE, "FILE_ALREADY_IN">>,
      <<p \notin filesDict /\ ~ FALSE, "FILE_NOT_FOUND">>,
      IsLocked(o, p),
      <<o \in openedBy[p], "FILE_ALREADY_OPENED">> >>
<1>1. OpenAnswer(o, p, FALSE) = FirstOf(tests)
  BY DEF OpenAnswer
<1>2. DOMAIN tests = 1 .. 4
  OBVIOUS
<1>3. ~ tests[1][1] /\ ~ tests[2][1] /\ ~ tests[3][1] /\ ~ tests[4][1]
  BY DEF IsLocked, OpenRefused
<1> HIDE DEF tests
<1>4. \A i \in DOMAIN tests : ~ tests[i][1]
  BY <1>2, <1>3
<1> QED
  BY <1>1, <1>4, FirstOfNone

\* The same of readFile.
LEMMA ReadRefusedIsTold ==
  ASSUME NEW o, NEW p, ReadRefused(o, p)
  PROVE  ReadAnswer(o, p) # "OK"
<1> DEFINE tests == <<NotFound(p), IsLocked(o, p), NotOpened(o, p)>>
<1>1. ReadAnswer(o, p) = FirstOf(tests)
  BY DEF ReadAnswer
<1>2. DOMAIN tests = 1 .. 3 /\ 3 \in Nat
  OBVIOUS
<1>3. tests[2][1] \/ tests[3][1]
  BY DEF IsLocked, NotOpened, ReadRefused
<1>4. \A i \in 1 .. 3 : tests[i][2] # "OK"
  BY DEF NotFound, IsLocked, NotOpened
<1> HIDE DEF tests
<1>5. \E i \in 1 .. 3 : tests[i][1]
  BY <1>3
<1> QED
  BY <1>1, <1>2, <1>4, <1>5, FirstOfSome

\* The same of closeFile.
LEMMA CloseRefusedIsTold ==
  ASSUME NEW o, NEW p, o \notin openedBy[p]
  PROVE  CloseAnswer(o, p) # "OK"
<1> DEFINE tests == <<NotFound(p), NotOpened(o, p)>>
<1>1. CloseAnswer(o, p) = FirstOf(tests)
  BY DEF CloseAnswer
<1>2. DOMAIN tests = 1 .. 2 /\ 2 \in Nat
  OBVIOUS
<1>3. tests[2][1]
  BY DEF NotOpened
<1>4. \A i \in 1 .. 2 : tests[i][2] # "OK"
  BY DEF NotFound, NotOpened
<1> HIDE DEF tests
<1>5. \E i \in 1 .. 2 : tests[i][1]
  BY <1>3
<1> QED
  BY <1>1, <1>2, <1>4, <1>5, FirstOfSome

-----------------------------------------------------------------------------
(* The right to writeFile and the memory of what succeeded.                *)

\* Each request is an operation of FileSystem.
LEMMA RequestsAreOperations ==
  [ANext]_allVars => [Next]_vars
<1>1. ASSUME UNCHANGED allVars PROVE UNCHANGED vars
  BY <1>1 DEF allVars
<1>2. ASSUME ANext PROVE Next
  BY <1>2 DEF ANext, Next, AskCreate, AskOpen, AskWrite, AskRead, AskLock, AskUnlock,
              AskClose, AskRemove, AskReadN, Leave
<1> QED
  BY <1>1, <1>2

\* Only a file can be written.
LEMMA WritableIsFile ==
  ASSUME IInv, NEW p \in Paths, ownerCanWrite[p] # NoOwner
  PROVE  p \in filesDict
BY DEF IInv, WritableIsUntouched, OnlyFilesAreLocked

\* What Remember does to the type.
LEMMA RememberType ==
  ASSUME FreshType, NEW p, NEW answer, NEW by \in Owners \cup {NoOwner},
         Remember(p, answer, by)
  PROVE  FreshType'
BY DEF FreshType, Remember

\* The initial state satisfies AIInv.
LEMMA AIInvInit == AInit => AIInv
BY DEF AInit, Init, AIInv, FreshType, OnlyFilesAreOpened, WritableIsFresh

\* openFile of a path that is not stored: fresh for the client that locks it.
LEMMA CreateKeepsAIInv ==
  ASSUME IInv, AIInv, NEW o \in Owners, NEW p \in Paths, NEW locking \in BOOLEAN,
         AskCreate(o, p, locking)
  PROVE  AIInv'
<1> DEFINE gone  == EvictedByNew
           owner == IF locking THEN o ELSE NoOwner
<1>1. owner \in {o, NoOwner}
  OBVIOUS
<1>2. /\ p \notin filesDict
      /\ filesDict' = (filesDict \ gone) \cup {p}
      /\ ownerCanWrite' =
           [Dropped(ownerCanWrite, gone, NoOwner) EXCEPT ![p] = owner]
      /\ openedBy' = [Dropped(openedBy, gone, {}) EXCEPT ![p] = {o}]
      /\ Remember(p, OpenAnswer(o, p, TRUE), owner)
  BY DEF AskCreate, OpenNew
<1> HIDE DEF gone, owner
<1>3. OpenAnswer(o, p, TRUE) = "OK"
  BY <1>2, OpenNewSucceeds
     DEF AIInv, OnlyFilesAreOpened, IInv, OnlyFilesAreLocked, LockedByOther
<1>4. FreshType'
  BY <1>1, <1>2, RememberType DEF AIInv
<1>5. OnlyFilesAreOpened'
  BY <1>2 DEF AIInv, OnlyFilesAreOpened, Dropped
<1>6. ASSUME NEW q \in Paths, ownerCanWrite'[q] \in openedBy'[q]
      PROVE  fresh'[q] = ownerCanWrite'[q]
  <2>1. CASE q = p
    <3>1. ownerCanWrite'[q] = owner
      BY <1>2, <2>1 DEF Dropped
    <3>2. fresh'[q] = owner
      BY <1>2, <1>3, <2>1 DEF Remember
    <3> QED
      BY <3>1, <3>2
  <2>2. CASE q # p
    <3>1. q \notin gone
      BY <1>2, <1>6, <2>2 DEF Dropped
    <3>2. ownerCanWrite'[q] = ownerCanWrite[q] /\ openedBy'[q] = openedBy[q]
      BY <1>2, <2>2, <3>1 DEF Dropped
    <3>3. q \in filesDict /\ fresh[q] = ownerCanWrite[q]
      BY <1>6, <3>2 DEF AIInv, WritableIsFresh, OnlyFilesAreOpened
    <3>4. fresh'[q] = fresh[q]
      BY <1>2, <2>2, <3>1, <3>3 DEF Remember
    <3> QED
      BY <3>2, <3>3, <3>4
  <2> QED
    BY <2>1, <2>2
<1> QED
  BY <1>4, <1>5, <1>6 DEF AIInv, WritableIsFresh

\* openFile of a file that is stored, readFile, lockFile and unlockFile: a
\* success on p takes the right to write it away.
LEMMA UseKeepsAIInv ==
  ASSUME IInv, AIInv, NEW p \in Paths, p \in filesDict, filesDict' = filesDict,
         NEW answer, Forget(p, answer),
         answer = "OK" => ownerCanWrite'[p] = NoOwner,
         \/ ownerCanWrite' = [ownerCanWrite EXCEPT ![p] = NoOwner]
         \/ ownerCanWrite' = ownerCanWrite /\ openedBy' = openedBy,
         NEW opened \in SUBSET Owners,
         openedBy' = [openedBy EXCEPT ![p] = opened]
  PROVE  AIInv'
<1>1. ownerCanWrite \in [Paths -> Owners \cup {NoOwner}] /\ openedBy \in [Paths -> SUBSET Owners]
  BY DEF IInv, FieldsTypeOK
<1>2. Remember(p, answer, NoOwner)
  BY DEF Forget
<1>3. FreshType'
  BY <1>2, RememberType DEF AIInv
<1>4. OnlyFilesAreOpened'
  BY <1>1 DEF AIInv, OnlyFilesAreOpened
<1>5. ASSUME NEW q \in Paths, ownerCanWrite'[q] \in openedBy'[q]
      PROVE  fresh'[q] = ownerCanWrite'[q]
  <2>1. openedBy'[q] \subseteq Owners
    BY <1>1
  <2>2. ownerCanWrite'[q] # NoOwner
    BY <1>5, <2>1, OwnersAssumption
  <2>3. ownerCanWrite'[q] = ownerCanWrite[q] /\ openedBy'[q] = openedBy[q]
    BY <1>1, <2>2
  <2>4. q \in filesDict /\ fresh[q] = ownerCanWrite[q]
    BY <1>5, <2>3 DEF AIInv, WritableIsFresh, OnlyFilesAreOpened
  <2>5. q # p \/ answer # "OK"
    BY <2>2
  <2>6. fresh'[q] = fresh[q]
    BY <1>2, <2>4, <2>5 DEF Remember
  <2> QED
    BY <2>3, <2>4, <2>6
<1> QED
  BY <1>3, <1>4, <1>5 DEF AIInv, WritableIsFresh

\* appendToFile, writeFile and removeFile: files go, and nobody may write p.
LEMMA GoneKeepsAIInv ==
  ASSUME IInv, AIInv, NEW p \in Paths, NEW gone, filesDict' = filesDict \ gone,
         NEW answer, Forget(p, answer),
         ownerCanWrite' = Dropped(ownerCanWrite, gone \cup {p}, NoOwner),
         openedBy' = Dropped(openedBy, gone, {})
  PROVE  AIInv'
<1>1. ownerCanWrite \in [Paths -> Owners \cup {NoOwner}] /\ openedBy \in [Paths -> SUBSET Owners]
  BY DEF IInv, FieldsTypeOK
<1>2. Remember(p, answer, NoOwner)
  BY DEF Forget
<1>3. FreshType'
  BY <1>2, RememberType DEF AIInv
<1>4. OnlyFilesAreOpened'
  BY <1>1 DEF AIInv, OnlyFilesAreOpened, Dropped
<1>5. ASSUME NEW q \in Paths, ownerCanWrite'[q] \in openedBy'[q]
      PROVE  fresh'[q] = ownerCanWrite'[q]
  <2>1. q \notin gone
    BY <1>5 DEF Dropped
  <2>2. openedBy'[q] = openedBy[q] /\ openedBy[q] \subseteq Owners
    BY <1>1, <2>1 DEF Dropped
  <2>3. ownerCanWrite'[q] # NoOwner
    BY <1>5, <2>2, OwnersAssumption
  <2>4. q # p /\ ownerCanWrite'[q] = ownerCanWrite[q]
    BY <2>1, <2>3 DEF Dropped
  <2>5. q \in filesDict /\ fresh[q] = ownerCanWrite[q]
    BY <1>5, <2>2, <2>4 DEF AIInv, WritableIsFresh, OnlyFilesAreOpened
  <2>6. fresh'[q] = fresh[q]
    BY <1>2, <2>1, <2>4, <2>5 DEF Remember
  <2> QED
    BY <2>4, <2>5, <2>6
<1> QED
  BY <1>3, <1>4, <1>5 DEF AIInv, WritableIsFresh

\* closeFile: who closes the file successfully is who could write it, if
\* anybody could, and has it open no more.
LEMMA CloseKeepsAIInv ==
  ASSUME IInv, AIInv, NEW o \in Owners, NEW p \in Paths, AskClose(o, p)
  PROVE  AIInv'
<1>1. /\ ownerCanWrite \in [Paths -> Owners \cup {NoOwner}] /\ openedBy \in [Paths -> SUBSET Owners]
      /\ \A q \in Paths : ownerCanWrite[q] # NoOwner => openedBy[q] \subseteq {ownerCanWrite[q]}
  BY DEF IInv, FieldsTypeOK, WritableIsUntouched
<1>2. /\ filesDict' = filesDict /\ ownerCanWrite' = ownerCanWrite
      /\ openedBy' = [openedBy EXCEPT ![p] = @ \ {o}]
      /\ Remember(p, CloseAnswer(o, p), NoOwner)
  BY DEF AskClose, CloseFile, Forget, bookVars
<1>3. FreshType'
  BY <1>2, RememberType DEF AIInv
<1>4. OnlyFilesAreOpened'
  BY <1>1, <1>2 DEF AIInv, OnlyFilesAreOpened
<1>5. ASSUME NEW q \in Paths, ownerCanWrite'[q] \in openedBy'[q]
      PROVE  fresh'[q] = ownerCanWrite'[q]
  <2>1. ownerCanWrite[q] \in openedBy[q]
    BY <1>1, <1>2, <1>5
  <2>2. q \in filesDict /\ fresh[q] = ownerCanWrite[q]
    BY <2>1 DEF AIInv, WritableIsFresh, OnlyFilesAreOpened
  <2>3. CASE q # p
    BY <1>2, <2>2, <2>3 DEF Remember
  <2>4. CASE q = p
    <3>1. ownerCanWrite[p] # o /\ ownerCanWrite[p] # NoOwner
      BY <1>1, <1>2, <1>5, <2>1, <2>4, OwnersAssumption
    <3>2. o \notin openedBy[p]
      BY <1>1, <3>1
    <3>3. CloseAnswer(o, p) # "OK"
      BY <3>2, CloseRefusedIsTold
    <3> QED
      BY <1>2, <2>2, <3>3 DEF Remember
  <2> QED
    BY <2>3, <2>4
<1> QED
  BY <1>3, <1>4, <1>5 DEF AIInv, WritableIsFresh

\* A client that departs may write nothing any more.
LEMMA LeaveKeepsAIInv ==
  ASSUME IInv, AIInv, NEW o \in Owners, Leave(o)
  PROVE  AIInv'
<1>1. /\ filesDict' = filesDict
      /\ ownerCanWrite' =
           [p \in Paths |-> IF ownerCanWrite[p] = o THEN NoOwner ELSE ownerCanWrite[p]]
      /\ openedBy' = [p \in Paths |-> openedBy[p] \ {o}]
      /\ fresh' = [p \in Paths |-> IF fresh[p] = o THEN NoOwner ELSE fresh[p]]
  BY DEF Leave, EvictClient, bookVars
<1>2. openedBy \in [Paths -> SUBSET Owners]
  BY DEF IInv, FieldsTypeOK
<1>3. FreshType'
  BY <1>1 DEF AIInv, FreshType
<1>4. OnlyFilesAreOpened'
  BY <1>1 DEF AIInv, OnlyFilesAreOpened
<1>5. WritableIsFresh'
  BY <1>1, <1>2, OwnersAssumption DEF AIInv, WritableIsFresh
<1> QED
  BY <1>3, <1>4, <1>5 DEF AIInv

\* AIInv is inductive, given IInv.
LEMMA NextKeepsAIInv == IInv /\ AIInv /\ [ANext]_allVars => AIInv'
<1> SUFFICES ASSUME IInv, AIInv, [ANext]_allVars PROVE AIInv'
  OBVIOUS
<1>1. CASE UNCHANGED allVars
  BY <1>1 DEF allVars, vars, bookVars, AIInv, FreshType, OnlyFilesAreOpened, WritableIsFresh
<1>2. CASE ANext
  <2>1. PICK o \in Owners :
      \/ \E p \in Paths, locking \in BOOLEAN : AskCreate(o, p, locking) \/ AskOpen(o, p, locking)
      \/ \E p \in Paths, content \in Sizes, write \in BOOLEAN : AskWrite(o, p, content, write)
      \/ \E p \in Paths : \/ AskRead(o, p) \/ AskLock(o, p) \/ AskUnlock(o, p)
                          \/ AskClose(o, p) \/ AskRemove(o, p)
      \/ \E n \in 0 .. MaxFiles - 1 : AskReadN(o, n)
      \/ Leave(o)
    BY <1>2 DEF ANext
  <2>2. /\ ownerCanWrite \in [Paths -> Owners \cup {NoOwner}]
        /\ openedBy \in [Paths -> SUBSET Owners]
    BY DEF IInv, FieldsTypeOK
  <2>3. ASSUME NEW p \in Paths, NEW locking \in BOOLEAN, AskOpen(o, p, locking) PROVE AIInv'
    <3>1. /\ p \in filesDict /\ filesDict' = filesDict /\ Forget(p, OpenAnswer(o, p, FALSE))
      BY <2>3 DEF AskOpen, Open, bookVars
    <3>2. CASE OpenRefused(o, p)
      <4>1. /\ ownerCanWrite' = ownerCanWrite /\ openedBy' = openedBy
            /\ openedBy' = [openedBy EXCEPT ![p] = openedBy[p]] /\ openedBy[p] \in SUBSET Owners
        BY <2>2, <2>3, <3>2 DEF AskOpen, Open
      <4>2. OpenAnswer(o, p, FALSE) # "OK"
        BY <3>2, OpenRefusedIsTold
      <4> QED
        BY <3>1, <4>1, <4>2, UseKeepsAIInv
    <3>3. CASE ~ OpenRefused(o, p)
      <4>1. /\ ownerCanWrite' = [ownerCanWrite EXCEPT ![p] = NoOwner]
            /\ ownerCanWrite'[p] = NoOwner
            /\ openedBy' = [openedBy EXCEPT ![p] = openedBy[p] \cup {o}]
            /\ openedBy[p] \cup {o} \in SUBSET Owners
        BY <2>2, <2>3, <3>3 DEF AskOpen, Open, ForbidWrite
      <4> QED
        BY <3>1, <4>1, UseKeepsAIInv
    <3> QED
      BY <3>2, <3>3
  <2>4. ASSUME NEW p \in Paths, AskRead(o, p) PROVE AIInv'
    <3>1. /\ p \in filesDict /\ filesDict' = filesDict /\ Forget(p, ReadAnswer(o, p))
          /\ openedBy' = openedBy /\ openedBy' = [openedBy EXCEPT ![p] = openedBy[p]]
          /\ openedBy[p] \in SUBSET Owners
      BY <2>2, <2>4 DEF AskRead, ReadFile, bookVars
    <3>2. CASE ReadRefused(o, p)
      <4>1. ownerCanWrite' = ownerCanWrite
        BY <2>4, <3>2 DEF AskRead, ReadFile
      <4>2. ReadAnswer(o, p) # "OK"
        BY <3>2, ReadRefusedIsTold
      <4> QED
        BY <3>1, <4>1, <4>2, UseKeepsAIInv
    <3>3. CASE ~ ReadRefused(o, p)
      <4>1. /\ ownerCanWrite' = [ownerCanWrite EXCEPT ![p] = NoOwner]
            /\ ownerCanWrite'[p] = NoOwner
        BY <2>2, <2>4, <3>3 DEF AskRead, ReadFile, ForbidWrite
      <4> QED
        BY <3>1, <4>1, UseKeepsAIInv
    <3> QED
      BY <3>2, <3>3
  <2>5. ASSUME NEW p \in Paths, AskLock(o, p) \/ AskUnlock(o, p) PROVE AIInv'
    <3>1. /\ p \in filesDict /\ filesDict' = filesDict
          /\ openedBy' = [openedBy EXCEPT ![p] = openedBy[p]] /\ openedBy[p] \in SUBSET Owners
          /\ ownerCanWrite' = [ownerCanWrite EXCEPT ![p] = NoOwner] /\ ownerCanWrite'[p] = NoOwner
      BY <2>2, <2>5 DEF AskLock, LockFile, AskUnlock, UnlockFile, ForbidWrite, bookVars
    <3>2. PICK answer : Forget(p, answer)
      BY <2>5 DEF AskLock, AskUnlock
    <3> QED
      BY <3>1, <3>2, UseKeepsAIInv
  <2>6. ASSUME NEW p \in Paths, NEW content \in Sizes, NEW write \in BOOLEAN,
               AskWrite(o, p, content, write)
        PROVE  AIInv'
    <3> DEFINE gone == EvictedFor(p, content)
    <3>1. /\ filesDict' = filesDict \ gone
          /\ Forget(p, WriteAnswer(o, p, content, write))
          /\ ownerCanWrite' = Dropped(ownerCanWrite, gone \cup {p}, NoOwner)
          /\ openedBy' = Dropped(openedBy, gone, {})
      BY <2>6 DEF AskWrite, AppendToFile
    <3> HIDE DEF gone
    <3> QED
      BY <3>1, GoneKeepsAIInv
  <2>7. ASSUME NEW p \in Paths, AskRemove(o, p) PROVE AIInv'
    <3>1. /\ filesDict' = filesDict \ {p} /\ Forget(p, RemoveAnswer(o, p))
          /\ ownerCanWrite' = [ownerCanWrite EXCEPT ![p] = NoOwner]
          /\ openedBy' = Dropped(openedBy, {p}, {})
      BY <2>7 DEF AskRemove, RemoveFile, ForbidWrite
    <3>2. ownerCanWrite' = Dropped(ownerCanWrite, {p} \cup {p}, NoOwner)
      BY <2>2, <3>1 DEF Dropped
    <3> QED
      BY <3>1, <3>2, GoneKeepsAIInv
  <2>8. ASSUME NEW n \in 0 .. MaxFiles - 1, AskReadN(o, n) PROVE AIInv'
    BY <2>8 DEF AskReadN, ReadNFile, bookVars, AIInv, FreshType, OnlyFilesAreOpened,
                WritableIsFresh
  <2> QED
    BY <2>1, <2>3, <2>4, <2>5, <2>6, <2>7, <2>8, CreateKeepsAIInv, CloseKeepsAIInv,
       LeaveKeepsAIInv
<1> QED
  BY <1>1, <1>2

\* In every reachable state both invariants hold.
THEOREM AnswersInvariance == ASpec => [](IInv /\ AIInv)
<1>1. AInit => IInv /\ AIInv
  BY IInvInit, AIInvInit DEF AInit
<1>2. IInv /\ AIInv /\ [ANext]_allVars => (IInv /\ AIInv)'
  BY NextKeepsIInv, NextKeepsAIInv, RequestsAreOperations
<1> QED
  BY <1>1, <1>2, PTL DEF ASpec

\* The requests, answers and memory of FileSystemAnswers are FileSystem seen
\* closer: whatever holds of its steps holds here.
THEOREM AnswersAreFileSystem == ASpec => Spec
<1>1. AInit => Init
  BY DEF AInit
<1> QED
  BY <1>1, RequestsAreOperations, PTL DEF ASpec, Spec

\* A writeFile that succeeds is the first success on its file since the client
\* that writes created it.
THEOREM WriteIsFirst == ASpec => WriteComesFirst
<1> DEFINE First == \A o \in Owners, p \in Paths, content \in Sizes :
                      AppendToFile(o, p, content, TRUE) => fresh[p] = o
<1>1. AIInv => First
  <2> SUFFICES ASSUME AIInv, NEW o \in Owners, NEW p \in Paths, NEW content \in Sizes,
                      AppendToFile(o, p, content, TRUE)
               PROVE  fresh[p] = o
    OBVIOUS
  <2>1. ownerCanWrite[p] = o /\ o \in openedBy[p]
    BY DEF AppendToFile, WriteRefused
  <2> QED
    BY <2>1 DEF AIInv, WritableIsFresh
<1> HIDE DEF First
<1>2. ASpec => [][First]_allVars
  BY <1>1, AnswersInvariance, PTL DEF ASpec
<1> QED
  BY <1>2 DEF First, WriteComesFirst

-----------------------------------------------------------------------------
(* What clients know of the locks.                                         *)

\* A client that is returned waited in the line of the file.
LEMMA ReturnedWaited ==
  ASSUME IInv, NEW x, NEW p, <<x, p>> \in parked
  PROVE  x \in Owners /\ p \in Paths /\ x \in ToSet(waitingLockers[p])
BY DEF IInv, NobodyForgotten

\* Whoever gets a lock is told so, unless it knows, and nobody else is.
LEMMA ToldIsKnown ==
  ASSUME IInv, LocksAreKnown, NEW got \in SUBSET (Owners \X Paths), NEW lost, Tell(got, lost),
         \A x \in Owners, p \in Paths :
           currentlyLockedBy'[p] = x
             <=> /\ p \in filesDict' /\ <<x, p>> \notin lost
                 /\ \/ currentlyLockedBy[p] = x
                    \/ <<x, p>> \in got
                    \/ <<x, p>> \in parked \ parked'
  PROVE  LocksAreKnown'
<1>1. parked \subseteq Owners \X Paths /\ told \subseteq Owners \X Paths
  BY DEF IInv, FieldsTypeOK, LocksAreKnown
<1>2. told' = {w \in (told \cup got \cup (parked \ parked')) \ lost : w[2] \in filesDict'}
  BY DEF Tell
<1>3. told' \subseteq Owners \X Paths
  BY <1>1, <1>2
<1>4. \A x \in Owners, p \in Paths : <<x, p>> \in told <=> currentlyLockedBy[p] = x
  BY DEF LocksAreKnown
<1>5. \A x \in Owners, p \in Paths : <<x, p>> \in told' <=> currentlyLockedBy'[p] = x
  BY <1>2, <1>4
<1>6. \A w \in Owners \X Paths : w = <<w[1], w[2]>> /\ w[1] \in Owners /\ w[2] \in Paths
  OBVIOUS
<1>7. \A w \in Owners \X Paths : w \in told' <=> currentlyLockedBy'[w[2]] = w[1]
  BY <1>5, <1>6
<1>8. told' = {w \in Owners \X Paths : currentlyLockedBy'[w[2]] = w[1]}
  BY <1>3, <1>7
<1> QED
  BY <1>8 DEF LocksAreKnown

\* The next to get a lock waits for it, and is not its holder.
LEMMA NextWaits ==
  ASSUME IInv, NEW p \in Paths, NEW x \in Owners, x = NextLocker(p)
  PROVE  <<x, p>> \in parked /\ x # currentlyLockedBy[p]
<1>1. waitingLockers[p] # <<>> /\ x = Head(waitingLockers[p])
  BY OwnersAssumption DEF NextLocker
<1>2. waitingLockers[p] \in Seq(Owners)
  BY DEF IInv, FieldsTypeOK
<1>3. x \in ToSet(waitingLockers[p])
  BY <1>1, <1>2 DEF ToSet
<1> QED
  BY <1>3 DEF IInv, NobodyForgotten, LocksInLine

\* A success is what it says, and everything else is nothing.
LEMMA OnSuccessIs ==
  ASSUME NEW answer, NEW o \in Owners, NEW p \in Paths
  PROVE  /\ OnSuccess(answer, o, p) \in SUBSET (Owners \X Paths)
         /\ \A x, q : <<x, q>> \in OnSuccess(answer, o, p)
                        <=> answer = "OK" /\ x = o /\ q = p
<1>1. CASE answer = "OK"
  <2>1. OnSuccess(answer, o, p) = {<<o, p>>}
    BY <1>1 DEF OnSuccess
  <2>2. \A x, q : <<x, q>> = <<o, p>> <=> x = o /\ q = p
    OBVIOUS
  <2> QED
    BY <1>1, <2>1, <2>2
<1>2. CASE answer # "OK"
  <2>1. OnSuccess(answer, o, p) = {}
    BY <1>2 DEF OnSuccess
  <2> QED
    BY <1>2, <2>1
<1> QED
  BY <1>1, <1>2

\* Only the locks of files are held.
LEMMA HeldIsFile ==
  ASSUME IInv, NEW x \in Owners, NEW p \in Paths, currentlyLockedBy[p] = x
  PROVE  p \in filesDict
BY OwnersAssumption DEF IInv, OnlyFilesAreLocked

\* readFile, closeFile and readNFile leave the locks alone.
LEMMA LocksAloneKnown ==
  ASSUME IInv, LocksAreKnown, TellNothing, UNCHANGED <<filesDict, currentlyLockedBy, parked>>
  PROVE  LocksAreKnown'
<1>1. \A x \in Owners, p \in Paths : currentlyLockedBy[p] = x => p \in filesDict
  BY HeldIsFile
<1> QED
  BY <1>1, ToldIsKnown DEF TellNothing

\* Files that go take their locks with them; those who waited for them are
\* not told that they have one.
LEMMA GoneKnown ==
  ASSUME IInv, LocksAreKnown, NEW gone, NEW lost, filesDict' = filesDict \ gone,
         currentlyLockedBy' = Dropped(currentlyLockedBy, gone, NoOwner),
         ReturnWaiting(gone), Tell({}, lost),
         \A x, p : <<x, p>> \in lost => p \in gone
  PROVE  LocksAreKnown'
<1>1. ASSUME NEW x \in Owners, NEW p \in Paths
      PROVE  currentlyLockedBy'[p] = x
               <=> /\ p \in filesDict' /\ <<x, p>> \notin lost
                   /\ \/ currentlyLockedBy[p] = x
                      \/ <<x, p>> \in {}
                      \/ <<x, p>> \in parked \ parked'
  <2>1. CASE p \in gone
    BY <2>1, OwnersAssumption DEF Dropped
  <2>2. CASE p \notin gone
    <3>1. <<x, p>> \notin lost /\ currentlyLockedBy'[p] = currentlyLockedBy[p]
      BY <2>2 DEF Dropped
    <3>2. <<x, p>> \notin parked \ parked'
      BY <2>2 DEF ReturnWaiting, Waiting
    <3>3. currentlyLockedBy[p] = x => p \in filesDict'
      BY <2>2, HeldIsFile
    <3> QED
      BY <3>1, <3>2, <3>3
  <2> QED
    BY <2>1, <2>2
<1> QED
  BY <1>1, ToldIsKnown

\* openFile of a new file: its creator is told if it asked for the lock.
LEMMA CreateKnown ==
  ASSUME IInv, AIInv, LocksAreKnown, NEW o \in Owners, NEW p \in Paths,
         NEW locking \in BOOLEAN, AskCreate(o, p, locking)
  PROVE  LocksAreKnown'
<1> DEFINE gone == EvictedByNew
           got  == IF locking THEN OnSuccess(OpenAnswer(o, p, TRUE), o, p) ELSE {}
<1>1. /\ p \notin filesDict /\ filesDict' = (filesDict \ gone) \cup {p}
      /\ currentlyLockedBy' = [Dropped(currentlyLockedBy, gone, NoOwner) EXCEPT
                                 ![p] = IF locking THEN o ELSE NoOwner]
      /\ ReturnWaiting(gone) /\ Tell(got, {})
  BY DEF AskCreate, OpenNew
<1>2. OpenAnswer(o, p, TRUE) = "OK"
  BY <1>1, OpenNewSucceeds
     DEF AIInv, OnlyFilesAreOpened, IInv, OnlyFilesAreLocked, LockedByOther
<1>3. /\ got \in SUBSET (Owners \X Paths)
      /\ \A x, q : <<x, q>> \in got <=> locking /\ x = o /\ q = p
  BY <1>2, OnSuccessIs
<1> HIDE DEF gone, got
<1>4. ASSUME NEW x \in Owners, NEW q \in Paths
      PROVE  currentlyLockedBy'[q] = x
               <=> /\ q \in filesDict' /\ <<x, q>> \notin {}
                   /\ \/ currentlyLockedBy[q] = x
                      \/ <<x, q>> \in got
                      \/ <<x, q>> \in parked \ parked'
  <2>1. CASE q = p
    <3>1. currentlyLockedBy[p] = NoOwner /\ ToSet(waitingLockers[p]) = {}
      BY <1>1 DEF IInv, OnlyFilesAreLocked, ToSet
    <3>2. <<x, p>> \notin parked
      BY <3>1, ReturnedWaited
    <3>3. currentlyLockedBy'[p] = IF locking THEN o ELSE NoOwner
      BY <1>1 DEF Dropped
    <3> QED
      BY <1>1, <1>3, <2>1, <3>1, <3>2, <3>3, OwnersAssumption
  <2>2. CASE q # p /\ q \in gone
    BY <1>1, <2>2, OwnersAssumption DEF Dropped
  <2>3. CASE q # p /\ q \notin gone
    <3>1. currentlyLockedBy'[q] = currentlyLockedBy[q] /\ <<x, q>> \notin got
      BY <1>1, <1>3, <2>3 DEF Dropped
    <3>2. <<x, q>> \notin parked \ parked'
      BY <1>1, <2>3 DEF ReturnWaiting, Waiting
    <3>3. currentlyLockedBy[q] = x => q \in filesDict'
      BY <1>1, <2>3, HeldIsFile
    <3> QED
      BY <3>1, <3>2, <3>3
  <2> QED
    BY <2>1, <2>2, <2>3
<1> QED
  BY <1>1, <1>3, <1>4, ToldIsKnown

\* openFile with O_LOCK of a file that is there, and lockFile: who is answered
\* OK has the lock, and nobody else gets or loses it.
LEMMA LockingKnown ==
  ASSUME IInv, LocksAreKnown, NEW o \in Owners, NEW p \in Paths, NEW answer, NEW got,
         got = {} \/ got = OnSuccess(answer, o, p), Tell(got, {}),
         p \in filesDict, filesDict' = filesDict, parked \subseteq parked',
         \/ UNCHANGED currentlyLockedBy /\ (<<o, p>> \notin got \/ currentlyLockedBy[p] = o)
         \/ /\ currentlyLockedBy' = [currentlyLockedBy EXCEPT ![p] = o]
            /\ ~ LockedByOther(o, p) /\ (<<o, p>> \in got \/ currentlyLockedBy[p] = o)
  PROVE  LocksAreKnown'
<1>1. /\ got \in SUBSET (Owners \X Paths)
      /\ \A x, q : <<x, q>> \in got => x = o /\ q = p
  BY OnSuccessIs
<1>2. ASSUME NEW x \in Owners, NEW q \in Paths
      PROVE  currentlyLockedBy'[q] = x
               <=> /\ q \in filesDict' /\ <<x, q>> \notin {}
                   /\ \/ currentlyLockedBy[q] = x
                      \/ <<x, q>> \in got
                      \/ <<x, q>> \in parked \ parked'
  <2>1. currentlyLockedBy[q] = x => q \in filesDict
    BY HeldIsFile
  <2>2. currentlyLockedBy'[q] = x <=> currentlyLockedBy[q] = x \/ <<x, q>> \in got
    <3>1. currentlyLockedBy \in [Paths -> Owners \cup {NoOwner}]
      BY DEF IInv, FieldsTypeOK
    <3>2. CASE UNCHANGED currentlyLockedBy
      <4>1. <<o, p>> \in got => currentlyLockedBy[p] = o
        BY <3>1, <3>2
      <4> QED
        BY <1>1, <3>2, <4>1
    <3>3. CASE /\ currentlyLockedBy' = [currentlyLockedBy EXCEPT ![p] = o]
               /\ ~ LockedByOther(o, p) /\ (<<o, p>> \in got \/ currentlyLockedBy[p] = o)
      <4>1. currentlyLockedBy[p] \in {o, NoOwner}
        BY <3>3 DEF LockedByOther
      <4> QED
        BY <1>1, <3>1, <3>3, <4>1, OwnersAssumption
    <3> QED
      BY <3>2, <3>3
  <2> QED
    BY <1>1, <2>1, <2>2
<1> QED
  BY <1>1, <1>2, ToldIsKnown

LEMMA OpenKnown ==
  ASSUME IInv, LocksAreKnown, NEW o \in Owners, NEW p \in Paths,
         NEW locking \in BOOLEAN, AskOpen(o, p, locking)
  PROVE  LocksAreKnown'
<1>1. PICK answer : answer = OpenAnswer(o, p, FALSE)
  OBVIOUS
<1>2. PICK got : got = IF locking THEN OnSuccess(answer, o, p) ELSE {}
  OBVIOUS
<1>3. /\ p \in filesDict /\ filesDict' = filesDict /\ parked' = parked /\ Tell(got, {})
      /\ IF OpenRefused(o, p) THEN UNCHANGED currentlyLockedBy
         ELSE currentlyLockedBy' = [currentlyLockedBy EXCEPT
                                      ![p] = IF locking THEN o ELSE currentlyLockedBy[p]]
  BY <1>1, <1>2 DEF AskOpen, Open, bookVars
<1>4. <<o, p>> \in got <=> locking /\ answer = "OK"
  BY <1>2, OnSuccessIs
<1>5. CASE OpenRefused(o, p)
  <2>1. answer # "OK"
    BY <1>1, <1>5, OpenRefusedIsTold
  <2> QED
    BY <1>2, <1>3, <1>4, <1>5, <2>1, LockingKnown
<1>6. CASE ~ OpenRefused(o, p)
  <2>1. answer = "OK" /\ ~ LockedByOther(o, p)
    BY <1>1, <1>3, <1>6, OpenAcceptedIsTold DEF OpenRefused
  <2>2. CASE locking
    BY <1>2, <1>3, <1>4, <1>6, <2>1, <2>2, LockingKnown
  <2>3. CASE ~ locking
    <3>1. currentlyLockedBy' = currentlyLockedBy
      BY <1>3, <1>6, <2>3 DEF IInv, FieldsTypeOK
    <3> QED
      BY <1>2, <1>3, <1>4, <2>3, <3>1, LockingKnown
  <2> QED
    BY <2>2, <2>3
<1> QED
  BY <1>5, <1>6

LEMMA LockKnown ==
  ASSUME IInv, LocksAreKnown, NEW o \in Owners, NEW p \in Paths, AskLock(o, p)
  PROVE  LocksAreKnown'
<1>1. PICK answer : answer = LockAnswer(o, p)
  OBVIOUS
<1>2. PICK got : got = OnSuccess(answer, o, p)
  OBVIOUS
<1>3. /\ p \in filesDict /\ filesDict' = filesDict /\ Tell(got, {})
      /\ IF LockedByOther(o, p)
         THEN GetInLine(o, p) /\ UNCHANGED currentlyLockedBy
         ELSE /\ currentlyLockedBy' = [currentlyLockedBy EXCEPT ![p] = o]
              /\ UNCHANGED parked
  BY <1>1, <1>2 DEF AskLock, LockFile, bookVars
<1>4. parked \subseteq parked'
  BY <1>3 DEF GetInLine
<1>5. answer = IF LockedByOther(o, p)
               THEN IF Contains(waitingLockers[p], o) THEN "FILE_ALREADY_LOCKED" ELSE "FILE_IS_LOCKED"
               ELSE IF currentlyLockedBy[p] = o THEN "FILE_ALREADY_LOCKED" ELSE "OK"
  BY <1>1, <1>3, LockAnswerIs
<1>6. <<o, p>> \in got <=> ~ LockedByOther(o, p) /\ currentlyLockedBy[p] # o
  BY <1>2, <1>5, OnSuccessIs
<1>7. CASE LockedByOther(o, p)
  BY <1>2, <1>3, <1>4, <1>6, <1>7, LockingKnown
<1>8. CASE ~ LockedByOther(o, p)
  BY <1>2, <1>3, <1>4, <1>6, <1>8, LockingKnown
<1> QED
  BY <1>7, <1>8

\* unlockFile: the first in line is told, the client that unlocks knows.
LEMMA UnlockKnown ==
  ASSUME IInv, LocksAreKnown, NEW o \in Owners, NEW p \in Paths, AskUnlock(o, p)
  PROVE  LocksAreKnown'
<1>1. PICK lost : lost = OnSuccess(UnlockAnswer(o, p), o, p)
  OBVIOUS
<1>2. /\ p \in filesDict /\ filesDict' = filesDict /\ Tell({}, lost)
      /\ IF currentlyLockedBy[p] # o
         THEN UNCHANGED currentlyLockedBy /\ UNCHANGED parked
         ELSE /\ currentlyLockedBy' = [currentlyLockedBy EXCEPT ![p] = NextLocker(p)]
              /\ parked' = parked \ {<<NextLocker(p), p>>}
  BY <1>1 DEF AskUnlock, UnlockFile, bookVars, lockVars
<1>3. \A x, q : <<x, q>> \in lost <=> currentlyLockedBy[p] = o /\ x = o /\ q = p
  BY <1>1, <1>2, OnSuccessIs, UnlockAnswerIs
<1>4. currentlyLockedBy \in [Paths -> Owners \cup {NoOwner}]
  BY DEF IInv, FieldsTypeOK
<1>5. ASSUME NEW x \in Owners, NEW q \in Paths
      PROVE  currentlyLockedBy'[q] = x
               <=> /\ q \in filesDict' /\ <<x, q>> \notin lost
                   /\ \/ currentlyLockedBy[q] = x
                      \/ <<x, q>> \in {}
                      \/ <<x, q>> \in parked \ parked'
  <2>1. currentlyLockedBy[q] = x => q \in filesDict
    BY HeldIsFile
  <2>2. CASE currentlyLockedBy[p] # o
    BY <1>2, <1>3, <2>1, <2>2
  <2>3. CASE currentlyLockedBy[p] = o /\ q # p
    BY <1>2, <1>3, <1>4, <2>1, <2>3
  <2>4. CASE currentlyLockedBy[p] = o /\ q = p
    <3>1. currentlyLockedBy'[p] = NextLocker(p) /\ (<<x, p>> \in lost <=> x = o)
      BY <1>2, <1>3, <1>4, <2>4
    <3>2. <<x, p>> \in parked \ parked' <=> x = NextLocker(p)
      BY <1>2, <2>4, NextWaits
    <3>3. x = NextLocker(p) => x # o
      BY <2>4, NextWaits
    <3> QED
      BY <1>2, <2>4, <3>1, <3>2, <3>3
  <2> QED
    BY <2>2, <2>3, <2>4
<1> QED
  BY <1>2, <1>5, ToldIsKnown

\* A departure: the first in each line of its locks is told.
LEMMA LeaveKnown ==
  ASSUME IInv, LocksAreKnown, NEW o \in Owners, Leave(o)
  PROVE  LocksAreKnown'
<1> DEFINE held == {p \in filesDict : currentlyLockedBy[p] = o}
           lost == {o} \X Paths
<1>1. /\ filesDict' = filesDict /\ Tell({}, lost)
      /\ currentlyLockedBy' =
           [p \in Paths |-> IF p \in held THEN NextLocker(p) ELSE currentlyLockedBy[p]]
      /\ parked' = parked \ ({<<NextLocker(p), p>> : p \in held} \cup ({o} \X Paths))
  BY DEF Leave, EvictClient, bookVars
<1>2. ASSUME NEW x \in Owners, NEW q \in Paths
      PROVE  currentlyLockedBy'[q] = x
               <=> /\ q \in filesDict' /\ <<x, q>> \notin lost
                   /\ \/ currentlyLockedBy[q] = x
                      \/ <<x, q>> \in {}
                      \/ <<x, q>> \in parked \ parked'
  <2>1. currentlyLockedBy[q] = x => q \in filesDict
    BY HeldIsFile
  <2>2. <<x, q>> \in lost <=> x = o
    OBVIOUS
  <2>3. x # o => (<<x, q>> \in parked \ parked'
                    <=> <<x, q>> \in parked /\ q \in held /\ x = NextLocker(q))
    BY <1>1
  <2>4. CASE q \in held
    <3>1. q \in filesDict /\ currentlyLockedBy[q] = o /\ currentlyLockedBy'[q] = NextLocker(q)
      BY <1>1, <2>4
    <3>2. x = NextLocker(q) => <<x, q>> \in parked /\ x # o
      BY <3>1, NextWaits
    <3> QED
      BY <1>1, <2>2, <2>3, <2>4, <3>1, <3>2
  <2>5. CASE q \notin held
    <3>1. currentlyLockedBy'[q] = currentlyLockedBy[q]
      BY <1>1, <2>5
    <3>2. currentlyLockedBy[q] # o
      BY <2>5, HeldIsFile
    <3> QED
      BY <1>1, <2>1, <2>2, <2>3, <2>5, <3>1, <3>2
  <2> QED
    BY <2>4, <2>5
<1> HIDE DEF lost
<1> QED
  BY <1>1, <1>2, ToldIsKnown

LEMMA LocksKnownKept == IInv /\ AIInv /\ LocksAreKnown /\ [ANext]_allVars => LocksAreKnown'
<1> SUFFICES ASSUME IInv, AIInv, LocksAreKnown, [ANext]_allVars PROVE LocksAreKnown'
  OBVIOUS
<1>1. CASE UNCHANGED allVars
  BY <1>1 DEF allVars, vars, lockVars, LocksAreKnown
<1>2. CASE ANext
  <2>1. PICK o \in Owners :
      \/ \E p \in Paths, locking \in BOOLEAN : AskCreate(o, p, locking) \/ AskOpen(o, p, locking)
      \/ \E p \in Paths, content \in Sizes, write \in BOOLEAN : AskWrite(o, p, content, write)
      \/ \E p \in Paths : \/ AskRead(o, p) \/ AskLock(o, p) \/ AskUnlock(o, p)
                          \/ AskClose(o, p) \/ AskRemove(o, p)
      \/ \E n \in 0 .. MaxFiles - 1 : AskReadN(o, n)
      \/ Leave(o)
    BY <1>2 DEF ANext
  <2>2. ASSUME NEW p \in Paths, AskRead(o, p) \/ AskClose(o, p) PROVE LocksAreKnown'
    <3>1. TellNothing /\ UNCHANGED <<filesDict, currentlyLockedBy, parked>>
      BY <2>2 DEF AskRead, ReadFile, AskClose, CloseFile, bookVars, lockVars
    <3> QED
      BY <3>1, LocksAloneKnown
  <2>3. ASSUME NEW n, AskReadN(o, n) PROVE LocksAreKnown'
    <3>1. TellNothing /\ UNCHANGED <<filesDict, currentlyLockedBy, parked>>
      BY <2>3 DEF AskReadN, ReadNFile, bookVars, lockVars
    <3> QED
      BY <3>1, LocksAloneKnown
  <2>4. ASSUME NEW p \in Paths, NEW content \in Sizes, NEW write \in BOOLEAN,
               AskWrite(o, p, content, write)
        PROVE  LocksAreKnown'
    <3>1. PICK gone : gone = EvictedFor(p, content)
      OBVIOUS
    <3>2. /\ filesDict' = filesDict \ gone /\ ReturnWaiting(gone) /\ Tell({}, {})
          /\ currentlyLockedBy' = Dropped(currentlyLockedBy, gone, NoOwner)
      BY <2>4, <3>1 DEF AskWrite, AppendToFile, TellNothing
    <3> QED
      BY <3>2, GoneKnown
  <2>5. ASSUME NEW p \in Paths, AskRemove(o, p) PROVE LocksAreKnown'
    <3>1. PICK lost : lost = OnSuccess(RemoveAnswer(o, p), o, p)
      OBVIOUS
    <3>2. /\ filesDict' = filesDict \ {p} /\ ReturnWaiting({p}) /\ Tell({}, lost)
          /\ currentlyLockedBy' = Dropped(currentlyLockedBy, {p}, NoOwner)
      BY <2>5, <3>1 DEF AskRemove, RemoveFile
    <3>3. \A x, q : <<x, q>> \in lost => q \in {p}
      BY <3>1, OnSuccessIs
    <3> QED
      BY <3>2, <3>3, GoneKnown
  <2> QED
    BY <2>1, <2>2, <2>3, <2>4, <2>5, CreateKnown, OpenKnown, LockKnown, UnlockKnown, LeaveKnown
<1> QED
  BY <1>1, <1>2

\* Whoever has a lock has been told so, and nobody else believes it, whatever
\* requests, evictions and departures led there.
THEOREM HoldersKnow == ASpec => []LocksAreKnown
<1>1. AInit => LocksAreKnown
  BY OwnersAssumption DEF AInit, Init, LocksAreKnown
<1> QED
  BY <1>1, LocksKnownKept, AnswersInvariance, PTL DEF ASpec
=============================================================================
