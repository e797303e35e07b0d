-------------------------- MODULE FileSystemAnswers -------------------------
(***************************************************************************)
(* FileSystem and what each operation answers, success or which E_FS_      *)
(* error.  The steps are those of FileSystem; what is added here is the    *)
(* order in which the code tests for errors, and two memories: of what has *)
(* succeeded on each file, which the rule for writeFile is about, and of   *)
(* the locks that clients were told of, in answers to their own requests   *)
(* or when the requests of others returned them.                           *)
(*                                                                         *)
(* Which error a refused request hears is modelled as it is, and nothing   *)
(* is claimed of it: unlockFile of a file that nobody has locked answers   *)
(* FILE_IS_LOCKED, and lockFile by the holder FILE_ALREADY_LOCKED.         *)
(***************************************************************************)
EXTENDS FileSystem

VARIABLES
  fresh,    \* who created and locked each file, while nothing else succeeded on it
  told      \* <<o, p>>: the last that o heard of the lock of p is that it has it

allVars == <<vars, fresh, told>>

AInit == Init /\ fresh = [p \in Paths |-> NoOwner] /\ told = {}

-----------------------------------------------------------------------------
(* The answers.  Each operation tests for errors in a fixed order; the     *)
(* first test that holds gives the answer.                                 *)

FirstOf(tests) ==
  LET failed == {i \in DOMAIN tests : tests[i][1]}
  IN  IF failed = {} THEN "OK" ELSE tests[Min(failed)][2]

NotFound(p) == <<p \notin filesDict, "FILE_NOT_FOUND">>
IsLocked(o, p) == <<LockedByOther(o, p), "FILE_IS_LOCKED">>
NotOpened(o, p) == <<o \notin openedBy[p], "FILE_NOT_OPENED">>

OpenAnswer(o, p, creating) == FirstOf(<<
  <<p \in filesDict /\ creating, "FILE_ALREADY_IN">>,
  <<p \notin filesDict /\ ~ creating, "FILE_NOT_FOUND">>,
  IsLocked(o, p),
  <<o \in openedBy[p], "FILE_ALREADY_OPENED">> >>)

ReadAnswer(o, p) == FirstOf(<<NotFound(p), IsLocked(o, p), NotOpened(o, p)>>)

WriteAnswer(o, p, content, write) == FirstOf(<<
  <<content >= MaxStorage, "EXCEEDED_SIZE">>,
  NotFound(p),
  <<size[p] + content >= MaxStorage, "EXCEEDED_SIZE">>,
  IsLocked(o, p),
  <<write /\ ownerCanWrite[p] # o, "FILE_NO_WRITE">>,
  NotOpened(o, p) >>)

\* A plausible bug of LockAnswer: the client that got in line is told OK.
LockAnswerTooEarly(o, p) == FirstOf(<<
  NotFound(p),
  <<currentlyLockedBy[p] = o, "FILE_ALREADY_LOCKED">> >>)

\* A client that gets in line hears E_FS_FILE_IS_LOCKED.
LockAnswer(o, p) == FirstOf(<<
  NotFound(p),
  <<LockedByOther(o, p) /\ Contains(waitingLockers[p], o), "FILE_ALREADY_LOCKED">>,
  IsLocked(o, p),
  <<currentlyLockedBy[p] = o, "FILE_ALREADY_LOCKED">> >>)

UnlockAnswer(o, p) == FirstOf(<<
  NotFound(p),
  <<currentlyLockedBy[p] # o, "FILE_IS_LOCKED">>,
  <<currentlyLockedBy[p] = NoOwner, "FILE_NOT_LOCKED">> >>)

CloseAnswer(o, p) == FirstOf(<<NotFound(p), NotOpened(o, p)>>)

RemoveAnswer(o, p) == FirstOf(<<
  NotFound(p), IsLocked(o, p),
  <<currentlyLockedBy[p] = NoOwner, "FILE_NOT_LOCKED">> >>)

-----------------------------------------------------------------------------
(* The requests.                                                           *)

\* A request for p was given the answer; p is fresh for `by' if it succeeded.
Remember(p, answer, by) ==
  fresh' = [q \in Paths |-> IF q \notin filesDict' THEN NoOwner
                            ELSE IF q = p /\ answer = "OK" THEN by
                            ELSE fresh[q]]

Forget(p, answer) == Remember(p, answer, NoOwner)

\* What an answer is about, if it is a success.
OnSuccess(answer, o, p) == IF answer = "OK" THEN {<<o, p>>} ELSE {}

\* The clients of `got' and `lost' are answered that they have, or are rid of,
\* a lock.  Those that the operation returned are notified that the lock they
\* waited for is theirs, if the file is still there (what may go wrong on the way
\* to them is in Server).  The holder of a file that is evicted is not notified,
\* and what it was told is dropped: its lock is no more.
Tell(got, lost) ==
  told' = {w \in (told \cup got \cup (parked \ parked')) \ lost : w[2] \in filesDict'}

TellNothing == Tell({}, {})

AskCreate(o, p, locking) ==
  LET answer == OpenAnswer(o, p, TRUE)
  IN  /\ OpenNew(o, p, locking)
      /\ Remember(p, answer, IF locking THEN o ELSE NoOwner)
      /\ Tell(IF locking THEN OnSuccess(answer, o, p) ELSE {}, {})

AskOpen(o, p, locking) ==
  LET answer == OpenAnswer(o, p, FALSE)
  IN  /\ Open(o, p, locking)
      /\ Forget(p, answer)
      /\ Tell(IF locking THEN OnSuccess(answer, o, p) ELSE {}, {})

AskWrite(o, p, content, write) ==
  AppendToFile(o, p, content, write) /\ Forget(p, WriteAnswer(o, p, content, write)) /\ TellNothing

AskRead(o, p)  == ReadFile(o, p) /\ Forget(p, ReadAnswer(o, p)) /\ TellNothing
AskClose(o, p) == CloseFile(o, p) /\ Forget(p, CloseAnswer(o, p)) /\ TellNothing
AskReadN(o, n) == ReadNFile(o, n) /\ UNCHANGED fresh /\ TellNothing

AskLock(o, p) ==
  LockFile(o, p) /\ Forget(p, LockAnswer(o, p)) /\ Tell(OnSuccess(LockAnswer(o, p), o, p), {})
AskUnlock(o, p) ==
  UnlockFile(o, p) /\ Forget(p, UnlockAnswer(o, p)) /\ Tell({}, OnSuccess(UnlockAnswer(o, p), o, p))
AskRemove(o, p) ==
  RemoveFile(o, p) /\ Forget(p, RemoveAnswer(o, p)) /\ Tell({}, OnSuccess(RemoveAnswer(o, p), o, p))

\* A client that departs takes what it had created and was told with it: a
\* later one may have the same descriptor.
Leave(o) ==
  /\ EvictClient(o)
  /\ fresh' = [p \in Paths |-> IF fresh[p] = o THEN NoOwner ELSE fresh[p]]
  /\ Tell({}, {o} \X Paths)

ANext == \E o \in Owners :
  \/ \E p \in Paths, locking \in BOOLEAN : AskCreate(o, p, locking) \/ AskOpen(o, p, locking)
  \/ \E p \in Paths, content \in Sizes, write \in BOOLEAN : AskWrite(o, p, content, write)
  \/ \E p \in Paths : \/ AskRead(o, p) \/ AskLock(o, p) \/ AskUnlock(o, p)
                      \/ AskClose(o, p) \/ AskRemove(o, p)
  \/ \E n \in 0 .. MaxFiles - 1 : AskReadN(o, n)
  \/ Leave(o)

ASpec == AInit /\ [][ANext]_allVars

-----------------------------------------------------------------------------
(* Properties.                                                             *)

\* A writeFile that succeeds is the first success on its file: nothing that
\* names the file has succeeded since the same client created it locked.
WriteComesFirst == [][
  \A o \in Owners, p \in Paths, content \in Sizes :
    AppendToFile(o, p, content, TRUE) => fresh[p] = o ]_allVars

\* Who has a lock knows it, and nobody else believes that it has it, over any
\* sequence of requests: a lock comes with an answer to the client's own request,
\* or much later, when an unlock or a departure of others passes it on, and goes
\* with an answer or with the file.  Otherwise two clients would work on a file at
\* once, or a file would stay locked by a client that never gives it back.
LocksAreKnown ==
  told = {w \in Owners \X Paths : currentlyLockedBy[w[2]] = w[1]}

-----------------------------------------------------------------------------
(* The inductive invariant, with IInv.                                     *)

OnlyFilesAreOpened == \A p \in Paths \ filesDict : openedBy[p] = {}

\* Whoever may use writeFile on a file it has open is who the file is fresh for.
WritableIsFresh ==
  \A p \in Paths : ownerCanWrite[p] \in openedBy[p] => fresh[p] = ownerCanWrite[p]

FreshType == fresh \in [Paths -> Owners \cup {NoOwner}]

AIInv == FreshType /\ OnlyFilesAreOpened /\ WritableIsFresh
=============================================================================
