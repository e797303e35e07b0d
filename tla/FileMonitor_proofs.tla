------------------------- MODULE FileMonitor_proofs -------------------------
(***************************************************************************)
(* Proofs about FileMonitor, for every set of threads and files: IInv is   *)
(* inductive, hence the safety properties; and every step is a step of     *)
(* FileAccess or leaves its state alone.                                   *)
(***************************************************************************)
EXTENDS FileMonitor, FiniteSetTheorems, TLAPS

USE ThreadsAssumption, FilesAssumption, MaxFilesAssumption, OpsAssumption
USE DEF Goto, Target, HandOff, Sweeps, ReadOps, WriteOps, AllOps,
        vars, fsVars, lockVars, countVars, threadVars

\* The threads activeWriters counts; a remover is inside without being counted.
Counted(f) == {t \in WritersOf(f) : op[t] # "remove"}

\* Cardinality follows a thread that comes in ...
LEMMA CountIn ==
  ASSUME NEW S \in SUBSET Threads, NEW t \in Threads \ S
  PROVE  Cardinality(S \cup {t}) = Cardinality(S) + 1
BY FS_Subset, FS_AddElement

\* ... and one that goes out.
LEMMA CountOut ==
  ASSUME NEW S \in SUBSET Threads, NEW t \in S
  PROVE  Cardinality(S \ {t}) = Cardinality(S) - 1
BY FS_Subset, FS_RemoveElement

\* Both sets are sets of threads, which are finite.
LEMMA ReadersAndCounted ==
  ASSUME NEW f
  PROVE  ReadersOf(f) \in SUBSET Threads /\ Counted(f) \in SUBSET Threads
BY DEF ReadersOf, Counted, WritersOf

\* The counters count: they are zero exactly when nobody who counts is inside.
LEMMA CountersTell ==
  ASSUME TypeOK, CountersExact, NEW f \in Files
  PROVE  /\ activeReaders[f] = 0 <=>
              \A t \in Threads : Inside(t, f) => op[t] \notin ReadOps
         /\ activeWriters[f] = 0 <=>
              \A t \in Threads : Inside(t, f) => op[t] \in ReadOps \cup {"remove"}
<1> DEFINE R == ReadersOf(f)
           W == {t \in WritersOf(f) : op[t] # "remove"}
<1>1. IsFiniteSet(R) /\ IsFiniteSet(W)
  BY FS_Subset DEF ReadersOf, WritersOf
<1>2. activeReaders[f] = Cardinality(R) /\ activeWriters[f] = Cardinality(W)
  BY DEF CountersExact
<1>3. (Cardinality(R) = 0 <=> R = {}) /\ (Cardinality(W) = 0 <=> W = {})
  BY <1>1, FS_EmptySet
<1>4. (activeReaders[f] = 0 <=> R = {}) /\ (activeWriters[f] = 0 <=> W = {})
  BY <1>2, <1>3
<1>5. R = {} <=> \A t \in Threads : Inside(t, f) => op[t] \notin ReadOps
  BY DEF ReadersOf
<1>6. W = {} <=> \A t \in Threads : Inside(t, f) => op[t] \in ReadOps \cup {"remove"}
  BY DEF WritersOf
<1>7. QED
  BY <1>4, <1>5, <1>6

\* Whoever keeps overallMutex without sweeping is sure that nobody sweeps.
LEMMA OneSweep ==
  ASSUME TypeOK, MutexesHeld, LocalsFit, NEW t \in Threads, HoldsOverall(t),
         op[t] \notin Sweeps
  PROVE  \A u \in Threads : todo[u] = {}
<1> SUFFICES ASSUME NEW u \in Threads, todo[u] # {}
             PROVE  FALSE
  OBVIOUS
<1>1. op[u] \in Sweeps /\ pc[u] \notin {"idle", "overall", "lookup", "release"}
  BY DEF LocalsFit
<1>2. pc[u] \in Labels
  BY DEF TypeOK
<1>3. HoldsOverall(u)
  BY <1>1, <1>2 DEF HoldsOverall, LocalsFit, Labels
<1>4. QED
  BY <1>1, <1>3 DEF MutexesHeld

\* A step in which nobody enters or leaves a file keeps the counters exact.
LEMMA CountersFrame ==
  ASSUME CountersExact, UNCHANGED countVars,
         \A t \in Threads, f \in Files :
           /\ Inside(t, f)' <=> Inside(t, f)
           /\ Inside(t, f) => op'[t] = op[t]
  PROVE  CountersExact'
<1> SUFFICES ASSUME NEW f \in Files
             PROVE  /\ activeReaders'[f] = Cardinality(ReadersOf(f)')
                    /\ activeWriters'[f] =
                         Cardinality({t \in WritersOf(f)' : op'[t] # "remove"})
  BY DEF CountersExact
<1>1. ReadersOf(f)' = ReadersOf(f)
  BY DEF ReadersOf
<1>2. {t \in WritersOf(f)' : op'[t] # "remove"} = {t \in WritersOf(f) : op[t] # "remove"}
  BY DEF WritersOf
<1>3. QED
  BY <1>1, <1>2 DEF CountersExact

\* A step that creates no file stays within the limit.
LEMMA LimitFrame ==
  ASSUME TypeOK, FilesWithinLimit, filesDict' \subseteq filesDict
  PROVE  FilesWithinLimit'
<1>1. IsFiniteSet(filesDict)
  BY FS_Subset DEF TypeOK
<1>2. /\ Cardinality(filesDict') <= Cardinality(filesDict)
      /\ Cardinality(filesDict') \in Nat /\ Cardinality(filesDict) \in Nat
  BY <1>1, FS_Subset, FS_CardinalityType
<1>3. QED
  BY <1>2 DEF FilesWithinLimit

-----------------------------------------------------------------------------
(* Every action keeps the inductive invariant.                             *)

\* A call only sets up the locals of its thread.
LEMMA CallKeepsIInv ==
  ASSUME IInv, NEW t \in Threads, NEW o \in Ops, NEW f \in Files, Call(t, o, f)
  PROVE  IInv'
<1> USE DEF IInv
<1>1. TypeOK' /\ LocalsFit'
  BY DEF TypeOK, Labels, MutexesHeld, LocalsFit, HoldsOverall, Call
<1>2. MutexesHeld'
  BY DEF TypeOK, LocalsFit, MutexesHeld, HoldsOverall, HoldsOrdering,
         HoldsMutex, Call
<1>3. CountersExact' /\ WritersAreAlone'
  BY CountersFrame DEF TypeOK, LocalsFit, WritersAreAlone, Inside, Call
<1>4. GateShut' /\ RemoverIsAlone'
  BY DEF TypeOK, LocalsFit, MutexesHeld, GateShut, RemoverIsAlone,
         HoldsOverall, HoldsOrdering, HoldsMutex, Inside, Refers, Call
<1>5. NoUseAfterFree' /\ NobodySleepsInVain'
  BY DEF TypeOK, LocalsFit, MutexesHeld, NoUseAfterFree,
         NobodySleepsInVain, HoldsOverall, HoldsOrdering, Inside, Refers,
         MustWait, Call
<1>6. FilesWithinLimit'
  BY LimitFrame DEF TypeOK, Call
<1>7. QED
  BY <1>1, <1>2, <1>3, <1>4, <1>5, <1>6

\* overallMutex is taken when it is free, so it has one holder.
LEMMA LockOverallKeepsIInv ==
  ASSUME IInv, NEW t \in Threads, LockOverall(t)
  PROVE  IInv'
<1> USE DEF IInv
<1>1. TypeOK' /\ LocalsFit'
  BY DEF TypeOK, Labels, MutexesHeld, LocalsFit, HoldsOverall, LockOverall
<1>2. MutexesHeld'
  BY DEF TypeOK, LocalsFit, MutexesHeld, HoldsOverall, HoldsOrdering,
         HoldsMutex, LockOverall
<1>3. CountersExact' /\ WritersAreAlone'
  BY CountersFrame DEF TypeOK, LocalsFit, WritersAreAlone, Inside, LockOverall
<1>4. GateShut' /\ RemoverIsAlone'
  BY DEF TypeOK, LocalsFit, MutexesHeld, GateShut, RemoverIsAlone,
         HoldsOverall, HoldsOrdering, HoldsMutex, Inside, Refers, LockOverall
<1>5. NoUseAfterFree' /\ NobodySleepsInVain'
  BY DEF TypeOK, LocalsFit, MutexesHeld, NoUseAfterFree,
         NobodySleepsInVain, HoldsOverall, HoldsOrdering, Inside, Refers,
         MustWait, LockOverall
<1>6. FilesWithinLimit'
  BY LimitFrame DEF TypeOK, LockOverall
<1>7. QED
  BY <1>1, <1>2, <1>3, <1>4, <1>5, <1>6

\* A refused operation has touched no file.
LEMMA RefuseKeepsIInv ==
  ASSUME IInv, NEW t \in Threads, Refuse(t)
  PROVE  IInv'
<1> USE DEF IInv
<1>1. TypeOK' /\ LocalsFit'
  BY DEF TypeOK, Labels, MutexesHeld, LocalsFit, HoldsOverall, Refuse
<1>2. MutexesHeld'
  BY DEF TypeOK, LocalsFit, MutexesHeld, HoldsOverall, HoldsOrdering,
         HoldsMutex, Refuse
<1>3. CountersExact' /\ WritersAreAlone'
  BY CountersFrame DEF TypeOK, LocalsFit, WritersAreAlone, Inside, Refuse
<1>4. GateShut' /\ RemoverIsAlone'
  BY DEF TypeOK, LocalsFit, MutexesHeld, GateShut, RemoverIsAlone,
         HoldsOverall, HoldsOrdering, HoldsMutex, Inside, Refers, Refuse
<1>5. NoUseAfterFree' /\ NobodySleepsInVain'
  BY DEF TypeOK, LocalsFit, MutexesHeld, NoUseAfterFree,
         NobodySleepsInVain, HoldsOverall, HoldsOrdering, Inside, Refers,
         MustWait, Refuse
<1>6. FilesWithinLimit'
  BY LimitFrame DEF TypeOK, Refuse
<1>7. QED
  BY <1>1, <1>2, <1>3, <1>4, <1>5, <1>6

\* The operation points to a file that is in the dictionary.
LEMMA FindKeepsIInv ==
  ASSUME IInv, NEW t \in Threads, Find(t)
  PROVE  IInv'
<1> USE DEF IInv
<1>1. TypeOK' /\ LocalsFit'
  BY DEF TypeOK, Labels, MutexesHeld, LocalsFit, HoldsOverall, Find
<1>2. MutexesHeld'
  BY DEF TypeOK, LocalsFit, MutexesHeld, HoldsOverall, HoldsOrdering,
         HoldsMutex, Find
<1>3. CountersExact' /\ WritersAreAlone'
  BY CountersFrame DEF TypeOK, LocalsFit, WritersAreAlone, Inside, Find
<1>4. GateShut' /\ RemoverIsAlone'
  BY DEF TypeOK, LocalsFit, MutexesHeld, GateShut, RemoverIsAlone,
         HoldsOverall, HoldsOrdering, HoldsMutex, Inside, Refers, Find
<1>5. NoUseAfterFree' /\ NobodySleepsInVain'
  BY DEF TypeOK, LocalsFit, MutexesHeld, NoUseAfterFree,
         NobodySleepsInVain, HoldsOverall, HoldsOrdering, Inside, Refers,
         MustWait, Find
<1>6. FilesWithinLimit'
  BY LimitFrame DEF TypeOK, Find
<1>7. QED
  BY <1>1, <1>2, <1>3, <1>4, <1>5, <1>6

\* open learns that its file is missing while it keeps overallMutex.
LEMMA FindMissingKeepsIInv ==
  ASSUME IInv, NEW t \in Threads, FindMissing(t)
  PROVE  IInv'
<1> USE DEF IInv
<1>1. TypeOK' /\ LocalsFit'
  BY DEF TypeOK, Labels, MutexesHeld, LocalsFit, HoldsOverall, FindMissing
<1>2. MutexesHeld'
  BY DEF TypeOK, LocalsFit, MutexesHeld, HoldsOverall, HoldsOrdering,
         HoldsMutex, FindMissing
<1>3. CountersExact' /\ WritersAreAlone'
  BY CountersFrame DEF TypeOK, LocalsFit, WritersAreAlone, Inside, FindMissing
<1>4. GateShut' /\ RemoverIsAlone'
  BY DEF TypeOK, LocalsFit, MutexesHeld, GateShut, RemoverIsAlone,
         HoldsOverall, HoldsOrdering, HoldsMutex, Inside, Refers, FindMissing
<1>5. NoUseAfterFree' /\ NobodySleepsInVain'
  BY DEF TypeOK, LocalsFit, MutexesHeld, NoUseAfterFree,
         NobodySleepsInVain, HoldsOverall, HoldsOrdering, Inside, Refers,
         MustWait, FindMissing
<1>6. FilesWithinLimit'
  BY LimitFrame DEF TypeOK, FindMissing
<1>7. QED
  BY <1>1, <1>2, <1>3, <1>4, <1>5, <1>6

\* The new file fits: there was room for it.
LEMMA CreateKeepsIInv ==
  ASSUME IInv, NEW t \in Threads, Create(t)
  PROVE  IInv'
<1> USE DEF IInv
<1>1. TypeOK'
  BY DEF TypeOK, Labels, LocalsFit, Create
<1>2. LocalsFit'
  BY DEF TypeOK, MutexesHeld, LocalsFit, HoldsOverall, Create
<1>3. MutexesHeld'
  BY DEF TypeOK, LocalsFit, MutexesHeld, HoldsOverall, HoldsOrdering,
         HoldsMutex, Create
<1>4. CountersExact' /\ WritersAreAlone'
  BY CountersFrame DEF TypeOK, LocalsFit, WritersAreAlone, Inside, Create
<1>5. GateShut' /\ RemoverIsAlone'
  BY DEF TypeOK, LocalsFit, MutexesHeld, GateShut, RemoverIsAlone,
         HoldsOverall, HoldsOrdering, HoldsMutex, Inside, Refers, Create
<1>6. NoUseAfterFree' /\ NobodySleepsInVain'
  BY DEF TypeOK, LocalsFit, MutexesHeld, NoUseAfterFree,
         NobodySleepsInVain, HoldsOverall, HoldsOrdering, Inside, Refers,
         MustWait, Create
<1>7. FilesWithinLimit'
  <2>1. IsFiniteSet(filesDict) /\ file[t] \notin filesDict
    BY FS_Subset DEF TypeOK, LocalsFit, Create
  <2>2. Cardinality(filesDict') = Cardinality(filesDict) + 1
    BY <2>1, FS_AddElement DEF Create
  <2>3. Cardinality(filesDict) \in Nat /\ Cardinality(filesDict) < MaxFiles
    BY <2>1, FS_CardinalityType DEF FilesWithinLimit, Create
  <2>4. QED
    BY <2>2, <2>3 DEF FilesWithinLimit
<1>8. QED
  BY <1>1, <1>2, <1>3, <1>4, <1>5, <1>6, <1>7

\* A sweep starts from the files of the dictionary.
LEMMA StartSweepKeepsIInv ==
  ASSUME IInv, NEW t \in Threads, StartSweep(t)
  PROVE  IInv'
<1> USE DEF IInv
<1>1. TypeOK' /\ LocalsFit'
  BY DEF TypeOK, Labels, MutexesHeld, LocalsFit, HoldsOverall, StartSweep
<1>2. MutexesHeld'
  BY DEF TypeOK, LocalsFit, MutexesHeld, HoldsOverall, HoldsOrdering,
         HoldsMutex, StartSweep
<1>3. CountersExact' /\ WritersAreAlone'
  BY CountersFrame DEF TypeOK, LocalsFit, WritersAreAlone, Inside, StartSweep
<1>4. GateShut' /\ RemoverIsAlone'
  BY DEF TypeOK, LocalsFit, MutexesHeld, GateShut, RemoverIsAlone,
         HoldsOverall, HoldsOrdering, HoldsMutex, Inside, Refers, StartSweep
<1>5. NoUseAfterFree' /\ NobodySleepsInVain'
  BY DEF TypeOK, LocalsFit, MutexesHeld, NoUseAfterFree,
         NobodySleepsInVain, HoldsOverall, HoldsOrdering, Inside, Refers,
         MustWait, StartSweep
<1>6. FilesWithinLimit'
  BY LimitFrame DEF TypeOK, StartSweep
<1>7. QED
  BY <1>1, <1>2, <1>3, <1>4, <1>5, <1>6

\* The next file of a sweep is still there: overallMutex was never released.
LEMMA VisitKeepsIInv ==
  ASSUME IInv, NEW t \in Threads, Visit(t)
  PROVE  IInv'
<1> USE DEF IInv
<1>1. TypeOK' /\ LocalsFit'
  BY DEF TypeOK, Labels, MutexesHeld, LocalsFit, HoldsOverall, Visit
<1>2. MutexesHeld'
  BY DEF TypeOK, LocalsFit, MutexesHeld, HoldsOverall, HoldsOrdering,
         HoldsMutex, Visit
<1>3. CountersExact' /\ WritersAreAlone'
  BY CountersFrame DEF TypeOK, LocalsFit, WritersAreAlone, Inside, Visit
<1>4. GateShut' /\ RemoverIsAlone'
  BY DEF TypeOK, LocalsFit, MutexesHeld, GateShut, RemoverIsAlone,
         HoldsOverall, HoldsOrdering, HoldsMutex, Inside, Refers, Visit
<1>5. NoUseAfterFree' /\ NobodySleepsInVain'
  BY DEF TypeOK, LocalsFit, MutexesHeld, NoUseAfterFree,
         NobodySleepsInVain, HoldsOverall, HoldsOrdering, Inside, Refers,
         MustWait, Visit
<1>6. FilesWithinLimit'
  BY LimitFrame DEF TypeOK, Visit
<1>7. QED
  BY <1>1, <1>2, <1>3, <1>4, <1>5, <1>6

\* The sweep forgets the files it did not visit.
LEMMA EndSweepKeepsIInv ==
  ASSUME IInv, NEW t \in Threads, EndSweep(t)
  PROVE  IInv'
<1> USE DEF IInv
<1>1. TypeOK' /\ LocalsFit'
  BY DEF TypeOK, Labels, MutexesHeld, LocalsFit, HoldsOverall, EndSweep
<1>2. MutexesHeld'
  BY DEF TypeOK, LocalsFit, MutexesHeld, HoldsOverall, HoldsOrdering,
         HoldsMutex, EndSweep
<1>3. CountersExact' /\ WritersAreAlone'
  BY CountersFrame DEF TypeOK, LocalsFit, WritersAreAlone, Inside, EndSweep
<1>4. GateShut' /\ RemoverIsAlone'
  BY DEF TypeOK, LocalsFit, MutexesHeld, GateShut, RemoverIsAlone,
         HoldsOverall, HoldsOrdering, HoldsMutex, Inside, Refers, EndSweep
<1>5. NoUseAfterFree' /\ NobodySleepsInVain'
  BY DEF TypeOK, LocalsFit, MutexesHeld, NoUseAfterFree,
         NobodySleepsInVain, HoldsOverall, HoldsOrdering, Inside, Refers,
         MustWait, EndSweep
<1>6. FilesWithinLimit'
  BY LimitFrame DEF TypeOK, EndSweep
<1>7. QED
  BY <1>1, <1>2, <1>3, <1>4, <1>5, <1>6

\* The victim is in the dictionary, and it is not the file being written.
LEMMA EvictKeepsIInv ==
  ASSUME IInv, NEW t \in Threads, Evict(t)
  PROVE  IInv'
<1> USE DEF IInv
<1>1. TypeOK' /\ LocalsFit'
  BY DEF TypeOK, Labels, MutexesHeld, LocalsFit, HoldsOverall, Evict
<1>2. MutexesHeld'
  BY DEF TypeOK, LocalsFit, MutexesHeld, HoldsOverall, HoldsOrdering,
         HoldsMutex, Evict
<1>3. CountersExact' /\ WritersAreAlone'
  BY CountersFrame DEF TypeOK, LocalsFit, WritersAreAlone, Inside, Evict
<1>4. GateShut' /\ RemoverIsAlone'
  BY DEF TypeOK, LocalsFit, MutexesHeld, GateShut, RemoverIsAlone,
         HoldsOverall, HoldsOrdering, HoldsMutex, Inside, Refers, Evict
<1>5. NoUseAfterFree' /\ NobodySleepsInVain'
  BY DEF TypeOK, LocalsFit, MutexesHeld, NoUseAfterFree,
         NobodySleepsInVain, HoldsOverall, HoldsOrdering, Inside, Refers,
         MustWait, Evict
<1>6. FilesWithinLimit'
  BY LimitFrame DEF TypeOK, Evict
<1>7. QED
  BY <1>1, <1>2, <1>3, <1>4, <1>5, <1>6

\* The operation ends under overallMutex, with no file in its hands.
LEMMA ReleaseKeepsIInv ==
  ASSUME IInv, NEW t \in Threads, Release(t)
  PROVE  IInv'
<1> USE DEF IInv
<1>1. TypeOK' /\ LocalsFit'
  BY DEF TypeOK, Labels, MutexesHeld, LocalsFit, HoldsOverall, Release, Forget
<1>2. MutexesHeld'
  BY DEF TypeOK, LocalsFit, MutexesHeld, HoldsOverall, HoldsOrdering,
         HoldsMutex, Release, Forget
<1>3. CountersExact' /\ WritersAreAlone'
  BY CountersFrame DEF TypeOK, LocalsFit, WritersAreAlone, Inside, Release, Forget
<1>4. GateShut' /\ RemoverIsAlone'
  BY DEF TypeOK, LocalsFit, MutexesHeld, GateShut, RemoverIsAlone,
         HoldsOverall, HoldsOrdering, HoldsMutex, Inside, Refers, Release, Forget
<1>5. NoUseAfterFree' /\ NobodySleepsInVain'
  BY DEF TypeOK, LocalsFit, MutexesHeld, NoUseAfterFree,
         NobodySleepsInVain, HoldsOverall, HoldsOrdering, Inside, Refers,
         MustWait, Release, Forget
<1>6. FilesWithinLimit'
  BY LimitFrame DEF TypeOK, Release, Forget
<1>7. QED
  BY <1>1, <1>2, <1>3, <1>4, <1>5, <1>6

\* Whoever takes a gate keeps overallMutex, so nobody who keeps it too is inside.
LEMMA LockOrderingKeepsIInv ==
  ASSUME IInv, NEW t \in Threads, LockOrdering(t)
  PROVE  IInv'
<1> USE DEF IInv
<1>1. TypeOK' /\ LocalsFit'
  BY DEF TypeOK, Labels, MutexesHeld, LocalsFit, HoldsOverall, LockOrdering
<1>2. MutexesHeld'
  BY DEF TypeOK, LocalsFit, MutexesHeld, HoldsOverall, HoldsOrdering,
         HoldsMutex, LockOrdering
<1>3. CountersExact' /\ WritersAreAlone'
  BY CountersFrame DEF TypeOK, LocalsFit, WritersAreAlone, Inside, LockOrdering
<1>4. GateShut' /\ RemoverIsAlone'
  BY DEF TypeOK, LocalsFit, MutexesHeld, GateShut, RemoverIsAlone,
         HoldsOverall, HoldsOrdering, HoldsMutex, Inside, Refers, LockOrdering
<1>5. NoUseAfterFree' /\ NobodySleepsInVain'
  BY DEF TypeOK, LocalsFit, MutexesHeld, NoUseAfterFree,
         NobodySleepsInVain, HoldsOverall, HoldsOrdering, Inside, Refers,
         MustWait, LockOrdering
<1>6. FilesWithinLimit'
  BY LimitFrame DEF TypeOK, LockOrdering
<1>7. QED
  BY <1>1, <1>2, <1>3, <1>4, <1>5, <1>6

\* The mutex is taken when it is free, so it has one holder.
LEMMA LockMutexKeepsIInv ==
  ASSUME IInv, NEW t \in Threads, LockMutex(t)
  PROVE  IInv'
<1> USE DEF IInv
<1>1. TypeOK' /\ LocalsFit'
  BY DEF TypeOK, Labels, MutexesHeld, LocalsFit, HoldsOverall, LockMutex
<1>2. MutexesHeld'
  BY DEF TypeOK, LocalsFit, MutexesHeld, HoldsOverall, HoldsOrdering,
         HoldsMutex, LockMutex
<1>3. CountersExact' /\ WritersAreAlone'
  BY CountersFrame DEF TypeOK, LocalsFit, WritersAreAlone, Inside, LockMutex
<1>4. GateShut' /\ RemoverIsAlone'
  BY DEF TypeOK, LocalsFit, MutexesHeld, GateShut, RemoverIsAlone,
         HoldsOverall, HoldsOrdering, HoldsMutex, Inside, Refers, LockMutex
<1>5. NoUseAfterFree' /\ NobodySleepsInVain'
  BY DEF TypeOK, LocalsFit, MutexesHeld, NoUseAfterFree,
         NobodySleepsInVain, HoldsOverall, HoldsOrdering, Inside, Refers,
         MustWait, LockMutex
<1>6. FilesWithinLimit'
  BY LimitFrame DEF TypeOK, LockMutex
<1>7. QED
  BY <1>1, <1>2, <1>3, <1>4, <1>5, <1>6

\* overallMutex goes back while the gate stays shut behind the thread.
LEMMA HandOverallBackKeepsIInv ==
  ASSUME IInv, NEW t \in Threads, HandOverallBack(t)
  PROVE  IInv'
<1> USE DEF IInv
<1>1. TypeOK' /\ LocalsFit'
  BY DEF TypeOK, Labels, MutexesHeld, LocalsFit, HoldsOverall, HandOverallBack
<1>2. MutexesHeld'
  BY DEF TypeOK, LocalsFit, MutexesHeld, HoldsOverall, HoldsOrdering,
         HoldsMutex, HandOverallBack
<1>3. CountersExact' /\ WritersAreAlone'
  BY CountersFrame DEF TypeOK, LocalsFit, WritersAreAlone, Inside, HandOverallBack
<1>4. GateShut' /\ RemoverIsAlone'
  BY DEF TypeOK, LocalsFit, MutexesHeld, GateShut, RemoverIsAlone,
         HoldsOverall, HoldsOrdering, HoldsMutex, Inside, Refers, HandOverallBack
<1>5. NoUseAfterFree' /\ NobodySleepsInVain'
  BY DEF TypeOK, LocalsFit, MutexesHeld, NoUseAfterFree,
         NobodySleepsInVain, HoldsOverall, HoldsOrdering, Inside, Refers,
         MustWait, HandOverallBack
<1>6. FilesWithinLimit'
  BY LimitFrame DEF TypeOK, HandOverallBack
<1>7. QED
  BY <1>1, <1>2, <1>3, <1>4, <1>5, <1>6

\* The thread at the gate is the only one that can fall asleep on the file.
LEMMA SleepKeepsIInv ==
  ASSUME IInv, NEW t \in Threads, Sleep(t)
  PROVE  IInv'
<1> USE DEF IInv
<1>1. TypeOK' /\ LocalsFit'
  BY DEF TypeOK, Labels, MutexesHeld, LocalsFit, HoldsOverall, Sleep
<1>2. MutexesHeld'
  BY DEF TypeOK, LocalsFit, MutexesHeld, HoldsOverall, HoldsOrdering,
         HoldsMutex, Sleep
<1>3. CountersExact' /\ WritersAreAlone'
  BY CountersFrame DEF TypeOK, LocalsFit, WritersAreAlone, Inside, Sleep
<1>4. GateShut' /\ RemoverIsAlone'
  BY DEF TypeOK, LocalsFit, MutexesHeld, GateShut, RemoverIsAlone,
         HoldsOverall, HoldsOrdering, HoldsMutex, Inside, Refers, Sleep
<1>5. NoUseAfterFree' /\ NobodySleepsInVain'
  BY DEF TypeOK, LocalsFit, MutexesHeld, NoUseAfterFree,
         NobodySleepsInVain, HoldsOverall, HoldsOrdering, Inside, Refers,
         MustWait, Sleep
<1>6. FilesWithinLimit'
  BY LimitFrame DEF TypeOK, Sleep
<1>7. QED
  BY <1>1, <1>2, <1>3, <1>4, <1>5, <1>6

\* The woken thread tests its condition again.
LEMMA AwakeKeepsIInv ==
  ASSUME IInv, NEW t \in Threads, Awake(t)
  PROVE  IInv'
<1> USE DEF IInv
<1>1. TypeOK' /\ LocalsFit'
  BY DEF TypeOK, Labels, MutexesHeld, LocalsFit, HoldsOverall, Awake
<1>2. MutexesHeld'
  BY DEF TypeOK, LocalsFit, MutexesHeld, HoldsOverall, HoldsOrdering,
         HoldsMutex, Awake
<1>3. CountersExact' /\ WritersAreAlone'
  BY CountersFrame DEF TypeOK, LocalsFit, WritersAreAlone, Inside, Awake
<1>4. GateShut' /\ RemoverIsAlone'
  BY DEF TypeOK, LocalsFit, MutexesHeld, GateShut, RemoverIsAlone,
         HoldsOverall, HoldsOrdering, HoldsMutex, Inside, Refers, Awake
<1>5. NoUseAfterFree' /\ NobodySleepsInVain'
  BY DEF TypeOK, LocalsFit, MutexesHeld, NoUseAfterFree,
         NobodySleepsInVain, HoldsOverall, HoldsOrdering, Inside, Refers,
         MustWait, Awake
<1>6. FilesWithinLimit'
  BY LimitFrame DEF TypeOK, Awake
<1>7. QED
  BY <1>1, <1>2, <1>3, <1>4, <1>5, <1>6

\* A thread woken for nothing is no longer counted as asleep.
LEMMA SpuriousWakeupKeepsIInv ==
  ASSUME IInv, NEW t \in Threads, SpuriousWakeup(t)
  PROVE  IInv'
<1> USE DEF IInv
<1>1. TypeOK' /\ LocalsFit'
  BY DEF TypeOK, Labels, MutexesHeld, LocalsFit, HoldsOverall, SpuriousWakeup
<1>2. MutexesHeld'
  BY DEF TypeOK, LocalsFit, MutexesHeld, HoldsOverall, HoldsOrdering,
         HoldsMutex, SpuriousWakeup
<1>3. CountersExact' /\ WritersAreAlone'
  BY CountersFrame DEF TypeOK, LocalsFit, WritersAreAlone, Inside, SpuriousWakeup
<1>4. GateShut' /\ RemoverIsAlone'
  BY DEF TypeOK, LocalsFit, MutexesHeld, GateShut, RemoverIsAlone,
         HoldsOverall, HoldsOrdering, HoldsMutex, Inside, Refers, SpuriousWakeup
<1>5. NoUseAfterFree' /\ NobodySleepsInVain'
  BY DEF TypeOK, LocalsFit, MutexesHeld, NoUseAfterFree,
         NobodySleepsInVain, HoldsOverall, HoldsOrdering, Inside, Refers,
         MustWait, SpuriousWakeup
<1>6. FilesWithinLimit'
  BY LimitFrame DEF TypeOK, SpuriousWakeup
<1>7. QED
  BY <1>1, <1>2, <1>3, <1>4, <1>5, <1>6

\* The thread enters a file where it found nobody it must wait for.
LEMMA EnterKeepsIInv ==
  ASSUME IInv, NEW t \in Threads, Enter(t)
  PROVE  IInv'
<1> USE DEF IInv
<1>1. TypeOK'
  <2>1. file[t] \in Files
    BY DEF LocalsFit, Enter
  <2>2. activeReaders' \in [Files -> Nat] /\ activeWriters' \in [Files -> Nat]
    BY <2>1 DEF TypeOK, Enter
  <2>3. QED
    BY <2>2 DEF TypeOK, Labels, Enter
<1>2. LocalsFit'
  BY DEF TypeOK, MutexesHeld, LocalsFit, HoldsOverall, Enter
<1>3. MutexesHeld'
  BY DEF TypeOK, LocalsFit, MutexesHeld, HoldsOverall, HoldsOrdering,
         HoldsMutex, Enter
<1>4. CountersExact'
  <2> SUFFICES ASSUME NEW f \in Files
               PROVE  /\ activeReaders'[f] = Cardinality(ReadersOf(f)')
                      /\ activeWriters'[f] = Cardinality(Counted(f)')
    BY DEF CountersExact, Counted
  <2>1. /\ activeReaders[f] = Cardinality(ReadersOf(f))
        /\ activeWriters[f] = Cardinality(Counted(f))
    BY DEF CountersExact, Counted
  <2>2. CASE f # file[t]
    <3>1. ReadersOf(f)' = ReadersOf(f) /\ Counted(f)' = Counted(f)
      BY <2>2 DEF ReadersOf, Counted, WritersOf, Inside, TypeOK, Enter
    <3>2. activeReaders'[f] = activeReaders[f] /\ activeWriters'[f] = activeWriters[f]
      BY <2>2 DEF TypeOK, Enter
    <3>3. QED
      BY <2>1, <3>1, <3>2
  <2>3. CASE f = file[t] /\ op[t] \in ReadOps
    <3>1. /\ ReadersOf(f)' = ReadersOf(f) \cup {t} /\ t \notin ReadersOf(f)
          /\ Counted(f)' = Counted(f)
      BY <2>3 DEF ReadersOf, Counted, WritersOf, Inside, TypeOK, Enter
    <3>2. /\ activeReaders'[f] = activeReaders[f] + 1
          /\ activeWriters'[f] = activeWriters[f]
      BY <2>3 DEF TypeOK, WriteOps, Enter
    <3>3. QED
      BY <2>1, <3>1, <3>2, CountIn, ReadersAndCounted
  <2>4. CASE f = file[t] /\ op[t] \in WriteOps
    <3>1. /\ Counted(f)' = Counted(f) \cup {t} /\ t \notin Counted(f)
          /\ ReadersOf(f)' = ReadersOf(f)
      BY <2>4 DEF ReadersOf, Counted, WritersOf, Inside, TypeOK, Enter
    <3>2. /\ activeWriters'[f] = activeWriters[f] + 1
          /\ activeReaders'[f] = activeReaders[f]
      BY <2>4 DEF TypeOK, Enter
    <3>3. QED
      BY <2>1, <3>1, <3>2, CountIn, ReadersAndCounted
  <2>5. CASE f = file[t] /\ op[t] = "remove"
    <3>1. ReadersOf(f)' = ReadersOf(f) /\ Counted(f)' = Counted(f)
      BY <2>5 DEF ReadersOf, Counted, WritersOf, Inside, TypeOK, Enter
    <3>2. activeReaders'[f] = activeReaders[f] /\ activeWriters'[f] = activeWriters[f]
      BY <2>5 DEF TypeOK, Enter
    <3>3. QED
      BY <2>1, <3>1, <3>2
  <2>6. op[t] \in ReadOps \cup WriteOps \cup {"remove"}
    BY DEF LocalsFit, Enter
  <2>7. QED
    BY <2>2, <2>3, <2>4, <2>5, <2>6
<1>5. WritersAreAlone'
  <2> SUFFICES ASSUME NEW u \in Threads, u # t, Inside(u, file[t])
               PROVE  op[t] \in ReadOps /\ op[u] \in ReadOps
    BY DEF WritersAreAlone, Inside, TypeOK, Enter
  <2>1. file[t] \in Files /\ HoldsOrdering(t, file[t]) /\ Refers(t, file[t])
    BY DEF HoldsOrdering, Refers, LocalsFit, Enter
  <2>2. op[u] # "remove"
    BY <2>1 DEF RemoverIsAlone
  <2>3. activeWriters[file[t]] = 0 /\ (op[t] \notin ReadOps => activeReaders[file[t]] = 0)
    BY <2>1 DEF MustWait, TypeOK, Enter
  <2>4. op[u] \in ReadOps
    BY <2>1, <2>2, <2>3, CountersTell
  <2>5. QED
    BY <2>1, <2>3, <2>4, CountersTell
<1>6. GateShut'
  BY DEF TypeOK, LocalsFit, MutexesHeld, GateShut, HoldsOverall,
         HoldsOrdering, Inside, Enter
<1>7. RemoverIsAlone'
  <2> SUFFICES ASSUME NEW r \in Threads, NEW u \in Threads, NEW f \in Files,
                      r # u, Inside(r, f)', op'[r] = "remove", Refers(u, f)'
               PROVE  FALSE
    BY DEF RemoverIsAlone
  <2>1. op' = op /\ file' = file /\ victim' = victim
    BY DEF Enter
  <2>2. Refers(u, f)
    BY <2>1 DEF Refers, Inside, TypeOK, Enter
  <2>3. CASE r = t
    <3>1. f = file[t] /\ HoldsOverall(t) /\ HoldsOrdering(t, f) /\ HoldsMutex(t, f)
      BY <2>1, <2>3 DEF Inside, HoldsOverall, HoldsOrdering, HoldsMutex, LocalsFit, Enter
    <3>2. ~ HoldsOverall(u) /\ ~ HoldsOrdering(u, f) /\ ~ HoldsMutex(u, f)
      BY <2>3, <3>1 DEF MutexesHeld
    <3>3. Inside(u, f)
      BY <2>2, <3>2 DEF Refers, HoldsOverall, HoldsOrdering, HoldsMutex
    <3>4. activeReaders[f] = 0 /\ activeWriters[f] = 0
      BY <2>1, <2>3, <3>1 DEF MustWait, TypeOK, Enter
    <3>5. op[u] = "remove"
      BY <3>3, <3>4, CountersTell
    <3>6. HoldsOverall(u)
      BY <3>3, <3>5 DEF Inside, HoldsOverall, LocalsFit
    <3>7. QED
      BY <3>2, <3>6
  <2>4. CASE r # t
    <3>1. Inside(r, f) /\ op[r] = "remove"
      BY <2>1, <2>4 DEF Inside, TypeOK, Enter
    <3>2. QED
      BY <2>2, <3>1 DEF RemoverIsAlone
  <2>5. QED
    BY <2>3, <2>4
<1>8. NoUseAfterFree' /\ NobodySleepsInVain'
  BY DEF TypeOK, LocalsFit, MutexesHeld, NoUseAfterFree,
         NobodySleepsInVain, HoldsOverall, HoldsOrdering, Inside, Refers,
         MustWait, Enter
<1>9. FilesWithinLimit'
  BY LimitFrame DEF TypeOK, Enter
<1>10. QED
  BY <1>1, <1>2, <1>3, <1>4, <1>5, <1>6, <1>7, <1>8, <1>9

\* The gate opens for the next thread.
LEMMA UnlockOrderingKeepsIInv ==
  ASSUME IInv, NEW t \in Threads, UnlockOrdering(t)
  PROVE  IInv'
<1> USE DEF IInv
<1>1. TypeOK' /\ LocalsFit'
  BY DEF TypeOK, Labels, MutexesHeld, LocalsFit, HoldsOverall, UnlockOrdering
<1>2. MutexesHeld'
  BY DEF TypeOK, LocalsFit, MutexesHeld, HoldsOverall, HoldsOrdering,
         HoldsMutex, UnlockOrdering
<1>3. CountersExact' /\ WritersAreAlone'
  BY CountersFrame DEF TypeOK, LocalsFit, WritersAreAlone, Inside, UnlockOrdering
<1>4. GateShut' /\ RemoverIsAlone'
  BY DEF TypeOK, LocalsFit, MutexesHeld, GateShut, RemoverIsAlone,
         HoldsOverall, HoldsOrdering, HoldsMutex, Inside, Refers, UnlockOrdering
<1>5. NoUseAfterFree' /\ NobodySleepsInVain'
  BY DEF TypeOK, LocalsFit, MutexesHeld, NoUseAfterFree,
         NobodySleepsInVain, HoldsOverall, HoldsOrdering, Inside, Refers,
         MustWait, UnlockOrdering
<1>6. FilesWithinLimit'
  BY LimitFrame DEF TypeOK, UnlockOrdering
<1>7. QED
  BY <1>1, <1>2, <1>3, <1>4, <1>5, <1>6

\* The mutex is free while the thread works on the contents.
LEMMA UnlockMutexKeepsIInv ==
  ASSUME IInv, NEW t \in Threads, UnlockMutex(t)
  PROVE  IInv'
<1> USE DEF IInv
<1>1. TypeOK' /\ LocalsFit'
  BY DEF TypeOK, Labels, MutexesHeld, LocalsFit, HoldsOverall, UnlockMutex
<1>2. MutexesHeld'
  BY DEF TypeOK, LocalsFit, MutexesHeld, HoldsOverall, HoldsOrdering,
         HoldsMutex, UnlockMutex
<1>3. CountersExact' /\ WritersAreAlone'
  BY CountersFrame DEF TypeOK, LocalsFit, WritersAreAlone, Inside, UnlockMutex
<1>4. GateShut' /\ RemoverIsAlone'
  BY DEF TypeOK, LocalsFit, MutexesHeld, GateShut, RemoverIsAlone,
         HoldsOverall, HoldsOrdering, HoldsMutex, Inside, Refers, UnlockMutex
<1>5. NoUseAfterFree' /\ NobodySleepsInVain'
  BY DEF TypeOK, LocalsFit, MutexesHeld, NoUseAfterFree,
         NobodySleepsInVain, HoldsOverall, HoldsOrdering, Inside, Refers,
         MustWait, UnlockMutex
<1>6. FilesWithinLimit'
  BY LimitFrame DEF TypeOK, UnlockMutex
<1>7. QED
  BY <1>1, <1>2, <1>3, <1>4, <1>5, <1>6

\* Nobody refers to the victim: its counters are zero and its locks are ours.
LEMMA FreeVictimKeepsIInv ==
  ASSUME IInv, NEW t \in Threads, FreeVictim(t)
  PROVE  IInv'
<1> USE DEF IInv
<1>1. TypeOK'
  BY DEF TypeOK, Labels, FreeVictim
<1>2. LocalsFit'
  <2>1. HoldsOverall(t) /\ victim[t] # file[t] /\ op[t] \in {"open", "append"}
    BY DEF LocalsFit, HoldsOverall, FreeVictim
  <2>2. \A u \in Threads : todo[u] = {}
    BY <2>1, OneSweep DEF LocalsFit
  <2>3. QED
    BY <2>1, <2>2 DEF TypeOK, LocalsFit, FreeVictim
<1>3. MutexesHeld'
  BY DEF TypeOK, LocalsFit, MutexesHeld, HoldsOverall, HoldsOrdering,
         HoldsMutex, FreeVictim
<1>4. CountersExact' /\ WritersAreAlone'
  BY CountersFrame DEF TypeOK, LocalsFit, WritersAreAlone, Inside, FreeVictim
<1>5. GateShut' /\ RemoverIsAlone'
  BY DEF TypeOK, LocalsFit, MutexesHeld, GateShut, RemoverIsAlone,
         HoldsOverall, HoldsOrdering, HoldsMutex, Inside, Refers, FreeVictim
<1>6. NoUseAfterFree'
  <2> SUFFICES ASSUME NEW u \in Threads, NEW f \in Files, Refers(u, f)'
               PROVE  f \in filesDict'
    BY DEF NoUseAfterFree
  <2>1. /\ victim[t] \in Files /\ victim[t] # file[t] /\ op[t] \in {"open", "append"}
        /\ HoldsOverall(t) /\ HoldsOrdering(t, victim[t]) /\ HoldsMutex(t, victim[t])
    BY DEF TypeOK, LocalsFit, HoldsOverall, HoldsOrdering, HoldsMutex, FreeVictim
  <2>2. CASE u = t
    <3>1. f = file[t] /\ Inside(t, f)
      BY <2>1, <2>2 DEF Refers, Inside, TypeOK, FreeVictim
    <3>2. QED
      BY <2>1, <3>1 DEF NoUseAfterFree, Refers, FreeVictim
  <2>3. CASE u # t
    <3>1. Refers(u, f)
      BY <2>3 DEF Refers, Inside, TypeOK, FreeVictim
    <3>2. SUFFICES ASSUME f = victim[t] PROVE FALSE
      BY <3>1 DEF NoUseAfterFree, FreeVictim
    <3>3. ~ HoldsOverall(u) /\ ~ HoldsOrdering(u, f) /\ ~ HoldsMutex(u, f)
      BY <2>1, <2>3, <3>2 DEF MutexesHeld
    <3>4. Inside(u, f)
      BY <3>1, <3>3 DEF Refers, HoldsOverall, HoldsOrdering, HoldsMutex
    <3>5. activeReaders[f] = 0 /\ activeWriters[f] = 0
      BY <2>1, <3>2 DEF MustWait, TypeOK, FreeVictim
    <3>6. op[u] = "remove"
      BY <3>4, <3>5, CountersTell
    <3>7. QED
      BY <3>3, <3>4, <3>6 DEF Inside, HoldsOverall, LocalsFit
  <2>4. QED
    BY <2>2, <2>3
<1>7. NobodySleepsInVain'
  BY DEF TypeOK, LocalsFit, MutexesHeld, NobodySleepsInVain,
         HoldsOverall, HoldsOrdering, MustWait, FreeVictim
<1>8. FilesWithinLimit'
  BY LimitFrame DEF TypeOK, FreeVictim
<1>9. QED
  BY <1>1, <1>2, <1>3, <1>4, <1>5, <1>6, <1>7, <1>8

\* Nobody else refers to the file being removed.
LEMMA RemoveKeepsIInv ==
  ASSUME IInv, NEW t \in Threads, Remove(t)
  PROVE  IInv'
<1> USE DEF IInv
<1>1. TypeOK'
  BY DEF TypeOK, Labels, Remove
<1>2. LocalsFit'
  <2>1. HoldsOverall(t) /\ op[t] \notin Sweeps
    BY DEF HoldsOverall, Remove
  <2>2. \A u \in Threads : todo[u] = {}
    BY <2>1, OneSweep DEF LocalsFit
  <2>3. QED
    BY <2>1, <2>2 DEF TypeOK, LocalsFit, Remove
<1>3. MutexesHeld'
  BY DEF TypeOK, LocalsFit, MutexesHeld, HoldsOverall, HoldsOrdering,
         HoldsMutex, Remove
<1>4. CountersExact'
  <2> SUFFICES ASSUME NEW f \in Files
               PROVE  /\ activeReaders'[f] = Cardinality(ReadersOf(f)')
                      /\ activeWriters'[f] = Cardinality(Counted(f)')
    BY DEF CountersExact, Counted
  <2>1. ReadersOf(f)' = ReadersOf(f) /\ Counted(f)' = Counted(f)
    BY DEF ReadersOf, Counted, WritersOf, Inside, TypeOK, Remove
  <2>2. QED
    BY <2>1 DEF CountersExact, Counted, Remove
<1>5. WritersAreAlone'
  BY DEF TypeOK, LocalsFit, WritersAreAlone, Inside, Remove
<1>6. GateShut' /\ RemoverIsAlone'
  BY DEF TypeOK, LocalsFit, MutexesHeld, GateShut, RemoverIsAlone,
         HoldsOverall, HoldsOrdering, HoldsMutex, Inside, Refers, Remove
<1>7. NoUseAfterFree'
  <2> SUFFICES ASSUME NEW u \in Threads, NEW f \in Files, Refers(u, f)'
               PROVE  f \in filesDict'
    BY DEF NoUseAfterFree
  <2>1. u # t /\ Refers(u, f)
    BY DEF Refers, Inside, TypeOK, LocalsFit, Remove
  <2>2. f # file[t]
    BY <2>1 DEF RemoverIsAlone, Inside, Remove
  <2>3. QED
    BY <2>1, <2>2 DEF NoUseAfterFree, Remove
<1>8. NobodySleepsInVain'
  BY DEF TypeOK, LocalsFit, MutexesHeld, NobodySleepsInVain,
         HoldsOverall, HoldsOrdering, MustWait, Remove
<1>9. FilesWithinLimit'
  BY LimitFrame DEF TypeOK, Remove
<1>10. QED
  BY <1>1, <1>2, <1>3, <1>4, <1>5, <1>6, <1>7, <1>8, <1>9

\* Only append gives overallMutex back here.
LEMMA EndWorkKeepsIInv ==
  ASSUME IInv, NEW t \in Threads, EndWork(t)
  PROVE  IInv'
<1> USE DEF IInv
<1>1. TypeOK' /\ LocalsFit'
  BY DEF TypeOK, Labels, MutexesHeld, LocalsFit, HoldsOverall, EndWork
<1>2. MutexesHeld'
  <2>1. \A u \in Threads : (overallMutex = u <=> HoldsOverall(u))'
    <3>1. CASE op[t] = "append"
      BY <3>1 DEF TypeOK, MutexesHeld, HoldsOverall, EndWork
    <3>2. CASE op[t] # "append"
      <4>1. op[t] \in HandOff \/ op[t] \in Sweeps
        BY <3>2 DEF LocalsFit, EndWork
      <4>2. HoldsOverall(t)' <=> HoldsOverall(t)
        BY <4>1 DEF TypeOK, HoldsOverall, EndWork
      <4>3. \A u \in Threads \ {t} : HoldsOverall(u)' <=> HoldsOverall(u)
        BY DEF TypeOK, HoldsOverall, EndWork
      <4>4. QED
        BY <3>2, <4>2, <4>3 DEF MutexesHeld, EndWork
    <3>3. QED
      BY <3>1, <3>2
  <2>2. QED
    BY <2>1 DEF TypeOK, MutexesHeld, HoldsOrdering, HoldsMutex, EndWork
<1>3. CountersExact' /\ WritersAreAlone'
  BY CountersFrame DEF TypeOK, LocalsFit, WritersAreAlone, Inside, EndWork
<1>4. GateShut' /\ RemoverIsAlone'
  BY DEF TypeOK, LocalsFit, MutexesHeld, GateShut, RemoverIsAlone,
         HoldsOverall, HoldsOrdering, HoldsMutex, Inside, Refers, EndWork
<1>5. NoUseAfterFree' /\ NobodySleepsInVain'
  BY DEF TypeOK, LocalsFit, MutexesHeld, NoUseAfterFree,
         NobodySleepsInVain, HoldsOverall, HoldsOrdering, Inside, Refers,
         MustWait, EndWork
<1>6. FilesWithinLimit'
  BY LimitFrame DEF TypeOK, EndWork
<1>7. QED
  BY <1>1, <1>2, <1>3, <1>4, <1>5, <1>6

\* The mutex is taken again, to leave.
LEMMA RelockKeepsIInv ==
  ASSUME IInv, NEW t \in Threads, Relock(t)
  PROVE  IInv'
<1> USE DEF IInv
<1>1. TypeOK' /\ LocalsFit'
  BY DEF TypeOK, Labels, MutexesHeld, LocalsFit, HoldsOverall, Relock
<1>2. MutexesHeld'
  BY DEF TypeOK, LocalsFit, MutexesHeld, HoldsOverall, HoldsOrdering,
         HoldsMutex, Relock
<1>3. CountersExact' /\ WritersAreAlone'
  BY CountersFrame DEF TypeOK, LocalsFit, WritersAreAlone, Inside, Relock
<1>4. GateShut' /\ RemoverIsAlone'
  BY DEF TypeOK, LocalsFit, MutexesHeld, GateShut, RemoverIsAlone,
         HoldsOverall, HoldsOrdering, HoldsMutex, Inside, Refers, Relock
<1>5. NoUseAfterFree' /\ NobodySleepsInVain'
  BY DEF TypeOK, LocalsFit, MutexesHeld, NoUseAfterFree,
         NobodySleepsInVain, HoldsOverall, HoldsOrdering, Inside, Refers,
         MustWait, Relock
<1>6. FilesWithinLimit'
  BY LimitFrame DEF TypeOK, Relock
<1>7. QED
  BY <1>1, <1>2, <1>3, <1>4, <1>5, <1>6

\* The counter drops, and the one thread asleep is woken if its turn has come.
LEMMA LeaveKeepsIInv ==
  ASSUME IInv, NEW t \in Threads, Leave(t)
  PROVE  IInv'
<1> USE DEF IInv
<1>1. TypeOK'
  <2>1. file[t] \in Files /\ Inside(t, file[t])
    BY DEF LocalsFit, Inside, Leave, LeaveRead, LeaveWrite, Signal
  <2>2. /\ op[t] \in ReadOps => activeReaders[file[t]] # 0
        /\ op[t] \in WriteOps => activeWriters[file[t]] # 0
    BY <2>1, CountersTell
  <2>3. activeReaders' \in [Files -> Nat] /\ activeWriters' \in [Files -> Nat]
    BY <2>1, <2>2 DEF TypeOK, Leave, LeaveRead, LeaveWrite, Signal
  <2>4. go' \in [Files -> SUBSET Threads]
    BY DEF TypeOK, Leave, LeaveRead, LeaveWrite, Signal
  <2>5. QED
    BY <2>3, <2>4 DEF TypeOK, Labels, Leave, LeaveRead, LeaveWrite, Signal
<1>2. LocalsFit'
  BY DEF TypeOK, MutexesHeld, LocalsFit, HoldsOverall, Leave, LeaveRead, LeaveWrite, Signal
<1>3. MutexesHeld'
  BY DEF TypeOK, LocalsFit, MutexesHeld, HoldsOverall, HoldsOrdering,
         HoldsMutex, Leave, LeaveRead, LeaveWrite, Signal
<1>4. CountersExact'
  <2> SUFFICES ASSUME NEW f \in Files
               PROVE  /\ activeReaders'[f] = Cardinality(ReadersOf(f)')
                      /\ activeWriters'[f] = Cardinality(Counted(f)')
    BY DEF CountersExact, Counted
  <2>1. /\ activeReaders[f] = Cardinality(ReadersOf(f))
        /\ activeWriters[f] = Cardinality(Counted(f))
    BY DEF CountersExact, Counted
  <2>2. CASE f # file[t]
    <3>1. ReadersOf(f)' = ReadersOf(f) /\ Counted(f)' = Counted(f)
      BY <2>2 DEF ReadersOf, Counted, WritersOf, Inside, TypeOK, Leave, LeaveRead, LeaveWrite, Signal
    <3>2. activeReaders'[f] = activeReaders[f] /\ activeWriters'[f] = activeWriters[f]
      BY <2>2 DEF TypeOK, Leave, LeaveRead, LeaveWrite, Signal
    <3>3. QED
      BY <2>1, <3>1, <3>2
  <2>3. CASE f = file[t] /\ op[t] \in ReadOps
    <3>1. /\ ReadersOf(f)' = ReadersOf(f) \ {t} /\ t \in ReadersOf(f)
          /\ Counted(f)' = Counted(f)
      BY <2>3 DEF ReadersOf, Counted, WritersOf, Inside, TypeOK, LocalsFit, Leave, LeaveRead, LeaveWrite, Signal
    <3>2. /\ activeReaders'[f] = activeReaders[f] - 1
          /\ activeWriters'[f] = activeWriters[f]
      BY <2>3 DEF TypeOK, Leave, LeaveRead, LeaveWrite, Signal
    <3>3. QED
      BY <2>1, <3>1, <3>2, CountOut, ReadersAndCounted
  <2>4. CASE f = file[t] /\ op[t] \in WriteOps
    <3>1. /\ Counted(f)' = Counted(f) \ {t} /\ t \in Counted(f)
          /\ ReadersOf(f)' = ReadersOf(f)
      BY <2>4 DEF ReadersOf, Counted, WritersOf, Inside, TypeOK, LocalsFit, Leave, LeaveRead, LeaveWrite, Signal
    <3>2. /\ activeWriters'[f] = activeWriters[f] - 1
          /\ activeReaders'[f] = activeReaders[f]
      BY <2>4 DEF TypeOK, Leave, LeaveRead, LeaveWrite, Signal
    <3>3. QED
      BY <2>1, <3>1, <3>2, CountOut, ReadersAndCounted
  <2>5. op[t] \in ReadOps \cup WriteOps
    BY DEF Leave, LeaveRead, LeaveWrite, Signal
  <2>6. QED
    BY <2>2, <2>3, <2>4, <2>5
<1>5. WritersAreAlone'
  BY DEF TypeOK, LocalsFit, WritersAreAlone, Inside, Leave, LeaveRead, LeaveWrite, Signal
<1>6. GateShut' /\ RemoverIsAlone'
  BY DEF TypeOK, LocalsFit, MutexesHeld, GateShut, RemoverIsAlone,
         HoldsOverall, HoldsOrdering, HoldsMutex, Inside, Refers, Leave, LeaveRead, LeaveWrite, Signal
<1>7. NoUseAfterFree'
  BY DEF TypeOK, LocalsFit, MutexesHeld, NoUseAfterFree, HoldsOverall,
         Inside, Refers, Leave, LeaveRead, LeaveWrite, Signal
<1>8. NobodySleepsInVain'
  <2> SUFFICES ASSUME NEW u \in Threads, NEW f \in Files, u \in go'[f]
               PROVE  /\ go'[f] = {u} /\ pc'[u] = "asleep"
                      /\ Target(u)' = f /\ MustWait(u)'
    BY DEF NobodySleepsInVain
  <2>1. u \in go[f]
    BY DEF TypeOK, Leave, LeaveRead, LeaveWrite, Signal
  <2>2. go[f] = {u} /\ pc[u] = "asleep" /\ Target(u) = f /\ MustWait(u)
    BY <2>1 DEF NobodySleepsInVain
  <2>3. u # t /\ pc'[u] = "asleep" /\ Target(u)' = f
    BY <2>2 DEF TypeOK, Leave, LeaveRead, LeaveWrite, Signal
  <2>4. go'[f] = {u}
    BY <2>1, <2>2 DEF TypeOK, Leave, LeaveRead, LeaveWrite, Signal
  <2>5. CASE f # file[t]
    BY <2>2, <2>5 DEF MustWait, TypeOK, Leave, LeaveRead, LeaveWrite, Signal
  <2>6. CASE f = file[t]
    <3>1. Inside(t, f) /\ HoldsOrdering(u, f)
      BY <2>2, <2>6 DEF Inside, HoldsOrdering, Leave, LeaveRead, LeaveWrite, Signal
    <3>2. ~ Signal(f)
      BY <2>1, <2>2, <2>4 DEF TypeOK, Signal
    <3>3. op[t] \in ReadOps /\ activeReaders[f] # 1
      <4>1. op[t] # "evictClient"
        BY <2>3, <3>1 DEF GateShut, HoldsOverall, Leave
      <4>2. QED
        BY <2>6, <3>2, <4>1 DEF Leave, LeaveRead, LeaveWrite
    <3>4. activeWriters[f] = 0
      BY <3>1, <3>3, CountersTell DEF WritersAreAlone
    <3>5. activeReaders[f] > 0 /\ op[u] \notin ReadOps
      BY <2>2, <3>4 DEF MustWait
    <3>6. activeReaders'[f] > 0
      BY <2>6, <3>3, <3>5 DEF TypeOK, Leave, LeaveRead, LeaveWrite, Signal
    <3>7. QED
      BY <2>3, <2>4, <3>5, <3>6 DEF MustWait, Leave, LeaveRead, LeaveWrite, Signal
  <2>7. QED
    BY <2>5, <2>6
<1>9. FilesWithinLimit'
  BY LimitFrame DEF TypeOK, Leave, LeaveRead, LeaveWrite, Signal
<1>10. QED
  BY <1>1, <1>2, <1>3, <1>4, <1>5, <1>6, <1>7, <1>8, <1>9

\* The last lock is released; a sweep goes on to its next file.
LEMMA UnlockKeepsIInv ==
  ASSUME IInv, NEW t \in Threads, Unlock(t)
  PROVE  IInv'
<1> USE DEF IInv
<1>1. TypeOK'
  <2>1. pc' \in [Threads -> Labels] /\ op' \in [Threads -> Ops \cup {"none"}]
    BY DEF TypeOK, Labels, Unlock, Forget
  <2>2. QED
    BY <2>1 DEF TypeOK, Unlock, Forget
<1>2. LocalsFit'
  BY DEF TypeOK, MutexesHeld, LocalsFit, HoldsOverall, Unlock, Forget
<1>3. MutexesHeld'
  BY DEF TypeOK, LocalsFit, MutexesHeld, HoldsOverall, HoldsOrdering,
         HoldsMutex, Unlock, Forget
<1>4. CountersExact' /\ WritersAreAlone'
  BY CountersFrame DEF TypeOK, LocalsFit, WritersAreAlone, Inside, Unlock, Forget
<1>5. GateShut' /\ RemoverIsAlone'
  BY DEF TypeOK, LocalsFit, MutexesHeld, GateShut, RemoverIsAlone,
         HoldsOverall, HoldsOrdering, HoldsMutex, Inside, Refers, Unlock, Forget
<1>6. NoUseAfterFree' /\ NobodySleepsInVain'
  BY DEF TypeOK, LocalsFit, MutexesHeld, NoUseAfterFree,
         NobodySleepsInVain, HoldsOverall, HoldsOrdering, Inside, Refers,
         MustWait, Unlock, Forget
<1>7. FilesWithinLimit'
  BY LimitFrame DEF TypeOK, Unlock, Forget
<1>8. QED
  BY <1>1, <1>2, <1>3, <1>4, <1>5, <1>6, <1>7

-----------------------------------------------------------------------------

\* At the start nobody is inside, waiting, or holding anything.
LEMMA InitIInv == Init => IInv
<1> SUFFICES ASSUME Init PROVE IInv
  OBVIOUS
<1>1. \A t \in Threads, f \in Files : ~ Inside(t, f) /\ ~ Refers(t, f)
  BY DEF Init, Inside, Refers
<1>2. \A f \in Files : ReadersOf(f) = {} /\ Counted(f) = {}
  BY <1>1 DEF ReadersOf, WritersOf, Counted
<1>3. CountersExact /\ FilesWithinLimit
  BY <1>2, FS_EmptySet DEF Init, CountersExact, Counted, FilesWithinLimit
<1>4. TypeOK /\ MutexesHeld /\ LocalsFit
  BY DEF Init, TypeOK, Labels, MutexesHeld, HoldsOverall, HoldsOrdering,
         HoldsMutex, LocalsFit
<1>5. GateShut /\ RemoverIsAlone /\ WritersAreAlone /\ NoUseAfterFree
  BY <1>1 DEF GateShut, RemoverIsAlone, WritersAreAlone, NoUseAfterFree
<1>6. NobodySleepsInVain
  BY DEF Init, NobodySleepsInVain
<1>7. QED
  BY <1>3, <1>4, <1>5, <1>6 DEF IInv

\* The inductive step, action by action.
LEMMA NextIInv == IInv /\ [Next]_vars => IInv'
<1> SUFFICES ASSUME IInv, [Next]_vars PROVE IInv'
  OBVIOUS
<1>1. CASE NewCall
  BY <1>1, CallKeepsIInv DEF NewCall
<1>2. CASE \E t \in Threads : SpuriousWakeup(t)
  BY <1>2, SpuriousWakeupKeepsIInv
<1>3. ASSUME NEW t \in Threads, Step(t) PROVE IInv'
  BY <1>3, LockOverallKeepsIInv, RefuseKeepsIInv, FindKeepsIInv,
     FindMissingKeepsIInv, CreateKeepsIInv, StartSweepKeepsIInv,
     VisitKeepsIInv, EndSweepKeepsIInv, EvictKeepsIInv, ReleaseKeepsIInv,
     LockOrderingKeepsIInv, LockMutexKeepsIInv, HandOverallBackKeepsIInv,
     SleepKeepsIInv, AwakeKeepsIInv, EnterKeepsIInv, UnlockOrderingKeepsIInv,
     UnlockMutexKeepsIInv, FreeVictimKeepsIInv, RemoveKeepsIInv,
     EndWorkKeepsIInv, RelockKeepsIInv, LeaveKeepsIInv, UnlockKeepsIInv
     DEF Step
<1>4. CASE UNCHANGED vars
  <2>1. TypeOK' /\ MutexesHeld' /\ LocalsFit'
    BY <1>4 DEF IInv, TypeOK, MutexesHeld, LocalsFit, HoldsOverall,
                HoldsOrdering, HoldsMutex
  <2>2. GateShut' /\ RemoverIsAlone' /\ WritersAreAlone' /\ NoUseAfterFree'
    BY <1>4 DEF IInv, GateShut, RemoverIsAlone, WritersAreAlone,
                NoUseAfterFree, HoldsOverall, HoldsOrdering, Inside, Refers
  <2>3. NobodySleepsInVain'
    BY <1>4 DEF IInv, NobodySleepsInVain, MustWait
  <2>4. CountersExact'
    BY <1>4, CountersFrame DEF IInv, Inside
  <2>5. FilesWithinLimit'
    BY <1>4 DEF IInv, FilesWithinLimit
  <2>6. QED
    BY <2>1, <2>2, <2>3, <2>4, <2>5 DEF IInv
<1>5. QED
  BY <1>1, <1>2, <1>3, <1>4 DEF Next

\* IInv holds throughout.
THEOREM Invariance == Spec => []IInv
<1>1. QED
  BY InitIInv, NextIInv, PTL DEF Spec

\* The variables keep their types; no counter of readers or writers is ever
\* decremented below zero.
THEOREM TypeCorrectness == Spec => []TypeOK
<1>1. IInv => TypeOK
  BY DEF IInv
<1>2. QED
  BY <1>1, Invariance, PTL

\* Writers exclude everybody, whatever the number of threads and files.
THEOREM WriterExclusion == Spec => []WritersAreAlone
<1>1. IInv => WritersAreAlone
  BY DEF IInv
<1>2. QED
  BY <1>1, Invariance, PTL

\* Eviction and removal free a file only when nobody will touch it again.
THEOREM MemorySafety == Spec => []NoUseAfterFree
<1>1. IInv => NoUseAfterFree
  BY DEF IInv
<1>2. QED
  BY <1>1, Invariance, PTL

\* pthread_cond_signal is enough, pthread_cond_broadcast is not needed: there
\* is one sleeper at most, and what it waits for is still to come.
THEOREM NoLostWakeup == Spec => []NobodySleepsInVain
<1>1. IInv => NobodySleepsInVain
  BY DEF IInv
<1>2. QED
  BY <1>1, Invariance, PTL

\* The number of files never exceeds fs->maxNumOfFiles.
THEOREM FileLimit == Spec => []FilesWithinLimit
<1>1. IInv => FilesWithinLimit
  BY DEF IInv
<1>2. QED
  BY <1>1, Invariance, PTL

-----------------------------------------------------------------------------
(* The refinement.                                                         *)

\* A step in which no file comes or goes and nobody enters or leaves one is
\* invisible to FileAccess.
LEMMA AccessFrame ==
  ASSUME filesDict' = filesDict,
         \A t \in Threads, f \in Files :
           /\ Inside(t, f)' <=> Inside(t, f)
           /\ Inside(t, f) => op'[t] = op[t]
  PROVE  UNCHANGED Access!vars
<1>1. \A f \in Files : ReadersOf(f)' = ReadersOf(f) /\ WritersOf(f)' = WritersOf(f)
  BY DEF ReadersOf, WritersOf
<1>2. QED
  BY <1>1 DEF Access!vars

\* Create creates.
LEMMA CreateAccess ==
  ASSUME IInv, NEW t \in Threads, Create(t)
  PROVE  Access!Create(file[t]) /\ file[t] \in Files
<1>1. file[t] \in Files /\ file[t] \notin filesDict
  BY DEF IInv, LocalsFit, Create
<1>2. \A f \in Files : ReadersOf(f)' = ReadersOf(f) /\ WritersOf(f)' = WritersOf(f)
  BY DEF IInv, TypeOK, ReadersOf, WritersOf, Inside, Create
<1>3. QED
  BY <1>1, <1>2 DEF Access!Create, Create

\* Entering a file begins an access: a reader finds no writer, anybody else
\* finds nobody.
LEMMA EnterAccess ==
  ASSUME IInv, NEW t \in Threads, NEW g \in Files, g = file[t], Enter(t)
  PROVE  Access!BeginRead(t, g) \/ Access!BeginWrite(t, g)
<1>1. g \in filesDict
  BY DEF IInv, LocalsFit, NoUseAfterFree, Refers, Enter
<1>2. /\ op' = op /\ file' = file /\ filesDict' = filesDict
      /\ Inside(t, g)' /\ ~ Inside(t, g)
      /\ \A f \in Files : f # g => (Inside(t, f)' <=> Inside(t, f))
      /\ \A u \in Threads \ {t}, f \in Files : Inside(u, f)' <=> Inside(u, f)
  BY <1>1 DEF IInv, TypeOK, Inside, Enter
<1>3. \A u \in Threads \ {t} : Inside(u, g) => op[t] \in ReadOps /\ op[u] \in ReadOps
  BY <1>2, EnterKeepsIInv DEF IInv, WritersAreAlone
<1>4. CASE op[t] \in ReadOps
  <2>1. WritersOf(g) = {}
    BY <1>2, <1>3 DEF WritersOf
  <2>2. ReadersOf(g)' = ReadersOf(g) \cup {t}
    BY <1>2, <1>4 DEF ReadersOf
  <2>3. \A f \in Files : WritersOf(f)' = WritersOf(f) /\ (f # g => ReadersOf(f)' = ReadersOf(f))
    BY <1>2, <1>4 DEF WritersOf, ReadersOf
  <2>4. Access!BeginRead(t, g)
    BY <1>1, <1>2, <2>1, <2>2, <2>3 DEF Access!BeginRead
  <2>5. QED
    BY <1>1, <2>4
<1>5. CASE op[t] \notin ReadOps
  <2>1. ReadersOf(g) = {} /\ WritersOf(g) = {}
    BY <1>2, <1>3, <1>5 DEF WritersOf, ReadersOf
  <2>2. WritersOf(g)' = {t}
    BY <1>2, <1>5, <2>1 DEF WritersOf
  <2>3. \A f \in Files : ReadersOf(f)' = ReadersOf(f) /\ (f # g => WritersOf(f)' = WritersOf(f))
    BY <1>2, <1>5 DEF WritersOf, ReadersOf
  <2>4. Access!BeginWrite(t, g)
    BY <1>1, <1>2, <2>1, <2>2, <2>3 DEF Access!BeginWrite
  <2>5. QED
    BY <1>1, <2>4
<1>6. QED
  BY <1>4, <1>5

\* A thread that is no longer inside its file has ended its access.
LEMMA LeaveAccess ==
  ASSUME IInv, NEW t \in Threads, NEW g \in Files,
         filesDict' = filesDict, op'[t] = op[t], Inside(t, g), ~ Inside(t, g)',
         \A f \in Files : f # g => (Inside(t, f)' <=> Inside(t, f)),
         \A u \in Threads \ {t} :
           op'[u] = op[u] /\ \A f \in Files : Inside(u, f)' <=> Inside(u, f)
  PROVE  Access!EndRead(t, g) \/ Access!EndWrite(t, g)
<1>1. \A u \in Threads \ {t} : Inside(u, g) => op[t] \in ReadOps /\ op[u] \in ReadOps
  BY DEF IInv, WritersAreAlone
<1>2. CASE op[t] \in ReadOps
  <2>1. t \in ReadersOf(g) /\ ReadersOf(g)' = ReadersOf(g) \ {t}
    BY <1>2 DEF ReadersOf
  <2>2. \A f \in Files : WritersOf(f)' = WritersOf(f) /\ (f # g => ReadersOf(f)' = ReadersOf(f))
    BY <1>2 DEF WritersOf, ReadersOf
  <2>3. QED
    BY <2>1, <2>2 DEF Access!EndRead
<1>3. CASE op[t] \notin ReadOps
  <2>1. WritersOf(g) = {t} /\ WritersOf(g)' = {}
    BY <1>1, <1>3 DEF WritersOf
  <2>2. \A f \in Files : ReadersOf(f)' = ReadersOf(f) /\ (f # g => WritersOf(f)' = WritersOf(f))
    BY <1>3 DEF WritersOf, ReadersOf
  <2>3. QED
    BY <2>1, <2>2 DEF Access!EndWrite
<1>4. QED
  BY <1>2, <1>3

\* Freeing a victim destroys a file that nobody accesses.
LEMMA FreeVictimAccess ==
  ASSUME IInv, NEW t \in Threads, FreeVictim(t)
  PROVE  victim[t] \in Files /\ Access!Destroy(t, victim[t])
<1> DEFINE v == victim[t]
<1>1. /\ v \in Files /\ v \in filesDict /\ op[t] \in {"open", "append"}
      /\ HoldsOverall(t) /\ ~ MustWait(t)
  BY DEF IInv, TypeOK, LocalsFit, NoUseAfterFree, Refers, HoldsOverall, FreeVictim
<1>2. activeReaders[v] = 0 /\ activeWriters[v] = 0
  BY <1>1 DEF IInv, TypeOK, MustWait, FreeVictim
<1>3. ASSUME NEW u \in Threads PROVE ~ Inside(u, v)
  <2>1. Inside(u, v) => op[u] = "remove"
    BY <1>1, <1>2, CountersTell DEF IInv
  <2>2. Inside(u, v) /\ op[u] = "remove" => u # t /\ HoldsOverall(u)
    BY <1>1 DEF IInv, Inside, LocalsFit, HoldsOverall
  <2>3. QED
    BY <1>1, <2>1, <2>2 DEF IInv, MutexesHeld
<1>4. ReadersOf(v) = {} /\ WritersOf(v) = {}
  BY <1>3 DEF ReadersOf, WritersOf
<1>5. \A u \in Threads, f \in Files : Inside(u, f)' <=> Inside(u, f)
  BY DEF IInv, TypeOK, LocalsFit, Inside, FreeVictim
<1>6. \A f \in Files : ReadersOf(f)' = ReadersOf(f) /\ WritersOf(f)' = WritersOf(f)
  BY <1>5 DEF ReadersOf, WritersOf, FreeVictim
<1>7. QED
  BY <1>1, <1>4, <1>6 DEF Access!Destroy, FreeVictim

\* remove ends its access, or destroys the file it alone accesses.
LEMMA RemoveAccess ==
  ASSUME IInv, NEW t \in Threads, NEW g \in Files, g = file[t], Remove(t)
  PROVE  \/ Access!EndRead(t, g) \/ Access!EndWrite(t, g)
         \/ Access!Destroy(t, g)
<1>1. /\ g \in filesDict
      /\ op' = op /\ Inside(t, g) /\ ~ Inside(t, g)'
      /\ \A f \in Files : f # g => (Inside(t, f)' <=> Inside(t, f))
      /\ \A u \in Threads \ {t}, f \in Files : Inside(u, f)' <=> Inside(u, f)
  BY DEF IInv, TypeOK, LocalsFit, NoUseAfterFree, Refers, Inside, Remove
<1>2. CASE filesDict' = filesDict
  BY <1>1, <1>2, LeaveAccess
<1>3. CASE filesDict' = filesDict \ {g}
  <2>1. op[t] \notin ReadOps
    BY DEF Remove
  <2>2. \A u \in Threads \ {t} : ~ Inside(u, g)
    BY <1>1, <2>1 DEF IInv, WritersAreAlone
  <2>3. ReadersOf(g) = {} /\ WritersOf(g) = {t} /\ WritersOf(g)' = {}
    BY <1>1, <2>1, <2>2 DEF ReadersOf, WritersOf
  <2>4. \A f \in Files : ReadersOf(f)' = ReadersOf(f) /\ (f # g => WritersOf(f)' = WritersOf(f))
    BY <1>1, <2>1 DEF ReadersOf, WritersOf
  <2>5. Access!Destroy(t, g)
    BY <1>1, <1>3, <2>3, <2>4 DEF Access!Destroy
  <2>6. QED
    BY <1>1, <2>5
<1>4. QED
  BY <1>2, <1>3 DEF Remove

\* What each step of a thread is to FileAccess.
LEMMA StepAccess ==
  ASSUME IInv, NEW t \in Threads, Step(t)
  PROVE  [Access!Next]_(Access!vars)
<1>1. CASE Create(t)
  BY <1>1, CreateAccess DEF Access!Next
<1>2. CASE Enter(t)
  <2>1. file[t] \in Files
    BY <1>2 DEF IInv, LocalsFit, Enter
  <2>2. PICK g \in Files : g = file[t]
    BY <2>1
  <2>3. QED
    BY <1>2, <2>2, EnterAccess DEF Access!Next
<1>3. CASE FreeVictim(t)
  BY <1>3, FreeVictimAccess DEF Access!Next
<1>4. CASE Remove(t)
  <2>1. file[t] \in Files
    BY <1>4 DEF IInv, LocalsFit, Remove
  <2>2. PICK g \in Files : g = file[t]
    BY <2>1
  <2>3. QED
    BY <1>4, <2>2, RemoveAccess DEF Access!Next
<1>5. CASE Leave(t)
  <2>1. file[t] \in Files
    BY <1>5 DEF IInv, LocalsFit, Leave
  <2>2. PICK g \in Files : g = file[t]
    BY <2>1
  <2>3. /\ filesDict' = filesDict /\ op' = op
        /\ Inside(t, g) /\ ~ Inside(t, g)'
        /\ \A f \in Files : f # g => (Inside(t, f)' <=> Inside(t, f))
        /\ \A u \in Threads \ {t}, f \in Files : Inside(u, f)' <=> Inside(u, f)
    BY <1>5, <2>2 DEF IInv, TypeOK, LocalsFit, Inside, Leave
  <2>4. Access!EndRead(t, g) \/ Access!EndWrite(t, g)
    BY <2>3, LeaveAccess
  <2>5. QED
    BY <2>4 DEF Access!Next
<1>6. CASE Evict(t)
  BY <1>6, AccessFrame DEF IInv, TypeOK, LocalsFit, Inside, Evict
<1>7. CASE LockOverall(t) \/ Refuse(t) \/ Find(t) \/ FindMissing(t) \/ StartSweep(t)
  BY <1>7, AccessFrame DEF IInv, TypeOK, LocalsFit, Inside, LockOverall, Refuse,
     Find, FindMissing, StartSweep
<1>8. CASE Visit(t) \/ EndSweep(t) \/ Release(t) \/ Unlock(t)
  BY <1>8, AccessFrame DEF IInv, TypeOK, LocalsFit, Inside, Visit, EndSweep,
     Release, Unlock, Forget
<1>9. CASE LockOrdering(t) \/ LockMutex(t) \/ HandOverallBack(t) \/ Sleep(t) \/ Awake(t)
  BY <1>9, AccessFrame DEF IInv, TypeOK, LocalsFit, Inside, LockOrdering,
     LockMutex, HandOverallBack, Sleep, Awake
<1>10. CASE UnlockOrdering(t) \/ UnlockMutex(t) \/ EndWork(t) \/ Relock(t)
  BY <1>10, AccessFrame DEF IInv, TypeOK, LocalsFit, Inside, UnlockOrdering,
     UnlockMutex, EndWork, Relock
<1>11. QED
  BY <1>1, <1>2, <1>3, <1>4, <1>5, <1>6, <1>7, <1>8, <1>9, <1>10 DEF Step

\* Every step of the monitors is a step of FileAccess or invisible to it.
LEMMA NextAccess ==
  IInv /\ [Next]_vars => [Access!Next]_(Access!vars)
<1> SUFFICES ASSUME IInv, [Next]_vars PROVE [Access!Next]_(Access!vars)
  OBVIOUS
<1>1. CASE \E t \in Threads : Step(t)
  BY <1>1, StepAccess
<1>2. ASSUME NEW t \in Threads, NEW o \in Ops, NEW f \in Files, Call(t, o, f)
      PROVE  UNCHANGED Access!vars
  BY <1>2, AccessFrame DEF IInv, TypeOK, LocalsFit, Inside, Call
<1>3. ASSUME NEW t \in Threads, SpuriousWakeup(t)
      PROVE  UNCHANGED Access!vars
  BY <1>3, AccessFrame DEF Inside, SpuriousWakeup
<1>4. CASE UNCHANGED vars
  BY <1>4, AccessFrame DEF Inside
<1>5. QED
  BY <1>1, <1>2, <1>3, <1>4 DEF Next, NewCall

\* Both start with no file and nobody at work.
LEMMA InitAccess == Init => Access!Init
<1> SUFFICES ASSUME Init PROVE Access!Init
  OBVIOUS
<1>1. \A f \in Files : ReadersOf(f) = {} /\ WritersOf(f) = {}
  BY DEF Init, ReadersOf, WritersOf, Inside
<1>2. QED
  BY <1>1 DEF Init, Access!Init

\* The monitors implement the exclusive file accesses of FileAccess.
THEOREM Refinement == Spec => ImplementsFileAccess
<1>1. QED
  BY InitAccess, NextAccess, Invariance, PTL DEF Spec, ImplementsFileAccess, Access!Spec
=============================================================================
