------------------------- MODULE SimpleQueue_proofs -------------------------
(***************************************************************************)
(* Proofs about SimpleQueue, for any number of threads and elements and    *)
(* any set of operations: nobody uses a freed queue, nobody sleeps while   *)
(* there is something to take, and the queue is a Mailbox.                 *)
(***************************************************************************)
EXTENDS SimpleQueue, FiniteSetTheorems, SequenceTheorems, TLAPS

-----------------------------------------------------------------------------
(* The inductive invariant.                                                *)

\* The places in which a thread holds the lock of the dictionary, or of the
\* queue.
InDictionary == {"search", "lock", "found", "cancel", "destroy", "tellAgain"}
InQueue      == {"found", "insert", "signal", "test", "deleteHead", "unlock",
                 "cancel", "tellAgain"}

LocksHeld ==
  /\ \A t \in Threads : iqdl_lock = t <=> pc[t] \in InDictionary
  /\ \A t \in Threads : lock = t <=> pc[t] \in InQueue
  /\ \A t \in read_cond : pc[t] = "asleep"

\* Which operation a thread can be in at each place.
Takers == {"dequeue", "dequeueNow"}

OpsFit == \A t \in Threads :
  /\ pc[t] = "idle" <=> op[t] = "none"
  /\ pc[t] \in {"insert", "signal"} => op[t] = "enqueue"
  /\ pc[t] \in {"test", "deleteHead"} => op[t] \in Takers
  /\ pc[t] = "asleep" => op[t] = "dequeue"
  /\ pc[t] \in {"cancel", "destroy", "tellAgain"} => op[t] = "delete"
  /\ pc[t] \in {"found", "unlock"} => op[t] # "delete"

\* The threads that have an element in their hands: an enqueue that has still
\* to insert it, and a dequeue from the time it reads the head.
ElementsFit == \A t \in Threads :
  /\ op[t] = "enqueue" /\ pc[t] \in {"dictionary", "search", "lock", "found", "insert"}
       => element[t] \in Elements
  /\ element[t] # NoElement =>
       \/ op[t] = "enqueue"
       \/ op[t] \in Takers /\ pc[t] \in {"deleteHead", "unlock", "returned"}
  /\ pc[t] = "deleteHead" => queue # <<>> /\ element[t] = Head(queue)

\* The flag is down for everybody who found the queue and has not tested the
\* flag since, because the one who raises it holds both locks; and it is up
\* only while the queue is being deleted or gone.
FlagFits ==
  /\ \A t \in Threads :
       /\ pc[t] \in {"lock", "found", "cancel", "insert", "deleteHead"} => ~ to_be_canceled_soon
       /\ pc[t] \in {"destroy", "tellAgain"} => to_be_canceled_soon
  /\ to_be_canceled_soon =>
       /\ read_cond = {}
       /\ state = "freed" \/ \E t \in Threads : pc[t] \in {"destroy", "tellAgain"}

NoQueueYet == state = "none" => queue = <<>> /\ \A t \in Threads : pc[t] = "idle"
FreedIsCancelled == state = "freed" => to_be_canceled_soon

Shape == LocksHeld /\ OpsFit /\ ElementsFit /\ FlagFits /\ NoQueueYet /\ FreedIsCancelled

IInv == TypeOK /\ Shape /\ NoUseAfterFree /\ NobodySleepsInVain

-----------------------------------------------------------------------------

LEMMA InitInv == Init => IInv
<1> SUFFICES ASSUME Init PROVE IInv  OBVIOUS
<1>1. TypeOK
  <2>1. queue \in Seq(Elements)  BY DEF Init
  <2> QED  BY <2>1 DEF Init, TypeOK, Labels
<1>2. Shape /\ NoUseAfterFree
  BY QueueThreadsAssumption DEF QueueThreadsAssumption, Init, Shape, LocksHeld, OpsFit,
     ElementsFit, FlagFits, NoQueueYet, FreedIsCancelled, NoUseAfterFree, Uses,
     InDictionary, InQueue
<1>3. NobodySleepsInVain  BY DEF Init, NobodySleepsInVain
<1> QED  BY <1>1, <1>2, <1>3 DEF IInv

-----------------------------------------------------------------------------
(* Each step keeps types and shape.                                        *)

\* Whoever holds a lock is the only one in the places where it is held.
LEMMA OneInside ==
  ASSUME LocksHeld, NEW t \in Threads, NEW u \in Threads, t # u
  PROVE  /\ pc[t] \in InDictionary => pc[u] \notin InDictionary
         /\ pc[t] \in InQueue => pc[u] \notin InQueue
BY DEF LocksHeld

LEMMA TypeKept ==
  ASSUME TypeOK, Shape, Next
  PROVE  TypeOK'
<1> USE DEF TypeOK, Labels, Goto, dataVars, lockVars
<1>1. CASE Create  BY <1>1 DEF Create
<1>2. ASSUME NEW t \in Threads, NEW o \in Ops, Call(t, o) PROVE TypeOK'
  BY <1>2 DEF Call
<1>3. ASSUME NEW t \in Threads, SpuriousWakeup(t) PROVE TypeOK'
  BY <1>3 DEF SpuriousWakeup
<1>4. ASSUME NEW t \in Threads, Step(t) PROVE TypeOK'
  <2>1. CASE LockDictionary(t)  BY <2>1 DEF LockDictionary
  <2>2. CASE LockQueue(t)  BY <2>2 DEF LockQueue
  <2>3. CASE Awake(t)  BY <2>3 DEF Awake
  <2>4. CASE LockAgain(t)  BY <2>4 DEF LockAgain
  <2>5. CASE Find(t)  BY <2>5 DEF Find
  <2>6. CASE Refuse(t)  BY <2>6 DEF Refuse
  <2>7. CASE UnlockDictionary(t)  BY <2>7 DEF UnlockDictionary
  <2>8. CASE Unlock(t)  BY <2>8 DEF Unlock
  <2>9. CASE Done(t)  BY <2>9 DEF Done
  <2>10. CASE Insert(t)
    <3>1. element[t] \in Elements  BY <2>10 DEF Insert, Shape, OpsFit, ElementsFit
    <3>2. queue' \in Seq(Elements)  BY <2>10, <3>1, AppendProperties DEF Insert
    <3> QED  BY <2>10, <3>2 DEF Insert
  <2>11. CASE Signal(t)  BY <2>11 DEF Signal
  <2>12. CASE Sleep(t)  BY <2>12 DEF Sleep
  <2>13. CASE ComeBackEmpty(t)  BY <2>13 DEF ComeBackEmpty
  <2>14. CASE ReadHead(t)
    <3>1. Head(queue) \in Elements  BY <2>14, HeadTailProperties DEF ReadHead
    <3> QED  BY <2>14, <3>1 DEF ReadHead
  <2>15. CASE DeleteHead(t)
    <3>1. queue # <<>>  BY <2>15 DEF DeleteHead, Shape, ElementsFit
    <3>2. queue' \in Seq(Elements)  BY <2>15, <3>1, HeadTailProperties DEF DeleteHead
    <3> QED  BY <2>15, <3>2 DEF DeleteHead
  <2>16. CASE Cancel(t)  BY <2>16 DEF Cancel
  <2>17. CASE TellAgain(t)  BY <2>17 DEF TellAgain
  <2>18. CASE Free(t)  BY <2>18 DEF Free
  <2> QED
    BY <1>4, <2>1, <2>2, <2>3, <2>4, <2>5, <2>6, <2>7, <2>8, <2>9, <2>10, <2>11, <2>12,
       <2>13, <2>14, <2>15, <2>16, <2>17, <2>18 DEF Step, Lockings
<1> QED  BY <1>1, <1>2, <1>3, <1>4 DEF Next

LEMMA ShapeKept ==
  ASSUME TypeOK, Shape, NoUseAfterFree, Next
  PROVE  Shape' /\ NoUseAfterFree'
<1> DEFINE Good == Shape /\ NoUseAfterFree
<1> USE QueueThreadsAssumption, OneInside
    DEF QueueThreadsAssumption, TypeOK, Labels, Goto, dataVars, lockVars, Shape, LocksHeld,
        OpsFit, ElementsFit, FlagFits, NoQueueYet, FreedIsCancelled, NoUseAfterFree, Uses,
        InDictionary, InQueue, Takers
<1>1. CASE Create  BY <1>1 DEF Create
<1>2. ASSUME NEW t \in Threads, NEW o \in Ops, Call(t, o) PROVE Good'
  BY <1>2, QueueOpsAssumption DEF Call, QueueOpsAssumption, AllOps
<1>3. ASSUME NEW t \in Threads, SpuriousWakeup(t) PROVE Good'
  BY <1>3 DEF SpuriousWakeup
<1>4. ASSUME NEW t \in Threads, Step(t) PROVE Good'
  <2>1. CASE LockDictionary(t)  BY <2>1 DEF LockDictionary
  <2>2. CASE LockQueue(t)  BY <2>2 DEF LockQueue
  <2>3. CASE Awake(t)  BY <2>3 DEF Awake
  <2>4. CASE LockAgain(t)  BY <2>4 DEF LockAgain
  <2>5. CASE Find(t)  BY <2>5 DEF Find
  <2>6. CASE Refuse(t)  BY <2>6 DEF Refuse
  <2>7. CASE UnlockDictionary(t)
    <3>1. op[t] \in AllOps  BY <2>7, QueueOpsAssumption DEF UnlockDictionary, QueueOpsAssumption
    <3>2. \/ op[t] = "enqueue" /\ pc' = [pc EXCEPT ![t] = "insert"]
          \/ op[t] = "length" /\ pc' = [pc EXCEPT ![t] = "unlock"]
          \/ op[t] \in Takers /\ pc' = [pc EXCEPT ![t] = "test"]
      BY <2>7, <3>1 DEF UnlockDictionary, AllOps
    <3> QED  BY <2>7, <3>2 DEF UnlockDictionary
  <2>8. CASE Unlock(t)  BY <2>8 DEF Unlock
  <2>9. CASE Done(t)  BY <2>9 DEF Done
  <2>10. CASE Insert(t)  BY <2>10 DEF Insert
  <2>11. CASE Signal(t)  BY <2>11 DEF Signal
  <2>12. CASE Sleep(t)  BY <2>12 DEF Sleep
  <2>13. CASE ComeBackEmpty(t)  BY <2>13 DEF ComeBackEmpty
  <2>14. CASE ReadHead(t)  BY <2>14 DEF ReadHead
  <2>15. CASE DeleteHead(t)  BY <2>15 DEF DeleteHead
  <2>16. CASE Cancel(t)  BY <2>16 DEF Cancel
  <2>17. CASE TellAgain(t)  BY <2>17 DEF TellAgain
  <2>18. CASE Free(t)
    <3>1. /\ pc[t] = "destroy" /\ pc' = [pc EXCEPT ![t] = "returned"]
          /\ state' = "freed" /\ iqdl_lock' = NoThread
          /\ UNCHANGED <<lock, read_cond, to_be_canceled_soon, queue, op, element>>
          /\ \A u \in Threads : pc[u] # "asleep" /\ pc[u] \notin InQueue
      BY <2>18 DEF Free, Users
    <3>2. \A u \in Threads : u # t => ~ Uses(u)  BY <3>1
    <3>3. NoUseAfterFree'  BY <3>1, <3>2
    <3>4. LocksHeld' /\ OpsFit' /\ ElementsFit' /\ FlagFits' /\ NoQueueYet' /\ FreedIsCancelled'
      BY <3>1
    <3> QED  BY <3>3, <3>4
  <2> QED
    BY <1>4, <2>1, <2>2, <2>3, <2>4, <2>5, <2>6, <2>7, <2>8, <2>9, <2>10, <2>11, <2>12,
       <2>13, <2>14, <2>15, <2>16, <2>17, <2>18 DEF Step, Lockings
<1> QED  BY <1>1, <1>2, <1>3, <1>4 DEF Next

-----------------------------------------------------------------------------
(* No wakeup is lost.                                                      *)

\* The threads that are on their way to an element, or about to send one there.
OnTheirWay == {t \in Threads : \/ pc[t] = "asleep" /\ t \notin read_cond
                               \/ pc[t] \in {"test", "deleteHead", "signal"}}

LEMMA CountIn ==
  ASSUME NEW S \in SUBSET Threads, NEW t \in Threads \ S
  PROVE  Cardinality(S \cup {t}) = Cardinality(S) + 1
BY QueueThreadsAssumption, FS_Subset, FS_AddElement DEF QueueThreadsAssumption

LEMMA CountOut ==
  ASSUME NEW S \in SUBSET Threads, NEW t \in S
  PROVE  Cardinality(S \ {t}) = Cardinality(S) - 1
BY QueueThreadsAssumption, FS_Subset, FS_RemoveElement DEF QueueThreadsAssumption

\* As many elements as before, and no fewer threads.
LEMMA MoreOnTheirWay ==
  ASSUME NobodySleepsInVain, TypeOK, read_cond' \subseteq read_cond, queue' = queue,
         OnTheirWay \subseteq OnTheirWay', OnTheirWay' \subseteq Threads
  PROVE  NobodySleepsInVain'
<1>1. /\ Cardinality(OnTheirWay) <= Cardinality(OnTheirWay')
      /\ Cardinality(OnTheirWay) \in Nat /\ Cardinality(OnTheirWay') \in Nat
  BY QueueThreadsAssumption, FS_Subset, FS_CardinalityType DEF QueueThreadsAssumption
<1>2. Len(queue) \in Nat  BY DEF TypeOK
<1>3. read_cond' # {} => Len(queue') <= Cardinality(OnTheirWay')
  BY <1>1, <1>2 DEF NobodySleepsInVain, OnTheirWay
<1> QED  BY <1>3 DEF NobodySleepsInVain, OnTheirWay

LEMMA AwakeKept ==
  ASSUME TypeOK, Shape, NobodySleepsInVain, Next
  PROVE  NobodySleepsInVain'
<1> DEFINE Way == OnTheirWay
<1>0. /\ Way \subseteq Threads /\ Way' \subseteq Threads /\ Cardinality(Way) \in Nat
      /\ Len(queue) \in Nat
      /\ read_cond # {} => Len(queue) <= Cardinality(Way)
  BY QueueThreadsAssumption, FS_Subset, FS_CardinalityType
     DEF QueueThreadsAssumption, OnTheirWay, NobodySleepsInVain, TypeOK
<1>a. ASSUME read_cond' # {} => Len(queue') <= Cardinality(Way') PROVE NobodySleepsInVain'
  BY <1>a DEF NobodySleepsInVain, OnTheirWay
<1> USE DEF Goto, dataVars, lockVars
<1>1. CASE Create
  BY <1>0, <1>1, MoreOnTheirWay DEF Create, OnTheirWay
<1>2. ASSUME NEW t \in Threads, NEW o \in Ops, Call(t, o) PROVE NobodySleepsInVain'
  BY <1>0, <1>2, MoreOnTheirWay DEF Call, OnTheirWay, TypeOK
<1>3. ASSUME NEW t \in Threads, SpuriousWakeup(t) PROVE NobodySleepsInVain'
  BY <1>0, <1>3, MoreOnTheirWay DEF SpuriousWakeup, OnTheirWay
\* A thread moves that is not on its way before, or is after.
<1>4. ASSUME NEW t \in Threads, NEW to, pc' = [pc EXCEPT ![t] = to],
             UNCHANGED <<read_cond, queue>>,
             t \in Way => to \in {"test", "deleteHead", "signal"}
      PROVE  NobodySleepsInVain'
  BY <1>0, <1>4, MoreOnTheirWay DEF OnTheirWay, TypeOK
<1>5. ASSUME NEW t \in Threads, Step(t) PROVE NobodySleepsInVain'
  <2>1. CASE LockDictionary(t) \/ LockQueue(t) \/ LockAgain(t)
    BY <1>4, <2>1 DEF LockDictionary, LockQueue, LockAgain, OnTheirWay
  <2>2. CASE Find(t) \/ Refuse(t) \/ UnlockDictionary(t)
    BY <1>4, <2>2 DEF Find, Refuse, UnlockDictionary, OnTheirWay
  <2>3. CASE Unlock(t) \/ Done(t) \/ Free(t)
    BY <1>4, <2>3 DEF Unlock, Done, Free, OnTheirWay
  <2>4. CASE Awake(t)
    BY <1>4, <2>4 DEF Awake
  <2>5. CASE ReadHead(t)
    BY <1>4, <2>5 DEF ReadHead
  <2>6. CASE Insert(t)
    <3>1. Way' = Way \cup {t} /\ t \notin Way
      BY <2>6 DEF Insert, OnTheirWay, TypeOK
    <3>2. Cardinality(Way') = Cardinality(Way) + 1  BY <1>0, <3>1, CountIn
    <3>3. element[t] \in Elements  BY <2>6 DEF Insert, Shape, OpsFit, ElementsFit
    <3>4. Len(queue') = Len(queue) + 1 /\ read_cond' = read_cond
      BY <2>6, <3>3, AppendProperties DEF Insert, TypeOK
    <3> QED  BY <1>0, <1>a, <3>2, <3>4
  <2>7. CASE Signal(t)
    <3>1. CASE read_cond = {}  BY <1>a, <2>7, <3>1 DEF Signal
    <3>2. CASE read_cond # {}
      <4>1. PICK u \in read_cond : read_cond' = read_cond \ {u}
        BY <2>7, <3>2 DEF Signal
      <4>2. /\ u \in Threads /\ pc[u] = "asleep" /\ pc[t] = "signal" /\ queue' = queue
            /\ pc' = [pc EXCEPT ![t] = "unlock"]
        BY <2>7, <4>1 DEF Signal, TypeOK, Shape, LocksHeld
      <4>3. t \in Way /\ Way' = (Way \ {t}) \cup {u} /\ u \notin Way \ {t}
        BY <4>1, <4>2 DEF OnTheirWay, TypeOK
      <4>4. Cardinality(Way \ {t}) = Cardinality(Way) - 1  BY <1>0, <4>3, CountOut
      <4>5. Cardinality(Way') = Cardinality(Way \ {t}) + 1  BY <1>0, <4>2, <4>3, CountIn
      <4> QED  BY <1>0, <1>a, <3>2, <4>2, <4>4, <4>5
    <3> QED  BY <3>1, <3>2
  <2>8. CASE Sleep(t)
    <3>1. Len(queue') = 0  BY <2>8 DEF Sleep
    <3>2. Cardinality(Way') \in Nat
      BY <1>0, QueueThreadsAssumption, FS_Subset, FS_CardinalityType DEF QueueThreadsAssumption
    <3> QED  BY <1>a, <3>1, <3>2
  <2>9. CASE ComeBackEmpty(t)
    <3>1. CASE to_be_canceled_soon
      BY <1>a, <2>9, <3>1 DEF ComeBackEmpty, Shape, FlagFits
    <3>2. CASE queue = <<>>
      <4>1. Len(queue') = 0  BY <2>9, <3>2 DEF ComeBackEmpty
      <4>2. Cardinality(Way') \in Nat
        BY <1>0, QueueThreadsAssumption, FS_Subset, FS_CardinalityType DEF QueueThreadsAssumption
      <4> QED  BY <1>a, <4>1, <4>2
    <3> QED  BY <2>9, <3>1, <3>2 DEF ComeBackEmpty
  <2>10. CASE DeleteHead(t)
    <3>1. t \in Way /\ Way' = Way \ {t}
      BY <2>10 DEF DeleteHead, OnTheirWay, TypeOK
    <3>2. Cardinality(Way') = Cardinality(Way) - 1  BY <1>0, <3>1, CountOut
    <3>3. queue # <<>>  BY <2>10 DEF DeleteHead, Shape, ElementsFit
    <3>4. Len(queue') = Len(queue) - 1 /\ read_cond' = read_cond
      BY <2>10, <3>3, HeadTailProperties DEF DeleteHead, TypeOK
    <3> QED  BY <1>0, <1>a, <3>2, <3>4
  <2>11. CASE Cancel(t) \/ TellAgain(t)
    BY <1>a, <2>11 DEF Cancel, TellAgain
  <2> QED
    BY <1>5, <2>1, <2>2, <2>3, <2>4, <2>5, <2>6, <2>7, <2>8, <2>9, <2>10, <2>11
       DEF Step, Lockings
<1> QED  BY <1>1, <1>2, <1>3, <1>5 DEF Next

-----------------------------------------------------------------------------
(* The theorems.                                                           *)

LEMMA NextKeepsInv == IInv /\ [Next]_vars => IInv'
<1> SUFFICES ASSUME IInv, [Next]_vars PROVE IInv'  OBVIOUS
<1>1. CASE Next
  BY <1>1, TypeKept, ShapeKept, AwakeKept DEF IInv
<1>2. CASE UNCHANGED vars
  BY <1>2 DEF IInv, TypeOK, Shape, LocksHeld, OpsFit, ElementsFit, FlagFits, NoQueueYet,
     FreedIsCancelled, NoUseAfterFree, NobodySleepsInVain, Uses, vars, lockVars, dataVars
<1> QED  BY <1>1, <1>2

LEMMA Invariance == Spec => []IInv
BY InitInv, NextKeepsInv, PTL DEF Spec

\* The state has its type.
THEOREM TypeCorrectness == Spec => []TypeOK
<1>1. IInv => TypeOK  BY DEF IInv
<1> QED  BY <1>1, Invariance, PTL

\* SimpleQueue_delete frees the queue only when nobody who found it before is
\* still in enqueue, dequeue or length, sleepers included.
THEOREM MemorySafety == Spec => []NoUseAfterFree
<1>1. IInv => NoUseAfterFree  BY DEF IInv
<1> QED  BY <1>1, Invariance, PTL

\* One signal for each element is enough, although it may wake a thread that
\* then finds the queue empty because another one was faster.
THEOREM NoLostWakeup == Spec => []NobodySleepsInVain
<1>1. IInv => NobodySleepsInVain  BY DEF IInv
<1> QED  BY <1>1, Invariance, PTL

-----------------------------------------------------------------------------
(* The queue is a mailbox.                                                 *)

Hand == [t \in Threads |->
           IF op[t] \in Takers /\ pc[t] \in {"unlock", "returned"}
           THEN element[t] ELSE NoElement]

\* Nothing happens to the mailbox.
LEMMA MailboxRests ==
  ASSUME UNCHANGED <<queue, to_be_canceled_soon>>, Hand' = Hand
  PROVE  UNCHANGED Box!vars
BY DEF Box!vars, Hand, Takers

LEMMA NextIsMailbox ==
  IInv /\ [Next]_vars => [Box!Next]_(Box!vars)
<1> SUFFICES ASSUME IInv, [Next]_vars PROVE [Box!Next]_(Box!vars)  OBVIOUS
<1> USE DEF Goto, dataVars, lockVars
<1>0. TypeOK /\ Shape  BY DEF IInv
<1>1. CASE UNCHANGED vars
  BY <1>1, MailboxRests DEF vars, Hand
<1>2. CASE Create
  BY <1>2, MailboxRests DEF Create, Hand
<1>3. ASSUME NEW t \in Threads, NEW o \in Ops, Call(t, o) PROVE UNCHANGED Box!vars
  BY <1>0, <1>3, MailboxRests DEF Call, Hand, TypeOK
<1>4. ASSUME NEW t \in Threads, SpuriousWakeup(t) PROVE UNCHANGED Box!vars
  BY <1>4, MailboxRests DEF SpuriousWakeup, Hand
<1>5. ASSUME NEW t \in Threads, Step(t) PROVE [Box!Next]_(Box!vars)
  <2>1. CASE Lockings(t)
    BY <1>0, <2>1, MailboxRests
       DEF Lockings, LockDictionary, LockQueue, Awake, LockAgain, Hand, TypeOK
  <2>2. CASE Find(t) \/ Refuse(t) \/ UnlockDictionary(t)
    BY <1>0, <2>2, MailboxRests
       DEF Find, Refuse, UnlockDictionary, Hand, TypeOK, Shape, OpsFit, Takers, ElementsFit
  <2>3. CASE Unlock(t)
    BY <1>0, <2>3, MailboxRests DEF Unlock, Hand, TypeOK
  <2>4. CASE Done(t)
    <3>1. Hand' = [Hand EXCEPT ![t] = NoElement]
      BY <1>0, <2>4 DEF Done, Hand, TypeOK, Takers
    <3>2. Box!Finish(t)
      BY <2>4, <3>1 DEF Done, Box!Finish, Hand, Takers
    <3> QED  BY <3>2 DEF Box!Next
  <2>5. CASE Insert(t)
    <3>1. element[t] \in Elements /\ ~ to_be_canceled_soon
      BY <1>0, <2>5 DEF Insert, Shape, OpsFit, ElementsFit, FlagFits
    <3>2. Hand' = Hand
      BY <1>0, <2>5 DEF Insert, Hand, TypeOK, Shape, OpsFit, Takers
    <3>3. Box!Put(element[t])
      BY <2>5, <3>1, <3>2 DEF Insert, Box!Put, Hand, Takers
    <3> QED  BY <3>1, <3>3 DEF Box!Next
  <2>6. CASE Signal(t)
    BY <1>0, <2>6, MailboxRests DEF Signal, Hand, TypeOK, Shape, OpsFit, Takers
  <2>7. CASE Sleep(t) \/ ReadHead(t)
    BY <1>0, <2>7, MailboxRests DEF Sleep, ReadHead, Hand, TypeOK
  <2>8. CASE ComeBackEmpty(t)
    <3>1. element[t] = NoElement
      BY <1>0, <2>8 DEF ComeBackEmpty, TypeOK, Shape, OpsFit, ElementsFit, Takers
    <3> QED  BY <1>0, <2>8, <3>1, MailboxRests DEF ComeBackEmpty, Hand, TypeOK
  <2>9. CASE DeleteHead(t)
    <3>1. /\ queue # <<>> /\ element[t] = Head(queue) /\ ~ to_be_canceled_soon
          /\ op[t] \in Takers /\ Hand[t] = NoElement
      BY <1>0, <2>9 DEF DeleteHead, Shape, OpsFit, ElementsFit, FlagFits, Hand
    <3>2. Hand' = [Hand EXCEPT ![t] = Head(queue)]
      BY <1>0, <2>9, <3>1 DEF DeleteHead, Hand, TypeOK
    <3>3. Box!Take(t)
      BY <2>9, <3>1, <3>2 DEF DeleteHead, Box!Take, Hand, Takers
    <3> QED  BY <3>3 DEF Box!Next
  <2>10. CASE Cancel(t)
    <3>1. Hand' = Hand  BY <1>0, <2>10 DEF Cancel, Hand, TypeOK
    <3>2. Box!Close  BY <2>10, <3>1 DEF Cancel, Box!Close, Hand, Takers
    <3> QED  BY <3>2 DEF Box!Next
  <2>11. CASE TellAgain(t) \/ Free(t)
    BY <1>0, <2>11, MailboxRests DEF TellAgain, Free, Hand, TypeOK, Shape, OpsFit, Takers
  <2> QED
    BY <1>5, <2>1, <2>2, <2>3, <2>4, <2>5, <2>6, <2>7, <2>8, <2>9, <2>10, <2>11 DEF Step
<1> QED  BY <1>1, <1>2, <1>3, <1>4, <1>5 DEF Next

\* Whatever threads do at the same time, elements come out of the queue once
\* and in the order in which they went in, and none once it is cancelled.
THEOREM Refinement == Spec => ImplementsMailbox
<1>1. Init => Box!Init
  BY DEF Init, Box!Init
<1> QED
  BY <1>1, NextIsMailbox, Invariance, PTL DEF Spec, ImplementsMailbox, Box!Spec
=============================================================================
