--------------------------- MODULE Logger_proofs ---------------------------
(***************************************************************************)
(* Proofs about Logger: its type invariant, and the three properties of    *)
(* the logger, for any sizes of the buffer, any number of workers and any  *)
(* number and length of messages.                                          *)
(***************************************************************************)
EXTENDS Logger, SequenceTheorems, TLAPS

-----------------------------------------------------------------------------
(* The inductive invariant.                                                *)

\* The logger takes its text for no shorter than it is.
Counted == text <= curr_log_len

\* The phases in which the log is there, before and after.
Before  == {"boot", "creating", "failed"}
Serving == {"creating", "launching", "running", "stopping", "deleting",
            "freed", "joining", "joined", "closing"}
Ending  == {"stopping", "deleting", "freed", "joining", "joined", "closing", "exited"}

LoggerFollowsPhase ==
  /\ phase \in Serving => logger
  /\ phase \in {"boot", "failed"} => ~logger
  /\ phase = "creating" => lock

\* Before the log is open only the handler runs, and nothing is said.
QuietBefore ==
  phase \in Before => /\ \A t \in Threads \ {Handler} : pc[t] = "idle"
                      /\ \A t \in Threads : said[t] = 0

\* A thread in LOG has a flush to make.
FlushesDue == \A t \in Threads : pc[t] \notin {"idle", "returned"} => flushes[t] >= 1

\* At boot nobody has seen a logger.
UnseenAtBoot == phase = "boot" => \A t \in Threads : pc[t] \notin {"log", "flush"}

\* Main stops when it has heard of the signal, whose handler is done with it.
HandlerIsDone == told \/ phase \in Ending => pc[Handler] = "returned"

\* When main has joined the workers, and when it has deleted the log.
WorkersAreDone == phase \in {"joined", "closing", "exited"} => AllReturned
MainIsDone     == phase = "exited" => pc[Main] = "idle"

\* A message that was taken is on the file, or in the buffer while the thread
\* has its flush before it.
On(s, t, n) == \E i \in DOMAIN s : s[i] = [by |-> t, nth |-> n]

NothingIsLost ==
  \A t \in Threads : \A n \in 1 .. said[t] :
    On(file, t, n) \/ (pc[t] \in {"checkFlush", "flush"} /\ On(log, t, n))

\* The messages on the file and in the buffer, one after the other.
Written == file \o log

\* Nothing is there that was not said, and each thread's messages are in order.
Said(s)    == \A i \in DOMAIN s : s[i].nth <= said[s[i].by]
InOrder(s) == \A i, j \in DOMAIN s : i < j /\ s[i].by = s[j].by => s[i].nth < s[j].nth

\* Who runs when, and what the pointer is then; what the buffer holds; what
\* is on the file.
Life ==
  /\ LoggerFollowsPhase /\ QuietBefore /\ UnseenAtBoot /\ FlushesDue
  /\ HandlerIsDone /\ WorkersAreDone /\ MainIsDone
  /\ LoggerIsThere

Sound    == Counted /\ BufferFits
Messaged == NothingIsLost /\ Said(Written) /\ InOrder(Written)

IInv == TypeOK /\ Life /\ Sound /\ Messaged

-----------------------------------------------------------------------------
(* Sequences of messages.                                                  *)

\* What is on a sequence is on a longer one; what is on two is on both
\* together.
LEMMA OnConcat ==
  ASSUME NEW f \in Seq(Message), NEW l \in Seq(Message), NEW t, NEW n
  PROVE  On(f \o l, t, n) <=> On(f, t, n) \/ On(l, t, n)
<1>1. ASSUME On(f \o l, t, n) PROVE On(f, t, n) \/ On(l, t, n)
  <2>1. PICK i \in DOMAIN (f \o l) : (f \o l)[i] = [by |-> t, nth |-> n]
    BY <1>1 DEF On
  <2>2. CASE i <= Len(f)
    <3>1. i \in DOMAIN f /\ f[i] = [by |-> t, nth |-> n]  BY <2>1, <2>2
    <3> QED  BY <3>1 DEF On
  <2>3. CASE i > Len(f)
    <3>1. i - Len(f) \in DOMAIN l /\ l[i - Len(f)] = [by |-> t, nth |-> n]  BY <2>1, <2>3
    <3> QED  BY <3>1 DEF On
  <2> QED  BY <2>1, <2>2, <2>3
<1>2. ASSUME On(f, t, n) PROVE On(f \o l, t, n)
  <2>1. PICK i \in DOMAIN f : f[i] = [by |-> t, nth |-> n]  BY <1>2 DEF On
  <2>2. i \in DOMAIN (f \o l) /\ (f \o l)[i] = f[i]  BY <2>1
  <2> QED  BY <2>1, <2>2 DEF On
<1>3. ASSUME On(l, t, n) PROVE On(f \o l, t, n)
  <2>1. PICK i \in DOMAIN l : l[i] = [by |-> t, nth |-> n]  BY <1>3 DEF On
  <2>2. i + Len(f) \in DOMAIN (f \o l) /\ (f \o l)[i + Len(f)] = l[i]  BY <2>1
  <2> QED  BY <2>1, <2>2 DEF On
<1> QED  BY <1>1, <1>2, <1>3

LEMMA OnAppend ==
  ASSUME NEW s \in Seq(Message), NEW m \in Message, NEW t, NEW n
  PROVE  On(Append(s, m), t, n) <=> On(s, t, n) \/ m = [by |-> t, nth |-> n]
<1>1. ASSUME On(Append(s, m), t, n) PROVE On(s, t, n) \/ m = [by |-> t, nth |-> n]
  <2>1. PICK i \in DOMAIN Append(s, m) : Append(s, m)[i] = [by |-> t, nth |-> n]
    BY <1>1 DEF On
  <2>2. CASE i <= Len(s)
    <3>1. i \in DOMAIN s /\ s[i] = [by |-> t, nth |-> n]  BY <2>1, <2>2
    <3> QED  BY <3>1 DEF On
  <2>3. CASE i = Len(s) + 1  BY <2>1, <2>3
  <2> QED  BY <2>1, <2>2, <2>3
<1>2. ASSUME On(s, t, n) PROVE On(Append(s, m), t, n)
  <2>1. PICK i \in DOMAIN s : s[i] = [by |-> t, nth |-> n]  BY <1>2 DEF On
  <2>2. i \in DOMAIN Append(s, m) /\ Append(s, m)[i] = s[i]  BY <2>1
  <2> QED  BY <2>1, <2>2 DEF On
<1>3. ASSUME m = [by |-> t, nth |-> n] PROVE On(Append(s, m), t, n)
  <2>1. Len(s) + 1 \in DOMAIN Append(s, m) /\ Append(s, m)[Len(s) + 1] = m  OBVIOUS
  <2> QED  BY <1>3, <2>1 DEF On
<1> QED  BY <1>1, <1>2, <1>3

\* Order is kept by a message that comes after all that its author has said.
LEMMA InOrderAppend ==
  ASSUME NEW s \in Seq(Message), NEW m \in Message, InOrder(s),
         \A i \in DOMAIN s : s[i].by = m.by => s[i].nth < m.nth
  PROVE  InOrder(Append(s, m))
<1> SUFFICES ASSUME NEW i \in DOMAIN Append(s, m), NEW j \in DOMAIN Append(s, m), i < j,
                    Append(s, m)[i].by = Append(s, m)[j].by
             PROVE  Append(s, m)[i].nth < Append(s, m)[j].nth
  BY DEF InOrder
<1>1. i \in DOMAIN s /\ Append(s, m)[i] = s[i]  OBVIOUS
<1>2. CASE j <= Len(s)
  <2>1. j \in DOMAIN s /\ Append(s, m)[j] = s[j]  BY <1>2
  <2> QED  BY <1>1, <2>1 DEF InOrder
<1>3. CASE j = Len(s) + 1
  <2>1. Append(s, m)[j] = m  BY <1>3
  <2> QED  BY <1>1, <2>1
<1> QED  BY <1>2, <1>3

\* A part of what is in order is.
LEMMA InOrderFirst ==
  ASSUME NEW f \in Seq(Message), NEW l \in Seq(Message), InOrder(f \o l)
  PROVE  InOrder(f)
<1> SUFFICES ASSUME NEW i \in DOMAIN f, NEW j \in DOMAIN f, i < j, f[i].by = f[j].by
             PROVE  f[i].nth < f[j].nth
  BY DEF InOrder
<1>1. /\ i \in DOMAIN (f \o l) /\ (f \o l)[i] = f[i]
      /\ j \in DOMAIN (f \o l) /\ (f \o l)[j] = f[j]
  OBVIOUS
<1> QED  BY <1>1 DEF InOrder

-----------------------------------------------------------------------------
(* The invariant holds at first.                                           *)

LEMMA InitInv == Init => IInv
<1> SUFFICES ASSUME Init PROVE IInv  OBVIOUS
<1>1. TypeOK
  <2>1. log \in Seq(Message) /\ file \in Seq(Message)  BY DEF Init
  <2>2. curr_log_size \in Nat  BY SizesAssumption DEF SizesAssumption, Init
  <2>3. /\ pc \in [Threads -> {"idle", "check", "log", "checkFlush", "flush", "returned"}]
        /\ length \in [Threads -> Nat] /\ said \in [Threads -> Nat]
        /\ flushes \in [Threads -> 0 .. 2]
    BY DEF Init
  <2> QED  BY <2>1, <2>2, <2>3 DEF Init, TypeOK
<1>2. Life
  BY DEF Init, Life, LoggerFollowsPhase, QuietBefore, UnseenAtBoot, FlushesDue, HandlerIsDone,
         WorkersAreDone, MainIsDone, LoggerIsThere, Serving, Before, Ending, Threads
<1>3. Sound  BY SizesAssumption DEF SizesAssumption, Init, Sound, Counted, BufferFits
<1>4. NothingIsLost  BY DEF Init, NothingIsLost
<1>5. Written = <<>>  BY DEF Init, Written
<1>6. Said(Written) /\ InOrder(Written)  BY <1>5 DEF Said, InOrder
<1> QED  BY <1>1, <1>2, <1>3, <1>4, <1>6 DEF IInv, Messaged

-----------------------------------------------------------------------------
(* Life: who runs when.                                                    *)

LEMMA LifeKept ==
  ASSUME TypeOK, Life, Next
  PROVE  Life'
<1> USE ThreadsAssumption DEF ThreadsAssumption, Life, LoggerFollowsPhase, QuietBefore, UnseenAtBoot, FlushesDue, HandlerIsDone,
            WorkersAreDone, MainIsDone, LoggerIsThere, Serving, Before, Ending, AllReturned,
            Threads, TypeOK, Alive, Goto, calls
<1>1. CASE CreateLogger  BY <1>1 DEF CreateLogger
<1>2. CASE OpenFile  BY <1>2 DEF OpenFile
<1>3. CASE GiveUp  BY <1>3 DEF GiveUp
<1>4. CASE DeleteLogger  BY <1>4 DEF DeleteLogger
<1>5. CASE MainLogs
  <2>1. PICK n \in Lengths : Enter(Main, n, 1)  BY <1>5 DEF MainLogs
  <2>2. /\ \/ phase \in {"launching", "running"} /\ phase' = "running"
           \/ phase = "stopping" /\ phase' = "deleting"
           \/ phase = "freed" /\ phase' = "joining"
           \/ phase = "joined" /\ phase' = "closing"
        /\ UNCHANGED <<logger, lock, told>>
    <3>1. phase \in {"launching", "running", "stopping", "freed", "joined"}
      BY <1>5 DEF MainLogs, NextPhase
    <3>2. phase' = NextPhase[phase] /\ UNCHANGED <<logger, lock, told>>
      BY <1>5 DEF MainLogs
    <3> QED  BY <3>1, <3>2 DEF NextPhase
  <2> QED  BY <2>1, <2>2 DEF Enter
<1>6. CASE Stop  BY <1>6 DEF Stop
<1>7. CASE DeleteQueue  BY <1>7 DEF DeleteQueue
<1>8. CASE JoinWorkers  BY <1>8 DEF JoinWorkers
<1>9. ASSUME NEW w \in Workers, WorkerLogs(w) PROVE Life'
  BY <1>9 DEF WorkerLogs, Enter
<1>10. ASSUME NEW w \in Workers, WorkerReturns(w) PROVE Life'
  BY <1>10 DEF WorkerReturns
<1>11. CASE Signal  BY <1>11 DEF Signal, Enter
<1>12. CASE SignalHandled  BY <1>12 DEF SignalHandled
<1>13. ASSUME NEW t \in Threads, CheckLog(t) PROVE Life'
  BY <1>13 DEF CheckLog
<1>14. ASSUME NEW t \in Threads, LogMessage(t) PROVE Life'
  BY <1>14 DEF LogMessage
<1>15. ASSUME NEW t \in Threads, CheckFlush(t) PROVE Life'
  <2>1. /\ UNCHANGED <<logger, lock, phase, said, told>>
        /\ pc[t] = "checkFlush"
        /\ \/ logger /\ pc' = [pc EXCEPT ![t] = "flush"] /\ UNCHANGED flushes
           \/ /\ flushes' = [flushes EXCEPT ![t] = @ - 1]
              /\ \/ flushes[t] > 1 /\ UNCHANGED pc
                 \/ pc' = [pc EXCEPT ![t] = "idle"]
    BY <1>15 DEF CheckFlush, Returns
  <2> QED  BY <1>15, <2>1 DEF CheckFlush
<1>16. ASSUME NEW t \in Threads, Flush(t) PROVE Life'
  <2>1. /\ UNCHANGED <<logger, lock, phase, said, told>>
        /\ logger /\ pc[t] = "flush"
        /\ flushes' = [flushes EXCEPT ![t] = @ - 1]
        /\ \/ flushes[t] > 1 /\ pc' = [pc EXCEPT ![t] = "checkFlush"]
           \/ pc' = [pc EXCEPT ![t] = "idle"]
    BY <1>16 DEF Flush, Returns
  <2>2. phase \in Serving /\ phase \notin Before /\ logger'  BY <1>16, <2>1 DEF Flush
  <2>3. FlushesDue'
    <3> SUFFICES ASSUME NEW u \in Threads, pc'[u] \notin {"idle", "returned"}
                 PROVE  flushes'[u] >= 1
      BY DEF FlushesDue
    <3>1. CASE u = t
      <4>1. flushes[t] \in 0 .. 2 /\ flushes'[t] = flushes[t] - 1 BY <2>1
      <4>2. flushes[t] > 1  BY <2>1, <3>1
      <4> QED  BY <3>1, <4>1, <4>2
    <3>2. CASE u # t  BY <2>1, <3>2
    <3> QED  BY <3>1, <3>2
  <2>4. HandlerIsDone' /\ WorkersAreDone' /\ MainIsDone'  BY <2>1
  <2> QED  BY <2>1, <2>2, <2>3, <2>4
<1>17. ASSUME NEW t \in Threads, Crash(t) PROVE Life'
  BY <1>17 DEF Crash
<1>18. CASE Ended  BY <1>18 DEF Ended, vars
<1> QED
  BY <1>1, <1>2, <1>3, <1>4, <1>5, <1>6, <1>7, <1>8, <1>9, <1>10, <1>11, <1>12, <1>13,
     <1>14, <1>15, <1>16, <1>17, <1>18 DEF Next, LOG

-----------------------------------------------------------------------------
(* Types, and the buffer.                                                  *)

LEMMA EnterTypes ==
  ASSUME TypeOK, NEW t \in Threads, NEW n \in Lengths, NEW k \in {1, 2}, Enter(t, n, k)
  PROVE  /\ pc' \in [Threads -> {"idle", "check", "log", "checkFlush", "flush", "returned"}]
         /\ length' \in [Threads -> Nat] /\ flushes' \in [Threads -> 0 .. 2] /\ said' = said
<1>1. n \in Nat  BY LengthsAssumption DEF LengthsAssumption
<1> QED  BY <1>1 DEF TypeOK, Enter, Goto

LEMMA ReturnsTypes ==
  ASSUME TypeOK, FlushesDue, NEW t \in Threads, Returns(t), pc[t] \in {"checkFlush", "flush"}
  PROVE  /\ pc' \in [Threads -> {"idle", "check", "log", "checkFlush", "flush", "returned"}]
         /\ flushes' \in [Threads -> 0 .. 2]
<1>1. flushes[t] >= 1  BY DEF FlushesDue
<1>2. flushes[t] \in 0 .. 2  BY DEF TypeOK
<1>3. flushes[t] - 1 \in 0 .. 2  BY <1>1, <1>2
<1> QED  BY <1>3 DEF TypeOK, Returns

\* A message put into a buffer that is larger than all that is counted fits.
LEMMA CatFits ==
  ASSUME text \in Nat, curr_log_len \in Nat, Counted,
         NEW m, NEW n \in Nat, NEW len, len = curr_log_len + n + 28, Cat(m, n, len),
         curr_log_size' \in Nat, len <= curr_log_size'
  PROVE  text' \in Nat /\ curr_log_len' \in Nat /\ Sound'
<1>1. text' = text + n + 26 /\ curr_log_len' = curr_log_len + len
  BY DEF Cat, TIMESTAMP_LEN
<1> QED  BY <1>1 DEF Sound, Counted, BufferFits

\* What a message does to the buffer and the file: it is written after all
\* the others, and the buffer is large enough for it.
LEMMA LogMessageWrites ==
  ASSUME TypeOK, Sound, NEW t \in Threads, LogMessage(t),
         NEW m, m = [by |-> t, nth |-> said[t] + 1]
  PROVE  /\ m \in Message
         /\ \/ file' = file /\ log' = Append(log, m)
            \/ file' = Append(Written, m) /\ log' = <<>>
         /\ text' \in Nat /\ curr_log_len' \in Nat /\ curr_log_size' \in Nat
         /\ Sound'
<1> DEFINE n == length[t]
           len == LenToWrite(n)
<1> USE DEF TypeOK, Sound, Counted, BufferFits
<1>1. m \in Message  BY DEF Message
<1>2. n \in Nat /\ len = curr_log_len + n + 28 /\ len \in Nat
  BY DEF LenToWrite, TIMESTAMP_LEN
<1> HIDE DEF len
<1>3. ASSUME Cat(m, n, len), curr_log_size' \in Nat, len <= curr_log_size'
      PROVE  /\ file' = file /\ log' = Append(log, m)
             /\ text' \in Nat /\ curr_log_len' \in Nat /\ curr_log_size' \in Nat
             /\ Sound'
  <2>1. text \in Nat /\ curr_log_len \in Nat /\ Counted  OBVIOUS
  <2>2. text' \in Nat /\ curr_log_len' \in Nat /\ Sound'  BY <1>2, <1>3, <2>1, CatFits
  <2> QED  BY <1>3, <2>2 DEF Cat
<1>4. CASE len < curr_log_size /\ Cat(m, n, len) /\ UNCHANGED curr_log_size
  <2>1. curr_log_size' \in Nat /\ len <= curr_log_size'  BY <1>2, <1>4
  <2> QED  BY <1>1, <1>3, <1>4, <2>1
<1>5. CASE WriteThrough(m)
  BY <1>1, <1>5, SizesAssumption DEF SizesAssumption, WriteThrough, Written
<1>6. CASE ~CannotGrow(len) /\ Cat(m, n, len) /\ curr_log_size' = Grown(len)
  <2>1. len \in 0 .. MAX_LOG_SIZE
    BY <1>2, <1>6, SizesAssumption DEF SizesAssumption, CannotGrow
  <2>2. Grown(len) \in Nat /\ Grown(len) >= len
    BY <2>1, SizesAssumption DEF SizesAssumption
  <2>3. curr_log_size' \in Nat /\ len <= curr_log_size'  BY <1>2, <1>6, <2>2
  <2> QED  BY <1>1, <1>3, <1>6, <2>3
<1>7. \/ len < curr_log_size /\ Cat(m, n, len) /\ UNCHANGED curr_log_size
      \/ WriteThrough(m)
      \/ ~CannotGrow(len) /\ Cat(m, n, len) /\ curr_log_size' = Grown(len)
  BY DEF LogMessage, len
<1> QED  BY <1>1, <1>4, <1>5, <1>6, <1>7

LEMMA SoundKept ==
  ASSUME TypeOK, Sound, Next
  PROVE  Sound'
<1> USE DEF TypeOK, Sound, Counted, BufferFits, buffer
<1>1. CASE DeleteLogger  BY <1>1 DEF DeleteLogger
<1>2. ASSUME NEW t \in Threads, LogMessage(t) PROVE Sound'
  BY <1>2, LogMessageWrites
<1>3. ASSUME NEW t \in Threads, Flush(t) PROVE Sound'
  BY <1>3 DEF Flush
<1>4. CASE UNCHANGED buffer  BY <1>4
<1>5. \/ DeleteLogger \/ UNCHANGED buffer
      \/ \E t \in Threads : LogMessage(t) \/ Flush(t)
  BY DEF Next, CreateLogger, OpenFile, GiveUp, MainLogs, Stop, DeleteQueue, JoinWorkers,
         WorkerLogs, WorkerReturns, Signal, SignalHandled, LOG, CheckLog, CheckFlush, Crash,
         Ended, vars
<1> QED  BY <1>1, <1>2, <1>3, <1>4, <1>5

LEMMA TypeKept ==
  ASSUME TypeOK, FlushesDue, Sound, Next
  PROVE  TypeOK'
<1>1. CASE CreateLogger  BY <1>1 DEF TypeOK, CreateLogger, buffer, calls
<1>2. CASE OpenFile  BY <1>2 DEF TypeOK, OpenFile, buffer, calls
<1>3. CASE GiveUp  BY <1>3 DEF TypeOK, GiveUp, buffer, calls
<1>4. CASE DeleteLogger
  <2>1. file' \in Seq(Message) /\ log' \in Seq(Message) /\ text' = 0
    BY <1>4, ConcatProperties DEF DeleteLogger, TypeOK
  <2>2. logger' = FALSE /\ phase' = "exited"
        /\ UNCHANGED <<lock, curr_log_len, curr_log_size, pc, length, flushes, said, signum, told>>
    BY <1>4 DEF DeleteLogger, calls
  <2> QED  BY <2>1, <2>2 DEF TypeOK
<1>5. CASE MainLogs
  <2>1. PICK n \in Lengths : Enter(Main, n, 1)  BY <1>5 DEF MainLogs
  <2>2. phase' \in {"running", "deleting", "joining", "closing"}
    BY <1>5 DEF MainLogs, NextPhase
  <2>3. Main \in Threads  BY DEF Threads
  <2> QED  BY <1>5, <2>1, <2>2, <2>3, EnterTypes DEF TypeOK, MainLogs, buffer
<1>6. CASE Stop  BY <1>6 DEF TypeOK, Stop, buffer, calls
<1>7. CASE DeleteQueue  BY <1>7 DEF TypeOK, DeleteQueue, buffer, calls
<1>8. CASE JoinWorkers  BY <1>8 DEF TypeOK, JoinWorkers, buffer, calls
<1>9. ASSUME NEW w \in Workers, WorkerLogs(w) PROVE TypeOK'
  <2>1. PICK n \in Lengths : Enter(w, n, 1)  BY <1>9 DEF WorkerLogs
  <2>2. w \in Threads  BY DEF Threads
  <2> QED  BY <1>9, <2>1, <2>2, EnterTypes DEF TypeOK, WorkerLogs, buffer
<1>10. ASSUME NEW w \in Workers, WorkerReturns(w) PROVE TypeOK'
  BY <1>10 DEF TypeOK, WorkerReturns, Goto, buffer, Threads
<1>11. CASE Signal
  <2>1. PICK n \in Lengths : Enter(Handler, n, 2)  BY <1>11 DEF Signal
  <2>2. Handler \in Threads  BY DEF Threads
  <2> QED  BY <1>11, <2>1, <2>2, EnterTypes DEF TypeOK, Signal, buffer
<1>12. CASE SignalHandled  BY <1>12 DEF TypeOK, SignalHandled, Goto, buffer, Threads
<1>13. ASSUME NEW t \in Threads, CheckLog(t) PROVE TypeOK'
  BY <1>13 DEF TypeOK, CheckLog, Goto, buffer
<1>14. ASSUME NEW t \in Threads, LogMessage(t) PROVE TypeOK'
  <2> DEFINE m == [by |-> t, nth |-> said[t] + 1]
  <2>1. /\ m \in Message
        /\ \/ file' = file /\ log' = Append(log, m)
           \/ file' = Append(Written, m) /\ log' = <<>>
        /\ text' \in Nat /\ curr_log_len' \in Nat /\ curr_log_size' \in Nat
    BY <1>14, LogMessageWrites
  <2>2. log \in Seq(Message) /\ file \in Seq(Message) /\ Written \in Seq(Message)
    BY ConcatProperties DEF TypeOK, Written
  <2>3. log' \in Seq(Message) /\ file' \in Seq(Message)
    <3> HIDE DEF m
    <3>1. Append(log, m) \in Seq(Message) /\ Append(Written, m) \in Seq(Message)
      BY <2>1, <2>2, AppendProperties
    <3>2. <<>> \in Seq(Message)  OBVIOUS
    <3> QED  BY <2>1, <2>2, <3>1, <3>2
  <2>4. /\ pc' \in [Threads -> {"idle", "check", "log", "checkFlush", "flush", "returned"}]
        /\ said' \in [Threads -> Nat]
    BY <1>14 DEF TypeOK, LogMessage, Goto
  <2> QED  BY <1>14, <2>1, <2>3, <2>4 DEF TypeOK, LogMessage
<1>15. ASSUME NEW t \in Threads, CheckFlush(t) PROVE TypeOK'
  <2>1. CASE logger  BY <1>15, <2>1 DEF TypeOK, CheckFlush, buffer
  <2>2. CASE ~logger
    <3>1. Returns(t) /\ pc[t] = "checkFlush"  BY <1>15, <2>2 DEF CheckFlush
    <3> QED  BY <1>15, <3>1, ReturnsTypes DEF TypeOK, CheckFlush, buffer
  <2> QED  BY <2>1, <2>2
<1>16. ASSUME NEW t \in Threads, Flush(t) PROVE TypeOK'
  <2>1. file' \in Seq(Message) /\ log' \in Seq(Message) /\ text' = 0
    BY <1>16, ConcatProperties DEF Flush, TypeOK
  <2>2. Returns(t) /\ pc[t] = "flush"  BY <1>16 DEF Flush
  <2> QED  BY <1>16, <2>1, <2>2, ReturnsTypes DEF TypeOK, Flush
<1>17. ASSUME NEW t \in Threads, Crash(t) PROVE TypeOK'
  BY <1>17 DEF TypeOK, Crash, buffer, calls
<1>18. CASE Ended  BY <1>18 DEF TypeOK, Ended, vars, buffer, calls
<1> QED
  BY <1>1, <1>2, <1>3, <1>4, <1>5, <1>6, <1>7, <1>8, <1>9, <1>10, <1>11, <1>12, <1>13,
     <1>14, <1>15, <1>16, <1>17, <1>18 DEF Next, LOG

-----------------------------------------------------------------------------
(* The messages.                                                           *)

\* Whatever is on the file or in the buffer is on what follows it.
LEMMA OnWritten ==
  ASSUME TypeOK, NEW t, NEW n
  PROVE  On(Written, t, n) <=> On(file, t, n) \/ On(log, t, n)
BY OnConcat DEF TypeOK, Written

\* An action that logs nothing keeps what is on the file and in the buffer, if
\* no thread goes on from its flush without it.
LEMMA SilentStep ==
  ASSUME TypeOK, Messaged, UNCHANGED <<log, file, said>>,
         \A t \in Threads :
           pc[t] \in {"checkFlush", "flush"} =>
             pc'[t] \in {"checkFlush", "flush"} \/ said[t] = 0
  PROVE  Messaged'
<1>1. NothingIsLost'
  <2> SUFFICES ASSUME NEW t \in Threads, NEW n \in 1 .. said[t]
               PROVE  On(file, t, n) \/ (pc'[t] \in {"checkFlush", "flush"} /\ On(log, t, n))
    BY DEF NothingIsLost, On
  <2>1. On(file, t, n) \/ (pc[t] \in {"checkFlush", "flush"} /\ On(log, t, n))
    BY DEF Messaged, NothingIsLost
  <2>2. said[t] # 0  OBVIOUS
  <2> QED  BY <2>1, <2>2
<1>2. Said(Written)' /\ InOrder(Written)'
  BY DEF Messaged, Said, InOrder, Written
<1> QED  BY <1>1, <1>2 DEF Messaged

\* The buffer goes to the file, and a thread may return.
LEMMA FlushStep ==
  ASSUME TypeOK, Messaged, file' = file \o log, log' = <<>>, UNCHANGED said
  PROVE  Messaged'
<1>1. file' = Written /\ file' \in Seq(Message)
  BY ConcatProperties DEF TypeOK, Written
<1>2. Written' = Written  BY <1>1, ConcatEmptySeq DEF Written
<1>3. NothingIsLost'
  <2> SUFFICES ASSUME NEW t \in Threads, NEW n \in 1 .. said[t]
               PROVE  On(Written, t, n)
    BY <1>1 DEF NothingIsLost, On
  <2>1. On(file, t, n) \/ On(log, t, n)  BY DEF Messaged, NothingIsLost
  <2> QED  BY <2>1, OnWritten
<1>4. Said(Written)' /\ InOrder(Written)'
  BY <1>2 DEF Messaged, Said, InOrder
<1> QED  BY <1>3, <1>4 DEF Messaged

\* A message is logged: it is the last of its author.
LEMMA LogStep ==
  ASSUME TypeOK, Sound, Messaged, NEW t \in Threads, LogMessage(t)
  PROVE  Messaged'
<1>1. PICK m : m = [by |-> t, nth |-> said[t] + 1]  OBVIOUS
<1>2. /\ m \in Message
      /\ \/ file' = file /\ log' = Append(log, m)
         \/ file' = Append(Written, m) /\ log' = <<>>
  BY <1>1, LogMessageWrites
<1>3. /\ said[t] \in Nat
      /\ pc[t] = "log" /\ pc' = [pc EXCEPT ![t] = "checkFlush"]
      /\ said' = [said EXCEPT ![t] = @ + 1]
  BY DEF LogMessage, Goto, TypeOK
<1>4. /\ file \in Seq(Message) /\ log \in Seq(Message)
      /\ Written \in Seq(Message) /\ Append(Written, m) \in Seq(Message)
  BY <1>2, ConcatProperties, AppendProperties DEF TypeOK, Written
<1>5. Written' = Append(Written, m)
  <2>1. CASE file' = file /\ log' = Append(log, m)
    <3>1. file \o Append(log, m) = Append(file \o log, m)
      BY <1>2, <1>4
    <3> QED  BY <2>1, <3>1 DEF Written
  <2>2. CASE file' = Append(Written, m) /\ log' = <<>>
    <3>1. Append(Written, m) \o <<>> = Append(Written, m)  BY <1>4, ConcatEmptySeq
    <3> QED  BY <2>2, <3>1 DEF Written
  <2> QED  BY <1>2, <2>1, <2>2
<1>6. \A i \in DOMAIN Written : Written[i] \in Message /\ Written[i].nth <= said[Written[i].by]
  BY <1>4 DEF Messaged, Said
<1>7. InOrder(Append(Written, m))
  <2>1. ASSUME NEW i \in DOMAIN Written, Written[i].by = m.by
        PROVE  Written[i].nth < m.nth
    <3>1. Written[i].nth \in Nat /\ Written[i].nth <= said[t]  BY <1>1, <1>6, <2>1 DEF Message
    <3> QED  BY <1>1, <1>3, <3>1
  <2> QED  BY <1>2, <1>4, <2>1, InOrderAppend DEF Messaged
<1>8. Said(Written)'
  <2> SUFFICES ASSUME NEW i \in DOMAIN Append(Written, m)
               PROVE  Append(Written, m)[i].nth <= said'[Append(Written, m)[i].by]
    BY <1>5 DEF Said
  <2>1. CASE i \in DOMAIN Written
    <3>1. Append(Written, m)[i] = Written[i]  BY <1>2, <1>4, <2>1
    <3>2. Written[i] \in Message /\ Written[i].nth <= said[Written[i].by]  BY <1>6, <2>1
    <3>3. said[Written[i].by] <= said'[Written[i].by] /\ said[Written[i].by] \in Nat
          /\ said'[Written[i].by] \in Nat /\ Written[i].nth \in Nat
      BY <1>3, <3>2 DEF TypeOK, Message
    <3> QED  BY <3>1, <3>2, <3>3
  <2>2. CASE i = Len(Written) + 1
    <3>1. Append(Written, m)[i] = m  BY <1>2, <1>4, <2>2
    <3>2. said'[t] = said[t] + 1  BY <1>3 DEF TypeOK
    <3> QED  BY <1>1, <1>3, <3>1, <3>2
  <2> QED  BY <1>2, <1>4, <2>1, <2>2
<1>9. NothingIsLost'
  <2> SUFFICES ASSUME NEW u \in Threads, NEW n \in 1 .. said'[u]
               PROVE  On(file', u, n)
                      \/ (pc'[u] \in {"checkFlush", "flush"} /\ On(log', u, n))
    BY DEF NothingIsLost, On
  <2>1. CASE u = t /\ n = said[t] + 1
    <3>1. pc'[t] = "checkFlush"  BY <1>3 DEF TypeOK
    <3>2. m = [by |-> u, nth |-> n]  BY <1>1, <2>1
    <3>3. On(Append(log, m), u, n) /\ On(Append(Written, m), u, n)
      BY <1>2, <1>4, <3>2, OnAppend
    <3>4. CASE file' = file /\ log' = Append(log, m)  BY <2>1, <3>1, <3>3, <3>4
    <3>5. CASE file' = Append(Written, m)  BY <3>3, <3>5
    <3> QED  BY <1>2, <3>4, <3>5
  <2>2. CASE ~ (u = t /\ n = said[t] + 1)
    <3>1. n \in 1 .. said[u]  BY <1>3, <2>2 DEF TypeOK
    <3>2. On(file, u, n) \/ (pc[u] \in {"checkFlush", "flush"} /\ On(log, u, n))
      BY <3>1 DEF Messaged, NothingIsLost
    <3>3. pc[u] \in {"checkFlush", "flush"} => pc'[u] \in {"checkFlush", "flush"}
      BY <1>3 DEF TypeOK
    <3>4. On(Written, u, n)  BY <3>2, OnWritten
    <3>5. On(Append(Written, m), u, n) /\ (On(log, u, n) => On(Append(log, m), u, n))
      BY <1>2, <1>4, <3>4, OnAppend
    <3>6. CASE file' = file /\ log' = Append(log, m)  BY <3>2, <3>3, <3>5, <3>6
    <3>7. CASE file' = Append(Written, m)  BY <3>5, <3>7
    <3> QED  BY <1>2, <3>6, <3>7
  <2> QED  BY <2>1, <2>2
<1> QED  BY <1>5, <1>7, <1>8, <1>9 DEF Messaged

LEMMA MessagedKept ==
  ASSUME TypeOK, Life, Sound, Messaged, Next
  PROVE  Messaged'
<1>1. CASE DeleteLogger  BY <1>1, FlushStep DEF DeleteLogger, calls
<1>2. ASSUME NEW t \in Threads, LogMessage(t) PROVE Messaged'
  BY <1>2, LogStep
<1>3. ASSUME NEW t \in Threads, Flush(t) PROVE Messaged'
  BY <1>3, FlushStep DEF Flush
<1>4. ASSUME NEW t \in Threads, CheckFlush(t) PROVE Messaged'
  <2>1. UNCHANGED <<log, file, said>>  BY <1>4 DEF CheckFlush, buffer
  <2>2. CASE logger  BY <1>4, <2>1, <2>2, SilentStep DEF CheckFlush, TypeOK
  <2>3. CASE ~logger
    <3>1. phase \in Before
      BY <1>4, <2>3 DEF CheckFlush, Alive, Life, LoggerFollowsPhase, Serving, Before, TypeOK
    <3>2. \A u \in Threads : said[u] = 0  BY <3>1 DEF Life, QuietBefore
    <3> QED  BY <2>1, <3>2, SilentStep
  <2> QED  BY <2>2, <2>3
<1>5. ASSUME UNCHANGED <<log, file, said, pc>> PROVE Messaged'
  BY <1>5, SilentStep
<1>6. ASSUME NEW t \in Threads, NEW place, UNCHANGED <<log, file, said>>,
             pc[t] \in {"idle", "check"}, pc' = [pc EXCEPT ![t] = place]
      PROVE  Messaged'
  BY <1>6, SilentStep DEF TypeOK
<1>7. CASE MainLogs
  BY <1>6, <1>7 DEF MainLogs, Enter, Goto, buffer, Threads
<1>8. ASSUME NEW w \in Workers, WorkerLogs(w) \/ WorkerReturns(w) PROVE Messaged'
  BY <1>6, <1>8 DEF WorkerLogs, WorkerReturns, Enter, Goto, buffer, Threads
<1>9. CASE Signal \/ SignalHandled
  BY <1>6, <1>9 DEF Signal, SignalHandled, Enter, Goto, buffer, Threads
<1>10. ASSUME NEW t \in Threads, CheckLog(t) PROVE Messaged'
  BY <1>6, <1>10 DEF CheckLog, Goto, buffer
<1>11. CASE CreateLogger \/ OpenFile \/ GiveUp \/ Stop \/ DeleteQueue \/ JoinWorkers \/ Ended
  BY <1>5, <1>11 DEF CreateLogger, OpenFile, GiveUp, Stop, DeleteQueue, JoinWorkers, Ended,
                     vars, buffer, calls
<1>12. ASSUME NEW t \in Threads, Crash(t) PROVE Messaged'
  BY <1>5, <1>12 DEF Crash, buffer, calls
<1> QED
  BY <1>1, <1>2, <1>3, <1>4, <1>7, <1>8, <1>9, <1>10, <1>11, <1>12 DEF Next, LOG

-----------------------------------------------------------------------------
(* The theorems.                                                           *)

LEMMA NextKeepsInv == IInv /\ [Next]_vars => IInv'
<1> SUFFICES ASSUME IInv, [Next]_vars PROVE IInv'  OBVIOUS
<1>1. CASE Next
  BY <1>1, TypeKept, LifeKept, SoundKept, MessagedKept DEF IInv, Life
<1>2. CASE UNCHANGED vars
  <2>1. TypeOK'  BY <1>2 DEF IInv, TypeOK, vars, buffer, calls
  <2>2. Life'
    BY <1>2 DEF IInv, Life, LoggerFollowsPhase, QuietBefore, UnseenAtBoot, FlushesDue,
                HandlerIsDone, WorkersAreDone, MainIsDone, LoggerIsThere, AllReturned,
                vars, buffer, calls
  <2>3. Sound'  BY <1>2 DEF IInv, Sound, Counted, BufferFits, vars, buffer
  <2>4. Messaged'  BY <1>2, SilentStep DEF IInv, vars, buffer, calls
  <2> QED  BY <2>1, <2>2, <2>3, <2>4 DEF IInv
<1> QED  BY <1>1, <1>2

LEMMA Invariance == Spec => []IInv
BY InitInv, NextKeepsInv, PTL DEF Spec

\* What the invariant says of the file alone.
LEMMA FileInOrder == IInv => LoggedIsOnFile
<1> SUFFICES ASSUME IInv PROVE LoggedIsOnFile  OBVIOUS
<1>1. ASSUME NEW t \in Threads, pc[t] \in {"idle", "returned"}, NEW n \in 1 .. said[t]
      PROVE  On(file, t, n)
  BY <1>1 DEF IInv, Messaged, NothingIsLost
<1>2. InOrder(file)  BY InOrderFirst DEF IInv, Messaged, Written, TypeOK
<1> QED  BY <1>1, <1>2 DEF LoggedIsOnFile, On, InOrder

\* The state has its type, whatever the sizes, threads and messages.
THEOREM TypeCorrectness == Spec => []TypeOK
<1>1. IInv => TypeOK  BY DEF IInv
<1> QED  BY <1>1, Invariance, PTL

\* The buffer of the log is never overrun (logger.c: Logger_log, Logger_flush),
\* for any sizes, and any growth that does not shrink.
THEOREM NoOverrun == Spec => []BufferFits
<1>1. IInv => BufferFits  BY DEF IInv, Sound
<1> QED  BY <1>1, Invariance, PTL

\* No thread meets a logger that is not there under the mutex, but for the
\* handler of a signal when the file of the log cannot be opened.
THEOREM LoggerOutlivesItsUsers == Spec => []LoggerIsThere
<1>1. IInv => LoggerIsThere  BY DEF IInv, Life
<1> QED  BY <1>1, Invariance, PTL

\* What a thread has logged is on the file when LOG returns, in the order in
\* which it was logged, and once (server.c: LOG).
THEOREM WhatIsLoggedStays == Spec => []LoggedIsOnFile
BY FileInOrder, Invariance, PTL
=============================================================================
