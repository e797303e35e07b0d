---------------------------- MODULE Server_proofs ----------------------------
(***************************************************************************)
(* Proofs about Server, for any number of workers, descriptors, clients    *)
(* and files: a connection is in one place at a time, a closed descriptor  *)
(* is left nowhere, select is told of everybody, the clients are counted   *)
(* right and answered once, the locks are those of LockQueues; and, when   *)
(* no client goes away while it waits, none is lost and a soft shutdown    *)
(* waits for all of them.                                                  *)
(***************************************************************************)
EXTENDS Server, LineLemmas

-----------------------------------------------------------------------------
(* The inductive invariant.                                                *)

\* What goes from one place to another: the connections, and the listening
\* socket when main takes it for one of them.
Conns == Clients \cup {Listener}

\* The connection c is in the place p of o, if the place is somebody's.
In(c, p, o) ==
  \/ p = "set"     /\ o = NoFd       /\ c \in set
  \/ p = "queue"   /\ o = NoFd       /\ c \in ToSet(queue)
  \/ p = "pipe"    /\ o = NoFd       /\ c \in ToSet(pipe)
  \/ p = "line"    /\ o \in Files    /\ c \in ToSet(line[o])
  \/ p = "fd"      /\ o \in Workers  /\ c = fd[o]
  \/ p = "notify"  /\ o \in Workers  /\ c \in ToSet(notify[o])
  \/ p = "leaving" /\ o \in Workers  /\ c \in ToSet(leaving[o])

Somewhere(c) == \E p, o : In(c, p, o)

\* No two places have the same connection.
OnePlace == \A c \in Conns : \A p, q, o, u : In(c, p, o) /\ In(c, q, u) => p = q /\ o = u

\* No sequence has it twice.
OnceInPipe(s) == \A i, j \in DOMAIN s : s[i] = s[j] /\ s[i] # Disconnect => i = j

InOrder ==
  /\ queue \in Line(Conns)
  /\ OnceInPipe(pipe)
  /\ \A f \in Files : line[f] \in Line(Clients)
  /\ \A w \in Workers : notify[w] \in Line(Clients) /\ leaving[w] \in Line(Conns)

\* What a worker has in its hands in each place; the listening socket is closed
\* alone, because nobody waits for a lock of it.
WorkerFits(w) ==
  /\ pc[w] \in {"dequeue", "returned"} => fd[w] = NoFd /\ leaving[w] = <<>>
  /\ pc[w] = "read" => fd[w] \in Conns /\ leaving[w] = <<>>
  /\ pc[w] = "answer" => fd[w] \in Clients /\ leaving[w] = <<>>
  /\ pc[w] = "notify" =>
       fd[w] \in Clients \cup {NoFd} /\ (fd[w] = NoFd => leaving[w] # <<>>)
  /\ pc[w] = "close" => fd[w] \in Clients \cup {NoFd} /\ leaving[w] # <<>>
  /\ pc[w] \notin {"answer", "notify"} => notify[w] = <<>>
  /\ Listener \in ToSet(leaving[w]) =>
       leaving[w] = <<Listener>> /\ notify[w] = <<>> /\ fd[w] = NoFd

WorkersFit == \A w \in Workers : WorkerFits(w)

\* A closed connection is nowhere, and it has lost its locks before.
NothingLeft ==
  /\ \A c \in Clients : client[c] = "none" => ~ Somewhere(c) /\ Held(c) = {}
  /\ \A c \in Clients, w \in Workers : c \in ToSet(leaving[w]) => Held(c) = {}

Shape == OnePlace /\ InOrder /\ WorkersFit /\ NothingLeft

IInv == TypeOK /\ Shape /\ EverybodyIsHeard /\ CountIsRight

-----------------------------------------------------------------------------
(* Descriptors and the pipe.                                               *)

LEMMA Descriptors ==
  /\ Clients \subseteq Nat /\ IsFiniteSet(Clients)
  /\ Conns \subseteq 1 .. MaxFd /\ Clients \subseteq Conns /\ Listener \in Conns
  /\ Listener \notin Clients /\ WorkersPipe \notin Conns
  /\ NoFd \notin Conns /\ Disconnect \notin Conns /\ NoFd \notin 1 .. MaxFd
  /\ Disconnect # NoFd
  /\ MaxFd \in Nat /\ Listener \in Nat /\ WorkersPipe \in Nat
  /\ 1 .. MaxFd \subseteq 0 .. MaxFd /\ NoFd \in 0 .. MaxFd
  /\ {WorkersPipe, Listener} \subseteq 1 .. MaxFd /\ WorkersPipe < Listener
<1>1. IsFiniteSet(3 .. MaxFd)
  BY MaxFdAssumption, FS_Interval
<1> QED
  BY <1>1, MaxFdAssumption DEF Clients, Conns, Listener, WorkersPipe, NoFd, Disconnect

\* The entries of the pipe that tell main of a lost client.
Byes(s) == {i \in DOMAIN s : s[i] = Disconnect}

LEMMA IntoPipe ==
  ASSUME NEW T, NEW s \in Seq(T), OnceInPipe(s), NEW x \in T,
         x = Disconnect \/ x \notin ToSet(s)
  PROVE  /\ Append(s, x) \in Seq(T) /\ OnceInPipe(Append(s, x))
         /\ ToSet(Append(s, x)) = ToSet(s) \cup {x}
         /\ Byes(Append(s, x)) = IF x = Disconnect THEN Byes(s) \cup {Len(s) + 1}
                                 ELSE Byes(s)
         /\ Len(s) + 1 \notin Byes(s) /\ IsFiniteSet(Byes(s))
<1> DEFINE a == Append(s, x)
           n == Len(s)
<1>1. n \in Nat /\ DOMAIN s = 1 .. n
  BY LenProperties
<1>2. /\ a \in Seq(T) /\ Len(a) = n + 1 /\ a[n + 1] = x
      /\ \A i \in 1 .. n : a[i] = s[i]
  BY AppendProperties
<1>3. DOMAIN a = 1 .. n + 1
  BY <1>1, <1>2, LenProperties
<1> HIDE DEF a, n
<1>4. OnceInPipe(a)
  <2>1. ASSUME NEW i \in 1 .. n + 1, NEW j \in 1 .. n + 1, a[i] = a[j], a[i] # Disconnect
        PROVE  i = j
    <3>1. i = n + 1 \/ (i \in 1 .. n /\ s[i] \in ToSet(s))
      <4>1. i = n + 1 \/ i \in 1 .. n
        BY <1>1
      <4> QED
        BY <1>1, <4>1 DEF ToSet
    <3>2. j = n + 1 \/ (j \in 1 .. n /\ s[j] \in ToSet(s))
      <4>1. j = n + 1 \/ j \in 1 .. n
        BY <1>1
      <4> QED
        BY <1>1, <4>1 DEF ToSet
    <3> QED
      BY <1>1, <1>2, <2>1, <3>1, <3>2 DEF OnceInPipe
  <2> QED
    BY <1>3, <2>1 DEF OnceInPipe
<1>5. ToSet(a) = ToSet(s) \cup {x}
  BY <1>1, <1>2, <1>3 DEF ToSet
<1>6. Byes(a) = IF x = Disconnect THEN Byes(s) \cup {n + 1} ELSE Byes(s)
  BY <1>1, <1>2, <1>3 DEF Byes
<1>7. n + 1 \notin Byes(s) /\ IsFiniteSet(Byes(s))
  <2>1. IsFiniteSet(1 .. n) /\ Byes(s) \subseteq 1 .. n
    BY <1>1, FS_Interval DEF Byes
  <2> QED
    BY <1>1, <2>1, FS_Subset
<1> QED
  BY <1>2, <1>4, <1>5, <1>6, <1>7 DEF a, n

LEMMA OutOfPipe ==
  ASSUME NEW T, NEW s \in Seq(T), OnceInPipe(s), s # <<>>
  PROVE  /\ Head(s) \in T /\ Head(s) \in ToSet(s)
         /\ Tail(s) \in Seq(T) /\ OnceInPipe(Tail(s))
         /\ \A x : x # Disconnect => (x \in ToSet(Tail(s)) <=> x \in ToSet(s) /\ x # Head(s))
         /\ IsFiniteSet(Byes(s)) /\ IsFiniteSet(Byes(Tail(s)))
         /\ Cardinality(Byes(s)) =
              Cardinality(Byes(Tail(s))) + (IF Head(s) = Disconnect THEN 1 ELSE 0)
<1> DEFINE t == Tail(s)
           n == Len(s)
<1>1. n \in Nat \ {0} /\ DOMAIN s = 1 .. n
  BY LenProperties, EmptySeq
<1>2. /\ t \in Seq(T) /\ Len(t) = n - 1 /\ Head(s) = s[1] /\ Head(s) \in T
      /\ \A i \in 1 .. n - 1 : t[i] = s[i + 1]
  BY HeadTailProperties
<1>3. DOMAIN t = 1 .. n - 1
  BY <1>2, LenProperties
<1> HIDE DEF t, n
<1>4. Head(s) \in ToSet(s)
  BY <1>1, <1>2 DEF ToSet
<1>5. OnceInPipe(t)
  <2>1. ASSUME NEW i \in 1 .. n - 1, NEW j \in 1 .. n - 1, t[i] = t[j], t[i] # Disconnect
        PROVE  i = j
    <3>1. /\ i + 1 \in 1 .. n /\ j + 1 \in 1 .. n
          /\ s[i + 1] = s[j + 1] /\ s[i + 1] # Disconnect
      BY <1>1, <1>2, <2>1
    <3>2. i + 1 = j + 1
      BY <1>1, <3>1 DEF OnceInPipe
    <3> QED
      BY <3>2
  <2> QED
    BY <1>3, <2>1 DEF OnceInPipe
<1>6. ASSUME NEW x, x # Disconnect
      PROVE  x \in ToSet(t) <=> x \in ToSet(s) /\ x # Head(s)
  <2>1. ASSUME NEW i \in 1 .. n - 1, x = t[i]
        PROVE  x \in ToSet(s) /\ x # Head(s)
    <3>1. i + 1 \in 1 .. n /\ x = s[i + 1] /\ i + 1 # 1
      BY <1>1, <1>2, <2>1
    <3> QED
      BY <1>1, <1>2, <1>6, <3>1 DEF OnceInPipe, ToSet
  <2>2. ASSUME NEW i \in 1 .. n, x = s[i], x # Head(s)
        PROVE  x \in ToSet(t)
    <3>1. i - 1 \in 1 .. n - 1 /\ (i - 1) + 1 = i
      BY <1>1, <1>2, <2>2
    <3>2. t[i - 1] = x
      BY <1>2, <2>2, <3>1
    <3> QED
      BY <1>3, <3>1, <3>2 DEF ToSet
  <2> QED
    BY <1>1, <1>3, <2>1, <2>2 DEF ToSet
<1> DEFINE B == Byes(s)
           C == Byes(t)
           D == B \ {1}
           shift == [i \in C |-> i + 1]
<1>7. IsFiniteSet(B) /\ IsFiniteSet(C)
  <2>1. IsFiniteSet(1 .. n) /\ B \subseteq 1 .. n /\ C \subseteq 1 .. n
    BY <1>1, <1>3, FS_Interval DEF Byes
  <2> QED
    BY <2>1, FS_Subset
<1>8. Cardinality(C) = Cardinality(D)
  <2>1. \A i \in C : i \in 1 .. n - 1 /\ t[i] = Disconnect
    BY <1>3 DEF Byes
  <2>2. \A i \in C : i + 1 \in D
    BY <1>1, <1>2, <2>1 DEF Byes
  <2>3. \A i, j \in C : i + 1 = j + 1 => i = j
    BY <2>1
  <2>4. ASSUME NEW k \in D
        PROVE  \E i \in C : k = i + 1
    <3>1. k \in 1 .. n /\ k # 1 /\ s[k] = Disconnect
      BY <1>1 DEF Byes
    <3>2. k - 1 \in 1 .. n - 1 /\ (k - 1) + 1 = k
      BY <1>1, <3>1
    <3>3. t[k - 1] = Disconnect
      BY <1>2, <3>1, <3>2
    <3>4. k - 1 \in C
      BY <1>3, <3>2, <3>3 DEF Byes
    <3> QED
      BY <3>2, <3>4
  <2> HIDE DEF C, D
  <2>5. shift \in Bijection(C, D)
    BY <2>2, <2>3, <2>4 DEF Bijection, Injection, Surjection, IsInjective
  <2> HIDE DEF shift
  <2>6. ExistsBijection(C, D)
    BY <2>5 DEF ExistsBijection
  <2> QED
    BY <1>7, <2>6, FS_Bijection DEF C
<1>9. 1 \in B <=> Head(s) = Disconnect
  BY <1>1, <1>2 DEF Byes
<1>10. Cardinality(B) = Cardinality(C) + (IF Head(s) = Disconnect THEN 1 ELSE 0)
  <2>1. /\ Cardinality(D) = IF 1 \in B THEN Cardinality(B) - 1 ELSE Cardinality(B)
        /\ Cardinality(B) \in Nat
    BY <1>7, FS_RemoveElement, FS_CardinalityType
  <2> QED
    BY <1>8, <1>9, <2>1
<1> QED
  BY <1>2, <1>4, <1>5, <1>6, <1>7, <1>10 DEF t, n

-----------------------------------------------------------------------------
(* What the steps move from one place to another.                          *)

Stays(c)      == \A p, o : In(c, p, o)' <=> In(c, p, o)
Goes(c, q, u) == \A p, o : In(c, p, o)' <=> (p = q /\ o = u)
Vanishes(c)   == \A p, o : ~ In(c, p, o)'

\* Nothing else has what one place has.
LEMMA Nowhere ==
  ASSUME OnePlace, NEW c \in Conns, NEW q, NEW u, In(c, q, u)
  PROVE  \A p, o : In(c, p, o) => p = q /\ o = u
BY DEF OnePlace

\* A connection that leaves its place, if it has one, and goes nowhere but to
\* another, is in that one only.
LEMMA GoesThere ==
  ASSUME NEW c, NEW p0, NEW o0, NEW q, NEW u,
         \A p, o : In(c, p, o) => p = p0 /\ o = o0,
         \A p, o : In(c, p, o)' => In(c, p, o) \/ (p = q /\ o = u),
         In(c, p0, o0)' => (p0 = q /\ o0 = u),
         In(c, q, u)'
  PROVE  Goes(c, q, u)
BY DEF Goes

\* The place of a connection is where the types let it be.
LEMMA ElementsAreConns ==
  ASSUME TypeOK, InOrder
  PROVE  /\ ToSet(queue) \subseteq Conns
         /\ pipe \in Seq(Clients \cup {Disconnect})
         /\ \A f \in Files : ToSet(line[f]) \subseteq Clients
         /\ \A w \in Workers : ToSet(notify[w]) \subseteq Clients /\ ToSet(leaving[w]) \subseteq Conns
         /\ Listener \notin ToSet(pipe)
<1>1. Listener \notin ToSet(pipe)
  <2>1. \A x \in ToSet(pipe) : x \in Clients \cup {Disconnect}
    BY LenProperties DEF TypeOK, ToSet
  <2> QED
    BY <2>1, Descriptors
<1> QED
  BY <1>1, ElementsOfLine DEF InOrder, TypeOK

LEMMA AcceptMoves ==
  ASSUME IInv, Accept
  PROVE  \E new \in Clients :
           /\ client[new] = "none" /\ client' = [client EXCEPT ![new] = "quiet"]
           /\ set' = set \cup {new} /\ fd_num' = IF fd_num <= new THEN new ELSE fd_num
           /\ Goes(new, "set", NoFd)
           /\ \A c \in Conns \ {new} : Stays(c)
<1> DEFINE unused == {c \in Clients : client[c] = "none"}
<1>1. PICK new \in unused : new = Min(unused)
  <2>1. unused \subseteq Nat /\ unused # {}
    BY Descriptors DEF Accept
  <2> HIDE DEF unused
  <2> QED
    BY <2>1, LeastOfNaturals
<1>2. /\ client' = [client EXCEPT ![new] = "quiet"] /\ set' = set \cup {new}
      /\ fd_num' = Max({fd_num, new})
      /\ UNCHANGED <<queue, pipe, line, fd, notify, leaving>>
  BY <1>1 DEF Accept, lockVars, workerVars
<1>3. new \in Clients /\ client[new] = "none"
  BY <1>1
<1>4. ~ Somewhere(new)
  BY <1>3 DEF IInv, Shape, NothingLeft
<1>5. Goes(new, "set", NoFd)
  <2>1. \A p, o : In(new, p, o) => p = "set" /\ o = NoFd
    BY <1>4 DEF Somewhere
  <2>2. \A p, o : In(new, p, o)' => In(new, p, o) \/ (p = "set" /\ o = NoFd)
    BY <1>2 DEF In
  <2>3. In(new, "set", NoFd)'
    BY <1>2 DEF In
  <2> QED
    BY <2>1, <2>2, <2>3, GoesThere
<1>6. \A c \in Conns \ {new} : Stays(c)
  BY <1>2 DEF Stays, In
<1>7. fd_num' = IF fd_num <= new THEN new ELSE fd_num
  <2>1. fd_num \in Int /\ new \in Int
    BY <1>3, Descriptors DEF IInv, TypeOK
  <2> QED
    BY <1>2, <2>1, GreatestOfTwo
<1> QED
  BY <1>2, <1>3, <1>5, <1>6, <1>7

LEMMA DispatchMoves ==
  ASSUME IInv, NEW d \in set, Dispatch(d)
  PROVE  /\ d \in Conns /\ Goes(d, "queue", NoFd) /\ \A c \in Conns \ {d} : Stays(c)
         /\ queue' \in Line(Conns)
<1>1. d \in Conns
  BY DEF Dispatch, HasInput, Conns
<1>2. /\ set' = set \ {d} /\ queue' = Append(queue, d)
      /\ UNCHANGED <<pipe, line, fd, notify, leaving>>
  BY DEF Dispatch, lockVars, workerVars
<1>3. queue \in Line(Conns) /\ OnePlace
  BY DEF IInv, Shape, InOrder
<1>4. In(d, "set", NoFd)
  BY DEF In
<1>5. \A p, o : In(d, p, o) => p = "set" /\ o = NoFd
  BY <1>1, <1>3, <1>4, Nowhere
<1>6. d \notin ToSet(queue)
  BY <1>5 DEF In
<1>7. queue' \in Line(Conns) /\ ToSet(queue') = ToSet(queue) \cup {d}
  <2>1. ~ Contains(queue, d)
    BY <1>3, <1>6, ElementsOfLine DEF Contains
  <2> QED
    BY <1>1, <1>2, <1>3, <2>1, AppendToLine
<1>8. Goes(d, "queue", NoFd)
  BY <1>2, <1>5, <1>7 DEF Goes, In
<1>9. \A c \in Conns \ {d} : Stays(c)
  BY <1>2, <1>7 DEF Stays, In
<1> QED
  BY <1>1, <1>7, <1>8, <1>9

LEMMA ReadPipeMoves ==
  ASSUME IInv, ReadPipe
  PROVE  /\ pipe' \in Seq(Clients \cup {Disconnect}) /\ OnceInPipe(pipe')
         /\ Head(pipe) = Disconnect => \A c \in Conns : Stays(c)
         /\ Head(pipe) # Disconnect =>
              \E h \in Clients :
                /\ h = Head(pipe) /\ In(h, "pipe", NoFd) /\ Goes(h, "set", NoFd)
                /\ \A c \in Conns \ {h} : Stays(c)
         /\ IsFiniteSet(Byes(pipe)) /\ IsFiniteSet(Byes(pipe'))
         /\ Cardinality(Byes(pipe)) =
              Cardinality(Byes(pipe')) + (IF Head(pipe) = Disconnect THEN 1 ELSE 0)
<1>0. PICK h : h = Head(pipe)
  OBVIOUS
<1>1. pipe \in Seq(Clients \cup {Disconnect}) /\ OnceInPipe(pipe) /\ pipe # <<>> /\ OnePlace
  BY DEF ReadPipe, IInv, Shape, InOrder, TypeOK
<1>2. /\ pipe' = Tail(pipe)
      /\ set' = (IF h = Disconnect THEN set ELSE set \cup {h})
      /\ UNCHANGED <<queue, line, fd, notify, leaving>>
  BY <1>0 DEF ReadPipe, lockVars, workerVars
<1>3. /\ h \in Clients \cup {Disconnect} /\ h \in ToSet(pipe)
      /\ pipe' \in Seq(Clients \cup {Disconnect}) /\ OnceInPipe(pipe')
      /\ \A x : x # Disconnect => (x \in ToSet(pipe') <=> x \in ToSet(pipe) /\ x # h)
      /\ IsFiniteSet(Byes(pipe)) /\ IsFiniteSet(Byes(pipe'))
      /\ Cardinality(Byes(pipe)) = Cardinality(Byes(pipe')) + (IF h = Disconnect THEN 1 ELSE 0)
  BY <1>0, <1>1, <1>2, OutOfPipe
<1>4. \A c \in Conns \ {h} : Stays(c)
  BY <1>2, <1>3, Descriptors DEF Stays, In
<1>5. ASSUME h # Disconnect
      PROVE  h \in Clients /\ In(h, "pipe", NoFd) /\ Goes(h, "set", NoFd)
  <2>1. h \in Clients /\ h \in Conns /\ In(h, "pipe", NoFd)
    BY <1>3, <1>5, Descriptors DEF In
  <2>2. \A p, o : In(h, p, o) => p = "pipe" /\ o = NoFd
    BY <1>1, <2>1, Nowhere
  <2>3. Goes(h, "set", NoFd)
    <3>1. \A p, o : In(h, p, o)' => In(h, p, o) \/ (p = "set" /\ o = NoFd)
      BY <1>2, <1>3, <1>5 DEF In
    <3>2. In(h, "set", NoFd)' /\ ~ In(h, "pipe", NoFd)'
      BY <1>2, <1>3, <1>5 DEF In
    <3> QED
      BY <2>2, <3>1, <3>2, GoesThere
  <2> QED
    BY <2>1, <2>3
<1> QED
  BY <1>0, <1>3, <1>4, <1>5, Descriptors

LEMMA TakeMoves ==
  ASSUME IInv, NEW w \in Workers, Take(w)
  PROVE  /\ \E h \in Conns :
              /\ h = Head(queue) /\ In(h, "queue", NoFd) /\ Goes(h, "fd", w)
              /\ \A c \in Conns \ {h} : Stays(c)
         /\ queue' \in Line(Conns)
<1>0. PICK h : h = Head(queue)
  OBVIOUS
<1>1. queue \in Line(Conns) /\ queue # <<>> /\ OnePlace
  BY DEF Take, IInv, Shape, InOrder
<1>2. h \in Conns /\ h \in ToSet(queue)
      /\ Tail(queue) \in Line(Conns) /\ ToSet(Tail(queue)) = ToSet(queue) \ {h}
  BY <1>0, <1>1, TailOfLine
<1>3. /\ queue' = Tail(queue) /\ fd' = [fd EXCEPT ![w] = h] /\ fd[w] = NoFd
      /\ UNCHANGED <<set, pipe, line, notify, leaving>>
  BY <1>0 DEF Take, Goto, mainVars, lockVars, IInv, Shape, WorkersFit, WorkerFits
<1>4. fd \in [Workers -> 0 .. MaxFd]
  BY DEF IInv, TypeOK
<1>5. In(h, "queue", NoFd)
  BY <1>2 DEF In
<1>6. \A p, o : In(h, p, o) => p = "queue" /\ o = NoFd
  BY <1>1, <1>2, <1>5, Nowhere
<1>7. Goes(h, "fd", w)
  <2>1. \A p, o : In(h, p, o)' => In(h, p, o) \/ (p = "fd" /\ o = w)
    BY <1>2, <1>3, <1>4 DEF In
  <2>2. In(h, "fd", w)' /\ ~ In(h, "queue", NoFd)'
    BY <1>2, <1>3, <1>4 DEF In
  <2> QED
    BY <1>6, <2>1, <2>2, GoesThere
<1>8. \A c \in Conns \ {h} : Stays(c)
  BY <1>2, <1>3, <1>4, Descriptors DEF Stays, In
<1> QED
  BY <1>0, <1>2, <1>3, <1>5, <1>7, <1>8

LEMMA ParkMoves ==
  ASSUME IInv, NEW w \in Workers, NEW f \in Files, Park(w, f)
  PROVE  /\ \E d \in Clients :
              /\ d = fd[w] /\ In(d, "fd", w) /\ Goes(d, "line", f)
              /\ \A c \in Conns \ {d} : Stays(c)
         /\ \A g \in Files : line'[g] \in Line(Clients)
<1>0. PICK d : d = fd[w]
  OBVIOUS
<1>1. d \in Clients /\ d \in Conns /\ OnePlace
  BY <1>0, Descriptors DEF Park, ReadRequest, IInv, Shape
<1>2. /\ line' = [line EXCEPT ![f] = Append(line[f], d)] /\ fd' = [fd EXCEPT ![w] = NoFd]
      /\ UNCHANGED <<set, queue, pipe, notify, leaving>>
  BY <1>0 DEF Park, mainVars
<1>3. fd \in [Workers -> 0 .. MaxFd] /\ DOMAIN line = Files /\ \A g \in Files : line[g] \in Line(Clients)
  BY DEF IInv, TypeOK, Shape, InOrder
<1>4. In(d, "fd", w)
  BY <1>0 DEF In
<1>5. \A p, o : In(d, p, o) => p = "fd" /\ o = w
  BY <1>1, <1>4, Nowhere
<1>6. d \notin ToSet(line[f])
  BY <1>5 DEF In
<1>7. line'[f] \in Line(Clients) /\ ToSet(line'[f]) = ToSet(line[f]) \cup {d}
  <2>1. ~ Contains(line[f], d)
    BY <1>3, <1>6, ElementsOfLine DEF Contains
  <2> QED
    BY <1>1, <1>2, <1>3, <2>1, AppendToLine
<1>8. \A g \in Files \ {f} : line'[g] = line[g]
  BY <1>2, <1>3
<1>9. Goes(d, "line", f)
  <2>1. \A p, o : In(d, p, o)' => In(d, p, o) \/ (p = "line" /\ o = f)
    BY <1>1, <1>2, <1>3, <1>7, <1>8, Descriptors DEF In
  <2>2. In(d, "line", f)' /\ ~ In(d, "fd", w)'
    BY <1>1, <1>2, <1>3, <1>7, Descriptors DEF In
  <2> QED
    BY <1>5, <2>1, <2>2, GoesThere
<1>10. \A c \in Conns \ {d} : Stays(c)
  BY <1>0, <1>2, <1>3, <1>7, <1>8, Descriptors DEF Stays, In
<1> QED
  BY <1>0, <1>1, <1>3, <1>4, <1>7, <1>8, <1>9, <1>10

-----------------------------------------------------------------------------
(* The lines and the locks.                                                *)

\* The clients in S leave the lines, in which they were.
LinesLose(S) ==
  /\ line' \in [Files -> Seq(Clients)]
  /\ \A f \in Files : line'[f] \in Line(Clients) /\ ToSet(line'[f]) = ToSet(line[f]) \ S

\* A lock that gets a new holder gets one out of its line, or the client d.
LocksGoTo(d) ==
  /\ holder' \in [Files -> Clients \cup {NoFd}]
  /\ \A f \in Files : holder'[f] \in {holder[f], NoFd, d} \cup ToSet(line[f])

\* A request that is served: the clients in `list' come out of the lines.
Serves(w, o, list) ==
  /\ Handled(w, o, list)
  /\ LinesLose(ToSet(list)) /\ LocksGoTo(fd[w])
  /\ \A x \in ToSet(list) : \E f \in Files : x \in ToSet(line[f])

LEMMA LockTypes ==
  ASSUME IInv
  PROVE  /\ line \in [Files -> Seq(Clients)] /\ holder \in [Files -> Clients \cup {NoFd}]
         /\ \A f \in Files : line[f] \in Line(Clients)
         /\ OnePlace
BY DEF IInv, TypeOK, Shape, InOrder

\* Nobody waits in two lines.
LEMMA OneLine ==
  ASSUME IInv, NEW f \in Files, NEW g \in Files, NEW x \in ToSet(line[f]), x \in ToSet(line[g])
  PROVE  f = g
<1>1. x \in Conns /\ OnePlace
  BY LockTypes, ElementsOfLine, Descriptors
<1>2. In(x, "line", f) /\ In(x, "line", g)
  BY DEF In
<1> QED
  BY <1>1, <1>2 DEF OnePlace

LEMMA NothingServed ==
  ASSUME IInv, NEW w \in Workers, fd[w] \in Clients,
         \/ UNCHANGED lockVars
         \/ \E f \in Files : Acquire(fd[w], f)
  PROVE  LinesLose(ToSet(<<>>)) /\ LocksGoTo(fd[w])
<1>1. line' = line
  BY DEF lockVars, Acquire
<1>2. LocksGoTo(fd[w])
  BY LockTypes DEF lockVars, Acquire, LocksGoTo
<1>3. ToSet(<<>>) = {}
  BY EmptyLine
<1> QED
  BY <1>1, <1>2, <1>3, LockTypes DEF LinesLose

LEMMA PassOnServes ==
  ASSUME IInv, NEW w \in Workers, NEW f \in Files, PassOn(f)
  PROVE  \E list \in Line(Clients) :
           /\ list = IF line[f] = <<>> THEN <<>> ELSE <<Head(line[f])>>
           /\ LinesLose(ToSet(list)) /\ LocksGoTo(fd[w])
           /\ ToSet(list) \subseteq ToSet(line[f])
<1>1. /\ line' = [line EXCEPT ![f] = IF line[f] = <<>> THEN <<>> ELSE Tail(line[f])]
      /\ holder' = [holder EXCEPT ![f] = IF line[f] = <<>> THEN NoFd ELSE Head(line[f])]
  BY LockTypes DEF PassOn, TailOrEmpty, HeadOrNoFd
<1>2. CASE line[f] = <<>>
  <2>1. line' = line
    BY <1>1, <1>2, LockTypes
  <2>2. <<>> \in Line(Clients) /\ ToSet(<<>>) = {}
    BY EmptyLine
  <2>3. LocksGoTo(fd[w])
    BY <1>1, <1>2, LockTypes DEF LocksGoTo
  <2> QED
    BY <1>2, <2>1, <2>2, <2>3, LockTypes DEF LinesLose
<1>3. CASE line[f] # <<>>
  <2>1. PICK h : h = Head(line[f])
    OBVIOUS
  <2>2. /\ h \in Clients /\ h \in ToSet(line[f])
        /\ Tail(line[f]) \in Line(Clients)
        /\ ToSet(Tail(line[f])) = ToSet(line[f]) \ {h}
    BY <1>3, <2>1, LockTypes, TailOfLine
  <2>3. <<h>> \in Line(Clients) /\ ToSet(<<h>>) = {h}
    BY <2>2, LineOfOne
  <2>4. line'[f] = Tail(line[f]) /\ \A g \in Files \ {f} : line'[g] = line[g]
    BY <1>1, <1>3, LockTypes
  <2>5. \A g \in Files \ {f} : h \notin ToSet(line[g])
    BY <2>2, OneLine
  <2>6. \A g \in Files : line'[g] \in Line(Clients) /\ ToSet(line'[g]) = ToSet(line[g]) \ {h}
    BY <2>2, <2>4, <2>5, LockTypes
  <2>7. line' \in [Files -> Seq(Clients)]
    BY <1>1, <1>3, <2>2, LockTypes DEF Line
  <2>8. LocksGoTo(fd[w])
    BY <1>1, <1>3, <2>1, <2>2, LockTypes DEF LocksGoTo
  <2> QED
    BY <1>3, <2>1, <2>2, <2>3, <2>6, <2>7, <2>8 DEF LinesLose
<1> QED
  BY <1>2, <1>3

\* Files that go take their lines with them.
LEMMA DropServes ==
  ASSUME IInv, NEW w \in Workers, NEW gone \in SUBSET Files, Drop(gone),
         NEW list \in Line(Clients),
         \A x : x \in ToSet(list) <=> \E f \in gone : x \in ToSet(line[f])
  PROVE  LinesLose(ToSet(list)) /\ LocksGoTo(fd[w])
<1>1. /\ holder' = [f \in Files |-> IF f \in gone THEN NoFd ELSE holder[f]]
      /\ line' = [f \in Files |-> IF f \in gone THEN <<>> ELSE line[f]]
  BY DEF Drop
<1>2. <<>> \in Line(Clients) /\ ToSet(<<>>) = {} /\ <<>> \in Seq(Clients)
  BY EmptyLine
<1>3. LocksGoTo(fd[w])
  BY <1>1, LockTypes DEF LocksGoTo
<1>4. ASSUME NEW f \in Files
      PROVE  line'[f] \in Line(Clients) /\ ToSet(line'[f]) = ToSet(line[f]) \ ToSet(list)
  <2>1. CASE f \in gone
    BY <1>1, <1>2, <2>1
  <2>2. CASE f \notin gone
    <3>1. \A x \in ToSet(line[f]) : x \notin ToSet(list)
      BY <2>2, OneLine
    <3> QED
      BY <1>1, <2>2, <3>1, LockTypes
  <2> QED
    BY <2>1, <2>2
<1>5. line' \in [Files -> Seq(Clients)]
  BY <1>1, <1>2, LockTypes
<1> QED
  BY <1>3, <1>4, <1>5 DEF LinesLose

\* The lines of several files, one after the other.
LEMMA LinesOfSeveral ==
  ASSUME IInv, NEW gone \in SUBSET Files, NEW files \in SetToSeqs(gone)
  PROVE  \E list \in Line(Clients) :
           /\ list = FlattenSeq([i \in DOMAIN files |-> line[files[i]]])
           /\ \A x : x \in ToSet(list) <=> \E f \in gone : x \in ToSet(line[f])
<1>1. files \in Line(gone) /\ ToSet(files) = gone
  <2>1. IsFiniteSet(gone)
    BY FilesAssumption, FS_Subset
  <2> QED
    BY <2>1, SetInLine
<1>2. /\ Len(files) \in Nat /\ DOMAIN files = 1 .. Len(files)
      /\ \A f : f \in gone <=> \E i \in 1 .. Len(files) : files[i] = f
  BY <1>1, ElementsOfLine
<1>3. PICK n \in Nat : n = Len(files)
  BY <1>2
<1>4. PICK ss \in [1 .. n -> Line(Clients)] : ss = [i \in 1 .. n |-> line[files[i]]]
  BY <1>2, <1>3, LockTypes
<1>5. ASSUME NEW i \in 1 .. n, NEW j \in 1 .. n, i # j
      PROVE  ToSet(ss[i]) \cap ToSet(ss[j]) = {}
  <2>1. files[i] \in Files /\ files[j] \in Files /\ files[i] # files[j]
    BY <1>1, <1>2, <1>3, <1>5 DEF Line, IsInjective
  <2> QED
    BY <1>4, <2>1, OneLine
<1>6. /\ FlattenSeq(ss) \in Line(Clients)
      /\ \A x : x \in ToSet(FlattenSeq(ss)) <=> \E i \in 1 .. n : x \in ToSet(ss[i])
  BY <1>5, FlattenLines
<1>7. [i \in DOMAIN files |-> line[files[i]]] = ss
  BY <1>2, <1>3, <1>4
<1>8. \A x : (\E i \in 1 .. n : x \in ToSet(ss[i])) <=> \E f \in gone : x \in ToSet(line[f])
  BY <1>2, <1>3, <1>4
<1>9. PICK list \in Line(Clients) : list = FlattenSeq(ss)
  BY <1>6
<1> QED
  BY <1>6, <1>7, <1>8, <1>9

\* Every request is parked or served.
LEMMA Requests ==
  ASSUME IInv, NEW w \in Workers, Handle(w)
  PROVE  \/ \E f \in Files : Park(w, f)
         \/ \E o \in {"other", "appendToFile"}, list \in Line(Clients) : Serves(w, o, list)
<1>0. ASSUME NEW o, NEW list, Handled(w, o, list) PROVE fd[w] \in Clients
  BY <1>0 DEF Handled, ReadRequest
<1>1. CASE Other(w) \/ \E f \in Files : LockFile(w, f)
  <2>1. Handled(w, "other", <<>>) /\ (UNCHANGED lockVars \/ \E f \in Files : Acquire(fd[w], f))
    BY <1>1 DEF Other, LockFile
  <2>2. <<>> \in Line(Clients) /\ ToSet(<<>>) = {}
    BY EmptyLine
  <2>3. Serves(w, "other", <<>>)
    BY <1>0, <2>1, <2>2, NothingServed DEF Serves
  <2> QED
    BY <2>2, <2>3
<1>2. ASSUME NEW f \in Files, UnlockFile(w, f)
      PROVE  \E list \in Line(Clients) : Serves(w, "other", list)
  <2>1. PICK list \in Line(Clients) :
           /\ list = IF line[f] = <<>> THEN <<>> ELSE <<Head(line[f])>>
           /\ LinesLose(ToSet(list)) /\ LocksGoTo(fd[w])
           /\ ToSet(list) \subseteq ToSet(line[f])
    BY <1>2, PassOnServes DEF UnlockFile
  <2>2. Handled(w, "other", list)
    BY <1>2, <2>1 DEF UnlockFile
  <2> QED
    BY <2>1, <2>2 DEF Serves
<1>3. ASSUME NEW f \in Files, RemoveFile(w, f) \/ OpenEvicting(w, f)
      PROVE  \E list \in Line(Clients) : Serves(w, "other", list)
  <2>1. PICK list \in Line(Clients) : list = line[f]
    BY LockTypes
  <2>2. Handled(w, "other", list) /\ Drop({f})
    BY <1>3, <2>1 DEF RemoveFile, OpenEvicting
  <2>3. LinesLose(ToSet(list)) /\ LocksGoTo(fd[w])
    BY <2>1, <2>2, DropServes
  <2> QED
    BY <2>1, <2>2, <2>3 DEF Serves
<1>4. ASSUME NEW gone \in SUBSET Files, AppendEvicting(w, gone)
      PROVE  \E list \in Line(Clients) : Serves(w, "appendToFile", list)
  <2>1. PICK files \in SetToSeqs(gone) :
           /\ Drop(gone)
           /\ Handled(w, "appendToFile", FlattenSeq([i \in DOMAIN files |-> line[files[i]]]))
    BY <1>4 DEF AppendEvicting
  <2>2. PICK list \in Line(Clients) :
           /\ list = FlattenSeq([i \in DOMAIN files |-> line[files[i]]])
           /\ \A x : x \in ToSet(list) <=> \E f \in gone : x \in ToSet(line[f])
    BY LinesOfSeveral
  <2>3. Handled(w, "appendToFile", list)
    BY <2>1, <2>2
  <2>4. LinesLose(ToSet(list)) /\ LocksGoTo(fd[w])
    BY <2>1, <2>2, DropServes
  <2> QED
    BY <2>2, <2>3, <2>4 DEF Serves
<1> QED
  BY <1>1, <1>2, <1>3, <1>4 DEF Handle

\* A client that leaves the file-system takes nobody out of the lines but those
\* who get its locks, which it holds no longer.
LEMMA Evicts ==
  ASSUME IInv, NEW c \in Conns, \A f \in Files : c \notin ToSet(line[f]), EvictClient(c)
  PROVE  \E H \in SUBSET Clients :
           /\ H = Heirs(c) /\ LinesLose(H) /\ LocksGoTo(NoFd)
           /\ \A f \in Files : holder'[f] # c
           /\ \A x \in H : \E f \in Files : x \in ToSet(line[f])
           /\ c = Listener => H = {}
<1> DEFINE left == [f \in Files |-> IF f \in Held(c) THEN TailOrEmpty(line[f]) ELSE line[f]]
<1>1. /\ holder' = [f \in Files |-> IF f \in Held(c) THEN HeadOrNoFd(line[f]) ELSE holder[f]]
      /\ \A f \in Files : line'[f] = RemoveFirst(left[f], c)
      /\ DOMAIN line' = Files /\ line' = [f \in Files |-> line'[f]]
  BY DEF EvictClient
<1>2. PICK H : H = Heirs(c)
  OBVIOUS
<1>3. \A x \in H : \E f \in Files : x = Head(line[f]) /\ f \in Held(c) /\ line[f] # <<>>
  BY <1>2 DEF Heirs, Held
<1>4. \A f \in Files : line[f] # <<>> =>
        /\ Head(line[f]) \in Clients /\ Head(line[f]) \in ToSet(line[f])
        /\ Tail(line[f]) \in Line(Clients)
        /\ ToSet(Tail(line[f])) = ToSet(line[f]) \ {Head(line[f])}
  BY LockTypes, TailOfLine
<1>5. H \subseteq Clients /\ \A x \in H : \E f \in Files : x \in ToSet(line[f])
  BY <1>3, <1>4
<1>6. ASSUME NEW f \in Files
      PROVE  left[f] \in Line(Clients) /\ ToSet(left[f]) = ToSet(line[f]) \ H
  <2>1. CASE f \in Held(c) /\ line[f] # <<>>
    <3>1. left[f] = Tail(line[f]) /\ Head(line[f]) \in H
      BY <1>2, <2>1 DEF TailOrEmpty, Heirs
    <3>2. \A x \in H : x # Head(line[f]) => x \notin ToSet(line[f])
      BY <1>3, <1>4, OneLine
    <3> QED
      BY <1>4, <2>1, <3>1, <3>2
  <2>2. CASE f \in Held(c) /\ line[f] = <<>>
    <3>1. left[f] = <<>>
      BY <2>2 DEF TailOrEmpty
    <3> QED
      BY <2>2, <3>1, EmptyLine
  <2>3. CASE f \notin Held(c)
    <3>1. \A x \in H : x \notin ToSet(line[f])
      BY <1>3, <1>4, <2>3, OneLine
    <3> QED
      BY <2>3, <3>1, LockTypes
  <2> QED
    BY <2>1, <2>2, <2>3
<1> HIDE DEF left
<1>7. ASSUME NEW f \in Files
      PROVE  line'[f] \in Line(Clients) /\ ToSet(line'[f]) = ToSet(line[f]) \ H
  <2>1. PICK s \in Line(Clients) : s = left[f]
    BY <1>6
  <2>2. RemoveFirst(s, c) \in Line(Clients) /\ ToSet(RemoveFirst(s, c)) = ToSet(s) \ {c}
    BY RemoveFromLine
  <2> QED
    BY <1>1, <1>6, <2>1, <2>2
<1>8. LinesLose(H)
  <2>1. line' \in [Files -> Seq(Clients)]
    BY <1>1, <1>7 DEF Line
  <2> QED
    BY <1>7, <2>1 DEF LinesLose
<1>9. ASSUME NEW f \in Files
      PROVE  /\ holder'[f] \in {holder[f], NoFd} \cup ToSet(line[f])
             /\ holder'[f] \in Clients \cup {NoFd} /\ holder'[f] # c
  <2>1. CASE f \in Held(c) /\ line[f] # <<>>
    BY <1>1, <1>4, <2>1 DEF HeadOrNoFd
  <2>2. CASE f \in Held(c) /\ line[f] = <<>>
    BY <1>1, <2>2, Descriptors DEF HeadOrNoFd
  <2>3. CASE f \notin Held(c)
    BY <1>1, <2>3, LockTypes DEF Held
  <2> QED
    BY <2>1, <2>2, <2>3
<1>10. LocksGoTo(NoFd)
  BY <1>1, <1>9 DEF LocksGoTo
<1>11. c = Listener => H = {}
  BY <1>3, LockTypes, Descriptors DEF Held
<1> QED
  BY <1>2, <1>5, <1>8, <1>9, <1>10, <1>11

-----------------------------------------------------------------------------
(* What the workers move.                                                  *)

LEMMA ServesMoves ==
  ASSUME IInv, NEW w \in Workers, NEW o, NEW list \in Line(Clients), Serves(w, o, list)
  PROVE  /\ \A c \in ToSet(list) : Somewhere(c) /\ Goes(c, "notify", w)
         /\ \A c \in Conns \ ToSet(list) : Stays(c)
<1>1. /\ notify' = [notify EXCEPT ![w] = list] /\ notify[w] = <<>>
      /\ UNCHANGED <<set, queue, pipe, fd, leaving>>
      /\ DOMAIN notify = Workers
  BY DEF Serves, Handled, Goto, mainVars, IInv, TypeOK, Shape, WorkersFit, WorkerFits
<1>2. \A f \in Files : ToSet(line'[f]) = ToSet(line[f]) \ ToSet(list)
  BY DEF Serves, LinesLose
<1>3. ToSet(notify[w]) = {} /\ ToSet(list) \subseteq Clients
  BY <1>1, EmptyLine, ElementsOfLine
<1>4. ASSUME NEW c \in ToSet(list)
      PROVE  Somewhere(c) /\ Goes(c, "notify", w)
  <2>1. PICK f \in Files : c \in ToSet(line[f])
    BY <1>4 DEF Serves
  <2>2. In(c, "line", f)
    BY <2>1 DEF In
  <2>3. \A p, u : In(c, p, u) => p = "line" /\ u = f
    BY <1>3, <1>4, <2>2, Nowhere, LockTypes, Descriptors
  <2>4. \A p, u : In(c, p, u)' => In(c, p, u) \/ (p = "notify" /\ u = w)
    BY <1>1, <1>2 DEF In
  <2>5. In(c, "notify", w)' /\ ~ In(c, "line", f)'
    BY <1>1, <1>2, <1>4 DEF In
  <2>6. Goes(c, "notify", w)
    BY <2>3, <2>4, <2>5, GoesThere
  <2> QED
    BY <2>2, <2>6 DEF Somewhere
<1>5. \A c \in Conns \ ToSet(list) : Stays(c)
  BY <1>1, <1>2, <1>3 DEF Stays, In
<1> QED
  BY <1>4, <1>5

LEMMA NotifyMoves ==
  ASSUME IInv, NEW w \in Workers, Notify(w)
  PROVE  /\ \E c \in Clients :
              /\ c = Head(notify[w]) /\ client[c] = "waiting"
              /\ In(c, "notify", w) /\ Goes(c, "pipe", NoFd)
              /\ \A d \in Conns \ {c} : Stays(d)
         /\ pipe' \in Seq(Clients \cup {Disconnect}) /\ OnceInPipe(pipe')
         /\ Byes(pipe') = Byes(pipe)
         /\ Tail(notify[w]) \in Line(Clients)
<1>0. PICK c : c = Head(notify[w])
  OBVIOUS
<1>1. /\ notify[w] \in Line(Clients) /\ notify[w] # <<>> /\ OnePlace /\ DOMAIN notify = Workers
      /\ pipe \in Seq(Clients \cup {Disconnect}) /\ OnceInPipe(pipe)
  BY DEF Notify, IInv, TypeOK, Shape, InOrder
<1>2. /\ notify' = [notify EXCEPT ![w] = Tail(notify[w])] /\ pipe' = Append(pipe, c)
      /\ client[c] = "waiting"
      /\ UNCHANGED <<set, queue, line, fd, leaving>>
  BY <1>0 DEF Notify, mainVars, lockVars
<1>3. /\ c \in Clients /\ c \in ToSet(notify[w]) /\ Tail(notify[w]) \in Line(Clients)
      /\ ToSet(Tail(notify[w])) = ToSet(notify[w]) \ {c}
  BY <1>0, <1>1, TailOfLine
<1>4. In(c, "notify", w)
  BY <1>3 DEF In
<1>5. \A p, o : In(c, p, o) => p = "notify" /\ o = w
  BY <1>1, <1>3, <1>4, Nowhere, Descriptors
<1>6. c \notin ToSet(pipe) /\ c # Disconnect /\ c \in Clients \cup {Disconnect}
  BY <1>3, <1>5, Descriptors DEF In
<1>7. /\ pipe' \in Seq(Clients \cup {Disconnect}) /\ OnceInPipe(pipe')
      /\ ToSet(pipe') = ToSet(pipe) \cup {c} /\ Byes(pipe') = Byes(pipe)
  BY <1>1, <1>2, <1>6, IntoPipe
<1>8. Goes(c, "pipe", NoFd)
  <2>1. \A p, o : In(c, p, o)' => In(c, p, o) \/ (p = "pipe" /\ o = NoFd)
    BY <1>1, <1>2, <1>3, <1>7 DEF In
  <2>2. In(c, "pipe", NoFd)' /\ ~ In(c, "notify", w)'
    BY <1>1, <1>2, <1>3, <1>7 DEF In
  <2> QED
    BY <1>5, <2>1, <2>2, GoesThere
<1>9. \A d \in Conns \ {c} : Stays(d)
  BY <1>1, <1>2, <1>3, <1>7 DEF Stays, In
<1> QED
  BY <1>0, <1>2, <1>3, <1>4, <1>7, <1>8, <1>9

LEMMA SendBackMoves ==
  ASSUME IInv, NEW w \in Workers, SendBack(w)
  PROVE  /\ \E c \in Clients :
              /\ c = fd[w] /\ In(c, "fd", w) /\ Goes(c, "pipe", NoFd)
              /\ \A d \in Conns \ {c} : Stays(d)
         /\ pipe' \in Seq(Clients \cup {Disconnect}) /\ OnceInPipe(pipe')
         /\ Byes(pipe') = Byes(pipe)
<1>0. PICK c : c = fd[w]
  OBVIOUS
<1>1. /\ OnePlace /\ fd \in [Workers -> 0 .. MaxFd]
      /\ pipe \in Seq(Clients \cup {Disconnect}) /\ OnceInPipe(pipe)
  BY DEF IInv, TypeOK, Shape, InOrder
<1>2. /\ pipe' = Append(pipe, c) /\ fd' = [fd EXCEPT ![w] = NoFd]
      /\ UNCHANGED <<set, queue, line, notify, leaving>>
  BY <1>0 DEF SendBack, mainVars, lockVars
<1>3. c \in Clients
  BY <1>0 DEF SendBack, Goto, IInv, Shape, WorkersFit, WorkerFits
<1>4. In(c, "fd", w)
  BY <1>0 DEF In
<1>5. \A p, o : In(c, p, o) => p = "fd" /\ o = w
  BY <1>1, <1>3, <1>4, Nowhere, Descriptors
<1>6. c \notin ToSet(pipe) /\ c # Disconnect /\ c \in Clients \cup {Disconnect}
  BY <1>3, <1>5, Descriptors DEF In
<1>7. /\ pipe' \in Seq(Clients \cup {Disconnect}) /\ OnceInPipe(pipe')
      /\ ToSet(pipe') = ToSet(pipe) \cup {c} /\ Byes(pipe') = Byes(pipe)
  BY <1>1, <1>2, <1>6, IntoPipe
<1>8. Goes(c, "pipe", NoFd)
  <2>1. \A p, o : In(c, p, o)' => In(c, p, o) \/ (p = "pipe" /\ o = NoFd)
    BY <1>1, <1>2, <1>3, <1>7, Descriptors DEF In
  <2>2. In(c, "pipe", NoFd)' /\ ~ In(c, "fd", w)'
    BY <1>1, <1>2, <1>3, <1>7, Descriptors DEF In
  <2> QED
    BY <1>5, <2>1, <2>2, GoesThere
<1>9. \A d \in Conns \ {c} : Stays(d)
  BY <1>0, <1>1, <1>2, <1>3, <1>7, Descriptors DEF Stays, In
<1> QED
  BY <1>0, <1>3, <1>4, <1>7, <1>8, <1>9

LEMMA CloseMoves ==
  ASSUME IInv, NEW w \in Workers, Close(w)
  PROVE  /\ \E c \in Conns :
              /\ c = Last(leaving[w]) /\ In(c, "leaving", w) /\ Vanishes(c)
              /\ \A d \in Conns \ {c} : Stays(d)
         /\ Front(leaving[w]) \in Line(Conns)
         /\ Len(leaving[w]) = 1 <=> Front(leaving[w]) = <<>>
         /\ Listener \in ToSet(leaving[w]) => Front(leaving[w]) = <<>>
         /\ Listener \in ToSet(Front(leaving[w])) => Listener \in ToSet(leaving[w])
<1>0. PICK c : c = Last(leaving[w])
  OBVIOUS
<1>1. /\ OnePlace /\ leaving[w] \in Line(Conns) /\ leaving[w] # <<>> /\ DOMAIN leaving = Workers
      /\ Listener \in ToSet(leaving[w]) => leaving[w] = <<Listener>>
  BY DEF Close, Goto, IInv, TypeOK, Shape, InOrder, WorkersFit, WorkerFits
<1>2. leaving' = [leaving EXCEPT ![w] = Front(leaving[w])]
      /\ UNCHANGED <<set, queue, pipe, line, fd, notify>>
  BY DEF Close, mainVars, lockVars
<1>3. /\ c \in Conns /\ c \in ToSet(leaving[w]) /\ Front(leaving[w]) \in Line(Conns)
      /\ ToSet(Front(leaving[w])) = ToSet(leaving[w]) \ {c}
      /\ Len(leaving[w]) = 1 <=> Front(leaving[w]) = <<>>
  BY <1>0, <1>1, FrontOfLine
<1>4. In(c, "leaving", w)
  BY <1>3 DEF In
<1>5. \A p, o : In(c, p, o) => p = "leaving" /\ o = w
  BY <1>1, <1>3, <1>4, Nowhere
<1>6. Vanishes(c)
  <2>1. \A p, o : In(c, p, o)' => In(c, p, o)
    BY <1>1, <1>2, <1>3 DEF In
  <2>2. ~ In(c, "leaving", w)'
    BY <1>1, <1>2, <1>3 DEF In
  <2> QED
    BY <1>5, <2>1, <2>2 DEF Vanishes
<1>7. \A d \in Conns \ {c} : Stays(d)
  BY <1>1, <1>2, <1>3 DEF Stays, In
<1>8. Listener \in ToSet(leaving[w]) => Front(leaving[w]) = <<>>
  <2>1. Len(<<Listener>>) = 1
    OBVIOUS
  <2> QED
    BY <1>1, <1>3, <2>1
<1> QED
  BY <1>0, <1>3, <1>4, <1>6, <1>7, <1>8

\* A client that departs goes from the worker's request or from its list, which
\* is dropped, to those who leave; those who get its locks are the new list.
Departs(w, c, heirs) ==
  /\ notify' = [notify EXCEPT ![w] = heirs]
  /\ c = Listener => heirs = <<>>
  /\ leaving' = [leaving EXCEPT ![w] = Append(leaving[w], c)]
  /\ Append(leaving[w], c) \in Line(Conns)
  /\ ToSet(Append(leaving[w], c)) = ToSet(leaving[w]) \cup {c}
  /\ LinesLose(ToSet(heirs)) /\ LocksGoTo(NoFd)
  /\ \A f \in Files : holder'[f] # c
  /\ c \notin ToSet(heirs) /\ Goes(c, "leaving", w)
  /\ \A x \in ToSet(heirs) : Somewhere(x) /\ Goes(x, "notify", w)
  /\ \A x \in ToSet(heirs) : \E f \in Files : x \in ToSet(line[f])
  /\ \A x \in Conns \ (ToSet(heirs) \cup {c}) :
       Stays(x) \/ (Vanishes(x) /\ x \in ToSet(notify[w]))

LEMMA DepartMoves ==
  ASSUME IInv, NEW w \in Workers, NEW c \in Conns, Depart(w, c),
         NEW q \in {"fd", "notify"}, In(c, q, w),
         q = "fd" => fd' = [fd EXCEPT ![w] = NoFd] /\ notify[w] = <<>>,
         q = "notify" => fd' = fd
  PROVE  \E heirs \in Line(Clients) : Departs(w, c, heirs)
<1>1. /\ OnePlace /\ DOMAIN notify = Workers /\ DOMAIN leaving = Workers
      /\ fd \in [Workers -> 0 .. MaxFd] /\ leaving[w] \in Line(Conns)
  BY DEF IInv, TypeOK, Shape, InOrder
<1>2. \A p, o : In(c, p, o) => p = q /\ o = w
  BY <1>1, Nowhere
<1>3. /\ c \notin ToSet(leaving[w]) /\ \A f \in Files : c \notin ToSet(line[f])
  <2>1. q # "leaving" /\ q # "line"
    OBVIOUS
  <2>2. ~ In(c, "leaving", w) /\ \A f \in Files : ~ In(c, "line", f)
    BY <1>2, <2>1
  <2> QED
    BY <2>2 DEF In
<1>4. PICK H \in SUBSET Clients :
         /\ H = Heirs(c) /\ LinesLose(H) /\ LocksGoTo(NoFd)
         /\ \A f \in Files : holder'[f] # c
         /\ \A x \in H : \E f \in Files : x \in ToSet(line[f])
         /\ c = Listener => H = {}
  BY <1>3, Evicts DEF Depart
<1>5. PICK heirs \in SetToSeqs(H) : notify' = [notify EXCEPT ![w] = heirs]
  BY <1>4 DEF Depart
<1>6. heirs \in Line(Clients) /\ ToSet(heirs) = H /\ (H = {} => heirs = <<>>)
  <2>1. IsFiniteSet(H)
    BY Descriptors, FS_Subset
  <2>2. heirs \in Line(H) /\ ToSet(heirs) = H
    BY <2>1, SetInLine
  <2>3. heirs \in Line(Clients)
    BY <2>2, SeqMonotonic DEF Line
  <2> QED
    BY <2>2, <2>3, ElementsOfLine
<1>7. /\ leaving' = [leaving EXCEPT ![w] = Append(leaving[w], c)]
      /\ UNCHANGED <<set, queue, pipe>>
  BY DEF Depart, mainVars
<1>8. /\ Append(leaving[w], c) \in Line(Conns)
      /\ ToSet(Append(leaving[w], c)) = ToSet(leaving[w]) \cup {c}
  <2>1. ~ Contains(leaving[w], c)
    BY <1>1, <1>3, ElementsOfLine DEF Contains
  <2> QED
    BY <1>1, <2>1, AppendToLine
<1>9. \A f \in Files : ToSet(line'[f]) = ToSet(line[f]) \ H
  BY <1>4 DEF LinesLose
<1>10. \A o \in Workers : fd'[o] = IF q = "fd" /\ o = w THEN NoFd ELSE fd[o]
  BY <1>1
<1>11. c \notin H
  BY <1>3, <1>4
<1>12. /\ ToSet(notify'[w]) = H /\ ToSet(leaving'[w]) = ToSet(leaving[w]) \cup {c}
       /\ \A o \in Workers \ {w} : notify'[o] = notify[o] /\ leaving'[o] = leaving[o]
  BY <1>1, <1>5, <1>6, <1>7, <1>8
<1>13. Goes(c, "leaving", w)
  <2>1. \A p, o : In(c, p, o)' => In(c, p, o) \/ (p = "leaving" /\ o = w)
    BY <1>7, <1>9, <1>10, <1>11, <1>12, Descriptors DEF In
  <2>2. In(c, "leaving", w)' /\ ~ In(c, q, w)'
    BY <1>10, <1>11, <1>12, Descriptors DEF In
  <2> QED
    BY <1>2, <2>1, <2>2, GoesThere
<1>14. ASSUME NEW x \in H
       PROVE  Somewhere(x) /\ Goes(x, "notify", w)
  <2>1. PICK f \in Files : x \in ToSet(line[f])
    BY <1>4
  <2>2. In(x, "line", f) /\ x \in Conns /\ x # c
    BY <1>11, <2>1, Descriptors DEF In
  <2>3. \A p, o : In(x, p, o) => p = "line" /\ o = f
    BY <1>1, <2>2, Nowhere
  <2>4. \A p, o : In(x, p, o)' => In(x, p, o) \/ (p = "notify" /\ o = w)
    BY <1>7, <1>9, <1>10, <1>12, <2>2, Descriptors DEF In
  <2>5. In(x, "notify", w)' /\ ~ In(x, "line", f)'
    BY <1>9, <1>12 DEF In
  <2>6. Goes(x, "notify", w)
    BY <2>3, <2>4, <2>5, GoesThere
  <2> QED
    BY <2>2, <2>6 DEF Somewhere
<1>15. ASSUME NEW x \in Conns \ (H \cup {c})
       PROVE  Stays(x) \/ (Vanishes(x) /\ x \in ToSet(notify[w]) /\ q = "notify")
  <2>1. CASE x \notin ToSet(notify[w])
    <3>1. Stays(x)
      BY <1>7, <1>9, <1>10, <1>12, <2>1, Descriptors DEF Stays, In
    <3> QED
      BY <3>1
  <2>2. CASE x \in ToSet(notify[w])
    <3>1. q = "notify"
      BY <2>2, EmptyLine
    <3>2. In(x, "notify", w)
      BY <2>2 DEF In
    <3>3. \A p, o : In(x, p, o) => p = "notify" /\ o = w
      BY <1>1, <3>2, Nowhere
    <3>4. \A p, o : In(x, p, o)' => In(x, p, o)
      BY <1>7, <1>9, <1>10, <1>12, Descriptors DEF In
    <3>5. ~ In(x, "notify", w)'
      BY <1>12 DEF In
    <3> QED
      BY <2>2, <3>1, <3>3, <3>4, <3>5 DEF Vanishes
  <2> QED
    BY <2>1, <2>2
<1> QED
  BY <1>4, <1>5, <1>6, <1>7, <1>8, <1>11, <1>13, <1>14, <1>15 DEF Departs

LEMMA Departures ==
  ASSUME IInv, NEW w \in Workers, NotifyGone(w) \/ CloseConnection(w)
  PROVE  \E c \in Conns, heirs \in Line(Clients) :
           /\ Departs(w, c, heirs) /\ Somewhere(c)
           /\ \/ /\ NotifyGone(w) /\ fd' = fd /\ c \in Clients
                 /\ c = Head(notify[w]) /\ notify[w] # <<>> /\ client[c] = "gone"
              \/ /\ CloseConnection(w) /\ fd' = [fd EXCEPT ![w] = NoFd]
                 /\ c = fd[w] /\ notify[w] = <<>>
                 /\ leaving[w] = <<>> /\ (c = Listener => pc[w] = "read")
<1>1. CASE NotifyGone(w)
  <2>1. PICK c : c = Head(notify[w])
    OBVIOUS
  <2>2. /\ notify[w] \in Line(Clients) /\ notify[w] # <<>> /\ Depart(w, c) /\ fd' = fd
        /\ client[c] = "gone"
    BY <1>1, <2>1 DEF NotifyGone, IInv, Shape, InOrder
  <2>3. c \in ToSet(notify[w]) /\ c \in Clients /\ c \in Conns
    BY <2>1, <2>2, TailOfLine, Descriptors
  <2>4. In(c, "notify", w)
    BY <2>3 DEF In
  <2>5. \E heirs \in Line(Clients) : Departs(w, c, heirs)
    BY <2>2, <2>3, <2>4, DepartMoves
  <2> QED
    BY <1>1, <2>1, <2>2, <2>3, <2>4, <2>5 DEF Somewhere
<1>2. CASE CloseConnection(w)
  <2>1. PICK c : c = fd[w]
    OBVIOUS
  <2>2. /\ c \in Conns /\ notify[w] = <<>> /\ leaving[w] = <<>>
        /\ c = Listener => pc[w] = "read"
    BY <1>2, <2>1, Descriptors DEF CloseConnection, IInv, Shape, WorkersFit, WorkerFits
  <2>3. Depart(w, c) /\ fd' = [fd EXCEPT ![w] = NoFd]
    BY <1>2, <2>1 DEF CloseConnection
  <2>4. In(c, "fd", w)
    BY <2>1 DEF In
  <2>5. \E heirs \in Line(Clients) : Departs(w, c, heirs)
    BY <2>2, <2>3, <2>4, DepartMoves
  <2> QED
    BY <1>2, <2>1, <2>2, <2>3, <2>4, <2>5 DEF Somewhere
<1> QED
  BY <1>1, <1>2

LEMMA TellMainMoves ==
  ASSUME IInv, NEW w \in Workers, TellMain(w)
  PROVE  /\ pipe' \in Seq(Clients \cup {Disconnect}) /\ OnceInPipe(pipe')
         /\ IsFiniteSet(Byes(pipe))
         /\ Cardinality(Byes(pipe')) = Cardinality(Byes(pipe)) + 1
         /\ \A d \in Conns : Stays(d)
<1>1. pipe \in Seq(Clients \cup {Disconnect}) /\ OnceInPipe(pipe)
  BY DEF IInv, TypeOK, Shape, InOrder
<1>2. /\ pipe' = Append(pipe, Disconnect)
      /\ UNCHANGED <<set, queue, line, fd, notify, leaving>>
  BY DEF TellMain, mainVars, lockVars
<1>3. Disconnect \in Clients \cup {Disconnect}
  OBVIOUS
<1>4. /\ pipe' \in Seq(Clients \cup {Disconnect}) /\ OnceInPipe(pipe')
      /\ ToSet(pipe') = ToSet(pipe) \cup {Disconnect}
      /\ Byes(pipe') = Byes(pipe) \cup {Len(pipe) + 1}
      /\ Len(pipe) + 1 \notin Byes(pipe) /\ IsFiniteSet(Byes(pipe))
  BY <1>1, <1>2, <1>3, IntoPipe
<1>5. Cardinality(Byes(pipe')) = Cardinality(Byes(pipe)) + 1
  BY <1>4, FS_AddElement
<1>6. \A d \in Conns : Stays(d)
  BY <1>2, <1>4, Descriptors DEF Stays, In
<1> QED
  BY <1>4, <1>5, <1>6

\* The steps that move nobody and tell nobody.
QuietStep ==
  \/ ReadSignal \/ DeleteQueue \/ JoinWorkers \/ UNCHANGED vars
  \/ \E c \in Clients : Ask(c) \/ HangUp(c)
  \/ \E w \in Workers : Return(w) \/ Answer(w)

LEMMA QuietMoves ==
  ASSUME QuietStep
  PROVE  /\ UNCHANGED <<set, fd_num, nOfConnectedClients, queue, pipe, line, holder,
                        fd, notify, leaving, arriving>>
         /\ \A d \in Conns : Stays(d)
<1>1. UNCHANGED <<set, fd_num, nOfConnectedClients, queue, pipe, line, holder,
                  fd, notify, leaving, arriving>>
  BY DEF QuietStep, Ask, HangUp, ReadSignal, DeleteQueue, JoinWorkers, Return, Answer,
     Answered, vars, mainVars, lockVars, workerVars, clientVars
<1> QED
  BY <1>1 DEF Stays, In

\* The steps there are.
LEMMA Steps ==
  ASSUME IInv, [Next]_vars
  PROVE  \/ Accept \/ ReadPipe \/ QuietStep
         \/ \E d \in set : Dispatch(d)
         \/ \E w \in Workers : \/ Take(w) \/ Notify(w) \/ TellMain(w) \/ Close(w) \/ SendBack(w)
                               \/ NotifyGone(w) \/ CloseConnection(w)
         \/ \E w \in Workers, f \in Files : Park(w, f)
         \/ \E w \in Workers, o \in {"other", "appendToFile"}, list \in Line(Clients) :
              Serves(w, o, list)
BY Requests DEF Next, Main, Worker, QuietStep

-----------------------------------------------------------------------------
(* The invariant holds at first.                                           *)

LEMMA InitInv == Init => IInv
<1> SUFFICES ASSUME Init PROVE IInv  OBVIOUS
<1>1. \A S : <<>> \in Line(S) /\ ToSet(<<>>) = {} /\ <<>> \in Seq(S)
  BY EmptyLine
<1>2. TypeOK
  BY <1>1, Descriptors, ArrivalsAssumption DEF Init, TypeOK
<1>3. OnePlace
  BY <1>1, Descriptors DEF Init, OnePlace, In
<1>4. OnceInPipe(pipe)
  BY DEF Init, OnceInPipe
<1>5. InOrder
  BY <1>1, <1>4 DEF Init, InOrder
<1>6. WorkersFit
  BY <1>1 DEF Init, WorkersFit, WorkerFits
<1>7. NothingLeft
  <2>1. \A c \in Clients : ~ Somewhere(c)
    BY <1>1, Descriptors DEF Init, Conns, Somewhere, In
  <2>2. \A c \in Clients : Held(c) = {}
    BY Descriptors DEF Init, Held
  <2> QED
    BY <2>1, <2>2 DEF NothingLeft
<1>8. EverybodyIsHeard
  BY Descriptors DEF Init, EverybodyIsHeard
<1>9. CountIsRight
  <2>1. {c \in Clients : client[c] # "none"} = {} /\ Refused = 0
    BY DEF Init, Refused
  <2>2. {i \in DOMAIN pipe : pipe[i] = Disconnect} = {}
    BY DEF Init
  <2>3. Cardinality({}) = 0 /\ {} \ SaidGoodbye = {}
    BY FS_EmptySet
  <2>4. nOfConnectedClients = 0
    BY DEF Init
  <2> QED
    BY <2>1, <2>2, <2>3, <2>4 DEF CountIsRight
<1> QED
  BY <1>2, <1>3, <1>5, <1>6, <1>7, <1>8, <1>9 DEF IInv, Shape

-----------------------------------------------------------------------------
(* A connection is in one place at a time, and a closed one in none.       *)

Moved(c) == Stays(c) \/ Vanishes(c) \/ (Somewhere(c) /\ \E q, u : Goes(c, q, u))

\* A connection moves only from somewhere, unless main has just accepted it.
LEMMA StepMoves ==
  ASSUME IInv, [Next]_vars, NEW c \in Conns
  PROVE  \/ Moved(c)
         \/ c \in Clients /\ client'[c] = "quiet" /\ \E q, u : Goes(c, q, u)
<1>1. CASE Accept
  <2>1. client \in [Clients -> {"none", "quiet", "asking", "waiting", "left", "gone"}]
    BY DEF IInv, TypeOK
  <2> QED
    BY <1>1, <2>1, AcceptMoves DEF Moved
<1>2. CASE ReadPipe
  BY <1>2, ReadPipeMoves DEF Moved, Somewhere
<1>3. CASE QuietStep
  BY <1>3, QuietMoves DEF Moved
<1>4. ASSUME NEW d \in set, Dispatch(d) PROVE Moved(c)
  <2>1. In(d, "set", NoFd)
    BY DEF In
  <2> QED
    BY <1>4, <2>1, DispatchMoves DEF Moved, Somewhere
<1>5. ASSUME NEW w \in Workers, Take(w) PROVE Moved(c)
  BY <1>5, TakeMoves DEF Moved, Somewhere
<1>6. ASSUME NEW w \in Workers, Notify(w) PROVE Moved(c)
  BY <1>6, NotifyMoves DEF Moved, Somewhere
<1>7. ASSUME NEW w \in Workers, TellMain(w) PROVE Moved(c)
  BY <1>7, TellMainMoves DEF Moved
<1>8. ASSUME NEW w \in Workers, Close(w) PROVE Moved(c)
  BY <1>8, CloseMoves DEF Moved
<1>9. ASSUME NEW w \in Workers, SendBack(w) PROVE Moved(c)
  BY <1>9, SendBackMoves DEF Moved, Somewhere
<1>10. ASSUME NEW w \in Workers, NotifyGone(w) \/ CloseConnection(w) PROVE Moved(c)
  BY <1>10, Departures DEF Moved, Departs
<1>11. ASSUME NEW w \in Workers, NEW f \in Files, Park(w, f) PROVE Moved(c)
  BY <1>11, ParkMoves DEF Moved, Somewhere
<1>12. ASSUME NEW w \in Workers, NEW o, NEW list \in Line(Clients), Serves(w, o, list)
       PROVE  Moved(c)
  BY <1>12, ServesMoves DEF Moved
<1> QED
  BY <1>1, <1>2, <1>3, <1>4, <1>5, <1>6, <1>7, <1>8, <1>9, <1>10, <1>11, <1>12, Steps

LEMMA OnePlaceKept ==
  ASSUME IInv, [Next]_vars
  PROVE  OnePlace'
<1>1. OnePlace
  BY DEF IInv, Shape
<1> SUFFICES ASSUME NEW c \in Conns, NEW p, NEW q, NEW o, NEW u, In(c, p, o)', In(c, q, u)'
             PROVE  p = q /\ o = u
  BY DEF OnePlace, Conns
<1>2. CASE Stays(c)
  <2>1. In(c, p, o) /\ In(c, q, u)
    BY <1>2 DEF Stays
  <2> QED
    BY <1>1, <2>1 DEF OnePlace
<1>3. CASE Vanishes(c)
  BY <1>3 DEF Vanishes
<1>4. CASE \E v, x : Goes(c, v, x)
  BY <1>4 DEF Goes
<1> QED
  BY <1>2, <1>3, <1>4, StepMoves DEF Moved

-----------------------------------------------------------------------------
(* Types, and the order of the sequences.                                  *)

InPipe == Clients \cup {Disconnect}

Sequences ==
  /\ queue \in Line(Conns)
  /\ pipe \in Seq(InPipe) /\ OnceInPipe(pipe)
  /\ line \in [Files -> Seq(Clients)] /\ \A f \in Files : line[f] \in Line(Clients)
  /\ notify \in [Workers -> Line(Clients)]
  /\ leaving \in [Workers -> Line(Conns)]

LEMMA SequencesNow ==
  ASSUME IInv
  PROVE  Sequences
BY DEF IInv, TypeOK, Shape, InOrder, Sequences, InPipe

LEMMA SequencesKept ==
  ASSUME IInv, [Next]_vars
  PROVE  Sequences'
<1>0. Sequences
  BY SequencesNow
<1> USE <1>0 DEF Sequences
<1>1. CASE Accept
  BY <1>1 DEF Accept, lockVars, workerVars
<1>2. CASE ReadPipe
  BY <1>2, ReadPipeMoves DEF ReadPipe, lockVars, workerVars, InPipe
<1>3. CASE QuietStep
  BY <1>3, QuietMoves
<1>4. ASSUME NEW d \in set, Dispatch(d) PROVE Sequences'
  BY <1>4, DispatchMoves DEF Dispatch, lockVars, workerVars
<1>5. ASSUME NEW w \in Workers, Take(w) PROVE Sequences'
  BY <1>5, TakeMoves DEF Take, lockVars
<1>6. ASSUME NEW w \in Workers, Notify(w) PROVE Sequences'
  BY <1>6, NotifyMoves DEF Notify, mainVars, lockVars, InPipe
<1>7. ASSUME NEW w \in Workers, TellMain(w) PROVE Sequences'
  BY <1>7, TellMainMoves DEF TellMain, lockVars, InPipe
<1>8. ASSUME NEW w \in Workers, Close(w) PROVE Sequences'
  BY <1>8, CloseMoves DEF Close, lockVars
<1>9. ASSUME NEW w \in Workers, SendBack(w) PROVE Sequences'
  BY <1>9, SendBackMoves DEF SendBack, lockVars, InPipe
<1>10. ASSUME NEW w \in Workers, NotifyGone(w) \/ CloseConnection(w) PROVE Sequences'
  <2>1. PICK c \in Conns, heirs \in Line(Clients) : Departs(w, c, heirs)
    BY <1>10, Departures
  <2>2. UNCHANGED <<queue, pipe>>
    BY <1>10 DEF NotifyGone, CloseConnection, Depart
  <2>3. line' \in [Files -> Seq(Clients)] /\ \A f \in Files : line'[f] \in Line(Clients)
    BY <2>1 DEF Departs, LinesLose
  <2> QED
    BY <2>1, <2>2, <2>3 DEF Departs
<1>11. ASSUME NEW w \in Workers, NEW f \in Files, Park(w, f) PROVE Sequences'
  <2>1. UNCHANGED <<queue, pipe, notify, leaving>>
    BY <1>11 DEF Park
  <2>2. \A g \in Files : line'[g] \in Line(Clients)
    BY <1>11, ParkMoves
  <2>3. line' \in [Files -> Seq(Clients)]
    <3>1. DOMAIN line' = Files /\ line' = [g \in Files |-> line'[g]]
      BY <1>11 DEF Park
    <3> QED
      BY <2>2, <3>1 DEF Line
  <2> QED
    BY <2>1, <2>2, <2>3
<1>12. ASSUME NEW w \in Workers, NEW o, NEW list \in Line(Clients), Serves(w, o, list)
       PROVE  Sequences'
  <2>1. UNCHANGED <<queue, pipe, leaving>> /\ notify' = [notify EXCEPT ![w] = list]
    BY <1>12 DEF Serves, Handled
  <2>2. line' \in [Files -> Seq(Clients)] /\ \A f \in Files : line'[f] \in Line(Clients)
    BY <1>12 DEF Serves, LinesLose
  <2> QED
    BY <2>1, <2>2
<1> QED
  BY <1>1, <1>2, <1>3, <1>4, <1>5, <1>6, <1>7, <1>8, <1>9, <1>10, <1>11, <1>12, Steps

LEMMA InOrderKept ==
  ASSUME IInv, [Next]_vars
  PROVE  InOrder'
BY SequencesKept DEF Sequences, InOrder

LEMMA TypesKept ==
  ASSUME IInv, [Next]_vars
  PROVE  TypeOK'
<1> DEFINE Scalars ==
      /\ set \subseteq 1 .. MaxFd
      /\ fd_num \in 0 .. MaxFd
      /\ signal \in {"none", "SOFT_QUIT", "RAGE_QUIT"}
      /\ nOfConnectedClients \in Int
      /\ phase \in {"running", "joining", "stopped"}
      /\ holder \in [Files -> Clients \cup {NoFd}]
      /\ pc \in [Workers -> {"dequeue", "read", "answer", "notify", "close", "returned"}]
      /\ fd \in [Workers -> 0 .. MaxFd]
      /\ op \in [Workers -> {"none", "appendToFile", "other"}]
      /\ closeConnection \in [Workers -> BOOLEAN]
      /\ client \in [Clients -> {"none", "quiet", "asking", "waiting", "left", "gone"}]
      /\ arriving \in Nat
<1>0. Scalars
  BY DEF IInv, TypeOK
<1>1. ASSUME Accept PROVE Scalars'
  <2>1. PICK new \in Clients :
          /\ client' = [client EXCEPT ![new] = "quiet"]
          /\ set' = set \cup {new} /\ fd_num' = IF fd_num <= new THEN new ELSE fd_num
    BY <1>1, AcceptMoves
  <2>2. new \in 1 .. MaxFd /\ new \in 0 .. MaxFd
    BY Descriptors
  <2>3. arriving' \in Nat /\ nOfConnectedClients' \in Int
    BY <1>0, <1>1 DEF Accept
  <2> QED
    BY <1>0, <1>1, <2>1, <2>2, <2>3 DEF Accept, lockVars, workerVars
<1>2. ASSUME ReadPipe PROVE Scalars'
  <2>1. PICK h : h = Head(pipe)
    OBVIOUS
  <2>2. h # Disconnect => h \in 1 .. MaxFd /\ h \in 0 .. MaxFd /\ h \in Int
    BY <1>2, <2>1, ReadPipeMoves, Descriptors
  <2>3. nOfConnectedClients' \in Int
    BY <1>0, <1>2 DEF ReadPipe
  <2>4. set' \subseteq 1 .. MaxFd
    BY <1>0, <1>2, <2>1, <2>2 DEF ReadPipe
  <2>5. fd_num' \in 0 .. MaxFd
    <3>1. CASE h = Disconnect
      BY <1>0, <1>2, <2>1, <3>1 DEF ReadPipe
    <3>2. CASE h # Disconnect
      <4>1. fd_num' = Max({fd_num, h}) /\ fd_num \in Int
        BY <1>0, <1>2, <2>1, <3>2, Descriptors DEF ReadPipe
      <4>2. fd_num' = IF fd_num <= h THEN h ELSE fd_num
        BY <2>2, <3>2, <4>1, GreatestOfTwo
      <4> QED
        BY <1>0, <2>2, <3>2, <4>2
    <3> QED
      BY <3>1, <3>2
  <2> QED
    BY <1>0, <1>2, <2>3, <2>4, <2>5 DEF ReadPipe, lockVars, workerVars, clientVars
<1>3. ASSUME QuietStep PROVE Scalars'
  <2>1. UNCHANGED <<set, fd_num, nOfConnectedClients, holder, fd, arriving>>
    BY <1>3, QuietMoves
  <2>2. signal' \in {"none", "SOFT_QUIT", "RAGE_QUIT"} /\ phase' \in {"running", "joining", "stopped"}
    BY <1>0, <1>3 DEF QuietStep, Ask, HangUp, ReadSignal, DeleteQueue, JoinWorkers, Return,
       Answer, vars, mainVars
  <2>3. client' \in [Clients -> {"none", "quiet", "asking", "waiting", "left", "gone"}]
    BY <1>0, <1>3 DEF QuietStep, Ask, HangUp, ReadSignal, DeleteQueue, JoinWorkers, Return,
       Answer, Answered, vars, clientVars
  <2>4. /\ pc' \in [Workers -> {"dequeue", "read", "answer", "notify", "close", "returned"}]
        /\ op' = op
    BY <1>0, <1>3 DEF QuietStep, Ask, HangUp, ReadSignal, DeleteQueue, JoinWorkers, Return,
       Answer, Goto, vars, workerVars
  <2>5. closeConnection' \in [Workers -> BOOLEAN]
    <3>1. \/ closeConnection' = closeConnection
          \/ \E w \in Workers : closeConnection' = [closeConnection EXCEPT ![w] = TRUE]
      BY <1>3 DEF QuietStep, Ask, HangUp, ReadSignal, DeleteQueue, JoinWorkers, Return,
         Answer, vars, workerVars
    <3>2. \A w \in Workers : [closeConnection EXCEPT ![w] = TRUE] \in [Workers -> BOOLEAN]
      BY <1>0
    <3> QED
      BY <1>0, <3>1, <3>2
  <2> QED
    BY <1>0, <2>1, <2>2, <2>3, <2>4, <2>5
<1>4. ASSUME NEW d \in set, Dispatch(d) PROVE Scalars'
  <2>1. d \in 1 .. MaxFd /\ MaxFd \in Nat
    BY <1>0, Descriptors
  <2>2. fd_num' \in 0 .. MaxFd
    BY <1>0, <1>4, <2>1 DEF Dispatch
  <2> QED
    BY <1>0, <1>4, <2>2 DEF Dispatch, lockVars, workerVars, clientVars
<1>5. ASSUME NEW w \in Workers, Take(w) PROVE Scalars'
  <2>1. Head(queue) \in 0 .. MaxFd
    BY <1>5, TakeMoves, Descriptors
  <2> QED
    BY <1>0, <1>5, <2>1 DEF Take, Goto, mainVars, lockVars, clientVars
<1>6. ASSUME NEW w \in Workers, Notify(w) PROVE Scalars'
  BY <1>0, <1>6 DEF Notify, Answered, mainVars, lockVars
<1>7. ASSUME NEW w \in Workers, TellMain(w) PROVE Scalars'
  BY <1>0, <1>7 DEF TellMain, Goto, mainVars, lockVars, clientVars
<1>8. ASSUME NEW w \in Workers, Close(w) PROVE Scalars'
  BY <1>0, <1>8 DEF Close, Goto, mainVars, lockVars
<1>9. ASSUME NEW w \in Workers, SendBack(w) PROVE Scalars'
  BY <1>0, <1>9, Descriptors DEF SendBack, Goto, mainVars, lockVars, clientVars
<1>10. ASSUME NEW w \in Workers, NotifyGone(w) \/ CloseConnection(w) PROVE Scalars'
  <2>1. holder' \in [Files -> Clients \cup {NoFd}]
    BY <1>10, Departures DEF Departs, LocksGoTo
  <2>2. closeConnection' \in [Workers -> BOOLEAN]
    <3>1. (closeConnection[w] \/ op[w] = "appendToFile") \in BOOLEAN /\ FALSE \in BOOLEAN
      OBVIOUS
    <3>2. \A b \in BOOLEAN : [closeConnection EXCEPT ![w] = b] \in [Workers -> BOOLEAN]
      BY <1>0
    <3> QED
      BY <1>10, <3>1, <3>2 DEF NotifyGone, CloseConnection
  <2>3. UNCHANGED <<set, fd_num, signal, nOfConnectedClients, phase, client, arriving>>
    BY <1>10 DEF NotifyGone, CloseConnection, Depart, mainVars, clientVars
  <2>4. /\ pc' \in [Workers -> {"dequeue", "read", "answer", "notify", "close", "returned"}]
        /\ fd' \in [Workers -> 0 .. MaxFd]
        /\ op' \in [Workers -> {"none", "appendToFile", "other"}]
    <3>1. CASE NotifyGone(w)
      BY <1>0, <3>1 DEF NotifyGone
    <3>2. CASE CloseConnection(w)
      <4>1. /\ pc' = [pc EXCEPT ![w] = "notify"] /\ fd' = [fd EXCEPT ![w] = NoFd]
            /\ op' = [op EXCEPT ![w] = "none"]
        BY <3>2 DEF CloseConnection
      <4> QED
        BY <1>0, <4>1, Descriptors
    <3> QED
      BY <1>10, <3>1, <3>2
  <2> QED
    BY <1>0, <2>1, <2>2, <2>3, <2>4
<1>11. ASSUME NEW w \in Workers, NEW f \in Files, Park(w, f) PROVE Scalars'
  BY <1>0, <1>11, Descriptors DEF Park, Goto, ReadRequest, mainVars
<1>12. ASSUME NEW w \in Workers, NEW o \in {"other", "appendToFile"},
              NEW list \in Line(Clients), Serves(w, o, list)
       PROVE  Scalars'
  <2>1. holder' \in [Files -> Clients \cup {NoFd}]
    BY <1>12 DEF Serves, LocksGoTo
  <2> QED
    BY <1>0, <1>12, <2>1 DEF Serves, Handled, Goto, ReadRequest, mainVars
<1>13. Scalars'
  <2> HIDE DEF Scalars
  <2> QED
    BY <1>1, <1>2, <1>3, <1>4, <1>5, <1>6, <1>7, <1>8, <1>9, <1>10, <1>11, <1>12, Steps
<1>14. /\ queue' \in Seq(1 .. MaxFd) /\ pipe' \in Seq(Clients \cup {Disconnect})
       /\ line' \in [Files -> Seq(Clients)]
       /\ notify' \in [Workers -> Seq(Clients)]
       /\ leaving' \in [Workers -> Seq(Clients \cup {Listener})]
  <2>1. queue' \in Seq(1 .. MaxFd)
    BY SequencesKept, SeqMonotonic, Descriptors DEF Sequences, Line
  <2> QED
    BY <2>1, SequencesKept DEF Sequences, Line, Conns, InPipe
<1> QED
  BY <1>13, <1>14 DEF TypeOK, Clients

-----------------------------------------------------------------------------
(* What the workers have in their hands.                                   *)

\* A step of w leaves the others as they are.
LEMMA OthersFit ==
  ASSUME WorkersFit, NEW w \in Workers, WorkerFits(w)',
         \A v \in Workers \ {w} : /\ pc'[v] = pc[v] /\ fd'[v] = fd[v]
                                  /\ notify'[v] = notify[v] /\ leaving'[v] = leaving[v]
  PROVE  WorkersFit'
BY DEF WorkersFit, WorkerFits, Conns, Clients

LEMMA WorkersFitKept ==
  ASSUME IInv, [Next]_vars
  PROVE  WorkersFit'
<1>0. /\ WorkersFit /\ Sequences
      /\ pc \in [Workers -> {"dequeue", "read", "answer", "notify", "close", "returned"}]
      /\ fd \in [Workers -> 0 .. MaxFd]
      /\ DOMAIN notify = Workers /\ DOMAIN leaving = Workers
  BY SequencesNow DEF IInv, TypeOK, Shape
<1>1. ASSUME Accept \/ ReadPipe \/ \E d \in set : Dispatch(d) PROVE WorkersFit'
  <2>1. UNCHANGED <<pc, fd, notify, leaving>>
    BY <1>1 DEF Accept, ReadPipe, Dispatch, workerVars
  <2> QED
    BY <1>0, <2>1 DEF WorkersFit, WorkerFits, Conns, Clients
<1>2. ASSUME QuietStep PROVE WorkersFit'
  <2>1. UNCHANGED <<fd, notify, leaving>>
    BY <1>2, QuietMoves
  <2>2. CASE pc' = pc
    BY <1>0, <2>1, <2>2 DEF WorkersFit, WorkerFits, Conns, Clients
  <2>3. CASE \E w \in Workers : Return(w) \/ Answer(w)
    <3>1. PICK w \in Workers : Return(w) \/ Answer(w)
      BY <2>3
    <3>2. WorkerFits(w)'
      BY <1>0, <2>1, <3>1, Descriptors DEF Return, Answer, Goto, WorkersFit, WorkerFits, Conns, Clients
    <3>3. \A v \in Workers \ {w} : pc'[v] = pc[v]
      BY <1>0, <3>1 DEF Return, Answer, Goto
    <3> QED
      BY <1>0, <2>1, <3>2, <3>3, OthersFit
  <2> QED
    BY <1>2, <2>2, <2>3 DEF QuietStep, Ask, HangUp, ReadSignal, DeleteQueue, JoinWorkers,
       vars, workerVars
<1>3. ASSUME NEW w \in Workers, Take(w) PROVE WorkersFit'
  <2>1. Head(queue) \in Conns
    BY <1>3, TakeMoves
  <2>2. /\ pc[w] = "dequeue" /\ pc' = [pc EXCEPT ![w] = "read"]
        /\ fd' = [fd EXCEPT ![w] = Head(queue)] /\ UNCHANGED <<notify, leaving>>
    BY <1>3 DEF Take, Goto
  <2>3. WorkerFits(w)'
    BY <1>0, <2>1, <2>2, EmptyLine DEF WorkersFit, WorkerFits, Conns, Clients
  <2> QED
    BY <1>0, <2>2, <2>3, OthersFit
<1>4. ASSUME NEW w \in Workers, Notify(w) PROVE WorkersFit'
  <2>1. /\ pc[w] = "notify" /\ notify[w] # <<>> /\ notify' = [notify EXCEPT ![w] = Tail(notify[w])]
        /\ UNCHANGED <<pc, fd, leaving>>
    BY <1>4 DEF Notify
  <2>2. WorkerFits(w)'
    BY <1>0, <2>1 DEF WorkersFit, WorkerFits, Conns, Clients
  <2> QED
    BY <1>0, <2>1, <2>2, OthersFit
<1>5. ASSUME NEW w \in Workers, TellMain(w) PROVE WorkersFit'
  <2>1. /\ pc[w] = "notify" /\ pc' = [pc EXCEPT ![w] = "close"]
        /\ notify[w] = <<>> /\ leaving[w] # <<>> /\ UNCHANGED <<fd, notify, leaving>>
    BY <1>5 DEF TellMain, Goto
  <2>2. WorkerFits(w)'
    BY <1>0, <2>1 DEF WorkersFit, WorkerFits, Conns, Clients
  <2> QED
    BY <1>0, <2>1, <2>2, OthersFit
<1>6. ASSUME NEW w \in Workers, Close(w) PROVE WorkersFit'
  <2>1. /\ pc[w] = "close"
        /\ pc' = [pc EXCEPT ![w] = IF fd[w] = NoFd /\ Len(leaving[w]) = 1 THEN "dequeue" ELSE "notify"]
        /\ leaving' = [leaving EXCEPT ![w] = Front(leaving[w])] /\ UNCHANGED <<fd, notify>>
    BY <1>6 DEF Close, Goto
  <2>2. /\ Len(leaving[w]) = 1 <=> Front(leaving[w]) = <<>>
        /\ Listener \in ToSet(leaving[w]) => Front(leaving[w]) = <<>>
        /\ Listener \in ToSet(Front(leaving[w])) => Listener \in ToSet(leaving[w])
    BY <1>6, CloseMoves
  <2>3. Listener \notin ToSet(Front(leaving[w]))
    BY <2>2, EmptyLine
  <2>4. WorkerFits(w)'
    BY <1>0, <2>1, <2>2, <2>3 DEF WorkersFit, WorkerFits, Conns, Clients
  <2> QED
    BY <1>0, <2>1, <2>4, OthersFit
<1>7. ASSUME NEW w \in Workers, SendBack(w) PROVE WorkersFit'
  <2>1. /\ pc[w] = "notify" /\ pc' = [pc EXCEPT ![w] = "dequeue"]
        /\ fd' = [fd EXCEPT ![w] = NoFd]
        /\ notify[w] = <<>> /\ leaving[w] = <<>> /\ UNCHANGED <<notify, leaving>>
    BY <1>7 DEF SendBack, Goto
  <2>2. WorkerFits(w)'
    BY <1>0, <2>1, EmptyLine DEF WorkersFit, WorkerFits, Conns, Clients
  <2> QED
    BY <1>0, <2>1, <2>2, OthersFit
<1>8. ASSUME NEW w \in Workers, NotifyGone(w) \/ CloseConnection(w) PROVE WorkersFit'
  <2>1. PICK c \in Conns, heirs \in Line(Clients) :
          /\ Departs(w, c, heirs)
          /\ \/ NotifyGone(w) /\ fd' = fd /\ c \in Clients /\ notify[w] # <<>>
             \/ /\ CloseConnection(w) /\ fd' = [fd EXCEPT ![w] = NoFd]
                /\ leaving[w] = <<>>
    BY <1>8, Departures
  <2>2. /\ notify' = [notify EXCEPT ![w] = heirs]
        /\ leaving' = [leaving EXCEPT ![w] = Append(leaving[w], c)]
        /\ c = Listener => heirs = <<>>
        /\ Append(leaving[w], c) \in Line(Conns)
        /\ ToSet(Append(leaving[w], c)) = ToSet(leaving[w]) \cup {c}
    BY <2>1 DEF Departs
  <2>3. Append(leaving[w], c) # <<>>
    BY <2>2, EmptyLine, ElementsOfLine
  <2>4. pc'[w] = "notify" /\ \A v \in Workers \ {w} : pc'[v] = pc[v]
    BY <1>0, <2>1 DEF NotifyGone, CloseConnection
  <2>5. leaving[w] = <<>> => Append(leaving[w], c) = <<c>>
    OBVIOUS
  <2>6. WorkerFits(w)'
    <3>1. CASE NotifyGone(w) /\ fd' = fd /\ c \in Clients /\ notify[w] # <<>>
      <4>1. Listener \notin ToSet(Append(leaving[w], c)) /\ pc[w] = "notify"
        BY <1>0, <2>2, <3>1, Descriptors DEF NotifyGone, WorkersFit, WorkerFits
      <4> QED
        BY <1>0, <2>2, <2>3, <2>4, <3>1, <4>1 DEF WorkersFit, WorkerFits, Conns, Clients
    <3>2. CASE CloseConnection(w) /\ fd' = [fd EXCEPT ![w] = NoFd] /\ leaving[w] = <<>>
      <4>1. Listener \in ToSet(Append(leaving[w], c)) =>
              Append(leaving[w], c) = <<Listener>> /\ heirs = <<>>
        BY <2>2, <2>5, <3>2, EmptyLine
      <4>2. fd'[w] = NoFd /\ leaving'[w] = Append(leaving[w], c) /\ notify'[w] = heirs
        BY <1>0, <2>2, <3>2
      <4> QED
        BY <2>3, <2>4, <4>1, <4>2 DEF WorkerFits, Conns, Clients
    <3> QED
      BY <2>1, <3>1, <3>2
  <2>7. \A v \in Workers \ {w} : fd'[v] = fd[v] /\ notify'[v] = notify[v] /\ leaving'[v] = leaving[v]
    BY <1>0, <2>1, <2>2
  <2> QED
    BY <1>0, <2>4, <2>6, <2>7, OthersFit
<1>9. ASSUME NEW w \in Workers, NEW f \in Files, Park(w, f) PROVE WorkersFit'
  <2>1. /\ pc[w] = "read" /\ pc' = [pc EXCEPT ![w] = "dequeue"]
        /\ fd' = [fd EXCEPT ![w] = NoFd] /\ UNCHANGED <<notify, leaving>>
    BY <1>9 DEF Park, Goto
  <2>2. WorkerFits(w)'
    BY <1>0, <2>1, EmptyLine DEF WorkersFit, WorkerFits, Conns, Clients
  <2> QED
    BY <1>0, <2>1, <2>2, OthersFit
<1>10. ASSUME NEW w \in Workers, NEW o, NEW list \in Line(Clients), Serves(w, o, list)
       PROVE  WorkersFit'
  <2>1. /\ pc[w] = "read" /\ pc' = [pc EXCEPT ![w] = "answer"] /\ fd[w] \in Clients
        /\ notify' = [notify EXCEPT ![w] = list] /\ UNCHANGED <<fd, leaving>>
    BY <1>10 DEF Serves, Handled, Goto, ReadRequest
  <2>2. WorkerFits(w)'
    BY <1>0, <2>1, EmptyLine DEF WorkersFit, WorkerFits, Conns, Clients
  <2> QED
    BY <1>0, <2>1, <2>2, OthersFit
<1> QED
  BY <1>1, <1>2, <1>3, <1>4, <1>5, <1>6, <1>7, <1>8, <1>9, <1>10, Steps

-----------------------------------------------------------------------------
(* What is closed is forgotten.                                            *)

\* A lock is given to the first in its line, or to the client that asks.
LEMMA NewHolder ==
  ASSUME IInv, [Next]_vars, NEW f \in Files, NEW x \in Clients,
         holder'[f] = x, holder[f] # x
  PROVE  \/ x \in ToSet(line[f])
         \/ client'[x] # "none" /\ \E w \in Workers : x = fd[w]
<1>0. x # NoFd
  BY Descriptors
<1>1. ASSUME \/ Accept \/ ReadPipe \/ QuietStep \/ \E d \in set : Dispatch(d)
             \/ \E w \in Workers : Take(w) \/ Notify(w) \/ TellMain(w) \/ Close(w) \/ SendBack(w)
             \/ \E w \in Workers, g \in Files : Park(w, g)
      PROVE  FALSE
  <2>1. holder' = holder
    BY <1>1, QuietMoves DEF Accept, ReadPipe, Dispatch, Take, Notify, TellMain, Close, SendBack,
       Park, lockVars
  <2> QED
    BY <2>1
<1>2. ASSUME NEW w \in Workers, NotifyGone(w) \/ CloseConnection(w)
      PROVE  x \in ToSet(line[f])
  <2>1. holder'[f] \in {holder[f], NoFd} \cup ToSet(line[f])
    BY <1>2, Departures DEF Departs, LocksGoTo
  <2> QED
    BY <1>0, <2>1
<1>3. ASSUME NEW w \in Workers, NEW o, NEW list \in Line(Clients), Serves(w, o, list)
      PROVE  \/ x \in ToSet(line[f])
             \/ client'[x] # "none" /\ x = fd[w]
  <2>1. holder'[f] \in {holder[f], NoFd, fd[w]} \cup ToSet(line[f])
    BY <1>3 DEF Serves, LocksGoTo
  <2>2. client'[fd[w]] # "none"
    BY <1>3 DEF Serves, Handled, ReadRequest, IInv, TypeOK
  <2> QED
    BY <1>0, <2>1, <2>2
<1> QED
  BY <1>1, <1>2, <1>3, Steps

\* Whoever is newly among those who leave holds no lock any more.
LEMMA NewLeaver ==
  ASSUME IInv, [Next]_vars, NEW w \in Workers, NEW c \in Clients, c \in ToSet(leaving'[w])
  PROVE  c \in ToSet(leaving[w]) \/ \A f \in Files : holder'[f] # c
<1>0. Sequences
  BY SequencesNow
<1>1. ASSUME \/ Accept \/ ReadPipe \/ QuietStep \/ \E d \in set : Dispatch(d)
             \/ \E v \in Workers : Take(v) \/ Notify(v) \/ TellMain(v) \/ SendBack(v)
             \/ \E v \in Workers, g \in Files : Park(v, g)
             \/ \E v \in Workers, o \in {"other", "appendToFile"}, list \in Line(Clients) :
                  Serves(v, o, list)
      PROVE  c \in ToSet(leaving[w])
  <2>1. leaving' = leaving
    BY <1>1, QuietMoves DEF Accept, ReadPipe, Dispatch, Take, Notify, TellMain, SendBack,
       Park, Serves, Handled, workerVars
  <2> QED
    BY <2>1
<1>2. ASSUME NEW v \in Workers, Close(v)
      PROVE  c \in ToSet(leaving[w])
  <2>1. leaving[v] \in Line(Conns) /\ leaving[v] # <<>> /\ DOMAIN leaving = Workers
    BY <1>0, <1>2 DEF Close, Goto, IInv, Shape, WorkersFit, WorkerFits, Sequences
  <2>2. ToSet(Front(leaving[v])) \subseteq ToSet(leaving[v])
    BY <2>1, FrontOfLine
  <2>3. leaving' = [leaving EXCEPT ![v] = Front(leaving[v])]
    BY <1>2 DEF Close
  <2> QED
    BY <2>1, <2>2, <2>3
<1>3. ASSUME NEW v \in Workers, NotifyGone(v) \/ CloseConnection(v)
      PROVE  c \in ToSet(leaving[w]) \/ \A f \in Files : holder'[f] # c
  <2>1. PICK d \in Conns, heirs \in Line(Clients) : Departs(v, d, heirs)
    BY <1>3, Departures
  <2>2. /\ leaving' = [leaving EXCEPT ![v] = Append(leaving[v], d)]
        /\ ToSet(Append(leaving[v], d)) = ToSet(leaving[v]) \cup {d}
        /\ \A f \in Files : holder'[f] # d
    BY <2>1 DEF Departs
  <2> QED
    BY <1>0, <2>2 DEF Sequences
<1> QED
  BY <1>1, <1>2, <1>3, Steps

\* A descriptor is closed by the last step of a departure.
LEMMA NewClosed ==
  ASSUME IInv, [Next]_vars, NEW c \in Clients, client'[c] = "none", client[c] # "none"
  PROVE  /\ holder' = holder /\ Vanishes(c)
         /\ \E w \in Workers : c \in ToSet(leaving[w])
<1>0. client \in [Clients -> {"none", "quiet", "asking", "waiting", "left", "gone"}]
  BY DEF IInv, TypeOK
<1>1. ASSUME NEW w \in Workers, Close(w)
      PROVE  holder' = holder /\ Vanishes(c) /\ c \in ToSet(leaving[w])
  <2>1. PICK d \in Conns : d = Last(leaving[w]) /\ In(d, "leaving", w) /\ Vanishes(d)
    BY <1>1, CloseMoves
  <2>2. client' = [e \in Clients |-> IF e = d THEN "none" ELSE client[e]]
    BY <1>1, <2>1 DEF Close
  <2>3. c = d
    BY <2>2
  <2>4. holder' = holder
    BY <1>1 DEF Close, lockVars
  <2> QED
    BY <2>1, <2>3, <2>4 DEF In
<1>2. ASSUME ReadPipe \/ QuietStep \/ \E d \in set : Dispatch(d)
      PROVE  FALSE
  BY <1>0, <1>2 DEF QuietStep, ReadSignal, DeleteQueue, JoinWorkers, Ask, HangUp, Return, Answer,
     Answered, ReadPipe, Dispatch, clientVars, vars
<1>3. ASSUME Accept PROVE FALSE
  <2>1. \E new \in Clients : client' = [client EXCEPT ![new] = "quiet"]
    BY <1>3, AcceptMoves
  <2> QED
    BY <1>0, <2>1
<1>4. ASSUME NEW w \in Workers, Take(w) \/ Notify(w) \/ TellMain(w) \/ SendBack(w)
      PROVE  FALSE
  BY <1>0, <1>4 DEF Take, Notify, Answered, TellMain, SendBack, clientVars
<1>5. ASSUME NEW w \in Workers, NotifyGone(w) \/ CloseConnection(w)
      PROVE  FALSE
  BY <1>5 DEF NotifyGone, CloseConnection, Depart, clientVars
<1>6. ASSUME NEW w \in Workers, NEW f \in Files, Park(w, f)
      PROVE  FALSE
  BY <1>0, <1>6 DEF Park, ReadRequest
<1>7. ASSUME NEW w \in Workers, NEW o, NEW list \in Line(Clients), Serves(w, o, list)
      PROVE  FALSE
  BY <1>0, <1>7 DEF Serves, Handled, ReadRequest
<1> QED
  BY <1>1, <1>2, <1>3, <1>4, <1>5, <1>6, <1>7, Steps

LEMMA NothingLeftKept ==
  ASSUME IInv, [Next]_vars
  PROVE  NothingLeft'
<1>0. NothingLeft /\ OnePlace
  BY DEF IInv, Shape
<1>1. ASSUME NEW c \in Clients, NEW w \in Workers, c \in ToSet(leaving'[w]),
             NEW f \in Files, holder'[f] = c
      PROVE  FALSE
  <2>1. c \in ToSet(leaving[w])
    BY <1>1, NewLeaver
  <2>2. holder[f] # c
    BY <1>0, <2>1 DEF NothingLeft, Held
  <2>3. (c \in ToSet(line[f])) \/ \E v \in Workers : c = fd[v]
    BY <1>1, <2>2, NewHolder
  <2>4. In(c, "leaving", w) /\ (In(c, "line", f) \/ \E v \in Workers : In(c, "fd", v))
    BY <2>1, <2>3 DEF In
  <2>5. c \in Conns /\ "leaving" # "line" /\ "leaving" # "fd"
    BY Descriptors
  <2> QED
    BY <1>0, <2>4, <2>5 DEF OnePlace
<1>2. ASSUME NEW c \in Clients, client'[c] = "none"
      PROVE  ~ Somewhere(c)' /\ \A f \in Files : holder'[f] # c
  <2>1. CASE client[c] # "none"
    <3>1. /\ holder' = holder /\ Vanishes(c)
          /\ \E w \in Workers : c \in ToSet(leaving[w])
      BY <1>2, <2>1, NewClosed
    <3>2. Held(c) = {}
      BY <1>0, <3>1 DEF NothingLeft
    <3> QED
      BY <3>1, <3>2 DEF Held, Vanishes, Somewhere
  <2>2. CASE client[c] = "none"
    <3>1. ~ Somewhere(c) /\ Held(c) = {}
      BY <1>0, <2>2 DEF NothingLeft
    <3>2. Stays(c) \/ Vanishes(c)
      <4>1. Moved(c)
        BY <1>2, StepMoves, Descriptors
      <4> QED
        BY <3>1, <4>1 DEF Moved
    <3>3. ~ Somewhere(c)'
      BY <3>1, <3>2 DEF Stays, Vanishes, Somewhere
    <3>4. ASSUME NEW f \in Files, holder'[f] = c PROVE FALSE
      <4>1. holder[f] # c
        BY <3>1 DEF Held
      <4>2. c \in ToSet(line[f])
        BY <1>2, <3>4, <4>1, NewHolder
      <4> QED
        BY <3>1, <4>2 DEF Somewhere, In
    <3> QED
      BY <3>3, <3>4
  <2> QED
    BY <2>1, <2>2
<1>3. \A c \in Clients : Held(c)' = {f \in Files : holder'[f] = c}
  BY DEF Held
<1> QED
  BY <1>1, <1>2, <1>3 DEF NothingLeft, Clients

-----------------------------------------------------------------------------
(* Everybody is heard.                                                     *)

LEMMA HeardKept ==
  ASSUME IInv, [Next]_vars
  PROVE  EverybodyIsHeard'
<1>0. /\ \A d \in set : d <= fd_num
      /\ set \subseteq 1 .. MaxFd /\ fd_num \in 0 .. MaxFd /\ MaxFd \in Nat
  BY Descriptors DEF IInv, TypeOK, EverybodyIsHeard
<1>1. ASSUME Accept PROVE EverybodyIsHeard'
  <2>1. PICK new \in Clients : set' = set \cup {new} /\ fd_num' = IF fd_num <= new THEN new ELSE fd_num
    BY <1>1, AcceptMoves
  <2>2. new \in Int
    BY Descriptors
  <2> QED
    BY <1>0, <2>1, <2>2 DEF EverybodyIsHeard
<1>2. ASSUME ReadPipe PROVE EverybodyIsHeard'
  <2>1. CASE Head(pipe) = Disconnect
    BY <1>0, <1>2, <2>1 DEF ReadPipe, EverybodyIsHeard
  <2>2. CASE Head(pipe) # Disconnect
    <3>1. PICK h \in Clients : h = Head(pipe)
      BY <1>2, <2>2, ReadPipeMoves
    <3>2. set' = set \cup {h} /\ fd_num' = Max({fd_num, h}) /\ h \in Int /\ fd_num \in Int
      BY <1>0, <1>2, <2>2, <3>1, Descriptors DEF ReadPipe
    <3>3. fd_num' = IF fd_num <= h THEN h ELSE fd_num
      BY <3>2, GreatestOfTwo
    <3> QED
      BY <1>0, <3>2, <3>3 DEF EverybodyIsHeard
  <2> QED
    BY <2>1, <2>2
<1>3. ASSUME NEW d \in set, Dispatch(d) PROVE EverybodyIsHeard'
  <2>1. set' = set \ {d} /\ fd_num' = IF d = fd_num THEN fd_num - 1 ELSE fd_num
    BY <1>3 DEF Dispatch
  <2>2. \A e \in set : e \in Int
    BY <1>0
  <2> QED
    BY <1>0, <2>1, <2>2 DEF EverybodyIsHeard
<1>4. ASSUME \/ QuietStep
             \/ \E w \in Workers : Take(w) \/ Notify(w) \/ TellMain(w) \/ Close(w) \/ SendBack(w)
                                   \/ NotifyGone(w) \/ CloseConnection(w)
             \/ \E w \in Workers, f \in Files : Park(w, f)
             \/ \E w \in Workers, o \in {"other", "appendToFile"}, list \in Line(Clients) :
                  Serves(w, o, list)
      PROVE  EverybodyIsHeard'
  <2>1. UNCHANGED <<set, fd_num>>
    BY <1>4, QuietMoves DEF Take, Notify, TellMain, Close, SendBack, NotifyGone, CloseConnection,
       Depart, Park, Serves, Handled, mainVars
  <2> QED
    BY <1>0, <2>1 DEF EverybodyIsHeard
<1> QED
  BY <1>1, <1>2, <1>3, <1>4, Steps

-----------------------------------------------------------------------------
(* The clients are counted right.                                          *)

\* The connections main has still to be told about.
Present == {c \in Clients : client[c] # "none"} \ SaidGoodbye

\* The listening socket is open, or main has still to be told that it is not.
Listening ==
  \/ In(Listener, "set", NoFd) \/ In(Listener, "queue", NoFd)
  \/ \E w \in Workers : \/ In(Listener, "fd", w)
                        \/ pc[w] = "notify" /\ In(Listener, "leaving", w)

LEMMA CountMeans ==
  /\ Refused = IF Listening THEN 0 ELSE 1
  /\ CountIsRight <=>
       nOfConnectedClients = Cardinality(Present) + Cardinality(Byes(pipe)) - Refused
<1>1. Listening <=>
        \/ Listener \in set \cup ToSet(queue)
        \/ \E w \in Workers : \/ fd[w] = Listener
                              \/ pc[w] = "notify" /\ Listener \in ToSet(leaving[w])
  BY DEF Listening, In
<1> QED
  BY <1>1 DEF Refused, CountIsRight, Present, Byes


\* The same before and after a step.
LEMMA CountMeansThen ==
  /\ Refused' = IF Listening' THEN 0 ELSE 1
  /\ CountIsRight' <=>
       nOfConnectedClients' = Cardinality(Present') + Cardinality(Byes(pipe')) - Refused'
<1>1. (/\ Refused = IF Listening THEN 0 ELSE 1
       /\ CountIsRight <=>
            nOfConnectedClients = Cardinality(Present) + Cardinality(Byes(pipe)) - Refused)'
  BY CountMeans, PTL
<1> QED
  BY <1>1 DEF Byes

LEMMA CountsAreNumbers ==
  ASSUME IInv
  PROVE  /\ IsFiniteSet(Present) /\ Cardinality(Present) \in Nat
         /\ Cardinality(Byes(pipe)) \in Nat /\ Refused \in {0, 1}
         /\ nOfConnectedClients = Cardinality(Present) + Cardinality(Byes(pipe)) - Refused
<1>1. IsFiniteSet(Present) /\ Cardinality(Present) \in Nat
  BY Descriptors, FS_Subset, FS_CardinalityType DEF Present
<1>2. Cardinality(Byes(pipe)) \in Nat
  <2>1. pipe \in Seq(InPipe)
    BY SequencesNow DEF Sequences
  <2>2. Len(pipe) \in Nat /\ DOMAIN pipe = 1 .. Len(pipe)
    BY <2>1, LenProperties
  <2>3. IsFiniteSet(1 .. Len(pipe)) /\ Byes(pipe) \subseteq 1 .. Len(pipe)
    BY <2>2, FS_Interval DEF Byes
  <2> QED
    BY <2>3, FS_Subset, FS_CardinalityType
<1> QED
  BY <1>1, <1>2, CountMeans DEF Refused, IInv

\* Those who said goodbye, by the worker that closes them.
LEMMA Goodbyes ==
  ASSUME IInv
  PROVE  \A w \in Workers : pc[w] = "close" =>
           /\ Last(leaving[w]) \in ToSet(leaving[w])
           /\ Last(leaving[w]) \in Conns
<1> SUFFICES ASSUME NEW w \in Workers, pc[w] = "close"
             PROVE  Last(leaving[w]) \in ToSet(leaving[w]) /\ Last(leaving[w]) \in Conns
  OBVIOUS
<1>1. leaving[w] \in Line(Conns) /\ leaving[w] # <<>>
  BY SequencesNow DEF Sequences, IInv, Shape, WorkersFit, WorkerFits
<1> QED
  BY <1>1, FrontOfLine

\* Steps that neither tell main nor close a descriptor.
Plain ==
  \/ Accept \/ ReadPipe \/ QuietStep \/ \E d \in set : Dispatch(d)
  \/ \E w \in Workers : \/ Take(w) \/ Notify(w) \/ SendBack(w)
                        \/ NotifyGone(w) \/ CloseConnection(w)
  \/ \E w \in Workers, f \in Files : Park(w, f)
  \/ \E w \in Workers, o \in {"other", "appendToFile"}, list \in Line(Clients) : Serves(w, o, list)

LEMMA ClosersKept ==
  ASSUME IInv, Plain
  PROVE  \A w \in Workers : /\ pc'[w] = "close" <=> pc[w] = "close"
                            /\ pc[w] = "close" => leaving'[w] = leaving[w]
<1>0. /\ DOMAIN pc = Workers /\ DOMAIN leaving = Workers
  BY DEF IInv, TypeOK
<1>1. \A w \in Workers : pc'[w] = "close" <=> pc[w] = "close"
  BY <1>0 DEF Plain, Accept, ReadPipe, QuietStep, Ask, HangUp, ReadSignal, DeleteQueue,
     JoinWorkers, Return, Answer, Dispatch, Take, Notify, SendBack, NotifyGone,
     CloseConnection, Park, Serves, Handled, Goto, workerVars, vars
<1>2. ASSUME NEW w \in Workers, pc[w] = "close"
      PROVE  leaving'[w] = leaving[w]
  <2>1. CASE \E v \in Workers : NotifyGone(v) \/ CloseConnection(v)
    <3>1. PICK v \in Workers : NotifyGone(v) \/ CloseConnection(v)
      BY <2>1
    <3>2. v # w
      BY <1>2, <3>1 DEF NotifyGone, CloseConnection
    <3> QED
      BY <1>0, <3>1, <3>2 DEF NotifyGone, CloseConnection, Depart
  <2>2. CASE ~ \E v \in Workers : NotifyGone(v) \/ CloseConnection(v)
    <3>1. leaving' = leaving
      BY <2>2 DEF Plain, Accept, ReadPipe, QuietStep, Ask, HangUp, ReadSignal, DeleteQueue,
         JoinWorkers, Return, Answer, Dispatch, Take, Notify, SendBack,
         Park, Serves, Handled, workerVars, vars
    <3> QED
      BY <3>1
  <2> QED
    BY <2>1, <2>2
<1> QED
  BY <1>1, <1>2

LEMMA GoodbyeKept ==
  ASSUME IInv, Plain
  PROVE  SaidGoodbye' = SaidGoodbye
BY ClosersKept DEF SaidGoodbye, Clients

\* The listening socket is somewhere, and nobody has said that it is lost.
Lost == \E w \in Workers : pc[w] = "close" /\ In(Listener, "leaving", w)

LEMMA ListeningMeans == TypeOK /\ Shape => (Listening <=> Somewhere(Listener) /\ ~ Lost)
<1> SUFFICES ASSUME TypeOK, Shape
             PROVE  Listening <=> Somewhere(Listener) /\ ~ Lost
  OBVIOUS
<1>0. Listener \in Conns /\ Listener \notin Clients
  BY Descriptors
<1>1. ASSUME Listening PROVE Somewhere(Listener) /\ ~ Lost
  <2>1. Somewhere(Listener)
    BY <1>1 DEF Listening, Somewhere
  <2>2. ASSUME NEW w \in Workers, pc[w] = "close", In(Listener, "leaving", w)
        PROVE  FALSE
    <3>1. \A p, o : In(Listener, p, o) => p = "leaving" /\ o = w
      BY <1>0, <2>2, Nowhere DEF Shape
    <3>2. "leaving" # "set" /\ "leaving" # "queue" /\ "leaving" # "fd" /\ "notify" # "close"
      OBVIOUS
    <3> QED
      BY <1>1, <2>2, <3>1, <3>2 DEF Listening
  <2> QED
    BY <2>1, <2>2 DEF Lost
<1>2. ASSUME Somewhere(Listener), ~ Lost PROVE Listening
  <2>1. /\ Listener \notin ToSet(pipe)
        /\ \A f \in Files : Listener \notin ToSet(line[f])
        /\ \A w \in Workers : Listener \notin ToSet(notify[w])
    BY <1>0, ElementsAreConns DEF Shape
  <2>2. PICK p, o : In(Listener, p, o)
    BY <1>2 DEF Somewhere
  <2>3. \/ In(Listener, "set", NoFd) \/ In(Listener, "queue", NoFd)
        \/ o \in Workers /\ In(Listener, "fd", o)
        \/ o \in Workers /\ In(Listener, "leaving", o)
    BY <2>1, <2>2 DEF In
  <2>4. ASSUME o \in Workers, In(Listener, "leaving", o)
        PROVE  pc[o] = "notify"
    <3>1. leaving[o] # <<>>
      BY <2>4, EmptyLine DEF In
    <3>2. pc[o] \in {"dequeue", "read", "answer", "notify", "close", "returned"}
      BY <2>4 DEF TypeOK
    <3>3. WorkerFits(o)
      BY <2>4 DEF Shape, WorkersFit
    <3>4. pc[o] # "close"
      BY <1>2, <2>4 DEF Lost
    <3> QED
      BY <3>1, <3>2, <3>3, <3>4 DEF WorkerFits
  <2> QED
    BY <2>3, <2>4 DEF Listening
<1> QED
  BY <1>1, <1>2

LEMMA ShapeKept ==
  ASSUME IInv, [Next]_vars
  PROVE  TypeOK' /\ Shape'
BY TypesKept, OnePlaceKept, InOrderKept, WorkersFitKept, NothingLeftKept DEF Shape

LEMMA ListeningKept ==
  ASSUME IInv, [Next]_vars, Plain
  PROVE  Listening' <=> Listening
<1>0. Listener \in Conns /\ Listener \notin Clients
  BY Descriptors
<1>1. Stays(Listener) \/ (Somewhere(Listener) /\ \E q, u : Goes(Listener, q, u))
  <2>1. CASE Accept
    BY <1>0, <2>1, AcceptMoves
  <2>2. CASE ReadPipe
    BY <1>0, <2>2, ReadPipeMoves
  <2>3. CASE QuietStep
    BY <1>0, <2>3, QuietMoves
  <2>4. ASSUME NEW d \in set, Dispatch(d)
        PROVE  Stays(Listener) \/ (Somewhere(Listener) /\ \E q, u : Goes(Listener, q, u))
    <3>1. In(d, "set", NoFd)
      BY DEF In
    <3> QED
      BY <1>0, <2>4, <3>1, DispatchMoves DEF Somewhere
  <2>5. ASSUME NEW w \in Workers, Take(w)
        PROVE  Stays(Listener) \/ (Somewhere(Listener) /\ \E q, u : Goes(Listener, q, u))
    BY <1>0, <2>5, TakeMoves DEF Somewhere
  <2>6. ASSUME NEW w \in Workers, Notify(w)
        PROVE  Stays(Listener)
    BY <1>0, <2>6, NotifyMoves
  <2>7. ASSUME NEW w \in Workers, SendBack(w)
        PROVE  Stays(Listener)
    BY <1>0, <2>7, SendBackMoves
  <2>8. ASSUME NEW w \in Workers, NotifyGone(w) \/ CloseConnection(w)
        PROVE  Stays(Listener) \/ (Somewhere(Listener) /\ \E q, u : Goes(Listener, q, u))
    <3>1. PICK c \in Conns, heirs \in Line(Clients) : Departs(w, c, heirs) /\ Somewhere(c)
      BY <2>8, Departures
    <3>2. Listener \notin ToSet(heirs) /\ Listener \notin ToSet(notify[w])
      BY <1>0, <3>1, ElementsOfLine, ElementsAreConns DEF IInv, Shape
    <3> QED
      BY <1>0, <3>1, <3>2 DEF Departs
  <2>9. ASSUME NEW w \in Workers, NEW f \in Files, Park(w, f)
        PROVE  Stays(Listener)
    BY <1>0, <2>9, ParkMoves
  <2>10. ASSUME NEW w \in Workers, NEW o, NEW list \in Line(Clients), Serves(w, o, list)
         PROVE  Stays(Listener)
    <3>1. Listener \notin ToSet(list)
      BY <1>0, ElementsOfLine
    <3> QED
      BY <1>0, <2>10, <3>1, ServesMoves
  <2> QED
    BY <2>1, <2>2, <2>3, <2>4, <2>5, <2>6, <2>7, <2>8, <2>9, <2>10 DEF Plain
<1>2. Somewhere(Listener)' <=> Somewhere(Listener)
  BY <1>1 DEF Stays, Goes, Somewhere
<1>3. Lost' <=> Lost
  <2>1. \A w \in Workers :
          pc[w] = "close" => (In(Listener, "leaving", w)' <=> In(Listener, "leaving", w))
    BY ClosersKept DEF In, Listener
  <2> QED
    BY <2>1, ClosersKept DEF Lost, Listener
<1>4. (Listening <=> Somewhere(Listener) /\ ~ Lost)'
  <2>1. (TypeOK /\ Shape => (Listening <=> Somewhere(Listener) /\ ~ Lost))'
    BY ListeningMeans, PTL
  <2> QED
    BY <2>1, ShapeKept
<1>5. Listening <=> Somewhere(Listener) /\ ~ Lost
  BY ListeningMeans DEF IInv
<1> QED
  BY <1>2, <1>3, <1>4, <1>5

LEMMA TellMainCounts ==
  ASSUME IInv, [Next]_vars, NEW w \in Workers, TellMain(w)
  PROVE  CountIsRight'
<1>0. /\ pc[w] = "notify" /\ pc' = [pc EXCEPT ![w] = "close"]
      /\ UNCHANGED <<leaving, client, nOfConnectedClients>>
      /\ leaving[w] # <<>> /\ leaving[w] \in Line(Conns) /\ DOMAIN pc = Workers
  BY SequencesNow DEF TellMain, Goto, clientVars, mainVars, Sequences, IInv, TypeOK
<1>1. PICK c \in Conns : c = Last(leaving[w]) /\ c \in ToSet(leaving[w])
  BY <1>0, FrontOfLine
<1>2. \A v \in Workers \ {w} : c \notin ToSet(leaving[v])
  <2>1. In(c, "leaving", w)
    BY <1>1 DEF In
  <2>2. \A p, o : In(c, p, o) => p = "leaving" /\ o = w
    BY <2>1, Nowhere DEF IInv, Shape
  <2> QED
    BY <2>2 DEF In
<1>3. \A v \in Workers : pc'[v] = "close" <=> pc[v] = "close" \/ v = w
  BY <1>0
<1>4. SaidGoodbye' = SaidGoodbye \cup (Clients \cap {c})
  BY <1>0, <1>1, <1>3 DEF SaidGoodbye, Clients
<1>5. Lost' <=> Lost \/ Listener \in ToSet(leaving[w])
  BY <1>0, <1>3 DEF Lost, In, Listener
<1>6. Somewhere(Listener)' <=> Somewhere(Listener)
  BY TellMainMoves, Descriptors DEF Somewhere, Stays
<1>7. /\ Listening <=> Somewhere(Listener) /\ ~ Lost
      /\ Listening' <=> Somewhere(Listener)' /\ ~ Lost'
  <2>1. (TypeOK /\ Shape => (Listening <=> Somewhere(Listener) /\ ~ Lost))'
    BY ListeningMeans, PTL
  <2>2. TypeOK /\ Shape /\ TypeOK' /\ Shape'
    BY ShapeKept DEF IInv
  <2> QED
    BY <2>1, <2>2, ListeningMeans
<1>8. /\ Cardinality(Byes(pipe')) = Cardinality(Byes(pipe)) + 1
      /\ IsFiniteSet(Present) /\ Cardinality(Present) \in Nat
      /\ Cardinality(Byes(pipe)) \in Nat
      /\ nOfConnectedClients = Cardinality(Present) + Cardinality(Byes(pipe)) - Refused
  BY TellMainMoves, CountsAreNumbers
<1>9. CASE c \in Clients
  <2>1. c \in Present
    <3>1. client[c] # "none"
      BY <1>0, <1>1, <1>9 DEF IInv, Shape, NothingLeft, Somewhere, In
    <3>2. c \notin SaidGoodbye
      <4>1. \A v \in Workers : pc[v] = "close" => Last(leaving[v]) \in ToSet(leaving[v])
        BY Goodbyes
      <4> QED
        BY <1>0, <1>2, <4>1 DEF SaidGoodbye
    <3> QED
      BY <1>9, <3>1, <3>2 DEF Present
  <2>2. Present' = Present \ {c}
    BY <1>0, <1>4, <1>9 DEF Present, Clients
  <2>3. Listener \notin ToSet(leaving[w])
    <3>1. WorkerFits(w)
      BY DEF IInv, Shape, WorkersFit
    <3>2. ASSUME Listener \in ToSet(leaving[w]) PROVE FALSE
      <4>1. leaving[w] = <<Listener>>
        BY <3>1, <3>2 DEF WorkerFits
      <4>2. c \in ToSet(<<Listener>>)
        BY <1>1, <4>1
      <4>3. c = Listener
        BY <4>2, LineOfOne, Descriptors
      <4> QED
        BY <1>9, <4>3, Descriptors
    <3> QED
      BY <3>2
  <2>4. Listening' <=> Listening
    BY <1>5, <1>6, <1>7, <2>3
  <2>5. Cardinality(Present') = Cardinality(Present) - 1
    BY <1>8, <2>1, <2>2, FS_RemoveElement
  <2>6. Refused' = Refused
    BY <2>4, CountMeans, CountMeansThen
  <2> QED
    BY <1>0, <1>8, <2>5, <2>6, CountMeansThen, CountsAreNumbers
<1>10. CASE c = Listener
  <2>1. Present' = Present
    BY <1>0, <1>4, <1>10, Descriptors DEF Present, Clients
  <2>2. Listening
    BY <1>0, <1>1, <1>10 DEF Listening, In
  <2>3. ~ Listening'
    BY <1>1, <1>5, <1>7, <1>10
  <2>4. Refused = 0 /\ Refused' = 1
    BY <2>2, <2>3, CountMeans, CountMeansThen
  <2> QED
    BY <1>0, <1>8, <2>1, <2>4, CountMeansThen
<1> QED
  BY <1>9, <1>10 DEF Conns

LEMMA CloseCounts ==
  ASSUME IInv, [Next]_vars, NEW w \in Workers, Close(w)
  PROVE  CountIsRight'
<1>0. /\ pc[w] = "close" /\ pc' = [pc EXCEPT ![w] = pc'[w]] /\ pc'[w] # "close"
      /\ UNCHANGED <<pipe, nOfConnectedClients>>
      /\ leaving' = [leaving EXCEPT ![w] = Front(leaving[w])]
      /\ DOMAIN pc = Workers /\ DOMAIN leaving = Workers
  BY DEF Close, Goto, mainVars, IInv, TypeOK
<1>1. PICK c \in Conns :
        /\ c = Last(leaving[w]) /\ In(c, "leaving", w) /\ Vanishes(c)
        /\ \A d \in Conns \ {c} : Stays(d)
  BY CloseMoves
<1>2. \A v \in Workers \ {w} : c \notin ToSet(leaving[v])
  <2>1. \A p, o : In(c, p, o) => p = "leaving" /\ o = w
    BY <1>1, Nowhere DEF IInv, Shape
  <2> QED
    BY <2>1 DEF In
<1>3. /\ \A v \in Workers : pc'[v] = "close" <=> pc[v] = "close" /\ v # w
      /\ \A v \in Workers \ {w} : leaving'[v] = leaving[v]
  BY <1>0
<1>4. SaidGoodbye' = SaidGoodbye \ {c}
  <2>1. ASSUME NEW v \in Workers, v # w, pc[v] = "close" PROVE Last(leaving[v]) # c
    BY <1>2, <2>1, Goodbyes
  <2>2. \A d : d \in SaidGoodbye =>
          d = c \/ \E v \in Workers \ {w} : pc[v] = "close" /\ d = Last(leaving[v])
    BY <1>1 DEF SaidGoodbye
  <2> QED
    BY <1>3, <2>1, <2>2 DEF SaidGoodbye, Clients
<1>5. Present' = Present
  <2>1. client' = [d \in Clients |-> IF d = c THEN "none" ELSE client[d]]
    BY <1>1 DEF Close
  <2>2. c \in Clients => c \in SaidGoodbye
    BY <1>0, <1>1 DEF SaidGoodbye
  <2> QED
    BY <1>4, <2>1, <2>2 DEF Present, Clients
<1>6. Listening' <=> Listening
  <2>1. /\ Listening <=> Somewhere(Listener) /\ ~ Lost
        /\ Listening' <=> Somewhere(Listener)' /\ ~ Lost'
    <3>1. (TypeOK /\ Shape => (Listening <=> Somewhere(Listener) /\ ~ Lost))'
      BY ListeningMeans, PTL
    <3>2. TypeOK /\ Shape /\ TypeOK' /\ Shape'
      BY ShapeKept DEF IInv
    <3> QED
      BY <3>1, <3>2, ListeningMeans
  <2>2. CASE c = Listener
    <3>1. Lost /\ ~ Somewhere(Listener)'
      BY <1>0, <1>1, <2>2 DEF Lost, Vanishes, Somewhere
    <3> QED
      BY <2>1, <3>1
  <2>3. CASE c # Listener
    <3>1. Somewhere(Listener)' <=> Somewhere(Listener)
      BY <1>1, <2>3, Descriptors DEF Somewhere, Stays
    <3>2. Listener \notin ToSet(leaving[w])
      <4>1. WorkerFits(w) /\ c \in ToSet(leaving[w])
        BY <1>1 DEF IInv, Shape, WorkersFit, In
      <4>2. ASSUME Listener \in ToSet(leaving[w]) PROVE FALSE
        <5>1. c \in ToSet(<<Listener>>)
          BY <4>1, <4>2 DEF WorkerFits
        <5> QED
          BY <2>3, <5>1, LineOfOne, Descriptors
      <4> QED
        BY <4>2
    <3>3. Lost' <=> Lost
      BY <1>3, <3>2 DEF Lost, In, Listener
    <3> QED
      BY <2>1, <3>1, <3>3
  <2> QED
    BY <2>2, <2>3
<1>7. Refused' = Refused /\ Byes(pipe') = Byes(pipe)
  BY <1>0, <1>6, CountMeans, CountMeansThen
<1> QED
  BY <1>0, <1>5, <1>7, CountMeansThen, CountsAreNumbers

LEMMA AcceptCounts ==
  ASSUME IInv, [Next]_vars, Accept
  PROVE  CountIsRight'
<1>1. PICK new \in Clients : client[new] = "none" /\ client' = [client EXCEPT ![new] = "quiet"]
  BY AcceptMoves
<1>2. SaidGoodbye' = SaidGoodbye
  BY GoodbyeKept DEF Plain
<1>3. new \notin SaidGoodbye
  <2>1. ASSUME NEW w \in Workers, pc[w] = "close", new = Last(leaving[w]) PROVE FALSE
    <3>1. In(new, "leaving", w)
      BY <2>1, Goodbyes DEF In
    <3> QED
      BY <1>1, <3>1 DEF IInv, Shape, NothingLeft, Somewhere
  <2> QED
    BY <2>1 DEF SaidGoodbye
<1>4. Present' = Present \cup {new} /\ new \notin Present
  <2>1. DOMAIN client = Clients
    BY DEF IInv, TypeOK
  <2> QED
    BY <1>1, <1>2, <1>3, <2>1 DEF Present, Clients
<1>5. /\ IsFiniteSet(Present) /\ Cardinality(Present) \in Nat
      /\ Cardinality(Byes(pipe)) \in Nat /\ Refused \in {0, 1}
      /\ nOfConnectedClients = Cardinality(Present) + Cardinality(Byes(pipe)) - Refused
  BY CountsAreNumbers
<1>6. Cardinality(Present') = Cardinality(Present) + 1
  BY <1>4, <1>5, FS_AddElement
<1>7. pipe' = pipe /\ nOfConnectedClients' = nOfConnectedClients + 1
  BY DEF Accept
<1>8. Refused' = Refused
  BY ListeningKept, CountMeans, CountMeansThen DEF Plain
<1> QED
  BY <1>5, <1>6, <1>7, <1>8, CountMeansThen

\* Only main gives a descriptor an owner, and only a worker that closes it
\* takes it away.
LEMMA NoneStays ==
  ASSUME IInv, Plain, ~ Accept, NEW c \in Clients
  PROVE  client'[c] = "none" <=> client[c] = "none"
<1>0. client \in [Clients -> {"none", "quiet", "asking", "waiting", "left", "gone"}]
  BY DEF IInv, TypeOK
<1>1. ASSUME ReadPipe \/ QuietStep \/ \E d \in set : Dispatch(d)
      PROVE  client'[c] = "none" <=> client[c] = "none"
  BY <1>0, <1>1 DEF QuietStep, ReadSignal, DeleteQueue, JoinWorkers, Ask, HangUp, Return, Answer,
     Answered, ReadPipe, Dispatch, clientVars, vars
<1>2. ASSUME NEW w \in Workers, Take(w) \/ Notify(w) \/ SendBack(w)
      PROVE  client'[c] = "none" <=> client[c] = "none"
  BY <1>0, <1>2 DEF Take, Notify, Answered, SendBack, clientVars
<1>3. ASSUME NEW w \in Workers, NotifyGone(w) \/ CloseConnection(w)
      PROVE  client'[c] = "none" <=> client[c] = "none"
  BY <1>3 DEF NotifyGone, CloseConnection, Depart, clientVars
<1>4. ASSUME NEW w \in Workers, NEW f \in Files, Park(w, f)
      PROVE  client'[c] = "none" <=> client[c] = "none"
  BY <1>0, <1>4 DEF Park, ReadRequest
<1>5. ASSUME NEW w \in Workers, NEW o, NEW list, Serves(w, o, list)
      PROVE  client'[c] = "none" <=> client[c] = "none"
  BY <1>0, <1>5 DEF Serves, Handled, ReadRequest
<1> QED
  BY <1>1, <1>2, <1>3, <1>4, <1>5 DEF Plain

LEMMA CountKept ==
  ASSUME IInv, [Next]_vars
  PROVE  CountIsRight'
<1>0. /\ IsFiniteSet(Present) /\ Cardinality(Present) \in Nat
      /\ Cardinality(Byes(pipe)) \in Nat /\ Refused \in {0, 1}
      /\ nOfConnectedClients = Cardinality(Present) + Cardinality(Byes(pipe)) - Refused
  BY CountsAreNumbers
<1>1. CASE Accept
  BY <1>1, AcceptCounts
<1>2. CASE \E w \in Workers : TellMain(w) \/ Close(w)
  BY <1>2, TellMainCounts, CloseCounts
<1>3. ASSUME Plain, ~ Accept PROVE CountIsRight'
  <2>1. SaidGoodbye' = SaidGoodbye /\ Refused' = Refused
    BY <1>3, GoodbyeKept, ListeningKept, CountMeans, CountMeansThen
  <2>2. Present' = Present
    <3>1. \A c \in Clients : client'[c] = "none" <=> client[c] = "none"
      BY <1>3, NoneStays
    <3> QED
      BY <2>1, <3>1 DEF Present, Clients
  <2>3. /\ Cardinality(Byes(pipe')) \in Nat
        /\ nOfConnectedClients' - Cardinality(Byes(pipe'))
             = nOfConnectedClients - Cardinality(Byes(pipe))
    <3>1. CASE ReadPipe
      <4>1. nOfConnectedClients' =
              IF Head(pipe) = Disconnect THEN nOfConnectedClients - 1 ELSE nOfConnectedClients
        BY <3>1 DEF ReadPipe
      <4>2. /\ Cardinality(Byes(pipe)) =
                 Cardinality(Byes(pipe')) + (IF Head(pipe) = Disconnect THEN 1 ELSE 0)
            /\ Cardinality(Byes(pipe')) \in Nat
        BY <3>1, ReadPipeMoves, FS_CardinalityType
      <4> QED
        BY <1>0, <4>1, <4>2
    <3>2. CASE ~ ReadPipe
      <4>1. Byes(pipe') = Byes(pipe) /\ nOfConnectedClients' = nOfConnectedClients
        <5>1. ASSUME NEW w \in Workers, Notify(w) \/ SendBack(w)
              PROVE  Byes(pipe') = Byes(pipe) /\ nOfConnectedClients' = nOfConnectedClients
          BY <5>1, NotifyMoves, SendBackMoves DEF Notify, SendBack, mainVars
        <5>2. ASSUME \/ QuietStep
                     \/ \E d \in set : Dispatch(d)
                     \/ \E w \in Workers : Take(w) \/ NotifyGone(w) \/ CloseConnection(w)
                     \/ \E w \in Workers, f \in Files : Park(w, f)
                     \/ \E w \in Workers, o \in {"other", "appendToFile"}, list \in Line(Clients) :
                          Serves(w, o, list)
              PROVE  pipe' = pipe /\ nOfConnectedClients' = nOfConnectedClients
          BY <5>2, QuietMoves DEF Dispatch, Take, NotifyGone, CloseConnection, Depart, Park,
             Serves, Handled, mainVars
        <5> QED
          BY <1>3, <3>2, <5>1, <5>2 DEF Plain
      <4> QED
        BY <1>0, <4>1
    <3> QED
      BY <3>1, <3>2
  <2>4. nOfConnectedClients \in Int /\ nOfConnectedClients' \in Int
    BY TypesKept DEF IInv, TypeOK
  <2> QED
    BY <1>0, <2>1, <2>2, <2>3, <2>4, CountMeansThen
<1> QED
  BY <1>1, <1>2, <1>3, Steps DEF Plain

-----------------------------------------------------------------------------
(* The theorems.                                                           *)

LEMMA InvKept == IInv /\ [Next]_vars => IInv'
BY ShapeKept, HeardKept, CountKept DEF IInv

LEMMA Inductive == Spec => []IInv
BY InitInv, InvKept, PTL DEF Spec

\* Type correctness.
THEOREM TypeCorrectness == Spec => []TypeOK
BY Inductive, PTL DEF IInv

\* The entry e of Places that the place p of o makes for c.
Entry(c, p, o, e) ==
  \/ p = "set" /\ o = NoFd /\ c \in set /\ e = <<"set", c>>
  \/ p = "queue" /\ o = NoFd /\ \E i \in DOMAIN queue : queue[i] = c /\ e = <<"queue", i>>
  \/ p = "pipe" /\ o = NoFd /\ \E i \in DOMAIN pipe : pipe[i] = c /\ e = <<"pipe", i>>
  \/ p = "fd" /\ o \in Workers /\ fd[o] = c /\ e = <<"fd", o>>
  \/ p = "line" /\ o \in Files /\ \E i \in DOMAIN line[o] : line[o][i] = c /\ e = <<"line", o, i>>
  \/ p = "notify" /\ o \in Workers
     /\ \E i \in DOMAIN notify[o] : notify[o][i] = c /\ e = <<"notify", o, i>>
  \/ p = "leaving" /\ o \in Workers
     /\ \E i \in DOMAIN leaving[o] : leaving[o][i] = c /\ e = <<"leaving", o, i>>

LEMMA EntryOfPlace ==
  ASSUME TypeOK, NEW c \in Clients, NEW e \in Places(c)
  PROVE  \E p, o : Entry(c, p, o, e)
<1>1. DOMAIN fd = Workers
  BY DEF TypeOK
<1>2. CASE \/ \E d \in set \cap {c} : e = <<"set", d>>
           \/ \E i \in DOMAIN queue : queue[i] = c /\ e = <<"queue", i>>
           \/ \E i \in DOMAIN pipe : pipe[i] = c /\ e = <<"pipe", i>>
           \/ \E w \in DOMAIN fd : fd[w] = c /\ e = <<"fd", w>>
  BY <1>1, <1>2 DEF Entry
<1>3. CASE \E f \in Files : \E i \in DOMAIN line[f] : line[f][i] = c /\ e = <<"line", f, i>>
  BY <1>3 DEF Entry
<1>4. CASE \E w \in Workers :
             \/ \E i \in DOMAIN notify[w] : notify[w][i] = c /\ e = <<"notify", w, i>>
             \/ \E i \in DOMAIN leaving[w] : leaving[w][i] = c /\ e = <<"leaving", w, i>>
  BY <1>4 DEF Entry
<1>5. \/ e \in {<<"set", d>> : d \in set \cap {c}}
      \/ e \in {<<"queue", i>> : i \in {j \in DOMAIN queue : queue[j] = c}}
      \/ e \in {<<"pipe", i>> : i \in {j \in DOMAIN pipe : pipe[j] = c}}
      \/ e \in {<<"fd", w>> : w \in {v \in DOMAIN fd : fd[v] = c}}
      \/ \E f \in Files : e \in {<<"line", f, i>> : i \in {j \in DOMAIN line[f] : line[f][j] = c}}
      \/ \E w \in Workers :
           e \in {<<"notify", w, i>> : i \in {j \in DOMAIN notify[w] : notify[w][j] = c}}
      \/ \E w \in Workers :
           e \in {<<"leaving", w, i>> : i \in {j \in DOMAIN leaving[w] : leaving[w][j] = c}}
  BY Zenon DEF Places
<1>6. \/ e \in {<<"set", d>> : d \in set \cap {c}}
      \/ e \in {<<"queue", i>> : i \in {j \in DOMAIN queue : queue[j] = c}}
      \/ e \in {<<"pipe", i>> : i \in {j \in DOMAIN pipe : pipe[j] = c}}
      \/ e \in {<<"fd", w>> : w \in {v \in DOMAIN fd : fd[v] = c}}
      => \E p, o : Entry(c, p, o, e)
  BY <1>2
<1> QED
  BY <1>3, <1>4, <1>5, <1>6

LEMMA PlaceOfEntry ==
  ASSUME TypeOK, NEW c \in Clients, NEW p, NEW o, NEW e, Entry(c, p, o, e)
  PROVE  e \in Places(c)
<1>1. DOMAIN fd = Workers
  BY DEF TypeOK
<1>2. CASE p = "set"
  BY <1>2 DEF Entry, Places
<1>3. CASE p = "queue"
  BY <1>3 DEF Entry, Places
<1>4. CASE p = "pipe"
  BY <1>4 DEF Entry, Places
<1>5. CASE p = "fd"
  BY <1>1, <1>5 DEF Entry, Places
<1>6. CASE p = "line"
  BY <1>6 DEF Entry, Places
<1>7. CASE p = "notify"
  BY <1>7 DEF Entry, Places
<1>8. CASE p = "leaving"
  BY <1>8 DEF Entry, Places
<1> QED
  BY <1>2, <1>3, <1>4, <1>5, <1>6, <1>7, <1>8 DEF Entry

LEMMA EntryIsIn ==
  ASSUME NEW c \in Clients, NEW p, NEW o, NEW e, Entry(c, p, o, e)
  PROVE  In(c, p, o)
BY DEF Entry, In, ToSet

LEMMA OneEntry ==
  ASSUME InOrder, NEW c \in Clients, NEW p, NEW o, NEW e, Entry(c, p, o, e),
         NEW g, Entry(c, p, o, g)
  PROVE  e = g
<1>1. c # Disconnect
  BY Descriptors
<1>2. \A S : \A s \in Line(S) : \A i, j \in DOMAIN s : s[i] = s[j] => i = j
  BY DEF Line, IsInjective
<1>3. CASE p \in {"set", "fd"}
  BY <1>3 DEF Entry
<1>4. CASE p = "queue"
  BY <1>2, <1>4 DEF Entry, InOrder
<1>5. CASE p = "pipe"
  BY <1>1, <1>5 DEF Entry, InOrder, OnceInPipe
<1>6. CASE p = "line"
  BY <1>2, <1>6 DEF Entry, InOrder
<1>7. CASE p = "notify"
  BY <1>2, <1>7 DEF Entry, InOrder
<1>8. CASE p = "leaving"
  BY <1>2, <1>8 DEF Entry, InOrder
<1> QED
  BY <1>3, <1>4, <1>5, <1>6, <1>7, <1>8 DEF Entry

\* A connection is in one place at a time: selected, in the queue, with one
\* worker, in one line, or in the pipe; no two threads talk to the same client.
THEOREM OneOwner == Spec => []OnePlaceAtATime
<1>1. IInv => OnePlaceAtATime
  <2> SUFFICES ASSUME IInv, NEW c \in Clients, NEW e \in Places(c), NEW g \in Places(c)
               PROVE  e = g
    BY DEF OnePlaceAtATime
  <2>1. TypeOK /\ OnePlace /\ InOrder /\ c \in Conns
    BY DEF IInv, Shape, Conns
  <2>2. PICK p, o : Entry(c, p, o, e)
    BY <2>1, EntryOfPlace
  <2>3. PICK q, u : Entry(c, q, u, g)
    BY <2>1, EntryOfPlace
  <2>4. p = q /\ o = u
    BY <2>1, <2>2, <2>3, EntryIsIn DEF OnePlace
  <2> QED
    BY <2>1, <2>2, <2>3, <2>4, OneEntry
<1> QED
  BY <1>1, Inductive, PTL

\* A descriptor that was closed, and may get a new owner any moment, is left
\* nowhere and holds no lock.
THEOREM NothingInherited == Spec => []ClosedIsForgotten
<1>1. IInv => ClosedIsForgotten
  <2> SUFFICES ASSUME IInv, NEW c \in Clients, client[c] = "none"
               PROVE  Places(c) = {} /\ Held(c) = {}
    BY DEF ClosedIsForgotten
  <2>1. TypeOK /\ ~ Somewhere(c) /\ Held(c) = {}
    BY DEF IInv, Shape, NothingLeft
  <2> QED
    BY <2>1, EntryOfPlace, EntryIsIn DEF Somewhere
<1> QED
  BY <1>1, Inductive, PTL

\* select is told of every descriptor it should look at.
THEOREM AllSelected == Spec => []EverybodyIsHeard
BY Inductive, PTL DEF IInv

\* The number of connected clients is the number of the connections, less those
\* that main was told about or has still to be told about.
THEOREM RightCount == Spec => []CountIsRight
BY Inductive, PTL DEF IInv

-----------------------------------------------------------------------------
(* Answers go to the clients that wait for one.                            *)

\* AnswersAreAwaited of one connection, by its places.
Due(c) ==
  /\ \A f \in Files : In(c, "line", f) => client[c] \in {"waiting", "gone"}
  /\ \A w \in Workers :
       /\ In(c, "notify", w) => client[c] \in {"waiting", "gone"}
       /\ In(c, "fd", w) /\ pc[w] = "answer" => client[c] \in {"waiting", "gone"}
  /\ client[c] = "waiting" =>
       \A p, o : In(c, p, o) => p \in {"line", "notify"} \/ (p = "fd" /\ pc[o] = "answer")

AllDue == \A c \in Clients : Due(c)

LEMMA InitDue == Init => AllDue
BY Descriptors DEF Init, AllDue, Due, In, ToSet, Conns

LEMMA DueStays ==
  ASSUME NEW c \in Clients, Due(c), Stays(c), client'[c] = client[c],
         \A w \in Workers : In(c, "fd", w) => (pc'[w] = "answer" <=> pc[w] = "answer")
  PROVE  Due(c)'
<1>1. \A p, o : In(c, p, o)' <=> In(c, p, o)
  BY DEF Stays
<1>2. \A o : In(c, "fd", o) => o \in Workers
  BY DEF In
<1> QED
  BY <1>1, <1>2 DEF Due

LEMMA DueGoes ==
  ASSUME NEW c \in Clients, NEW q, NEW u, Goes(c, q, u),
         q \in {"line", "notify"} => client'[c] \in {"waiting", "gone"},
         q \notin {"line", "notify"} => client'[c] # "waiting",
         q = "fd" => pc'[u] # "answer"
  PROVE  Due(c)'
BY DEF Due, Goes

\* A connection that moves alone, and all the others stay.
LEMMA OneIsDue ==
  ASSUME IInv, AllDue, NEW c \in Conns, NEW q, NEW u, Goes(c, q, u),
         \A d \in Conns \ {c} : Stays(d),
         client' = client \/ (c \in Clients /\ client' = [client EXCEPT ![c] = client'[c]]),
         c \in Clients /\ q = "line" => client'[c] \in {"waiting", "gone"},
         c \in Clients /\ q # "line" => client'[c] # "waiting",
         q # "notify", q = "fd" => pc'[u] # "answer",
         \A w \in Workers : pc'[w] = "answer" <=> pc[w] = "answer"
  PROVE  AllDue'
<1>1. ASSUME NEW d \in Clients, d # c PROVE Due(d)'
  <2>1. Due(d) /\ Stays(d) /\ client'[d] = client[d]
    BY <1>1, Descriptors DEF AllDue, IInv, TypeOK
  <2> QED
    BY <2>1, DueStays
<1>2. ASSUME c \in Clients PROVE Due(c)'
  BY <1>2, DueGoes
<1> QED
  BY <1>1, <1>2 DEF AllDue, Clients

LEMMA QuietDue ==
  ASSUME IInv, AllDue, QuietStep
  PROVE  AllDue'
<1>0. /\ client \in [Clients -> {"none", "quiet", "asking", "waiting", "left", "gone"}]
      /\ DOMAIN pc = Workers /\ \A c \in Clients : c \in Conns
      /\ fd' = fd /\ \A c \in Clients : Due(c) /\ Stays(c)
  BY QuietMoves, Descriptors DEF IInv, TypeOK, AllDue
<1>1. ASSUME NEW c \in Clients, Ask(c) \/ HangUp(c)
      PROVE  AllDue'
  <2>1. /\ client' = [client EXCEPT ![c] = client'[c]] /\ client'[c] # "waiting"
        /\ client[c] \in {"waiting", "gone"} => client'[c] = "gone"
    BY <1>0, <1>1 DEF Ask, HangUp
  <2>2. pc' = pc
    BY <1>1 DEF Ask, HangUp, workerVars
  <2>3. Due(c)'
    <3>1. /\ \A f \in Files : In(c, "line", f)' => client'[c] = "gone"
          /\ \A w \in Workers : /\ In(c, "notify", w)' => client'[c] = "gone"
                                /\ In(c, "fd", w)' /\ pc'[w] = "answer" => client'[c] = "gone"
      BY <1>0, <2>1, <2>2 DEF Due, Stays
    <3> QED
      BY <2>1, <3>1 DEF Due
  <2>4. ASSUME NEW d \in Clients, d # c PROVE Due(d)'
    BY <1>0, <2>1, <2>2, <2>4, DueStays
  <2> QED
    BY <2>3, <2>4 DEF AllDue, Clients
<1>2. ASSUME NEW w \in Workers, Answer(w)
      PROVE  AllDue'
  <2>1. PICK c : c = fd[w]
    OBVIOUS
  <2>2. /\ pc[w] = "answer" /\ pc' = [pc EXCEPT ![w] = "notify"]
        /\ c \in Clients /\ In(c, "fd", w)
    BY <1>2, <2>1 DEF Answer, Goto, IInv, Shape, WorkersFit, WorkerFits, In
  <2>3. client' = [client EXCEPT ![c] = client'[c]] /\ client'[c] # "waiting"
    BY <1>0, <1>2, <2>1, <2>2 DEF Answer, Answered, clientVars
  <2>4. \A p, o : In(c, p, o) => p = "fd" /\ o = w
    BY <1>0, <2>2, Nowhere DEF IInv, Shape
  <2>5. Goes(c, "fd", w) /\ pc'[w] # "answer"
    BY <1>0, <2>2, <2>4 DEF Goes, Stays
  <2>6. Due(c)'
    BY <2>2, <2>3, <2>5, DueGoes
  <2>7. ASSUME NEW d \in Clients, d # c PROVE Due(d)'
    <3>1. \A v \in Workers : In(d, "fd", v) => (pc'[v] = "answer" <=> pc[v] = "answer")
      BY <1>0, <2>1, <2>2, <2>7 DEF In
    <3> QED
      BY <1>0, <2>3, <2>7, <3>1, DueStays
  <2> QED
    BY <2>6, <2>7 DEF AllDue, Clients
<1>3. ASSUME \/ ReadSignal \/ DeleteQueue \/ JoinWorkers \/ UNCHANGED vars
             \/ \E w \in Workers : Return(w)
      PROVE  AllDue'
  <2>1. client' = client
    BY <1>3 DEF ReadSignal, DeleteQueue, JoinWorkers, Return, vars, clientVars
  <2>2. \A w \in Workers : pc'[w] = "answer" <=> pc[w] = "answer"
    BY <1>0, <1>3 DEF ReadSignal, DeleteQueue, JoinWorkers, Return, Goto, vars, workerVars
  <2>3. ASSUME NEW d \in Clients PROVE Due(d)'
    BY <1>0, <2>1, <2>2, DueStays
  <2> QED
    BY <2>3 DEF AllDue, Clients
<1> QED
  BY <1>1, <1>2, <1>3 DEF QuietStep

LEMMA DueKept ==
  ASSUME IInv, AllDue, [Next]_vars
  PROVE  AllDue'
<1>0. /\ client \in [Clients -> {"none", "quiet", "asking", "waiting", "left", "gone"}]
      /\ pc \in [Workers -> {"dequeue", "read", "answer", "notify", "close", "returned"}]
      /\ \A c \in Clients : c \in Conns /\ Due(c)
  BY Descriptors DEF IInv, TypeOK, AllDue
<1>1. CASE Accept
  <2>1. PICK new \in Clients :
          /\ client' = [client EXCEPT ![new] = "quiet"] /\ Goes(new, "set", NoFd)
          /\ \A c \in Conns \ {new} : Stays(c)
    BY <1>1, AcceptMoves
  <2>2. pc' = pc /\ client'[new] = "quiet"
    BY <1>0, <1>1, <2>1 DEF Accept, workerVars
  <2> QED
    BY <1>0, <2>1, <2>2, OneIsDue
<1>2. CASE ReadPipe
  <2>1. pc' = pc /\ client' = client
    BY <1>2 DEF ReadPipe, workerVars, clientVars
  <2>2. CASE Head(pipe) = Disconnect
    <3>1. \A c \in Conns : Stays(c)
      BY <1>2, <2>2, ReadPipeMoves
    <3>2. ASSUME NEW c \in Clients PROVE Due(c)'
      BY <1>0, <2>1, <3>1, DueStays
    <3> QED
      BY <3>2 DEF AllDue, Clients
  <2>3. CASE Head(pipe) # Disconnect
    <3>1. PICK h \in Clients : /\ In(h, "pipe", NoFd) /\ Goes(h, "set", NoFd)
                               /\ \A c \in Conns \ {h} : Stays(c)
      BY <1>2, <2>3, ReadPipeMoves
    <3>2. client[h] # "waiting"
      BY <1>0, <3>1 DEF Due
    <3> QED
      BY <1>0, <2>1, <3>1, <3>2, OneIsDue
  <2> QED
    BY <2>2, <2>3
<1>3. CASE QuietStep
  BY <1>3, QuietDue
<1>4. ASSUME NEW d \in set, Dispatch(d) PROVE AllDue'
  <2>1. /\ pc' = pc /\ client' = client
        /\ d \in Clients => client[d] # "waiting"
    BY <1>4, Descriptors DEF Dispatch, HasInput, workerVars, clientVars
  <2>2. d \in Conns /\ Goes(d, "queue", NoFd) /\ \A c \in Conns \ {d} : Stays(c)
    BY <1>4, DispatchMoves
  <2> QED
    BY <1>0, <2>1, <2>2, OneIsDue
<1>5. ASSUME NEW w \in Workers, Take(w) PROVE AllDue'
  <2>1. pc[w] = "dequeue" /\ pc' = [pc EXCEPT ![w] = "read"] /\ client' = client
    BY <1>5 DEF Take, Goto, clientVars
  <2>2. PICK h \in Conns : /\ In(h, "queue", NoFd) /\ Goes(h, "fd", w)
                           /\ \A c \in Conns \ {h} : Stays(c)
    BY <1>5, TakeMoves
  <2>3. /\ pc'[w] # "answer"
        /\ \A v \in Workers : pc'[v] = "answer" <=> pc[v] = "answer"
    BY <1>0, <2>1
  <2>4. h \in Clients => client[h] # "waiting"
    BY <1>0, <2>2 DEF Due
  <2> QED
    BY <1>0, <2>1, <2>2, <2>3, <2>4, OneIsDue
<1>6. ASSUME NEW w \in Workers, Notify(w) PROVE AllDue'
  <2>1. PICK c \in Clients : /\ c = Head(notify[w]) /\ Goes(c, "pipe", NoFd)
                             /\ \A d \in Conns \ {c} : Stays(d)
    BY <1>6, NotifyMoves
  <2>2. /\ pc' = pc
        /\ client' = [client EXCEPT ![c] = "quiet"] /\ client'[c] = "quiet"
    BY <1>0, <1>6, <2>1 DEF Notify, Answered
  <2> QED
    BY <1>0, <2>1, <2>2, OneIsDue
<1>7. ASSUME NEW w \in Workers, TellMain(w) PROVE AllDue'
  <2>1. pc[w] = "notify" /\ pc' = [pc EXCEPT ![w] = "close"] /\ client' = client
    BY <1>7 DEF TellMain, Goto, clientVars
  <2>2. \A v \in Workers : pc'[v] = "answer" <=> pc[v] = "answer"
    BY <1>0, <2>1
  <2>3. ASSUME NEW c \in Clients PROVE Due(c)'
    BY <1>0, <1>7, <2>1, <2>2, TellMainMoves, DueStays
  <2> QED
    BY <2>3 DEF AllDue, Clients
<1>8. ASSUME NEW w \in Workers, Close(w) PROVE AllDue'
  <2>1. PICK c \in Conns :
          /\ c = Last(leaving[w]) /\ Vanishes(c) /\ \A d \in Conns \ {c} : Stays(d)
    BY <1>8, CloseMoves
  <2>2. /\ client' = [d \in Clients |-> IF d = c THEN "none" ELSE client[d]]
        /\ \A v \in Workers : pc'[v] = "answer" <=> pc[v] = "answer"
    BY <1>0, <1>8, <2>1 DEF Close, Goto
  <2>3. ASSUME NEW d \in Clients, d # c PROVE Due(d)'
    BY <1>0, <2>1, <2>2, <2>3, DueStays
  <2>4. ASSUME c \in Clients PROVE Due(c)'
    BY <2>1, <2>4 DEF Vanishes, Due
  <2> QED
    BY <2>3, <2>4 DEF AllDue, Clients
<1>9. ASSUME NEW w \in Workers, SendBack(w) PROVE AllDue'
  <2>1. PICK c \in Clients : /\ In(c, "fd", w) /\ Goes(c, "pipe", NoFd)
                             /\ \A d \in Conns \ {c} : Stays(d)
    BY <1>9, SendBackMoves
  <2>2. pc[w] = "notify" /\ pc' = [pc EXCEPT ![w] = "dequeue"] /\ client' = client
    BY <1>9 DEF SendBack, Goto, clientVars
  <2>3. \A v \in Workers : pc'[v] = "answer" <=> pc[v] = "answer"
    BY <1>0, <2>2
  <2>4. client[c] # "waiting"
    BY <1>0, <2>1, <2>2 DEF Due
  <2> QED
    BY <1>0, <2>1, <2>2, <2>3, <2>4, OneIsDue
<1>10. ASSUME NEW w \in Workers, NotifyGone(w) \/ CloseConnection(w) PROVE AllDue'
  <2>1. PICK c \in Conns, heirs \in Line(Clients) :
          /\ Departs(w, c, heirs)
          /\ \/ NotifyGone(w) /\ c = Head(notify[w]) /\ client[c] = "gone"
             \/ CloseConnection(w) /\ c = fd[w]
    BY <1>10, Departures
  <2>2. /\ client' = client
        /\ \A v \in Workers : pc'[v] = "answer" <=> pc[v] = "answer"
    BY <1>0, <1>10 DEF NotifyGone, CloseConnection, Depart, clientVars
  <2>3. c \in Clients => client[c] # "waiting"
    <3>1. CASE NotifyGone(w) /\ client[c] = "gone"
      BY <3>1
    <3>2. CASE CloseConnection(w) /\ c = fd[w]
      <4>1. pc[w] # "answer" /\ In(c, "fd", w)
        BY <3>2 DEF CloseConnection, In
      <4> QED
        BY <1>0, <4>1 DEF Due
    <3> QED
      BY <2>1, <3>1, <3>2
  <2>4. ASSUME NEW d \in Clients, d \in ToSet(heirs) PROVE Due(d)'
    <3>1. client[d] \in {"waiting", "gone"} /\ Goes(d, "notify", w)
      BY <1>0, <2>1, <2>4 DEF Departs, In, Due
    <3> QED
      BY <2>2, <3>1, DueGoes
  <2>5. ASSUME NEW d \in Clients, d = c PROVE Due(d)'
    <3>1. Goes(d, "leaving", w)
      BY <2>1, <2>5 DEF Departs
    <3> QED
      BY <2>2, <2>3, <2>5, <3>1, DueGoes
  <2>6. ASSUME NEW d \in Clients, d # c, d \notin ToSet(heirs) PROVE Due(d)'
    <3>1. Stays(d) \/ Vanishes(d)
      BY <1>0, <2>1, <2>6 DEF Departs
    <3>2. CASE Stays(d)
      BY <1>0, <2>2, <3>2, DueStays
    <3>3. CASE Vanishes(d)
      BY <3>3 DEF Vanishes, Due
    <3> QED
      BY <3>1, <3>2, <3>3
  <2> QED
    BY <2>4, <2>5, <2>6 DEF AllDue, Clients
<1>11. ASSUME NEW w \in Workers, NEW f \in Files, Park(w, f) PROVE AllDue'
  <2>1. PICK d \in Clients : /\ d = fd[w] /\ Goes(d, "line", f)
                             /\ \A c \in Conns \ {d} : Stays(c)
    BY <1>11, ParkMoves
  <2>2. /\ pc[w] = "read" /\ pc' = [pc EXCEPT ![w] = "dequeue"]
        /\ client' = [client EXCEPT ![d] = client'[d]]
        /\ client'[d] \in {"waiting", "gone"}
    BY <1>0, <1>11, <2>1 DEF Park, Goto, ReadRequest
  <2>3. \A v \in Workers : pc'[v] = "answer" <=> pc[v] = "answer"
    BY <1>0, <2>2
  <2> QED
    BY <1>0, <2>1, <2>2, <2>3, OneIsDue
<1>12. ASSUME NEW w \in Workers, NEW o, NEW list \in Line(Clients), Serves(w, o, list)
       PROVE  AllDue'
  <2>1. PICK c : c = fd[w]
    OBVIOUS
  <2>2. /\ c \in Clients /\ client' = [client EXCEPT ![c] = client'[c]]
        /\ client[c] \in {"asking", "left"} /\ client'[c] \in {"waiting", "gone"}
        /\ pc[w] = "read" /\ pc' = [pc EXCEPT ![w] = "answer"]
    BY <1>0, <1>12, <2>1 DEF Serves, Handled, Goto, ReadRequest
  <2>3. \A d \in ToSet(list) : Goes(d, "notify", w)
    BY <1>12, ServesMoves
  <2>4. \A d \in Conns \ ToSet(list) : Stays(d)
    BY <1>12, ServesMoves
  <2>5. In(c, "fd", w) /\ \A p, u : In(c, p, u) => p = "fd" /\ u = w
    <3>1. In(c, "fd", w)
      BY <2>1 DEF In
    <3> QED
      BY <1>0, <2>2, <3>1, Nowhere DEF IInv, Shape
  <2>6. ASSUME NEW d \in Clients, d \in ToSet(list) PROVE Due(d)'
    <3>1. PICK f \in Files : In(d, "line", f)
      BY <1>12, <2>6 DEF Serves, In
    <3>2. client[d] \in {"waiting", "gone"} /\ d # c
      BY <1>0, <2>5, <3>1 DEF Due
    <3>3. client'[d] = client[d]
      BY <1>0, <2>2, <3>2
    <3>4. "notify" # "fd"
      OBVIOUS
    <3> QED
      BY <2>3, <2>6, <3>2, <3>3, <3>4, DueGoes
  <2>7. ASSUME NEW d \in Clients, d \notin ToSet(list), d # c PROVE Due(d)'
    <3>1. \A v \in Workers : In(d, "fd", v) => (pc'[v] = "answer" <=> pc[v] = "answer")
      BY <1>0, <2>1, <2>2, <2>7 DEF In
    <3> QED
      BY <1>0, <2>2, <2>4, <2>7, <3>1, DueStays
  <2>8. ASSUME c \notin ToSet(list) PROVE Due(c)'
    <3>1. Stays(c)
      BY <1>0, <2>2, <2>4, <2>8
    <3>2. \A p, u : In(c, p, u)' => p = "fd" /\ u = w
      BY <2>5, <3>1 DEF Stays
    <3>3. pc'[w] = "answer"
      BY <1>0, <2>2
    <3> QED
      BY <2>2, <3>2, <3>3 DEF Due
  <2> QED
    BY <2>2, <2>6, <2>7, <2>8 DEF AllDue, Clients
<1> QED
  BY <1>1, <1>2, <1>3, <1>4, <1>5, <1>6, <1>7, <1>8, <1>9, <1>10, <1>11, <1>12, Steps

\* Every answer goes to a client that waits for it, and every client that waits
\* has its answer coming, unless its connection was lost.
THEOREM OneAnswerEach == Spec => []AnswersAreAwaited
<1>1. IInv /\ AllDue => AnswersAreAwaited
  <2> SUFFICES ASSUME IInv, AllDue, NEW c \in Clients
               PROVE  /\ Owed(c) => client[c] \in {"waiting", "gone"}
                      /\ client[c] = "waiting" => Owed(c) \/ Places(c) = {}
    BY DEF AnswersAreAwaited
  <2>1. Due(c) /\ TypeOK
    BY DEF AllDue, IInv
  <2>2. Owed(c) => client[c] \in {"waiting", "gone"}
    BY <2>1 DEF Owed, InLine, Due, In
  <2>3. ASSUME client[c] = "waiting", ~ Owed(c), NEW e \in Places(c) PROVE FALSE
    <3>1. PICK p, o : In(c, p, o)
      BY <2>1, <2>3, EntryOfPlace, EntryIsIn
    <3>2. p \in {"line", "notify"} \/ (p = "fd" /\ pc[o] = "answer")
      BY <2>1, <2>3, <3>1 DEF Due
    <3>3. Owed(c)
      BY <3>1, <3>2 DEF In, Owed, InLine
    <3> QED
      BY <2>3, <3>3
  <2> QED
    BY <2>2, <2>3
<1>2. IInv /\ AllDue /\ [Next]_vars => AllDue'
  BY DueKept
<1> QED
  BY <1>1, <1>2, InitInv, InitDue, InvKept, PTL DEF Spec

-----------------------------------------------------------------------------
(* When no client goes away while it waits, nobody is lost.                *)

\* A client in a line, or out of it and to be notified, waits; so does one that
\* is to be answered.  One that leaves is gone.  Nobody else is nowhere.
Settled(c) ==
  /\ client[c] # "left"
  /\ client[c] # "none" => Somewhere(c)
  /\ \A f \in Files : In(c, "line", f) => client[c] = "waiting"
  /\ \A w \in Workers : /\ In(c, "notify", w) => client[c] = "waiting"
                        /\ In(c, "fd", w) /\ pc[w] = "answer" => client[c] = "waiting"
                        /\ In(c, "leaving", w) => client[c] = "gone"

\* So that no answer fails, and no connection is closed because of it.
Awaiting ==
  /\ \A c \in Clients : Settled(c)
  /\ \A w \in Workers : ~ closeConnection[w]

LEMMA InitAwaiting == Init => Awaiting
BY Descriptors DEF Init, Awaiting, Settled, In, ToSet, Conns

LEMMA SettledStays ==
  ASSUME NEW c \in Clients, Settled(c), Stays(c), client'[c] = client[c],
         \A w \in Workers : pc'[w] = "answer" => pc[w] = "answer" \/ c # fd'[w]
  PROVE  Settled(c)'
<1>1. Somewhere(c)' <=> Somewhere(c)
  BY DEF Stays, Somewhere
<1>2. \A w \in Workers : In(c, "fd", w)' /\ pc'[w] = "answer" => pc[w] = "answer"
  BY DEF In
<1> QED
  BY <1>1, <1>2 DEF Settled, Stays

LEMMA SettledGoes ==
  ASSUME NEW c \in Clients, NEW q, NEW u, Goes(c, q, u), client'[c] # "left",
         q \in {"line", "notify"} => client'[c] = "waiting",
         q = "leaving" => client'[c] = "gone",
         q = "fd" => pc'[u] # "answer"
  PROVE  Settled(c)'
<1>1. Somewhere(c)'
  BY DEF Goes, Somewhere
<1>2. /\ \A f \in Files : In(c, "line", f)' => q = "line"
      /\ \A w \in Workers : /\ In(c, "notify", w)' => q = "notify"
                            /\ In(c, "fd", w)' => q = "fd" /\ w = u
                            /\ In(c, "leaving", w)' => q = "leaving"
  BY DEF Goes
<1> QED
  BY <1>1, <1>2 DEF Settled

LEMMA QuietSettles ==
  ASSUME IInv, Awaiting, ~ Vanish, QuietStep
  PROVE  Awaiting'
<1>0. /\ client \in [Clients -> {"none", "quiet", "asking", "waiting", "left", "gone"}]
      /\ DOMAIN pc = Workers /\ \A c \in Clients : c \in Conns
      /\ fd' = fd /\ \A c \in Clients : Settled(c) /\ Stays(c)
  BY QuietMoves, Descriptors DEF IInv, TypeOK, Awaiting
<1>1. ASSUME NEW c \in Clients, Ask(c) \/ HangUp(c)
      PROVE  Awaiting'
  <2>1. /\ client[c] = "quiet" /\ client' = [client EXCEPT ![c] = client'[c]]
        /\ client'[c] \in {"asking", "gone"}
    BY <1>0, <1>1 DEF Ask, HangUp, Awaiting, Settled
  <2>2. pc' = pc /\ closeConnection' = closeConnection
    BY <1>1 DEF Ask, HangUp, workerVars
  <2>3. Settled(c)'
    <3>1. /\ \A f \in Files : ~ In(c, "line", f)'
          /\ \A w \in Workers : ~ In(c, "notify", w)' /\ ~ In(c, "leaving", w)'
                                /\ ~ (In(c, "fd", w)' /\ pc'[w] = "answer")
      BY <1>0, <2>1, <2>2 DEF Settled, Stays
    <3>2. Somewhere(c)'
      BY <1>0, <2>1 DEF Settled, Stays, Somewhere
    <3> QED
      BY <2>1, <3>1, <3>2 DEF Settled
  <2>4. ASSUME NEW d \in Clients, d # c PROVE Settled(d)'
    BY <1>0, <2>1, <2>2, <2>4, SettledStays
  <2> QED
    BY <2>2, <2>3, <2>4 DEF Awaiting, Clients
<1>2. ASSUME NEW w \in Workers, Answer(w)
      PROVE  Awaiting'
  <2>1. PICK c : c = fd[w]
    OBVIOUS
  <2>2. /\ pc[w] = "answer" /\ pc' = [pc EXCEPT ![w] = "notify"]
        /\ c \in Clients /\ In(c, "fd", w)
    BY <1>2, <2>1 DEF Answer, Goto, IInv, Shape, WorkersFit, WorkerFits, In
  <2>3. client[c] = "waiting"
    BY <1>0, <2>2 DEF Settled
  <2>4. client' = [client EXCEPT ![c] = "quiet"] /\ closeConnection' = closeConnection
    BY <1>2, <2>1, <2>3 DEF Answer, Answered
  <2>5. Goes(c, "fd", w)
    <3>1. \A p, o : In(c, p, o) => p = "fd" /\ o = w
      BY <1>0, <2>2, Nowhere DEF IInv, Shape
    <3> QED
      BY <1>0, <2>2, <3>1 DEF Goes, Stays
  <2>6. Settled(c)'
    BY <1>0, <2>2, <2>4, <2>5, SettledGoes
  <2>7. ASSUME NEW d \in Clients, d # c PROVE Settled(d)'
    <3>1. \A v \in Workers : pc'[v] = "answer" => pc[v] = "answer"
      BY <1>0, <2>2
    <3> QED
      BY <1>0, <2>4, <2>7, <3>1, SettledStays
  <2> QED
    BY <2>4, <2>6, <2>7 DEF Awaiting, Clients
<1>3. ASSUME \/ ReadSignal \/ DeleteQueue \/ JoinWorkers \/ UNCHANGED vars
             \/ \E w \in Workers : Return(w)
      PROVE  Awaiting'
  <2>1. client' = client /\ closeConnection' = closeConnection
    BY <1>3 DEF ReadSignal, DeleteQueue, JoinWorkers, Return, vars, workerVars, clientVars
  <2>2. \A w \in Workers : pc'[w] = "answer" => pc[w] = "answer"
    BY <1>0, <1>3 DEF ReadSignal, DeleteQueue, JoinWorkers, Return, Goto, vars, workerVars
  <2>3. ASSUME NEW d \in Clients PROVE Settled(d)'
    BY <1>0, <2>1, <2>2, SettledStays
  <2> QED
    BY <2>1, <2>3 DEF Awaiting, Clients
<1> QED
  BY <1>1, <1>2, <1>3 DEF QuietStep

\* A connection that moves alone, and all the others stay.
LEMMA OneSettles ==
  ASSUME IInv, Awaiting, NEW c \in Conns, NEW q, NEW u, Goes(c, q, u),
         \A d \in Conns \ {c} : Stays(d),
         client' = client \/ (c \in Clients /\ client' = [client EXCEPT ![c] = client'[c]]),
         c \in Clients => client'[c] # "left",
         c \in Clients /\ q = "line" => client'[c] = "waiting",
         q \notin {"notify", "leaving"},
         \A w \in Workers : pc'[w] = "answer" => pc[w] = "answer" /\ (q = "fd" => u # w),
         closeConnection' = closeConnection
  PROVE  Awaiting'
<1>1. ASSUME NEW d \in Clients, d # c PROVE Settled(d)'
  <2>1. Settled(d) /\ Stays(d) /\ client'[d] = client[d]
    BY <1>1, Descriptors DEF Awaiting, IInv, TypeOK
  <2> QED
    BY <2>1, SettledStays
<1>2. ASSUME c \in Clients PROVE Settled(c)'
  <2>1. q = "fd" => pc'[u] # "answer" \/ u \notin Workers
    OBVIOUS
  <2>2. q = "fd" => u \in Workers
    BY DEF Goes, In
  <2> QED
    BY <1>2, <2>1, <2>2, SettledGoes
<1> QED
  BY <1>1, <1>2 DEF Awaiting, Clients

LEMMA AwaitingKept ==
  ASSUME IInv, Awaiting, ~ Vanish, [Next]_vars
  PROVE  Awaiting'
<1>0. /\ client \in [Clients -> {"none", "quiet", "asking", "waiting", "left", "gone"}]
      /\ pc \in [Workers -> {"dequeue", "read", "answer", "notify", "close", "returned"}]
      /\ \A c \in Clients : c \in Conns /\ Settled(c)
      /\ DOMAIN closeConnection = Workers
      /\ \A c \in Clients : client[c] # "left"
  BY Descriptors DEF IInv, TypeOK, Awaiting, Settled
<1>1. CASE Accept
  <2>1. PICK new \in Clients :
          /\ client' = [client EXCEPT ![new] = "quiet"] /\ Goes(new, "set", NoFd)
          /\ \A c \in Conns \ {new} : Stays(c)
    BY <1>1, AcceptMoves
  <2>2. pc' = pc /\ closeConnection' = closeConnection /\ client'[new] = "quiet"
    BY <1>0, <1>1, <2>1 DEF Accept, workerVars
  <2> QED
    BY <1>0, <2>1, <2>2, OneSettles
<1>2. CASE ReadPipe
  <2>1. pc' = pc /\ closeConnection' = closeConnection /\ client' = client
    BY <1>2 DEF ReadPipe, workerVars, clientVars
  <2>2. CASE Head(pipe) = Disconnect
    <3>1. \A c \in Conns : Stays(c)
      BY <1>2, <2>2, ReadPipeMoves
    <3>2. ASSUME NEW c \in Clients PROVE Settled(c)'
      BY <1>0, <2>1, <3>1, SettledStays
    <3> QED
      BY <2>1, <3>2 DEF Awaiting, Clients
  <2>3. CASE Head(pipe) # Disconnect
    <3>1. PICK h \in Clients : Goes(h, "set", NoFd) /\ \A c \in Conns \ {h} : Stays(c)
      BY <1>2, <2>3, ReadPipeMoves
    <3> QED
      BY <1>0, <2>1, <3>1, OneSettles
  <2> QED
    BY <2>2, <2>3
<1>3. CASE QuietStep
  BY <1>3, QuietSettles
<1>4. ASSUME NEW d \in set, Dispatch(d) PROVE Awaiting'
  <2>1. pc' = pc /\ closeConnection' = closeConnection /\ client' = client
    BY <1>4 DEF Dispatch, workerVars, clientVars
  <2>2. d \in Conns /\ Goes(d, "queue", NoFd) /\ \A c \in Conns \ {d} : Stays(c)
    BY <1>4, DispatchMoves
  <2> QED
    BY <1>0, <2>1, <2>2, OneSettles
<1>5. ASSUME NEW w \in Workers, Take(w) PROVE Awaiting'
  <2>1. /\ pc' = [pc EXCEPT ![w] = "read"] /\ closeConnection' = closeConnection
        /\ client' = client
    BY <1>5 DEF Take, Goto, clientVars
  <2>2. PICK h \in Conns : Goes(h, "fd", w) /\ \A c \in Conns \ {h} : Stays(c)
    BY <1>5, TakeMoves
  <2>3. \A v \in Workers : pc'[v] = "answer" => pc[v] = "answer" /\ w # v
    BY <1>0, <2>1
  <2> QED
    BY <1>0, <2>1, <2>2, <2>3, OneSettles
<1>6. ASSUME NEW w \in Workers, Notify(w) PROVE Awaiting'
  <2>1. PICK c \in Clients : /\ c = Head(notify[w]) /\ Goes(c, "pipe", NoFd)
                             /\ \A d \in Conns \ {c} : Stays(d)
    BY <1>6, NotifyMoves
  <2>2. /\ pc' = pc /\ closeConnection' = closeConnection
        /\ client' = [client EXCEPT ![c] = "quiet"] /\ client'[c] = "quiet"
    BY <1>0, <1>6, <2>1 DEF Notify, Answered
  <2> QED
    BY <1>0, <2>1, <2>2, OneSettles
<1>7. ASSUME NEW w \in Workers, TellMain(w) PROVE Awaiting'
  <2>1. /\ pc' = [pc EXCEPT ![w] = "close"] /\ closeConnection' = closeConnection
        /\ client' = client
    BY <1>7 DEF TellMain, Goto, clientVars
  <2>2. \A v \in Workers : pc'[v] = "answer" => pc[v] = "answer"
    BY <1>0, <2>1
  <2>3. ASSUME NEW c \in Clients PROVE Settled(c)'
    BY <1>0, <1>7, <2>1, <2>2, TellMainMoves, SettledStays
  <2> QED
    BY <2>1, <2>3 DEF Awaiting, Clients
<1>8. ASSUME NEW w \in Workers, Close(w) PROVE Awaiting'
  <2>1. PICK c \in Conns :
          /\ c = Last(leaving[w]) /\ Vanishes(c) /\ \A d \in Conns \ {c} : Stays(d)
    BY <1>8, CloseMoves
  <2>2. /\ client' = [d \in Clients |-> IF d = c THEN "none" ELSE client[d]]
        /\ closeConnection' = closeConnection
        /\ \A v \in Workers : pc'[v] = "answer" => pc[v] = "answer"
    BY <1>0, <1>8, <2>1 DEF Close, Goto
  <2>3. ASSUME NEW d \in Clients, d # c PROVE Settled(d)'
    BY <1>0, <2>1, <2>2, <2>3, SettledStays
  <2>4. ASSUME c \in Clients PROVE Settled(c)'
    BY <2>1, <2>2, <2>4 DEF Vanishes, Settled
  <2> QED
    BY <2>2, <2>3, <2>4 DEF Awaiting, Clients
<1>9. ASSUME NEW w \in Workers, SendBack(w) PROVE Awaiting'
  <2>1. PICK c \in Clients : Goes(c, "pipe", NoFd) /\ \A d \in Conns \ {c} : Stays(d)
    BY <1>9, SendBackMoves
  <2>2. /\ pc' = [pc EXCEPT ![w] = "dequeue"] /\ closeConnection' = closeConnection
        /\ client' = client
    BY <1>9 DEF SendBack, Goto, clientVars
  <2>3. \A v \in Workers : pc'[v] = "answer" => pc[v] = "answer"
    BY <1>0, <2>2
  <2> QED
    BY <1>0, <2>1, <2>2, <2>3, OneSettles
<1>10. ASSUME NEW w \in Workers, NotifyGone(w) PROVE FALSE
  <2>1. PICK c \in Clients : c = Head(notify[w]) /\ notify[w] # <<>> /\ client[c] = "gone"
    BY <1>10, TailOfLine DEF NotifyGone, IInv, Shape, InOrder
  <2>2. In(c, "notify", w)
    BY <2>1, TailOfLine DEF IInv, Shape, InOrder, In
  <2> QED
    BY <1>0, <2>1, <2>2 DEF Settled
<1>11. ASSUME NEW w \in Workers, CloseConnection(w) PROVE Awaiting'
  <2>1. PICK c \in Conns, heirs \in Line(Clients) :
          Departs(w, c, heirs) /\ c = fd[w] /\ notify[w] = <<>>
    BY <1>10, <1>11, Departures
  <2>2. /\ pc[w] = "read" /\ NoRequest(c)
        /\ pc' = [pc EXCEPT ![w] = "notify"] /\ client' = client
        /\ closeConnection' = [closeConnection EXCEPT ![w] = FALSE]
    BY <1>11, <2>1 DEF CloseConnection, Depart, Awaiting, clientVars
  <2>3. \A v \in Workers : pc'[v] = "answer" => pc[v] = "answer"
    BY <1>0, <2>2
  <2>4. ASSUME NEW d \in Clients, d \in ToSet(heirs) PROVE Settled(d)'
    <3>1. client[d] = "waiting" /\ Goes(d, "notify", w)
      BY <1>0, <2>1, <2>4 DEF Departs, In, Settled
    <3> QED
      BY <2>2, <3>1, SettledGoes
  <2>5. ASSUME NEW d \in Clients, d = c PROVE Settled(d)'
    <3>1. client[d] = "gone" /\ Goes(d, "leaving", w)
      BY <2>1, <2>2, <2>5 DEF NoRequest, Departs
    <3> QED
      BY <2>2, <3>1, SettledGoes
  <2>6. ASSUME NEW d \in Clients, d # c, d \notin ToSet(heirs) PROVE Settled(d)'
    <3>1. Stays(d)
      BY <1>0, <2>1, <2>6, EmptyLine DEF Departs
    <3> QED
      BY <1>0, <2>2, <2>3, <3>1, SettledStays
  <2>7. \A v \in Workers : ~ closeConnection'[v]
    BY <1>0, <2>2 DEF Awaiting
  <2> QED
    BY <2>4, <2>5, <2>6, <2>7 DEF Awaiting, Clients
<1>12. ASSUME NEW w \in Workers, NEW f \in Files, Park(w, f) PROVE Awaiting'
  <2>1. PICK d \in Clients : /\ d = fd[w] /\ Goes(d, "line", f)
                             /\ \A c \in Conns \ {d} : Stays(c)
    BY <1>12, ParkMoves
  <2>2. /\ pc' = [pc EXCEPT ![w] = "dequeue"] /\ closeConnection' = closeConnection
        /\ client' = [client EXCEPT ![d] = "waiting"]
    BY <1>0, <1>12, <2>1 DEF Park, Goto, ReadRequest
  <2>3. /\ client'[d] = "waiting"
        /\ \A v \in Workers : pc'[v] = "answer" => pc[v] = "answer"
    BY <1>0, <2>2
  <2>4. client' = [client EXCEPT ![d] = client'[d]]
    BY <2>2, <2>3
  <2>5. "line" # "fd" /\ "line" # "notify" /\ "line" # "leaving" /\ "waiting" # "left"
    OBVIOUS
  <2> QED
    BY <1>0, <2>1, <2>2, <2>3, <2>4, <2>5, OneSettles
<1>13. ASSUME NEW w \in Workers, NEW o, NEW list \in Line(Clients), Serves(w, o, list)
       PROVE  Awaiting'
  <2>1. PICK c : c = fd[w]
    OBVIOUS
  <2>2. /\ c \in Clients /\ client' = [client EXCEPT ![c] = "waiting"]
        /\ pc' = [pc EXCEPT ![w] = "answer"] /\ closeConnection' = closeConnection
        /\ fd' = fd
    BY <1>0, <1>13, <2>1 DEF Serves, Handled, Goto, ReadRequest
  <2>3. \A d \in ToSet(list) : Goes(d, "notify", w)
    BY <1>13, ServesMoves
  <2>4. \A d \in Conns \ ToSet(list) : Stays(d)
    BY <1>13, ServesMoves
  <2>5. In(c, "fd", w) /\ \A p, u : In(c, p, u) => p = "fd" /\ u = w
    <3>1. In(c, "fd", w)
      BY <2>1 DEF In
    <3> QED
      BY <1>0, <2>2, <3>1, Nowhere DEF IInv, Shape
  <2>6. ASSUME NEW d \in Clients, d \in ToSet(list) PROVE Settled(d)'
    <3>1. PICK f \in Files : In(d, "line", f)
      BY <1>13, <2>6 DEF Serves, In
    <3>2. client[d] = "waiting" /\ d # c
      BY <1>0, <2>5, <3>1 DEF Settled
    <3> QED
      BY <1>0, <2>2, <2>3, <2>6, <3>2, SettledGoes
  <2>7. ASSUME NEW d \in Clients, d \notin ToSet(list), d # c PROVE Settled(d)'
    <3>1. \A v \in Workers : pc'[v] = "answer" => pc[v] = "answer" \/ d # fd'[v]
      BY <1>0, <2>1, <2>2, <2>7
    <3> QED
      BY <1>0, <2>2, <2>4, <2>7, <3>1, SettledStays
  <2>8. ASSUME c \notin ToSet(list) PROVE Settled(c)'
    <3>1. Stays(c) /\ client'[c] = "waiting"
      BY <1>0, <2>2, <2>4, <2>8
    <3>2. Goes(c, "fd", w)
      BY <2>5, <3>1 DEF Goes, Stays
    <3>3. "fd" # "leaving" /\ "fd" # "line" /\ "fd" # "notify"
      OBVIOUS
    <3> QED
      BY <2>2, <3>1, <3>2, <3>3 DEF Settled, Goes, Somewhere
  <2> QED
    BY <2>2, <2>6, <2>7, <2>8 DEF Awaiting, Clients
<1> QED
  BY <1>1, <1>2, <1>3, <1>4, <1>5, <1>6, <1>7, <1>8, <1>9, <1>10, <1>11, <1>12, <1>13, Steps

LEMMA Patience ==
  ASSUME ~ Vanish
  PROVE  Spec => [](IInv /\ Awaiting)
<1>1. IInv /\ Awaiting /\ [Next]_vars => Awaiting'
  BY AwaitingKept
<1> QED
  BY <1>1, InitInv, InitAwaiting, InvKept, PTL DEF Spec

\* When no client goes away while it waits for an answer, no connection is lost:
\* each is in some place, where the server will find it again.
THEOREM NobodyLost ==
  ASSUME ~ Vanish
  PROVE  Spec => []NobodyStranded
<1>1. IInv /\ Awaiting => NobodyStranded
  <2> SUFFICES ASSUME IInv, NEW c \in Clients, Somewhere(c)
               PROVE  Places(c) # {}
    BY DEF Awaiting, Settled, NobodyStranded
  <2>1. PICK p, o : In(c, p, o)
    BY DEF Somewhere
  <2>2. TypeOK
    BY DEF IInv
  <2>3. PICK e : Entry(c, p, o, e)
    BY <2>1 DEF In, Entry, ToSet
  <2> QED
    BY <2>2, <2>3, PlaceOfEntry
<1> QED
  BY <1>1, Patience, PTL

-----------------------------------------------------------------------------
(* A soft shutdown waits for the clients.                                  *)

\* When no client connects after the signal, main never takes the listening
\* socket for a client, and it leaves its loop because of the signal.
Attentive ==
  /\ Listener \in set
  /\ phase # "running" => signal = "RAGE_QUIT" \/ nOfConnectedClients <= 0

LEMMA InitAttentive == Init => Attentive
BY DEF Init, Attentive

LEMMA AttentiveKept ==
  ASSUME IInv, Attentive, ~ Late, [Next]_vars
  PROVE  Attentive'
<1>0. nOfConnectedClients \in Int /\ ("joining" # "running")
  BY DEF IInv, TypeOK
<1>1. CASE Accept \/ ReadPipe
  BY <1>1 DEF Accept, ReadPipe, GoesOn, Attentive
<1>2. ASSUME NEW d \in set, Dispatch(d) PROVE Attentive'
  <2>1. d # Listener
    BY <1>2 DEF Dispatch, HasInput
  <2> QED
    BY <1>2, <2>1 DEF Dispatch, Attentive
<1>3. CASE DeleteQueue
  BY <1>0, <1>3 DEF DeleteQueue, GoesOn, Attentive
<1>4. CASE JoinWorkers \/ ReadSignal
  BY <1>0, <1>4 DEF JoinWorkers, ReadSignal, GoesOn, Attentive
<1>5. CASE UNCHANGED mainVars
  BY <1>5 DEF Attentive, mainVars
<1>6. ASSUME \/ UNCHANGED vars
             \/ \E c \in Clients : Ask(c) \/ HangUp(c)
             \/ \E w \in Workers : \/ Return(w) \/ Answer(w) \/ Take(w) \/ Notify(w) \/ TellMain(w)
                                   \/ Close(w) \/ SendBack(w) \/ NotifyGone(w)
                                   \/ CloseConnection(w)
             \/ \E w \in Workers, f \in Files : Park(w, f)
             \/ \E w \in Workers, o \in {"other", "appendToFile"}, list \in Line(Clients) :
                  Serves(w, o, list)
      PROVE  UNCHANGED mainVars
  BY <1>6 DEF vars, Ask, HangUp, Return, Answer, Take, Notify, TellMain, Close, SendBack,
     NotifyGone, CloseConnection, Depart, Park, Serves, Handled
<1> QED
  BY <1>1, <1>2, <1>3, <1>4, <1>5, <1>6, Steps DEF QuietStep

\* A soft shutdown waits: when no client goes away while it waits or connects
\* after the signal, main goes on as long as some client is connected.
THEOREM SoftQuit ==
  ASSUME ~ Vanish, ~ Late
  PROVE  Spec => []SoftQuitWaits
<1>1. IInv /\ Awaiting /\ Attentive => SoftQuitWaits
  <2> SUFFICES ASSUME IInv, Awaiting, Attentive, signal = "SOFT_QUIT", phase # "running",
                      NEW c \in Clients, client[c] \in {"quiet", "asking", "waiting"}
               PROVE  FALSE
    BY DEF SoftQuitWaits
  <2>1. nOfConnectedClients <= 0 /\ Refused = 0
    BY DEF Attentive, Refused
  <2>2. /\ IsFiniteSet(Present) /\ Cardinality(Present) \in Nat
        /\ Cardinality(Byes(pipe)) \in Nat
        /\ nOfConnectedClients = Cardinality(Present) + Cardinality(Byes(pipe)) - Refused
    BY CountsAreNumbers
  <2>3. Present = {}
    BY <2>1, <2>2, FS_EmptySet
  <2>4. c \in SaidGoodbye
    BY <2>3 DEF Present
  <2>5. PICK w \in Workers : pc[w] = "close" /\ c = Last(leaving[w])
    BY <2>4 DEF SaidGoodbye
  <2>6. In(c, "leaving", w)
    BY <2>5, Goodbyes DEF In
  <2> QED
    BY <2>6 DEF Awaiting, Settled
<1>2. IInv /\ Attentive /\ [Next]_vars => Attentive'
  BY AttentiveKept
<1> QED
  BY <1>1, <1>2, Patience, InitAttentive, PTL DEF Spec

-----------------------------------------------------------------------------
(* The locks are those of LockQueues.                                      *)

\* What a step may do to the lock of f.
Same(f)      == holder'[f] = holder[f] /\ line'[f] = line[f]
Dropped(f)   == holder'[f] = NoFd /\ line'[f] = <<>>
Passed(f)    == /\ holder[f] # NoFd
                /\ holder'[f] = HeadOrNoFd(line[f]) /\ line'[f] = TailOrEmpty(line[f])
Taken(c, f)  == holder[f] = NoFd /\ holder'[f] = c /\ line'[f] = line[f]
Joined(c, f) == /\ holder[f] \notin {NoFd, c} /\ c \notin ToSet(line[f])
                /\ holder'[f] = holder[f] /\ line'[f] = Append(line[f], c)

LockChange(f) ==
  \/ Same(f) \/ Dropped(f) \/ Passed(f)
  \/ \E c \in Clients : Taken(c, f) \/ Joined(c, f)

\* Nobody waits for a free lock, and nobody for one of its own.
LinesFit == \A f \in Files :
  /\ holder[f] = NoFd => line[f] = <<>>
  /\ holder[f] \notin ToSet(line[f])

LEMMA InitFits == Init => LinesFit
BY EmptyLine DEF Init, LinesFit

\* A client that leaves passes on the locks it has, and waits for none.
LEMMA EvictChanges ==
  ASSUME IInv, NEW c \in Conns, EvictClient(c), NEW f \in Files,
         c \notin ToSet(line[f])
  PROVE  LockChange(f)
<1>1. line[f] \in Line(Clients) /\ c # NoFd
  BY LockTypes, Descriptors
<1>2. ASSUME NEW s \in Line(Clients), c \notin ToSet(s)
      PROVE  RemoveFirst(s, c) = s
  <2>1. DOMAIN s = 1 .. Len(s)
    BY LenProperties DEF Line
  <2> QED
    BY <1>2, <2>1 DEF RemoveFirst, ToSet
<1>3. /\ holder'[f] = (IF f \in Held(c) THEN HeadOrNoFd(line[f]) ELSE holder[f])
      /\ line'[f] = RemoveFirst(IF f \in Held(c) THEN TailOrEmpty(line[f]) ELSE line[f], c)
  BY DEF EvictClient
<1>4. TailOrEmpty(line[f]) \in Line(Clients) /\ c \notin ToSet(TailOrEmpty(line[f]))
  BY <1>1, TailOfLine, EmptyLine DEF TailOrEmpty
<1>5. CASE f \in Held(c)
  <2>1. line'[f] = TailOrEmpty(line[f])
    BY <1>2, <1>3, <1>4, <1>5
  <2>2. holder[f] = c
    BY <1>5 DEF Held
  <2> QED
    BY <1>1, <1>3, <1>5, <2>1, <2>2 DEF LockChange, Passed
<1>6. CASE f \notin Held(c)
  <2>1. line'[f] = line[f]
    BY <1>1, <1>2, <1>3, <1>6
  <2> QED
    BY <1>3, <1>6, <2>1 DEF LockChange, Same
<1> QED
  BY <1>5, <1>6

LEMMA StepChangesLocks ==
  ASSUME IInv, [Next]_vars, NEW f \in Files
  PROVE  LockChange(f)
<1>0. /\ line \in [Files -> Seq(Clients)] /\ holder \in [Files -> Clients \cup {NoFd}]
      /\ OnePlace
  BY LockTypes
<1>1. CASE UNCHANGED lockVars
  BY <1>1 DEF lockVars, LockChange, Same
<1>2. ASSUME NEW w \in Workers, NEW g \in Files, LockFile(w, g) PROVE LockChange(f)
  <2>1. /\ fd[w] \in Clients /\ holder[g] = NoFd
        /\ holder' = [holder EXCEPT ![g] = fd[w]] /\ line' = line
    BY <1>2 DEF LockFile, Handled, ReadRequest, Acquire
  <2> QED
    BY <1>0, <2>1 DEF LockChange, Same, Taken
<1>3. ASSUME NEW w \in Workers, NEW g \in Files, Park(w, g) PROVE LockChange(f)
  <2>1. /\ fd[w] \in Clients /\ holder[g] \notin {NoFd, fd[w]}
        /\ holder' = holder /\ line' = [line EXCEPT ![g] = Append(@, fd[w])]
    BY <1>3 DEF Park, ReadRequest
  <2>2. In(fd[w], "fd", w) /\ ~ In(fd[w], "line", g)
    BY <1>0, <2>1, Descriptors DEF In, OnePlace
  <2>3. fd[w] \notin ToSet(line[g])
    BY <2>2 DEF In
  <2> QED
    BY <1>0, <2>1, <2>3 DEF LockChange, Same, Joined
<1>4. ASSUME NEW w \in Workers, NEW g \in Files, UnlockFile(w, g) PROVE LockChange(f)
  <2>1. /\ holder[g] = fd[w] /\ fd[w] \in Clients
        /\ holder' = [holder EXCEPT ![g] = HeadOrNoFd(line[g])]
        /\ line' = [line EXCEPT ![g] = TailOrEmpty(@)]
    BY <1>4 DEF UnlockFile, PassOn, Handled, ReadRequest
  <2> QED
    BY <1>0, <2>1, Descriptors DEF LockChange, Same, Passed
<1>5. ASSUME NEW gone \in SUBSET Files, Drop(gone) PROVE LockChange(f)
  BY <1>5 DEF Drop, LockChange, Same, Dropped
<1>6. ASSUME NEW w \in Workers, NotifyGone(w) \/ CloseConnection(w) PROVE LockChange(f)
  <2>1. PICK c \in Conns :
          /\ EvictClient(c)
          /\ In(c, "notify", w) \/ In(c, "fd", w)
    <3>1. CASE NotifyGone(w)
      <4>1. PICK c : c = Head(notify[w])
        OBVIOUS
      <4>2. notify[w] \in Line(Clients) /\ notify[w] # <<>> /\ EvictClient(c)
        BY <3>1, <4>1 DEF NotifyGone, Depart, IInv, Shape, InOrder
      <4>3. c \in Clients /\ c \in ToSet(notify[w])
        BY <4>1, <4>2, TailOfLine
      <4> QED
        BY <4>2, <4>3, Descriptors DEF In
    <3>2. CASE CloseConnection(w)
      <4>1. fd[w] \in Conns /\ EvictClient(fd[w])
        <5>1. WorkerFits(w)
          BY DEF IInv, Shape, WorkersFit
        <5>2. pc[w] = "read" \/ (pc[w] = "notify" /\ fd[w] # NoFd)
          BY <3>2 DEF CloseConnection
        <5> QED
          BY <3>2, <5>1, <5>2, Descriptors DEF WorkerFits, CloseConnection, Depart
      <4> QED
        BY <4>1 DEF In
    <3> QED
      BY <1>6, <3>1, <3>2
  <2>2. c \notin ToSet(line[f])
    BY <1>0, <2>1 DEF OnePlace, In
  <2> QED
    BY <2>1, <2>2, EvictChanges
<1>7. ASSUME \/ Main \/ ReadSignal \/ UNCHANGED vars
             \/ \E c \in Clients : Ask(c) \/ HangUp(c)
             \/ \E w \in Workers : \/ Take(w) \/ Return(w) \/ Other(w) \/ Answer(w) \/ Notify(w)
                                   \/ TellMain(w) \/ Close(w) \/ SendBack(w)
      PROVE  UNCHANGED lockVars
  BY <1>7 DEF Main, Accept, Dispatch, ReadPipe, DeleteQueue, JoinWorkers, ReadSignal, vars,
     Ask, HangUp, Take, Return, Other, Answer, Notify, TellMain, Close, SendBack
<1>8. ASSUME NEW w \in Workers, Handle(w)
      PROVE  \/ UNCHANGED lockVars
             \/ \E g \in Files : LockFile(w, g) \/ Park(w, g) \/ UnlockFile(w, g)
             \/ \E gone \in SUBSET Files : Drop(gone)
  <2>1. \A g \in Files : {g} \in SUBSET Files
    OBVIOUS
  <2> QED
    BY <1>8, <2>1 DEF Handle, RemoveFile, OpenEvicting, AppendEvicting, Other
<1> QED
  BY <1>1, <1>2, <1>3, <1>4, <1>5, <1>6, <1>7, <1>8 DEF Next, Worker

LEMMA FitsKept ==
  ASSUME IInv, LinesFit, [Next]_vars
  PROVE  LinesFit'
<1> SUFFICES ASSUME NEW f \in Files
             PROVE  /\ holder'[f] = NoFd => line'[f] = <<>>
                    /\ holder'[f] \notin ToSet(line'[f])
  BY DEF LinesFit
<1>1. /\ LockChange(f) /\ line[f] \in Line(Clients)
      /\ holder[f] = NoFd => line[f] = <<>>
      /\ holder[f] \notin ToSet(line[f])
  BY StepChangesLocks, LockTypes DEF LinesFit
<1>2. CASE Same(f)
  BY <1>1, <1>2 DEF Same
<1>3. CASE Dropped(f)
  BY <1>3, EmptyLine DEF Dropped
<1>4. CASE Passed(f)
  <2>1. CASE line[f] = <<>>
    BY <1>4, <2>1, EmptyLine DEF Passed, HeadOrNoFd, TailOrEmpty
  <2>2. CASE line[f] # <<>>
    BY <1>1, <1>4, <2>2, TailOfLine, Descriptors DEF Passed, HeadOrNoFd, TailOrEmpty
  <2> QED
    BY <2>1, <2>2
<1>5. ASSUME NEW c \in Clients, Taken(c, f)
      PROVE  /\ holder'[f] = NoFd => line'[f] = <<>>
             /\ holder'[f] \notin ToSet(line'[f])
  BY <1>1, <1>5, EmptyLine DEF Taken
<1>6. ASSUME NEW c \in Clients, Joined(c, f)
      PROVE  /\ holder'[f] = NoFd => line'[f] = <<>>
             /\ holder'[f] \notin ToSet(line'[f])
  <2>1. ~ Contains(line[f], c)
    BY <1>1, <1>6, ElementsOfLine DEF Contains, Joined
  <2>2. ToSet(Append(line[f], c)) = ToSet(line[f]) \cup {c}
    BY <1>1, <2>1, AppendToLine
  <2> QED
    BY <1>1, <1>6, <2>2 DEF Joined
<1> QED
  BY <1>1, <1>2, <1>3, <1>4, <1>5, <1>6 DEF LockChange

\* Each of these changes is one of LockQueues.
LEMMA LockChangeIsQueueStep ==
  ASSUME IInv, LinesFit, NEW f \in Files, LockChange(f)
  PROVE  Locks!Change(f) \/ Locks!Becomes(f, holder[f], line[f])
<1>1. CASE Same(f) \/ Dropped(f)
  BY <1>1 DEF Same, Dropped, Locks!Change, Locks!Disappear, Locks!Becomes
<1>2. CASE Passed(f)
  <2>1. CASE line[f] = <<>>
    BY <1>2, <2>1 DEF Passed, HeadOrNoFd, TailOrEmpty, Locks!Change, Locks!SetFree,
                      Locks!Becomes
  <2>2. CASE line[f] # <<>>
    BY <1>2, <2>2 DEF Passed, HeadOrNoFd, TailOrEmpty, Locks!Change, Locks!PassOn,
                      Locks!Becomes
  <2> QED
    BY <2>1, <2>2
<1>3. ASSUME NEW c \in Clients, Taken(c, f) PROVE Locks!Change(f)
  <2>1. line[f] = <<>>
    BY <1>3 DEF Taken, LinesFit
  <2> QED
    BY <1>3, <2>1 DEF Taken, Locks!Change, Locks!Acquire, Locks!Becomes
<1>4. ASSUME NEW c \in Clients, Joined(c, f) PROVE Locks!Change(f)
  <2>1. ~ Locks!Contains(line[f], c)
    BY <1>4, LockTypes, ElementsOfLine DEF Joined, Locks!Contains
  <2> QED
    BY <1>4, <2>1 DEF Joined, Locks!Change, Locks!GetInLine, Locks!Becomes
<1> QED
  BY <1>1, <1>2, <1>3, <1>4 DEF LockChange

\* The locks that the connections are parked for are those of LockQueues: they
\* pass from each holder to the first in line, whatever workers do at once.
THEOREM LockRefinement == Spec => LocksAreQueues
<1>1. Init => Locks!Init
  BY DEF Init, Locks!Init
<1>2. IInv /\ LinesFit /\ [Next]_vars => [Locks!Next]_(Locks!vars)
  BY StepChangesLocks, LockChangeIsQueueStep DEF Locks!Next
<1>3. IInv /\ LinesFit /\ [Next]_vars => LinesFit'
  BY FitsKept
<1> QED
  BY <1>1, <1>2, <1>3, InitFits, Inductive, PTL DEF Spec, LocksAreQueues, Locks!Spec
=============================================================================
