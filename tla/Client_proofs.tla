---------------------------- MODULE Client_proofs ----------------------------
(***************************************************************************)
(* Proofs about Client, for any command lines, any number of files in an   *)
(* answer and any capacity of the socket: the client and the server stay   *)
(* in step field by field, the client believes about its requests what the *)
(* server did, a write follows the open that it needs, and only a client   *)
(* that wrote can find the server gone without cause.                      *)
(***************************************************************************)
EXTENDS Client, LineLemmas

-----------------------------------------------------------------------------
(* What has to arrive.                                                     *)

\* The requests whose success tells how many files come with it.
Listing == {OPEN_FILE, WRITE_FILE, APPEND_TO_FILE, READ_N_FILES}
FileSet == {File(TRUE), File(FALSE)}
Contents == {Content(TRUE), Content(FALSE)}

\* What may be sent for n files, one after the other.
FilesOf(n) == {FlattenSeq(ss) : ss \in [1 .. n -> FileSet]}

\* How many files come after the one that is being read.
After(m) == IF m > 0 THEN m - 1 ELSE 0

\* Is e what has to arrive, when the field is the next one?
Whole(e, field, result, op, n, m) ==
  \/ field = "result" /\ result = "refused" /\ e = Refusal
  \/ field = "result" /\ result = "ok" /\ op = READ_FILE
       /\ \E c \in Contents : e = <<Number(0)>> \o c
  \/ field = "result" /\ result = "ok" /\ op \in Listing
       /\ \E t \in FilesOf(n) : e = <<Number(0)>> \o (<<Number(n)>> \o t)
  \/ field = "result" /\ result = "ok" /\ op \notin Listing \cup {READ_FILE} /\ e = <<Number(0)>>
  \/ field = "message" /\ e = <<Bytes>>
  \/ field \in {"evicted", "count"} /\ \E t \in FilesOf(n) : e = <<Number(n)>> \o t
  \/ field = "path" /\ e \in FilesOf(m)
  \/ field = "empty" /\ \E c \in Contents, t \in FilesOf(After(m)) : e = c \o t
  \/ field = "data" /\ \E t \in FilesOf(After(m)) : e = <<Bytes>> \o t

\* The fields of the protocol.
LEMMA FieldsAreTyped ==
  /\ \A n \in Nat : Number(n) \in Fields /\ Number(n).kind = "number" /\ Number(n).is = n
  /\ Bytes \in Fields /\ Bytes.kind = "bytes"
  /\ \A op \in Requests : Type(op) \in Fields /\ Type(op).kind = "type" /\ Type(op).is = op
BY DEF Number, Bytes, Type, Fields, Requests, OPEN_FILE, UNLOCK_FILE

\* A sequence of one field.
LEMMA Singles ==
  ASSUME NEW x \in Fields
  PROVE  /\ <<x>> \in Seq(Fields) /\ <<x>> # <<>>
         /\ Head(<<x>>) = x /\ Tail(<<x>>) = <<>> /\ <<x>> \o <<>> = <<x>>
<1>1. <<x>> \in Seq(Fields) /\ <<>> \in Seq(Fields)
  OBVIOUS
<1>2. <<x>> \o <<>> = <<x>>
  BY <1>1, ConcatEmptySeq
<1> QED
  BY <1>1, <1>2, ConsProperties

\* A content is its flag alone, or its flag and its bytes.
LEMMA ContentForms ==
  ASSUME NEW c \in Contents
  PROVE  \/ c = <<Number(1)>>
         \/ c = <<Number(0)>> \o <<Bytes>>
<1>1. Content(TRUE) = <<Number(1)>>
  BY DEF Content
<1>2. Content(FALSE) = <<Number(0)>> \o <<Bytes>>
  BY DEF Content
<1> QED
  BY <1>1, <1>2 DEF Contents

LEMMA ContentsAreTyped ==
  ASSUME NEW c \in Contents
  PROVE  c \in Seq(Fields) /\ c # <<>>
<1>1. <<Number(1)>> \in Seq(Fields) /\ <<Number(1)>> # <<>> /\ <<Bytes>> \in Seq(Fields)
  BY FieldsAreTyped, Singles
<1>2. <<Number(0)>> \o <<Bytes>> \in Seq(Fields) /\ <<Number(0)>> \o <<Bytes>> # <<>>
  BY <1>1, FieldsAreTyped, ConsProperties
<1> QED
  BY <1>1, <1>2, ContentForms

\* A file is its path and its content.
LEMMA FileForms ==
  ASSUME NEW f \in FileSet
  PROVE  f \in Seq(Fields) /\ \E c \in Contents : f = <<Bytes>> \o c
<1>1. \E c \in Contents : f = <<Bytes>> \o c
  BY DEF FileSet, File, Contents
<1> QED
  BY <1>1, ContentsAreTyped, FieldsAreTyped, ConsProperties

LEMMA FilesAreTyped ==
  ASSUME NEW n \in Nat
  PROVE  FilesOf(n) \subseteq Seq(Fields)
<1> SUFFICES ASSUME NEW ss \in [1 .. n -> FileSet]
             PROVE  FlattenSeq(ss) \in Seq(Fields)
  BY DEF FilesOf
<1>1. ss \in [1 .. n -> Seq(Fields)]
  BY FileForms
<1> QED
  BY <1>1, FlattenIsSeq

\* No file is no field.
LEMMA NoFiles == FilesOf(0) = {<<>>}
<1>1. ASSUME NEW ss \in [1 .. 0 -> FileSet]
      PROVE  FlattenSeq(ss) = <<>>
  <2>1. ss = <<>>
    OBVIOUS
  <2> QED
    BY <2>1, FlattenEmpty
<1>2. \E ss \in [1 .. 0 -> FileSet] : TRUE
  <2>1. [i \in 1 .. 0 |-> File(TRUE)] \in [1 .. 0 -> FileSet]
    OBVIOUS
  <2> QED
    BY <2>1
<1> QED
  BY <1>1, <1>2 DEF FilesOf

\* One file more is its fields and those of the others.
LEMMA OneFile ==
  ASSUME NEW f \in FileSet
  PROVE  f \in FilesOf(1)
<1>1. PICK ss : ss = [i \in 1 .. 1 |-> f]
  OBVIOUS
<1>2. f \in Seq(Fields)
  BY FileForms
<1>3. ss \in [1 .. 1 -> FileSet] /\ ss \in [1 .. 0 + 1 -> Seq(Fields)] /\ ss[1] = f
  BY <1>1, <1>2
<1>4. PICK r : r = [i \in 1 .. 0 |-> ss[i + 1]]
  OBVIOUS
<1>5. FlattenSeq(ss) = ss[1] \o FlattenSeq(r)
  <2>1. \A n \in Nat : \A s \in [1 .. n + 1 -> Seq(Fields)] :
          FlattenSeq(s) = s[1] \o FlattenSeq([i \in 1 .. n |-> s[i + 1]])
    BY FlattenFirst
  <2>2. 0 \in Nat
    OBVIOUS
  <2>3. FlattenSeq(ss) = ss[1] \o FlattenSeq([i \in 1 .. 0 |-> ss[i + 1]])
    BY <1>3, <2>1, <2>2, Zenon
  <2> QED
    BY <1>4, <2>3
<1>6. r = <<>>
  BY <1>4
<1>7. FlattenSeq(ss) = f
  BY <1>2, <1>3, <1>5, <1>6, FlattenEmpty, ConcatEmptySeq
<1> QED
  BY <1>3, <1>7 DEF FilesOf

\* What is sent for a file at least begins with a path.
LEMMA FilesBegin ==
  ASSUME NEW m \in Nat, m > 0, NEW e \in FilesOf(m)
  PROVE  \E c \in Contents, t \in FilesOf(m - 1) : e = <<Bytes>> \o (c \o t)
<1>1. PICK ss \in [1 .. m -> FileSet] : e = FlattenSeq(ss)
  BY DEF FilesOf
<1>2. m - 1 \in Nat /\ (m - 1) + 1 = m
  OBVIOUS
<1> DEFINE r == [i \in 1 .. m - 1 |-> ss[i + 1]]
<1>3. r \in [1 .. m - 1 -> FileSet]
  BY <1>2
<1>4. ss \in [1 .. (m - 1) + 1 -> Seq(Fields)]
  BY <1>2, FileForms
<1>5. e = ss[1] \o FlattenSeq(r)
  BY <1>1, <1>2, <1>4, FlattenFirst
<1> HIDE DEF r
<1>6. PICK t \in FilesOf(m - 1) : t = FlattenSeq(r)
  BY <1>3 DEF FilesOf
<1>7. PICK c \in Contents : ss[1] = <<Bytes>> \o c
  <2>1. ss[1] \in FileSet
    OBVIOUS
  <2> QED
    BY <2>1, FileForms
<1>8. /\ t \in Seq(Fields) /\ c \in Seq(Fields) /\ <<Bytes>> \in Seq(Fields)
  BY <1>2, FilesAreTyped, ContentsAreTyped, FieldsAreTyped, Singles
<1>9. (<<Bytes>> \o c) \o t = <<Bytes>> \o (c \o t)
  BY <1>8, ConcatAssociative
<1> QED
  BY <1>5, <1>6, <1>7, <1>9

\* What has to arrive is made of fields.
LEMMA WholeIsTyped ==
  ASSUME NEW field, NEW result, NEW op, NEW n \in Nat, NEW m \in Nat, NEW e,
         Whole(e, field, result, op, n, m)
  PROVE  e \in Seq(Fields)
<1>1. FilesOf(n) \subseteq Seq(Fields) /\ FilesOf(m) \subseteq Seq(Fields)
      /\ FilesOf(After(m)) \subseteq Seq(Fields)
  BY FilesAreTyped DEF After
<1>2. /\ Number(0) \in Fields /\ Number(n) \in Fields /\ Number(1) \in Fields /\ Bytes \in Fields
      /\ <<Number(0)>> \in Seq(Fields) /\ <<Bytes>> \in Seq(Fields)
      /\ Refusal \in Seq(Fields)
  BY FieldsAreTyped, Singles DEF Refusal
<1>3. \A x \in Fields : \A t \in Seq(Fields) : <<x>> \o t \in Seq(Fields)
  BY ConsProperties
<1>4. \A c \in Contents : \A t \in Seq(Fields) : c \o t \in Seq(Fields)
  BY ContentsAreTyped, ConcatProperties
<1>5. \A c \in Contents : c \in Seq(Fields)
  BY ContentsAreTyped
<1> HIDE DEF Refusal
<1> QED
  BY <1>1, <1>2, <1>3, <1>4, <1>5 DEF Whole

\* ReadResult: what the result is, and what has to arrive after it.
LEMMA ResultArrives ==
  ASSUME NEW result \in {"ok", "refused"}, NEW op \in Requests, NEW n \in Nat, NEW e,
         result = "ok" /\ op = READ_FILE => n = 1,
         result = "ok" /\ op \notin Listing \cup {READ_FILE} => n = 0,
         Whole(e, "result", result, op, n, 0)
  PROVE  /\ e # <<>> /\ Head(e).kind = "number"
         /\ Head(e).is = 1 <=> result = "refused"
         /\ result = "refused" => Tail(e) = <<Bytes>>
         /\ result = "ok" /\ op = OPEN_FILE => Whole(Tail(e), "evicted", result, op, n, 0)
         /\ result = "ok" /\ op = READ_FILE => Whole(Tail(e), "empty", result, op, n, 0)
         /\ result = "ok" /\ op \in Listing \ {OPEN_FILE} => Whole(Tail(e), "count", result, op, n, 0)
         /\ result = "ok" /\ op \notin Listing \cup {READ_FILE} => Tail(e) = <<>> /\ n = 0
<1>1. /\ Number(0) \in Fields /\ Number(n) \in Fields /\ Number(1) \in Fields
      /\ Number(0).kind = "number" /\ Number(0).is = 0
      /\ Number(1).kind = "number" /\ Number(1).is = 1
      /\ <<Bytes>> \in Seq(Fields)
  BY FieldsAreTyped, Singles
<1>2. FilesOf(n) \subseteq Seq(Fields)
  BY FilesAreTyped
<1>3. CASE result = "refused"
  <2>1. e = <<Number(1)>> \o <<Bytes>>
    BY <1>3 DEF Whole, Refusal
  <2>2. e # <<>> /\ Head(e) = Number(1) /\ Tail(e) = <<Bytes>>
    BY <1>1, <2>1, ConsProperties
  <2> QED
    BY <1>1, <1>3, <2>2
<1>4. CASE result = "ok" /\ op = READ_FILE
  <2>1. PICK c \in Contents : e = <<Number(0)>> \o c
    BY <1>4 DEF Whole, Listing, OPEN_FILE, WRITE_FILE, APPEND_TO_FILE, READ_N_FILES, READ_FILE
  <2>2. e # <<>> /\ Head(e) = Number(0) /\ Tail(e) = c
    BY <1>1, <2>1, ContentsAreTyped, ConsProperties
  <2>3. c = c \o <<>> /\ <<>> \in FilesOf(After(0))
    BY ContentsAreTyped, ConcatEmptySeq, NoFiles DEF After
  <2>4. Whole(Tail(e), "empty", result, op, n, 0)
    BY <2>2, <2>3 DEF Whole
  <2>5. op # OPEN_FILE /\ op \notin Listing
    BY <1>4 DEF Listing, OPEN_FILE, WRITE_FILE, APPEND_TO_FILE, READ_N_FILES, READ_FILE
  <2> QED
    BY <1>1, <1>4, <2>2, <2>4, <2>5
<1>5. CASE result = "ok" /\ op \in Listing
  <2>1. op # READ_FILE
    BY <1>5 DEF Listing, OPEN_FILE, WRITE_FILE, APPEND_TO_FILE, READ_N_FILES, READ_FILE
  <2>2. PICK t \in FilesOf(n) : e = <<Number(0)>> \o (<<Number(n)>> \o t)
    BY <1>5, <2>1 DEF Whole
  <2>3. <<Number(n)>> \o t \in Seq(Fields)
    BY <1>1, <1>2, ConsProperties
  <2>4. e # <<>> /\ Head(e) = Number(0) /\ Tail(e) = <<Number(n)>> \o t
    BY <1>1, <2>2, <2>3, ConsProperties
  <2>5. Whole(Tail(e), "evicted", result, op, n, 0) /\ Whole(Tail(e), "count", result, op, n, 0)
    BY <2>4 DEF Whole
  <2> QED
    BY <1>1, <1>5, <2>1, <2>4, <2>5
<1>6. CASE result = "ok" /\ op \notin Listing \cup {READ_FILE}
  <2>1. e = <<Number(0)>>
    BY <1>6 DEF Whole
  <2>2. e # <<>> /\ Head(e) = Number(0) /\ Tail(e) = <<>>
    BY <1>1, <2>1, Singles
  <2> QED
    BY <1>1, <1>6, <2>2 DEF Listing
<1> QED
  BY <1>3, <1>4, <1>5, <1>6

\* ReadMessage: nothing comes after the message of a refusal.
LEMMA MessageArrives ==
  ASSUME NEW result, NEW op, NEW n \in Nat, NEW m \in Nat, NEW e,
         Whole(e, "message", result, op, n, m)
  PROVE  e # <<>> /\ Head(e).kind = "bytes" /\ Tail(e) = <<>>
BY FieldsAreTyped, Singles DEF Whole

\* ReadCount: so many files have to arrive.
LEMMA CountArrives ==
  ASSUME NEW field, NEW result, NEW op, NEW n \in Nat, NEW m \in Nat, NEW e,
         field \in {"evicted", "count"}, Whole(e, field, result, op, n, m)
  PROVE  /\ e # <<>> /\ Head(e).kind = "number" /\ Head(e).is = n
         /\ Whole(Tail(e), "path", result, op, n, n)
<1>1. PICK t \in FilesOf(n) : e = <<Number(n)>> \o t
  BY DEF Whole
<1>2. t \in Seq(Fields) /\ Number(n) \in Fields /\ Number(n).kind = "number" /\ Number(n).is = n
  BY FilesAreTyped, FieldsAreTyped
<1>3. e # <<>> /\ Head(e) = Number(n) /\ Tail(e) = t
  BY <1>1, <1>2, ConsProperties
<1> QED
  BY <1>2, <1>3 DEF Whole

\* ReadPath: the content of that file comes next.
LEMMA PathArrives ==
  ASSUME NEW result, NEW op, NEW n \in Nat, NEW m \in Nat, m > 0, NEW e,
         Whole(e, "path", result, op, n, m)
  PROVE  /\ e # <<>> /\ Head(e).kind = "bytes"
         /\ Whole(Tail(e), "empty", result, op, n, m)
<1>1. e \in FilesOf(m)
  BY DEF Whole
<1>2. PICK c \in Contents, t \in FilesOf(m - 1) : e = <<Bytes>> \o (c \o t)
  BY <1>1, FilesBegin
<1>3. m - 1 \in Nat /\ After(m) = m - 1
  BY DEF After
<1>4. c \in Seq(Fields) /\ t \in Seq(Fields) /\ Bytes \in Fields /\ Bytes.kind = "bytes"
  BY <1>3, ContentsAreTyped, FilesAreTyped, FieldsAreTyped
<1>5. c \o t \in Seq(Fields)
  BY <1>4, ConcatProperties
<1>6. e # <<>> /\ Head(e) = Bytes /\ Tail(e) = c \o t
  BY <1>2, <1>4, <1>5, ConsProperties
<1> QED
  BY <1>3, <1>4, <1>6 DEF Whole

\* The files that remain are awaited when their number is counted down.
LEMMA RestIsAwaited ==
  ASSUME NEW result, NEW op, NEW n \in Nat, NEW m \in Nat, NEW t \in FilesOf(After(m))
  PROVE  /\ Whole(t, "path", result, op, n, After(m))
         /\ After(m) = 0 => t = <<>>
BY NoFiles DEF Whole

\* ReadEmpty: the bytes come next, unless the file is empty.
LEMMA EmptyArrives ==
  ASSUME NEW result, NEW op, NEW n \in Nat, NEW m \in Nat, NEW e,
         Whole(e, "empty", result, op, n, m)
  PROVE  /\ e # <<>> /\ Head(e).kind = "number"
         /\ Head(e).is = 0 => Whole(Tail(e), "data", result, op, n, m)
         /\ Head(e).is # 0 => Tail(e) \in FilesOf(After(m))
<1>1. PICK c \in Contents, t \in FilesOf(After(m)) : e = c \o t
  BY DEF Whole
<1>2. /\ After(m) \in Nat
      /\ Number(0) \in Fields /\ Number(1) \in Fields /\ Bytes \in Fields
      /\ Number(0).kind = "number" /\ Number(0).is = 0
      /\ Number(1).kind = "number" /\ Number(1).is = 1
  BY FieldsAreTyped DEF After
<1>3. t \in Seq(Fields) /\ <<Number(0)>> \in Seq(Fields) /\ <<Bytes>> \in Seq(Fields)
  BY <1>2, FilesAreTyped, Singles
<1>4. CASE c = <<Number(1)>>
  <2>1. e # <<>> /\ Head(e) = Number(1) /\ Tail(e) = t
    BY <1>1, <1>2, <1>3, <1>4, ConsProperties
  <2>2. Head(e).kind = "number" /\ Head(e).is = 1
    BY <1>2, <2>1
  <2>3. Tail(e) \in FilesOf(After(m))
    BY <1>1, <2>1
  <2>4. Head(e).is # 0
    BY <2>2
  <2> QED
    BY <2>1, <2>2, <2>3, <2>4
<1>5. CASE c = <<Number(0)>> \o <<Bytes>>
  <2>1. (<<Number(0)>> \o <<Bytes>>) \o t = <<Number(0)>> \o (<<Bytes>> \o t)
    BY <1>3, ConcatAssociative
  <2>2. <<Bytes>> \o t \in Seq(Fields)
    BY <1>2, <1>3, ConsProperties
  <2>3. e # <<>> /\ Head(e) = Number(0) /\ Tail(e) = <<Bytes>> \o t
    BY <1>1, <1>2, <1>5, <2>1, <2>2, ConsProperties
  <2>4. Whole(Tail(e), "data", result, op, n, m)
    BY <2>3 DEF Whole
  <2> QED
    BY <1>2, <2>3, <2>4
<1> QED
  BY <1>4, <1>5, ContentForms

\* ReadContent: the other files come next.
LEMMA DataArrives ==
  ASSUME NEW result, NEW op, NEW n \in Nat, NEW m \in Nat, NEW e,
         Whole(e, "data", result, op, n, m)
  PROVE  e # <<>> /\ Head(e).kind = "bytes" /\ Tail(e) \in FilesOf(After(m))
<1>1. PICK t \in FilesOf(After(m)) : e = <<Bytes>> \o t
  BY DEF Whole
<1>2. /\ After(m) \in Nat /\ Bytes \in Fields /\ Bytes.kind = "bytes"
  BY FieldsAreTyped DEF After
<1>3. t \in Seq(Fields)
  BY <1>2, FilesAreTyped
<1> QED
  BY <1>1, <1>2, <1>3, ConsProperties

-----------------------------------------------------------------------------

\* Succeed: the server sends what the client has to get.
LEMMA AnswerIsWhole ==
  ASSUME NEW op \in Requests, NEW files \in SeqOf(BOOLEAN, MaxFiles), Carries(op, files)
  PROVE  /\ Success(op, files) \in Seq(Fields) /\ FileList(op, files) \in Seq(Fields)
         /\ Len(files) \in Nat
         /\ Whole(Success(op, files) \o FileList(op, files), "result", "ok", op, Len(files), 0)
         /\ op = READ_FILE => Len(files) = 1
         /\ op \notin Listing \cup {READ_FILE} => Len(files) = 0
<1> DEFINE n == Len(files)
<1>1. PICK k \in 0 .. MaxFiles : files \in [1 .. k -> BOOLEAN]
  BY DEF SeqOf
<1>2. k \in Nat /\ files \in Seq(BOOLEAN) /\ n = k /\ n \in Nat /\ DOMAIN files = 1 .. n
  BY <1>1, BoundsAssumption, LenProperties
<1> HIDE DEF n
<1>3. /\ Number(0) \in Fields /\ Number(1) \in Fields /\ Number(n) \in Fields
      /\ \A x \in Fields : <<x>> \in Seq(Fields) /\ <<x>> \o <<>> = <<x>>
  BY <1>2, FieldsAreTyped, Singles
<1>4. \A x \in Fields : \A t \in Seq(Fields) : <<x>> \o t \in Seq(Fields)
  BY ConsProperties
<1>5. CASE op = READ_FILE
  <2>1. n = 1
    BY <1>5 DEF Carries, n, OPEN_FILE, WRITE_FILE, APPEND_TO_FILE, READ_N_FILES, READ_FILE
  <2>2. files[1] \in BOOLEAN
    BY <1>1, <1>2, <2>1
  <2>3. PICK c \in Contents : c = Content(files[1])
    BY <2>2 DEF Contents
  <2>4. Success(op, files) = <<Number(0)>> \o c /\ FileList(op, files) = <<>>
    BY <1>5, <2>3 DEF Success, FileList, OPEN_FILE, WRITE_FILE, APPEND_TO_FILE, READ_N_FILES, READ_FILE
  <2>5. c \in Seq(Fields) /\ <<Number(0)>> \o c \in Seq(Fields) /\ <<>> \in Seq(Fields)
        /\ (<<Number(0)>> \o c) \o <<>> = <<Number(0)>> \o c
    BY <1>3, <1>4, ContentsAreTyped, ConcatEmptySeq
  <2>6. Whole(<<Number(0)>> \o c, "result", "ok", op, n, 0)
    BY <1>5, <2>3 DEF Whole
  <2> QED
    BY <1>2, <1>5, <2>1, <2>4, <2>5, <2>6 DEF n
<1>6. CASE op = OPEN_FILE
  <2>1. n <= 1 /\ op \in Listing /\ op # READ_FILE
    BY <1>6 DEF Carries, n, Listing, OPEN_FILE, WRITE_FILE, APPEND_TO_FILE, READ_N_FILES, READ_FILE
  <2>2. FileList(op, files) = <<>>
    BY <1>6 DEF FileList, OPEN_FILE, WRITE_FILE, APPEND_TO_FILE, READ_N_FILES
  <2>3. PICK t \in FilesOf(n) : Success(op, files) = <<Number(0)>> \o (<<Number(n)>> \o t)
    <3>1. CASE n = 0
      <4>1. files = <<>>
        BY <1>2, <3>1, EmptySeq DEF n
      <4>2. Success(op, files) = <<Number(0)>> \o <<Number(0)>>
        BY <1>6, <4>1 DEF Success, OPEN_FILE, READ_FILE
      <4> QED
        BY <1>3, <3>1, <4>2, NoFiles
    <3>2. CASE n = 1
      <4>1. files # <<>> /\ files[1] \in BOOLEAN
        BY <1>1, <1>2, <3>2, EmptySeq DEF n
      <4>2. PICK f \in FileSet : f = File(files[1])
        BY <4>1 DEF FileSet
      <4>3. f \in Seq(Fields)
        BY FileForms
      <4>4. Success(op, files) = <<Number(0)>> \o (<<Number(1)>> \o f)
        BY <1>6, <4>1, <4>2 DEF Success, OPEN_FILE, WRITE_FILE, APPEND_TO_FILE, READ_N_FILES, READ_FILE
      <4>5. f \in FilesOf(n)
        BY <3>2, OneFile
      <4> QED
        BY <3>2, <4>4, <4>5
    <3>3. n = 0 \/ n = 1
      BY <1>2, <2>1
    <3> QED
      BY <3>1, <3>2, <3>3
  <2>4. t \in Seq(Fields)
    BY <1>2, FilesAreTyped
  <2>5. <<Number(n)>> \o t \in Seq(Fields)
    BY <1>3, <1>4, <2>4
  <2>6. Success(op, files) \in Seq(Fields) /\ <<>> \in Seq(Fields)
        /\ Success(op, files) \o <<>> = Success(op, files)
    BY <1>3, <1>4, <2>3, <2>5, ConcatEmptySeq
  <2>7. Whole(Success(op, files), "result", "ok", op, n, 0)
    BY <2>1, <2>3 DEF Whole
  <2> QED
    BY <1>2, <2>1, <2>2, <2>6, <2>7 DEF n
<1>7. CASE op \in {WRITE_FILE, APPEND_TO_FILE, READ_N_FILES}
  <2>1. op \in Listing /\ op # READ_FILE /\ op # OPEN_FILE
    BY <1>7 DEF Listing, OPEN_FILE, WRITE_FILE, APPEND_TO_FILE, READ_N_FILES, READ_FILE
  <2>2. Success(op, files) = <<Number(0)>> \o <<Number(n)>>
    BY <1>7, <2>1 DEF Success, n
  <2> DEFINE ss == [i \in 1 .. n |-> File(files[i])]
  <2>3. FileList(op, files) = FlattenSeq(ss)
    BY <1>2, <1>7 DEF FileList
  <2>4. ss \in [1 .. n -> FileSet]
    BY <1>1, <1>2 DEF FileSet
  <2> HIDE DEF ss
  <2>5. PICK t \in FilesOf(n) : t = FlattenSeq(ss)
    BY <2>4 DEF FilesOf
  <2>6. t \in Seq(Fields)
    BY <1>2, FilesAreTyped
  <2>7. (<<Number(0)>> \o <<Number(n)>>) \o t = <<Number(0)>> \o (<<Number(n)>> \o t)
        /\ <<Number(0)>> \o <<Number(n)>> \in Seq(Fields)
    BY <1>3, <2>6, ConcatAssociative, ConcatProperties
  <2>8. Whole(Success(op, files) \o t, "result", "ok", op, n, 0)
    BY <2>1, <2>2, <2>7 DEF Whole
  <2> QED
    BY <1>2, <2>1, <2>2, <2>3, <2>5, <2>6, <2>7, <2>8 DEF n
<1>8. CASE op \notin Listing \cup {READ_FILE}
  <2>1. /\ op # READ_FILE /\ op # OPEN_FILE
        /\ op \notin {WRITE_FILE, APPEND_TO_FILE, READ_N_FILES}
    BY <1>8 DEF Listing
  <2>2. files = <<>>
    BY <2>1 DEF Carries
  <2>3. Success(op, files) = <<Number(0)>> \o <<>> /\ FileList(op, files) = <<>>
    BY <2>1 DEF Success, FileList
  <2>4. Whole(<<Number(0)>>, "result", "ok", op, n, 0)
    BY <1>8 DEF Whole
  <2>5. n = 0 /\ <<>> \in Seq(Fields) /\ <<Number(0)>> \in Seq(Fields)
    BY <1>3, <2>2, EmptySeq DEF n
  <2> QED
    BY <1>2, <1>3, <2>1, <2>3, <2>4, <2>5 DEF n
<1> QED
  BY <1>5, <1>6, <1>7, <1>8 DEF Listing

\* Refuse: as well.
LEMMA RefusalIsWhole ==
  ASSUME NEW op, NEW n
  PROVE  /\ Refusal \in Seq(Fields) /\ Refusal \o <<>> = Refusal
         /\ Whole(Refusal, "result", "refused", op, n, 0)
<1>1. Number(1) \in Fields /\ Bytes \in Fields
  BY FieldsAreTyped
<1>2. Refusal \in Seq(Fields)
  BY <1>1 DEF Refusal
<1> QED
  BY <1>2, ConcatEmptySeq DEF Whole

\* Are these the kinds of the fields?
AreKinds(kinds, fields) ==
  Len(kinds) = Len(fields) /\ \A i \in 1 .. Len(fields) : kinds[i] = fields[i].kind

\* The requests, and the kinds of the arguments that come after their types.
LEMMA RequestForms ==
  ASSUME NEW op \in Requests, NEW n \in Nat
  PROVE  /\ Request(op, n) \in Seq(Fields) /\ Request(op, n) # <<>>
         /\ Head(Request(op, n)) = Type(op)
         /\ Tail(Request(op, n)) \in Seq(Fields) /\ Tail(Request(op, n)) # <<>>
         /\ Arguments(op) \in Seq({"number", "bytes"})
         /\ AreKinds(Arguments(op), Tail(Request(op, n)))
         /\ Tail(Tail(Request(op, n))) # <<>> => Tail(Tail(Tail(Request(op, n)))) = <<>>
         /\ op = OPEN_FILE => /\ Tail(Tail(Request(op, n))) = <<Number(n)>>
<1>1. /\ Number(n) \in Fields /\ Bytes \in Fields /\ Type(op) \in Fields
      /\ Number(n).kind = "number" /\ Bytes.kind = "bytes"
  BY FieldsAreTyped
<1>2. CASE op = OPEN_FILE
  <2>1. /\ Request(op, n) = <<Type(op)>> \o <<Bytes, Number(n)>>
        /\ Arguments(op) = <<"bytes", "number">>
    BY <1>2 DEF Request, Arguments, OPEN_FILE, WRITE_FILE, APPEND_TO_FILE, READ_N_FILES
  <2>2. <<Bytes, Number(n)>> \in Seq(Fields) /\ <<Bytes, Number(n)>> # <<>>
        /\ Tail(<<Bytes, Number(n)>>) = <<Number(n)>>
    BY <1>1
  <2>3. /\ Request(op, n) \in Seq(Fields) /\ Request(op, n) # <<>>
        /\ Head(Request(op, n)) = Type(op) /\ Tail(Request(op, n)) = <<Bytes, Number(n)>>
    <3>1. PICK r : r = <<Bytes, Number(n)>>
      OBVIOUS
    <3>2. r \in Seq(Fields) /\ Request(op, n) = <<Type(op)>> \o r
      BY <2>1, <2>2, <3>1
    <3>3. /\ Request(op, n) \in Seq(Fields) /\ Request(op, n) # <<>>
          /\ Head(Request(op, n)) = Type(op) /\ Tail(Request(op, n)) = r
      BY <1>1, <3>2, ConsProperties
    <3> QED
      BY <3>1, <3>3
  <2>4. Arguments(op) \in Seq({"number", "bytes"})
    BY <2>1
  <2>5. AreKinds(Arguments(op), Tail(Request(op, n)))
    BY <1>1, <2>1, <2>3 DEF AreKinds
  <2>6. Tail(<<Number(n)>>) = <<>>
    BY <1>1, Singles
  <2> QED
    BY <2>2, <2>3, <2>4, <2>5, <2>6
<1>3. CASE op \in {WRITE_FILE, APPEND_TO_FILE}
  <2>1. /\ op # OPEN_FILE
        /\ Request(op, n) = <<Type(op)>> \o <<Bytes, Bytes>>
        /\ Arguments(op) = <<"bytes", "bytes">>
    BY <1>3 DEF Request, Arguments, OPEN_FILE, WRITE_FILE, APPEND_TO_FILE, READ_N_FILES
  <2>2. <<Bytes, Bytes>> \in Seq(Fields) /\ <<Bytes, Bytes>> # <<>>
        /\ Len(<<Bytes, Bytes>>) = 2 /\ Tail(<<Bytes, Bytes>>) = <<Bytes>>
    BY <1>1
  <2> QED
    BY <1>1, <2>1, <2>2, ConsProperties, Singles DEF AreKinds
<1>4. CASE op = READ_N_FILES
  <2>1. /\ op # OPEN_FILE
        /\ Request(op, n) = <<Type(op)>> \o <<Number(n)>>
        /\ Arguments(op) = <<"number">>
    BY <1>4 DEF Request, Arguments, OPEN_FILE, WRITE_FILE, APPEND_TO_FILE, READ_N_FILES
  <2>2. <<Number(n)>> \in Seq(Fields) /\ <<Number(n)>> # <<>>
        /\ Len(<<Number(n)>>) = 1 /\ Tail(<<Number(n)>>) = <<>>
    BY <1>1, Singles
  <2> QED
    BY <1>1, <2>1, <2>2, ConsProperties DEF AreKinds
<1>5. CASE op \notin {OPEN_FILE, WRITE_FILE, APPEND_TO_FILE, READ_N_FILES}
  <2>1. /\ op # OPEN_FILE
        /\ Request(op, n) = <<Type(op)>> \o <<Bytes>>
        /\ Arguments(op) = <<"bytes">>
    BY <1>5 DEF Request, Arguments
  <2>2. <<Bytes>> \in Seq(Fields) /\ <<Bytes>> # <<>>
        /\ Len(<<Bytes>>) = 1 /\ Tail(<<Bytes>>) = <<>>
    BY <1>1, Singles
  <2> QED
    BY <1>1, <2>1, <2>2, ConsProperties DEF AreKinds
<1> QED
  BY <1>2, <1>3, <1>4, <1>5

\* A field less on both sides.
LEMMA TailsOfKinds ==
  ASSUME NEW S, NEW kinds \in Seq(S), NEW fields \in Seq(Fields), fields # <<>>,
         AreKinds(kinds, fields)
  PROVE  /\ kinds # <<>> /\ Head(kinds) = Head(fields).kind
         /\ Tail(kinds) \in Seq(S) /\ AreKinds(Tail(kinds), Tail(fields))
         /\ Tail(kinds) = <<>> <=> Tail(fields) = <<>>
<1>1. /\ Len(fields) \in Nat \ {0} /\ Len(kinds) = Len(fields)
      /\ \A i \in 1 .. Len(fields) : kinds[i] = fields[i].kind
  BY EmptySeq DEF AreKinds
<1>2. kinds # <<>>
  BY <1>1, EmptySeq
<1>3. /\ Tail(kinds) \in Seq(S) /\ Len(Tail(kinds)) = Len(kinds) - 1
      /\ \A i \in 1 .. Len(Tail(kinds)) : Tail(kinds)[i] = kinds[i + 1]
      /\ Head(kinds) = kinds[1]
  BY <1>2, HeadTailProperties
<1>4. /\ Tail(fields) \in Seq(Fields) /\ Len(Tail(fields)) = Len(fields) - 1
      /\ \A i \in 1 .. Len(Tail(fields)) : Tail(fields)[i] = fields[i + 1]
      /\ Head(fields) = fields[1]
  BY HeadTailProperties
<1>5. Head(kinds) = Head(fields).kind
  BY <1>1, <1>3, <1>4
<1>6. AreKinds(Tail(kinds), Tail(fields))
  BY <1>1, <1>3, <1>4 DEF AreKinds
<1>7. Tail(kinds) = <<>> <=> Tail(fields) = <<>>
  BY <1>1, <1>3, <1>4, EmptySeq
<1> QED
  BY <1>2, <1>3, <1>5, <1>6, <1>7

-----------------------------------------------------------------------------
(* The inductive invariant.                                                *)

\* The server has the connection.
Alive == connected /\ spc # "closed"

\* What the server has not read of the request that the client is in, and what
\* the client has not read of the answer.
Unread  == toServer \o toSend
Pending == toClient \o (out \o list)

Asked  == Request(call, Flags)
Called == call \in Requests

\* The connection waits for the next request.
Free == \/ spc \in {"idle", "backlog"}
        \/ spc = "send" /\ out = <<>> /\ list = <<>>

\* The two ends of the connection.
Ends ==
  /\ spc = "none" <=> ~ connected
  /\ cpc = "connect" => ~ connected /\ call = NoCall /\ more = 0
  /\ server = "starting" => spc = "none"
  /\ spc # "send" => out = <<>> /\ list = <<>>
  /\ spc \in {"none", "closed"} => toServer = <<>>
  /\ cpc = "receive" => connected
  /\ cpc # "receive" => toClient = <<>>
  /\ closeConnection => ClientGone

\* The client is in a call for a file of an option, and has fields to send only
\* while it sends.
Planned ==
  /\ cpc \in {"call", "send", "receive", "return"} => options # <<>> /\ todo > 0
  /\ cpc \in {"send", "receive", "return"} => Called
  /\ cpc = "send" => toSend # <<>> /\ outcome = "none"
  /\ cpc \notin {"send", "killed"} => toSend = <<>>
  /\ cpc = "receive" => outcome # "notAsked"

\* A worker reads the request: it is at the beginning, or what is left of the
\* request is what is left of its arguments.
ReadsRequest ==
  \/ /\ args = <<"type">> /\ sop = NoCall
     /\ (Called /\ Unread = Asked) \/ (ClientGone /\ Unread = <<>>)
  \/ /\ Called /\ sop = call
     /\ Unread # <<>> /\ Unread \in {Tail(Asked), Tail(Tail(Asked))}
     /\ args \in Seq({"number", "bytes"}) /\ AreKinds(args, Unread)

\* The server finds whole requests, performs the one that the client is in, and
\* answers when it has read the whole of it.
ServerSide ==
  /\ Free => Unread = <<>> \/ (Called /\ Unread = Asked)
  /\ spc = "read" => ReadsRequest
  /\ spc \in {"perform", "parked"} =>
       Unread = <<>> /\ Called /\ sop = call /\ (call = OPEN_FILE => number = Flags)
  /\ spc = "parked" => sop = LOCK_FILE
  /\ spc = "send" /\ ~ (out = <<>> /\ list = <<>>) => Unread = <<>>

\* Nothing is on its way between two calls, nor to the client before the
\* request is performed.
Matched ==
  /\ Alive /\ cpc \in {"option", "call", "return"} => Free /\ Unread = <<>> /\ more = 0
  /\ Alive /\ cpc = "send" => more = 0 /\ got = 0 /\ sent = 0
  /\ cpc = "receive" /\ outcome = "none" =>
       /\ next = "result" /\ toClient = <<>> /\ out = <<>> /\ list = <<>>
       /\ more = 0 /\ got = 0 /\ sent = 0
  /\ Alive /\ cpc = "receive" /\ outcome # "none" => Unread = <<>> /\ spc \in {"send", "idle"}

\* What is on its way is what has to arrive from the next field on, up to what
\* was lost when the server hung up; and the files count up to those sent.
Promised ==
  /\ \E lost \in Seq(Fields) :
       /\ Whole(Pending \o lost, next, outcome, call, sent, more)
       /\ spc # "closed" => lost = <<>>
  /\ next \in {"result", "message", "evicted", "count"} => got = 0 /\ more = 0
  /\ next = "message" => outcome = "refused"
  /\ next \notin {"result", "message"} => outcome = "ok"
  /\ next = "result" /\ outcome = "ok" /\ call = READ_FILE => sent = 1
  /\ next = "result" /\ outcome = "ok" /\ call \notin Listing \cup {READ_FILE} => sent = 0
  /\ next = "path" => more > 0 /\ got + more = sent
  /\ next \in {"empty", "data"} => got + 1 + After(more) = sent

Answering == cpc = "receive" /\ outcome # "none" => Promised

\* justCreated is of the request that the client had done last.
Created ==
  /\ Alive /\ outcome = "ok" /\ cpc \in {"receive", "return"} =>
       (justCreated <=> call = OPEN_FILE /\ Flags = 3)
  /\ Alive /\ outcome = "none" /\ call = WRITE_FILE => justCreated

IInv ==
  /\ TypeOK /\ Ends /\ Planned /\ ServerSide /\ Matched /\ Answering /\ Created
  /\ AnswerBelieved /\ OnlyWritersAreLeft

-----------------------------------------------------------------------------

\* The flags of openFile.
LEMMA FlagsAreTyped == Flags \in Nat
BY DEF Flags

\* They change with the option only.
LEMMA FlagsStay ==
  ASSUME UNCHANGED options
  PROVE  Flags' = Flags
BY DEF Flags, Option

\* Init.
LEMMA Initially ==
  ASSUME Init
  PROVE  IInv
<1>1. options \in Seq(Options)
  BY PlansAssumption DEF Init
<1>2. Len(<<>>) = 0 /\ <<>> \in Seq(Fields) /\ <<>> \in Seq({"type", "number", "bytes"})
  BY EmptySeq
<1>3. TypeOK
  <2>1. NoCall \in Requests \cup {NoCall} /\ None \in Errors /\ 0 <= Capacity
    BY BoundsAssumption DEF Errors
  <2>2. {sent, got, saved} \subseteq Nat
    BY DEF Init
  <2> QED
    BY <1>1, <1>2, <2>1, <2>2 DEF Init, TypeOK
<1>4. Ends
  BY DEF Init, Ends
<1>5. Planned
  BY DEF Init, Planned
<1>6. ServerSide
  BY DEF Init, ServerSide, Free
<1>7. Matched
  BY DEF Init, Matched, Alive
<1>8. Answering
  BY DEF Init, Answering
<1>9. Created
  BY DEF Init, Created, Alive
<1>10. AnswerBelieved
  BY DEF Init, AnswerBelieved
<1>11. OnlyWritersAreLeft
  BY DEF Init, OnlyWritersAreLeft
<1> QED
  BY <1>3, <1>4, <1>5, <1>6, <1>7, <1>8, <1>9, <1>10, <1>11 DEF IInv

\* A step that changes nothing.
LEMMA Stutters ==
  ASSUME IInv, UNCHANGED vars
  PROVE  IInv'
<1> USE DEF vars, planVars, apiVars, serverVars, pastVars, wireVars
<1>1. Flags' = Flags
  BY FlagsStay
<1>2. Unread' = Unread /\ Asked' = Asked /\ Pending' = Pending /\ (Called' <=> Called)
  BY <1>1 DEF Unread, Asked, Pending, Called
<1>3. (Alive' <=> Alive) /\ (Free' <=> Free) /\ (ClientGone' <=> ClientGone) /\ (Writes' <=> Writes)
  BY DEF Alive, Free, ClientGone, Writes
<1>4. TypeOK'
  BY DEF IInv, TypeOK
<1>5. Ends'
  BY <1>3 DEF IInv, Ends
<1>6. Planned'
  BY <1>2 DEF IInv, Planned
<1>7. ServerSide'
  BY <1>1, <1>2, <1>3 DEF IInv, ServerSide, ReadsRequest
<1>8. Matched'
  BY <1>2, <1>3 DEF IInv, Matched
<1>9. Answering'
  BY <1>2 DEF IInv, Answering, Promised
<1>10. Created'
  BY <1>1, <1>3 DEF IInv, Created
<1>11. AnswerBelieved' /\ OnlyWritersAreLeft'
  BY <1>3 DEF IInv, AnswerBelieved, OnlyWritersAreLeft
<1> QED
  BY <1>4, <1>5, <1>6, <1>7, <1>8, <1>9, <1>10, <1>11 DEF IInv

\* Between two calls nothing is on its way.
LEMMA Quiet ==
  ASSUME IInv, cpc \in {"option", "call", "return"}
  PROVE  /\ toClient = <<>> /\ toSend = <<>>
         /\ spc \notin {"read", "perform", "parked"}
         /\ Free => toServer = <<>> /\ more = 0
         /\ spc = "send" => Free
         /\ toServer = <<>>
         /\ Alive => more = 0 /\ Free
<1>1. toClient = <<>> /\ toSend = <<>>
  BY DEF IInv, Ends, Planned
<1>2. ~ Alive => spc \in {"none", "closed"} /\ toServer = <<>>
  BY DEF IInv, Ends, Alive
<1>3. Alive => Free /\ Unread = <<>> /\ more = 0
  BY DEF IInv, Matched
<1>4. Unread = <<>> => toServer = <<>>
  BY ConcatEqualIffEmpty DEF IInv, TypeOK, Unread
<1>5. Alive => spc \notin {"read", "perform", "parked"} /\ (spc = "send" => Free)
  BY <1>3 DEF Free
<1>6. Free => Alive
  BY DEF Free, IInv, Ends, Alive
<1> QED
  BY <1>1, <1>2, <1>3, <1>4, <1>5, <1>6

-----------------------------------------------------------------------------
(* The client takes options and calls the API.                             *)

\* The options that are left.
LEMMA TailOfOptions ==
  ASSUME IInv, options # <<>>
  PROVE  /\ Tail(options) \in Seq(Options)
         /\ Option \in Options /\ Option.files \in Nat /\ Option.letter \in Letters
<1>1. options \in Seq(Options)
  BY DEF IInv, TypeOK
<1>2. Tail(options) \in Seq(Options) /\ Option \in Options
  BY <1>1, HeadTailProperties DEF Option
<1> QED
  BY <1>2 DEF Options

\* What taking an option moves.
Turns ==
  /\ cpc' \in {"option", "call", "exited"}
  /\ options' \in Seq(Options) /\ todo' \in Nat /\ error' \in Errors
  /\ cpc' = "call" => options # <<>> /\ options' = options /\ todo' > 0

\* Every option changes nothing but these.
LEMMA OptionMoves ==
  ASSUME IInv, TakeOption
  PROVE  cpc = "option" /\ Turns /\ OnlyTheOption
<1> USE DEF Turns
<1>1. options \in Seq(Options) /\ todo \in Nat /\ error \in Errors /\ None \in Errors
      /\ "EPERM" \in Errors
  BY DEF IInv, TypeOK, Errors
<1>2. ASSUME NEW n \in Nat, cpc = "option", options # <<>>, Begin(n)
      PROVE  cpc = "option" /\ Turns /\ OnlyTheOption
  <2>1. Tail(options) \in Seq(Options)
    BY <1>2, TailOfOptions
  <2>2. CASE n = 0
    BY <1>1, <1>2, <2>1, <2>2 DEF Begin
  <2>3. CASE n # 0
    <3>1. n > 0
      BY <1>2, <2>3
    <3> QED
      BY <1>1, <1>2, <2>3, <3>1 DEF Begin
  <2> QED
    BY <2>2, <2>3
<1>3. ASSUME cpc = "option", options # <<>>, SkipOption
      PROVE  cpc = "option" /\ Turns /\ OnlyTheOption
  BY <1>1, <1>3, TailOfOptions DEF SkipOption
<1>4. ASSUME cpc = "option", WrongUsage
      PROVE  cpc = "option" /\ Turns /\ OnlyTheOption
  BY <1>1, <1>4 DEF WrongUsage
<1>5. ASSUME NEW letters, Takes(letters)
      PROVE  cpc = "option" /\ options # <<>> /\ Option.files \in Nat
  BY <1>5, TailOfOptions DEF Takes
<1> HIDE DEF Turns
<1>6. CASE OptionDir
  <2>1. cpc = "option" /\ options # <<>> /\ Option.files \in Nat
    BY <1>5, <1>6 DEF OptionDir
  <2>2. CASE \E n \in ReadNFilesFromDir(Option.files) : Begin(n)
    <3>1. PICK n \in Nat : Begin(n)
      BY <2>1, <2>2 DEF ReadNFilesFromDir
    <3> QED
      BY <1>2, <2>1, <3>1
  <2> QED
    BY <1>3, <1>4, <1>6, <2>1, <2>2 DEF OptionDir
<1>7. ASSUME NEW letter, ListOption(letter)
      PROVE  cpc = "option" /\ Turns /\ OnlyTheOption
  <2>1. cpc = "option" /\ options # <<>> /\ Option.files \in Nat
    BY <1>5, <1>7 DEF ListOption
  <2> QED
    BY <1>2, <1>4, <1>7, <2>1 DEF ListOption
<1>8. CASE OptionWrite \/ OptionRead \/ OptionLock \/ OptionUnlock \/ OptionRemove
             \/ OptionClose \/ OptionOpen
  BY <1>7, <1>8 DEF OptionWrite, OptionRead, OptionLock, OptionUnlock, OptionRemove,
                    OptionClose, OptionOpen
<1>9. CASE OptionAppend
  <2>1. cpc = "option" /\ options # <<>> /\ Option.files \in Nat
    BY <1>5, <1>9 DEF OptionAppend
  <2> QED
    BY <1>2, <1>3, <1>4, <1>9, <2>1 DEF OptionAppend
<1>10. CASE OptionReadN
  BY <1>1, <1>10 DEF OptionReadN, Takes, Turns
<1>11. CASE Exit
  BY <1>1, <1>11 DEF Exit, Turns
<1> QED
  BY <1>6, <1>8, <1>9, <1>10, <1>11 DEF TakeOption

\* The client turns to the next option or the next file, between two calls.
LEMMA TurnKeeps ==
  ASSUME IInv, cpc \in {"option", "return"}, Turns,
         call' \in {call, NoCall}, saved' \in Nat,
         UNCHANGED <<home, toSend, next, more, errno, connected, serverVars, wireVars,
                     outcome, sent, got, justCreated>>
  PROVE  IInv'
<1> USE DEF serverVars, wireVars
<1>1. /\ toClient = <<>> /\ toSend = <<>> /\ toServer = <<>>
      /\ spc \notin {"read", "perform", "parked"}
      /\ spc = "send" => Free
      /\ Alive => more = 0 /\ Free
  BY Quiet
<1>2. Unread = <<>> /\ Unread' = <<>>
  BY <1>1, ConcatEqualIffEmpty DEF Unread
<1>3. (Alive' <=> Alive) /\ (Free' <=> Free) /\ (Writes' <=> Writes)
  BY DEF Alive, Free, Writes
<1>4. ~ ClientGone
  BY DEF ClientGone
<1>5. cpc' \in {"option", "call", "exited"}
  BY DEF Turns
<1>6. TypeOK'
  <2>1. call' \in Requests \cup {NoCall} /\ {sent, got, saved}' \subseteq Nat
    BY DEF IInv, TypeOK
  <2> QED
    BY <2>1 DEF Turns, IInv, TypeOK
<1>7. Ends'
  BY <1>1, <1>4, <1>5 DEF IInv, Ends
<1>8. Planned'
  BY <1>1, <1>5 DEF IInv, Planned, Turns
<1>9. ServerSide'
  BY <1>1, <1>2, <1>3 DEF ServerSide, Free
<1>10. Matched'
  BY <1>1, <1>2, <1>3, <1>5 DEF Matched
<1>11. Answering' /\ AnswerBelieved'
  BY <1>5 DEF Answering, AnswerBelieved
<1>12. Created'
  <2>1. call' = WRITE_FILE => call = WRITE_FILE
    BY DEF WRITE_FILE, NoCall
  <2> QED
    BY <1>3, <1>5, <2>1 DEF IInv, Created
<1>13. OnlyWritersAreLeft'
  BY <1>3, <1>4 DEF IInv, OnlyWritersAreLeft
<1> QED
  BY <1>6, <1>7, <1>8, <1>9, <1>10, <1>11, <1>12, <1>13 DEF IInv

\* TakeOption.
LEMMA OptionStep ==
  ASSUME IInv, TakeOption
  PROVE  IInv'
<1>1. cpc = "option" /\ Turns /\ OnlyTheOption
  BY OptionMoves
<1>2. saved \in Nat
  BY DEF IInv, TypeOK
<1> QED
  BY <1>1, <1>2, TurnKeeps DEF OnlyTheOption, pastVars

\* A call of the API, when nothing is on its way, leaves the request to be sent,
\* or fails without one.
LEMMA ApiStep ==
  ASSUME IInv, cpc \in {"call", "return"}, NEW asks \in BOOLEAN,
         NEW op \in Requests, NEW e \in Errors \ {"EPERM"},
         asks => CallApi(op) /\ (Alive /\ op = WRITE_FILE => justCreated),
         ~ asks => CallFails(op, e) /\ (e = None => op = WRITE_FILE)
  PROVE  IInv'
<1> USE DEF serverVars, wireVars, planVars
<1>1. /\ toClient = <<>> /\ toSend = <<>> /\ toServer = <<>>
      /\ spc \notin {"read", "perform", "parked"}
      /\ spc = "send" => Free
      /\ Alive => more = 0 /\ Free
  BY Quiet
<1>2. UNCHANGED <<planVars, next, more, connected, serverVars, wireVars, justCreated>>
  BY DEF CallApi, CallFails, NewCall
<1>3. Flags' = Flags /\ Flags \in Nat
  BY <1>2, FlagsStay, FlagsAreTyped
<1>4. /\ call' = op /\ sent' = 0 /\ got' = 0 /\ saved' = 0
      /\ cpc' = IF asks THEN "send" ELSE "return"
      /\ errno' = IF asks THEN None ELSE e
      /\ toSend' = IF asks THEN Request(op, Flags) ELSE <<>>
      /\ outcome' = IF asks THEN "none" ELSE "notAsked"
  BY DEF CallApi, CallFails, NewCall, ReturnWith
<1>5. Request(op, Flags) \in Seq(Fields) /\ Request(op, Flags) # <<>>
  BY <1>3, RequestForms
<1>6. Called' /\ Asked' = Request(op, Flags)
  BY <1>3, <1>4 DEF Called, Asked
<1>7. Unread' = toSend'
  BY <1>1, <1>2, <1>4, <1>5, ConcatEmptySeq, EmptySeq DEF Unread
<1>8. (Alive' <=> Alive) /\ (Free' <=> Free) /\ (Writes' <=> Writes)
  BY <1>2 DEF Alive, Free, Writes
<1>9. ~ ClientGone
  BY DEF ClientGone
<1>10. TypeOK'
  <2>1. {sent, got, saved}' \subseteq Nat
    BY <1>4
  <2>2. toSend' \in Seq(Fields)
    BY <1>4, <1>5, EmptySeq
  <2>3. cpc' \in {"send", "return"} /\ call' \in Requests \cup {NoCall} /\ errno' \in Errors
        /\ outcome' \in {"none", "ok", "refused", "notAsked"}
    BY <1>4 DEF Errors, None
  <2> QED
    BY <1>2, <2>1, <2>2, <2>3 DEF IInv, TypeOK
<1>11. Ends'
  BY <1>1, <1>2, <1>4, <1>9 DEF IInv, Ends
<1>12. Planned'
  <2>1. options # <<>> /\ todo > 0
    BY DEF IInv, Planned
  <2> QED
    BY <1>2, <1>4, <1>5, <1>6, <2>1 DEF Planned
<1>13. ServerSide'
  <2>1. Unread' = <<>> \/ Unread' = Asked'
    BY <1>4, <1>6, <1>7
  <2>2. spc' \notin {"read", "perform", "parked"}
    BY <1>1, <1>2
  <2>3. spc' = "send" => out' = <<>> /\ list' = <<>>
    BY <1>1, <1>2 DEF Free
  <2> QED
    BY <1>6, <2>1, <2>2, <2>3 DEF ServerSide
<1>14. Matched'
  <2>1. cpc' = "return" => Unread' = <<>>
    BY <1>4, <1>7
  <2>2. cpc' \in {"send", "return"}
    BY <1>4
  <2> QED
    BY <1>1, <1>2, <1>4, <1>8, <2>1, <2>2 DEF Matched
<1>15. Answering' /\ AnswerBelieved'
  BY <1>4 DEF Answering, AnswerBelieved
<1>16. Created'
  BY <1>2, <1>4, <1>8 DEF Created
<1>17. OnlyWritersAreLeft'
  BY <1>2, <1>8, <1>9 DEF IInv, OnlyWritersAreLeft
<1> QED
  BY <1>10, <1>11, <1>12, <1>13, <1>14, <1>15, <1>16, <1>17 DEF IInv

\* Call.
LEMMA CallStep ==
  ASSUME IInv, Call
  PROVE  IInv'
<1>1. cpc = "call"
  BY DEF Call
<1>2. CASE CallFails(READ_N_FILES, "EINVAL")
  <2>1. READ_N_FILES \in Requests
    BY DEF READ_N_FILES, Requests, OPEN_FILE, UNLOCK_FILE
  <2>2. "EINVAL" \in Errors \ {"EPERM"} /\ "EINVAL" # None
    BY DEF Errors, None
  <2> QED
    BY <1>1, <1>2, <2>1, <2>2, ApiStep
<1>3. None \in Errors \ {"EPERM"}
  BY DEF Errors, None
<1>4. Option.letter \in Letters
  BY <1>1, TailOfOptions DEF IInv, Planned
<1>5. FirstCall \in {OPEN_FILE, APPEND_TO_FILE, READ_FILE, READ_N_FILES, LOCK_FILE, UNLOCK_FILE,
                     REMOVE_FILE, CLOSE_FILE}
  <2>1. CASE Option.letter \in {"w", "W", "o", "e", "n"}
    BY <2>1 DEF FirstCall
  <2>2. CASE Option.letter \in {"a", "r", "R", "l"}
    BY <2>2 DEF FirstCall
  <2>3. CASE Option.letter \in {"u", "c", "s"}
    BY <2>3 DEF FirstCall
  <2> QED
    BY <1>4, <2>1, <2>2, <2>3 DEF Letters
<1>6. FirstCall \in Requests /\ FirstCall # WRITE_FILE
  BY <1>5 DEF Requests, OPEN_FILE, WRITE_FILE, APPEND_TO_FILE, READ_FILE,
              READ_N_FILES, LOCK_FILE, UNLOCK_FILE, REMOVE_FILE, CLOSE_FILE
<1>7. CASE CallApi(FirstCall)
  BY <1>1, <1>3, <1>6, <1>7, ApiStep
<1> QED
  BY <1>2, <1>7 DEF Call

\* The callback is done with the file, and the call is over.
LEMMA DoneKeeps ==
  ASSUME IInv, cpc = "return", NEW e \in Errors, FileDone(e), saved' \in Nat
  PROVE  IInv'
<1>1. options # <<>> /\ todo > 0 /\ todo \in Nat /\ options \in Seq(Options)
  BY DEF IInv, Planned, TypeOK
<1>2. Tail(options) \in Seq(Options)
  BY <1>1, TailOfOptions
<1>3. todo - 1 \in Nat /\ (todo > 1 => todo - 1 > 0)
  BY <1>1
<1>4. todo' = todo - 1 /\ error' = e
  BY DEF FileDone
<1>5. CASE e # None
  BY <1>1, <1>3, <1>4, <1>5, TurnKeeps DEF FileDone, Turns
<1>6. CASE e = None /\ todo > 1
  <2>1. Turns
    BY <1>1, <1>3, <1>4, <1>6 DEF FileDone, Turns
  <2> QED
    BY <2>1, TurnKeeps DEF FileDone
<1>7. CASE e = None /\ ~ (todo > 1)
  <2>1. Turns
    BY <1>1, <1>2, <1>3, <1>4, <1>7 DEF FileDone, Turns
  <2> QED
    BY <2>1, TurnKeeps DEF FileDone
<1> QED
  BY <1>5, <1>6, <1>7

\* Callback.
LEMMA CallbackStep ==
  ASSUME IInv, Callback
  PROVE  IInv'
<1>1. saved \in Nat /\ saved + 1 \in Nat /\ Blame(errno) \in Errors
  BY DEF IInv, TypeOK, Blame, Errors, None
<1>2. ASSUME cpc = "return", FileDone(Blame(errno)), saved' \in Nat
      PROVE  IInv'
  BY <1>1, <1>2, DoneKeeps
<1>3. CASE WriteOptionCallback
  <2>1. cpc = "return"
    BY <1>3 DEF WriteOptionCallback, Returned
  <2>2. CASE FileDone(Blame(errno)) /\ UNCHANGED saved
    BY <1>1, <1>2, <2>1, <2>2
  <2>3. ASSUME NEW e \in ReadLocalFile, CallFails(WRITE_FILE, e)
        PROVE  IInv'
    <3>1. e \in Errors \ {"EPERM"} /\ WRITE_FILE \in Requests
      BY DEF ReadLocalFile, Errors, None, WRITE_FILE, Requests, OPEN_FILE, UNLOCK_FILE
    <3> QED
      BY <2>1, <2>3, <3>1, ApiStep
  <2>4. ASSUME Returned(OPEN_FILE), Option.letter \in {"w", "W"}, errno = None,
               CallApi(WRITE_FILE)
        PROVE  IInv'
    <3>1. None \in Errors \ {"EPERM"} /\ WRITE_FILE \in Requests
      BY DEF Errors, None, WRITE_FILE, Requests, OPEN_FILE, UNLOCK_FILE
    <3>2. Flags = 3
      BY <2>4 DEF Flags
    <3>3. Alive => outcome = "ok"
      BY <2>1, <2>4 DEF IInv, AnswerBelieved, Alive, Returned, OPEN_FILE, WRITE_FILE
    <3>4. Alive => justCreated
      BY <2>1, <2>4, <3>2, <3>3 DEF IInv, Created, Returned
    <3> QED
      BY <2>1, <2>4, <3>1, <3>4, ApiStep
  <2> QED
    BY <1>3, <2>2, <2>3, <2>4 DEF WriteOptionCallback
<1>4. CASE ReadOptionCallback
  <2>1. saved' \in Nat
    BY <1>1, <1>4 DEF ReadOptionCallback
  <2> QED
    BY <1>2, <1>4, <2>1 DEF ReadOptionCallback, Returned
<1>5. CASE \/ OpenOptionCallback \/ AppendOptionCallback \/ LockOptionCallback
           \/ UnlockOptionCallback \/ RemoveOptionCallback \/ CloseOptionCallback
  BY <1>1, <1>2, <1>5
     DEF OpenOptionCallback, AppendOptionCallback, LockOptionCallback, UnlockOptionCallback,
         RemoveOptionCallback, CloseOptionCallback, Returned
<1>6. CASE ReadNReturned
  <2>1. cpc = "return" /\ options # <<>> /\ todo \in Nat /\ error \in Errors
    BY <1>6 DEF ReadNReturned, Returned, IInv, Planned, TypeOK
  <2>2. Turns
    BY <1>6, <2>1, TailOfOptions DEF ReadNReturned, Turns
  <2> QED
    BY <1>1, <1>6, <2>1, <2>2, TurnKeeps DEF ReadNReturned, pastVars
<1> QED
  BY <1>3, <1>4, <1>5, <1>6 DEF Callback

-----------------------------------------------------------------------------
(* It connects, sends and goes away.                                       *)

\* Connect and GiveUp.
LEMMA ConnectStep ==
  ASSUME IInv, Connect \/ GiveUp
  PROVE  IInv'
<1> USE DEF serverVars, wireVars, planVars, pastVars
<1>1. cpc = "connect" /\ cpc' = "option"
  BY DEF Connect, GiveUp
<1>2. /\ UNCHANGED <<planVars, call, toSend, next, more, errno, server, signal, sop, args,
                     number, out, list, closeConnection, evicting, wireVars, pastVars>>
      /\ \/ connected' = TRUE /\ spc' \in {"idle", "backlog"} /\ server = "up"
         \/ connected' = connected /\ spc' = spc
  BY DEF Connect, GiveUp
<1>3. /\ ~ connected /\ spc = "none" /\ toServer = <<>> /\ toClient = <<>> /\ toSend = <<>>
      /\ call = NoCall /\ more = 0 /\ out = <<>> /\ list = <<>> /\ ~ closeConnection
  BY <1>1 DEF IInv, Ends, Planned, ClientGone
<1>4. Unread' = <<>>
  BY <1>2, <1>3, ConcatEmptySeq, EmptySeq DEF Unread
<1>5. TypeOK'
  <2>1. connected' \in BOOLEAN
        /\ spc' \in {"none", "backlog", "idle", "read", "perform", "parked", "send", "closed"}
    <3>1. connected \in BOOLEAN
      BY DEF IInv, TypeOK
    <3>2. connected' \in BOOLEAN
      BY <1>2, <3>1
    <3> QED
      BY <1>2, <1>3, <3>2
  <2> QED
    BY <1>1, <1>2, <2>1 DEF IInv, TypeOK
<1>6. Ends'
  <2>1. server' = "starting" => spc' = "none"
    BY <1>2, <1>3
  <2>2. spc' = "none" <=> ~ connected'
    BY <1>2, <1>3
  <2> QED
    BY <1>1, <1>2, <1>3, <2>1, <2>2 DEF Ends
<1>7. Planned'
  BY <1>1, <1>2, <1>3 DEF Planned
<1>8. ServerSide'
  BY <1>2, <1>3, <1>4 DEF ServerSide, Free
<1>9. Matched'
  BY <1>1, <1>2, <1>3, <1>4 DEF Matched, Free, Alive
<1>10. Answering' /\ AnswerBelieved'
  BY <1>1 DEF Answering, AnswerBelieved
<1>11. Created'
  BY <1>1, <1>2, <1>3 DEF Created, NoCall, WRITE_FILE
<1>12. OnlyWritersAreLeft'
  BY <1>2, <1>3 DEF OnlyWritersAreLeft
<1> QED
  BY <1>5, <1>6, <1>7, <1>8, <1>9, <1>10, <1>11, <1>12 DEF IInv

\* Kill, BrokenPipe and the exit of the client.
LEMMA KilledStep ==
  ASSUME IInv, BrokenPipe \/ Kill
  PROVE  IInv'
<1> USE DEF serverVars, planVars, pastVars
<1>1. /\ cpc \notin {"exited", "killed"} /\ cpc' = "killed" /\ toClient' = <<>>
      /\ UNCHANGED <<planVars, call, toSend, next, more, errno, connected, serverVars,
                     toServer, reset, pastVars>>
  BY DEF BrokenPipe, Kill
<1>2. Flags' = Flags
  BY <1>1, FlagsStay
<1>3. Unread' = Unread /\ Asked' = Asked /\ (Called' <=> Called)
  BY <1>1, <1>2 DEF Unread, Asked, Called
<1>4. (Alive' <=> Alive) /\ (Free' <=> Free) /\ (Writes' <=> Writes)
  BY <1>1 DEF Alive, Free, Writes
<1>5. ~ ClientGone
  BY <1>1 DEF ClientGone
<1>6. TypeOK'
  BY <1>1, EmptySeq, BoundsAssumption DEF IInv, TypeOK
<1>7. Ends'
  BY <1>1, <1>5 DEF IInv, Ends
<1>8. Planned'
  BY <1>1 DEF IInv, Planned
<1>9. ServerSide'
  BY <1>1, <1>2, <1>3, <1>4, <1>5 DEF IInv, ServerSide, ReadsRequest
<1>10. Matched'
  BY <1>1 DEF Matched
<1>11. Answering' /\ AnswerBelieved'
  BY <1>1 DEF Answering, AnswerBelieved
<1>12. Created'
  BY <1>1, <1>4 DEF IInv, Created
<1>13. OnlyWritersAreLeft'
  BY <1>1, <1>4, <1>5 DEF IInv, OnlyWritersAreLeft
<1> QED
  BY <1>6, <1>7, <1>8, <1>9, <1>10, <1>11, <1>12, <1>13 DEF IInv

\* SendUnconnected.
LEMMA SendUnconnectedStep ==
  ASSUME IInv, SendUnconnected
  PROVE  IInv'
<1> USE DEF serverVars, planVars, pastVars, wireVars
<1>1. /\ cpc = "send" /\ ~ connected /\ cpc' = "return" /\ errno' = "ENOTCONN" /\ toSend' = <<>>
      /\ UNCHANGED <<planVars, call, next, more, connected, serverVars, wireVars, pastVars>>
  BY DEF SendUnconnected, ReturnWith
<1>2. spc = "none" /\ ~ ClientGone /\ ~ Alive' /\ spc' = "none"
  BY <1>1 DEF IInv, Ends, ClientGone, Alive
<1>3. TypeOK'
  BY <1>1, EmptySeq DEF IInv, TypeOK, Errors
<1>4. Ends'
  BY <1>1, <1>2 DEF IInv, Ends
<1>5. Planned'
  BY <1>1 DEF IInv, Planned, Called
<1>6. ServerSide'
  BY <1>2 DEF ServerSide, Free
<1>7. Matched' /\ Created'
  BY <1>1, <1>2 DEF Matched, Created
<1>8. Answering' /\ AnswerBelieved' /\ OnlyWritersAreLeft'
  BY <1>1, <1>2 DEF Answering, AnswerBelieved, OnlyWritersAreLeft
<1> QED
  BY <1>3, <1>4, <1>5, <1>6, <1>7, <1>8 DEF IInv

\* SendField: the field goes over to the server, and what it has not read stays.
LEMMA SendFieldStep ==
  ASSUME IInv, SendField
  PROVE  IInv'
<1> USE DEF serverVars, planVars, pastVars
<1>1. /\ cpc = "send" /\ connected /\ spc # "closed" /\ Len(toServer) < Capacity
      /\ toServer' = Append(toServer, Head(toSend)) /\ toSend' = Tail(toSend)
      /\ \/ Len(toSend) = 1 /\ cpc' = "receive" /\ next' = "result" /\ errno' = None
         \/ Len(toSend) # 1 /\ UNCHANGED <<cpc, next, errno>>
      /\ UNCHANGED <<planVars, call, more, connected, serverVars, toClient, reset, pastVars>>
  BY DEF SendField
<1>2. /\ toSend \in Seq(Fields) /\ toSend # <<>> /\ toServer \in Seq(Fields)
      /\ outcome = "none" /\ Called /\ options # <<>> /\ todo > 0
  BY <1>1 DEF IInv, TypeOK, Planned
<1>3. Head(toSend) \in Fields /\ Tail(toSend) \in Seq(Fields) /\ Len(Tail(toSend)) = Len(toSend) - 1
      /\ Len(toSend) \in Nat \ {0}
  BY <1>2, HeadTailProperties, EmptySeq
<1>4. toServer' \in Seq(Fields) /\ Len(toServer') = Len(toServer) + 1 /\ toServer' # <<>>
  BY <1>1, <1>2, <1>3, AppendProperties
<1>5. Unread' = Unread
  BY <1>1, <1>2, MoveHead DEF Unread
<1>6. Unread # <<>>
  BY <1>2, ConcatEqualIffEmpty DEF Unread
<1>7. Flags' = Flags
  BY <1>1, FlagsStay
<1>8. Asked' = Asked /\ (Called' <=> Called)
  BY <1>1, <1>7 DEF Asked, Called
<1>9. Alive /\ Alive' /\ (Free' <=> Free) /\ (Writes' <=> Writes)
  BY <1>1 DEF Alive, Free, Writes
<1>10. ~ ClientGone
  BY <1>1 DEF ClientGone
<1>11. cpc' \in {"send", "receive"} /\ (cpc' = "receive" <=> Tail(toSend) = <<>>)
  <2>1. Tail(toSend) = <<>> <=> Len(toSend) = 1
    BY <1>3, EmptySeq
  <2> QED
    BY <1>1, <2>1
<1>12. TypeOK'
  <2>1. Len(toServer') <= Capacity
    <3>1. Len(toServer) \in Nat
      BY <1>2, LenProperties
    <3> QED
      BY <1>1, <1>4, <3>1, BoundsAssumption
  <2>2. /\ cpc' \in {"send", "receive"} /\ errno' \in Errors
        /\ next' \in {"none", "result", "message", "evicted", "count", "path", "empty", "data"}
    BY <1>1 DEF IInv, TypeOK, Errors
  <2> QED
    BY <1>1, <1>3, <1>4, <2>1, <2>2 DEF IInv, TypeOK
<1>13. spc \notin {"none", "closed", "read", "perform", "parked"} \/ spc = "read"
  BY <1>1, <1>6 DEF IInv, Ends, ServerSide, TypeOK
<1>14. out = <<>> /\ list = <<>> /\ toClient = <<>>
  BY <1>1, <1>6 DEF IInv, Ends, ServerSide
<1>15. Ends'
  BY <1>1, <1>10, <1>11, <1>13, <1>14 DEF IInv, Ends
<1>16. Planned'
  BY <1>1, <1>2, <1>8, <1>11 DEF Planned
<1>17. ServerSide'
  <2>1. ReadsRequest => ReadsRequest'
    BY <1>1, <1>5, <1>8, <1>10 DEF ReadsRequest
  <2> QED
    BY <1>1, <1>5, <1>7, <1>8, <1>9, <2>1 DEF IInv, ServerSide
<1>18. Matched'
  <2>1. more = 0 /\ got = 0 /\ sent = 0
    BY <1>1, <1>9 DEF IInv, Matched
  <2>2. cpc' = "receive" => next' = "result"
    BY <1>1
  <2> QED
    BY <1>1, <1>2, <1>11, <1>14, <2>1, <2>2 DEF Matched
<1>19. Answering' /\ AnswerBelieved'
  BY <1>1, <1>2, <1>11 DEF Answering, AnswerBelieved
<1>20. Created'
  BY <1>1, <1>2, <1>9 DEF IInv, Created
<1>21. OnlyWritersAreLeft'
  BY <1>1 DEF OnlyWritersAreLeft
<1> QED
  BY <1>12, <1>15, <1>16, <1>17, <1>18, <1>19, <1>20, <1>21 DEF IInv

-----------------------------------------------------------------------------
(* The answer arrives.                                                     *)

\* The field that arrives is the head of what is awaited.
LEMMA FieldIsAwaited ==
  ASSUME IInv, cpc = "receive", toClient # <<>>
  PROVE  /\ outcome \in {"ok", "refused"} /\ Promised
         /\ \E lost, e \in Seq(Fields) :
              /\ Whole(e, next, outcome, call, sent, more)
              /\ spc # "closed" => lost = <<>>
              /\ e # <<>> /\ Head(e) = Head(toClient)
              /\ Tail(e) = (Tail(toClient) \o (out \o list)) \o lost
<1>1. outcome \in {"ok", "refused"} /\ Promised
  BY DEF IInv, Matched, Planned, Answering, TypeOK
<1>2. toClient \in Seq(Fields) /\ out \in Seq(Fields) /\ list \in Seq(Fields)
  BY DEF IInv, TypeOK
<1>3. out \o list \in Seq(Fields)
  BY <1>2, ConcatProperties
<1>4. PICK lost \in Seq(Fields) : /\ Whole(Pending \o lost, next, outcome, call, sent, more)
                                  /\ spc # "closed" => lost = <<>>
  BY <1>1 DEF Promised
<1>5. /\ Pending \in Seq(Fields) /\ Pending # <<>> /\ Head(Pending) = Head(toClient)
      /\ Tail(Pending) = Tail(toClient) \o (out \o list)
  BY <1>2, <1>3, HeadOfConcat DEF Pending
<1>6. /\ Pending \o lost \in Seq(Fields)
      /\ Pending \o lost # <<>> /\ Head(Pending \o lost) = Head(Pending)
      /\ Tail(Pending \o lost) = Tail(Pending) \o lost
  BY <1>5, HeadOfConcat
<1> QED
  BY <1>1, <1>4, <1>5, <1>6

\* When nothing is awaited any more, nothing is on its way.
LEMMA NothingLeft ==
  ASSUME IInv, cpc = "receive", toClient # <<>>, NEW lost \in Seq(Fields),
         (Tail(toClient) \o (out \o list)) \o lost = <<>>
  PROVE  Tail(toClient) = <<>> /\ out = <<>> /\ list = <<>>
<1>1. toClient \in Seq(Fields) /\ out \in Seq(Fields) /\ list \in Seq(Fields)
  BY DEF IInv, TypeOK
<1>2. Tail(toClient) \in Seq(Fields) /\ out \o list \in Seq(Fields)
  BY <1>1, HeadTailProperties, ConcatProperties
<1>3. Tail(toClient) \o (out \o list) \in Seq(Fields)
  BY <1>2, ConcatProperties
<1>4. Tail(toClient) \o (out \o list) = <<>>
  BY <1>3, ConcatEqualIffEmpty
<1>5. Tail(toClient) = <<>> /\ out \o list = <<>>
  BY <1>2, <1>4, ConcatEqualIffEmpty
<1> QED
  BY <1>1, <1>5, ConcatEqualIffEmpty

\* The client has read a field and goes on with the next one.
LEMMA ReadKeeps ==
  ASSUME IInv, cpc = "receive", toClient # <<>>, toClient' = Tail(toClient), OnlyTheAnswer,
         more' \in Nat, got' \in Nat, saved' \in Nat, errno' \in Errors,
         next' \in {"none", "result", "message", "evicted", "count", "path", "empty", "data"},
         outcome # "none",
         \/ cpc' = "receive" /\ Promised'
         \/ /\ cpc' = "return" /\ AnswerBelieved'
            /\ Tail(toClient) = <<>> /\ out = <<>> /\ list = <<>> /\ more' = 0
  PROVE  IInv'
<1> USE DEF serverVars, planVars
<1>1. UNCHANGED <<planVars, call, toSend, connected, serverVars, toServer, reset,
                  outcome, sent, justCreated>>
  BY DEF OnlyTheAnswer
<1>2. Flags' = Flags
  BY <1>1, FlagsStay
<1>3. Unread' = Unread /\ Asked' = Asked /\ (Called' <=> Called)
  BY <1>1, <1>2 DEF Unread, Asked, Called
<1>4. (Alive' <=> Alive) /\ (Free' <=> Free) /\ (Writes' <=> Writes)
  BY <1>1 DEF Alive, Free, Writes
<1>5. ~ ClientGone
  BY DEF ClientGone
<1>6. toClient \in Seq(Fields) /\ Len(toClient) <= Capacity
  BY DEF IInv, TypeOK
<1>7. TypeOK'
  <2>1. toClient' \in Seq(Fields) /\ Len(toClient') <= Capacity
    BY <1>6, HeadTailProperties, EmptySeq, BoundsAssumption
  <2>2. {sent, got, saved}' \subseteq Nat
    BY <1>1 DEF IInv, TypeOK
  <2> QED
    BY <1>1, <2>1, <2>2 DEF IInv, TypeOK
<1>8. Ends'
  BY <1>1, <1>5 DEF IInv, Ends
<1>9. Planned'
  BY <1>1, <1>3 DEF IInv, Planned
<1>10. ServerSide'
  <2>1. ReadsRequest => ReadsRequest'
    BY <1>1, <1>3, <1>5 DEF ReadsRequest
  <2> QED
    BY <1>1, <1>2, <1>3, <1>4, <2>1 DEF IInv, ServerSide
<1>11. Matched'
  <2>1. Alive => Unread = <<>> /\ spc \in {"send", "idle"}
    BY DEF IInv, Matched
  <2> QED
    BY <1>1, <1>3, <1>4, <2>1 DEF Matched, Free
<1>12. Answering' /\ AnswerBelieved'
  BY DEF Answering, AnswerBelieved
<1>13. Created'
  BY <1>1, <1>2, <1>4 DEF IInv, Created
<1>14. OnlyWritersAreLeft'
  BY <1>1, <1>4, <1>5 DEF IInv, OnlyWritersAreLeft
<1> QED
  BY <1>7, <1>8, <1>9, <1>10, <1>11, <1>12, <1>13, <1>14 DEF IInv

-----------------------------------------------------------------------------
(* It reads.                                                               *)

\* What a field that has arrived leaves to be read.
LEMMA AfterField ==
  ASSUME IInv, NEW field, GetData(field), OnlyTheAnswer
  PROVE  /\ cpc = "receive" /\ toClient # <<>> /\ toClient' = Tail(toClient) /\ next = field
         /\ outcome \in {"ok", "refused"} /\ Promised /\ call \in Requests
         /\ {more, got, saved, sent} \subseteq Nat /\ errno \in Errors
         /\ next \in {"none", "result", "message", "evicted", "count", "path", "empty", "data"}
         /\ outcome' = outcome /\ call' = call /\ sent' = sent /\ spc' = spc
         /\ \E lost, e \in Seq(Fields) :
              /\ Whole(e, field, outcome, call, sent, more)
              /\ spc # "closed" => lost = <<>>
              /\ e # <<>> => Head(e) = Head(toClient)
              /\ Pending' \o lost = Tail(e)
              /\ Tail(e) = <<>> => Tail(toClient) = <<>> /\ out = <<>> /\ list = <<>>
<1>1. /\ cpc = "receive" /\ toClient # <<>> /\ toClient' = Tail(toClient) /\ next = field
      /\ out' = out /\ list' = list
      /\ outcome' = outcome /\ call' = call /\ sent' = sent /\ spc' = spc
  BY DEF GetData, OnlyTheAnswer, serverVars
<1>2. /\ {more, got, saved, sent} \subseteq Nat /\ errno \in Errors /\ call \in Requests
      /\ next \in {"none", "result", "message", "evicted", "count", "path", "empty", "data"}
  BY <1>1 DEF IInv, TypeOK, Planned, Called
<1>3. outcome \in {"ok", "refused"} /\ Promised
  BY <1>1, FieldIsAwaited
<1>4. PICK lost, e \in Seq(Fields) :
        /\ Whole(e, field, outcome, call, sent, more)
        /\ spc # "closed" => lost = <<>>
        /\ e # <<>> /\ Head(e) = Head(toClient)
        /\ Tail(e) = (Tail(toClient) \o (out \o list)) \o lost
  BY <1>1, FieldIsAwaited
<1>5. Pending' \o lost = Tail(e)
  BY <1>1, <1>4 DEF Pending
<1>6. Tail(e) = <<>> => Tail(toClient) = <<>> /\ out = <<>> /\ list = <<>>
  BY <1>1, <1>4, NothingLeft
<1> QED
  BY <1>1, <1>2, <1>3, <1>4, <1>5, <1>6

\* ReadResult.
LEMMA ReadResultStep ==
  ASSUME IInv, ReadResult
  PROVE  IInv'
<1>1. /\ GetData("result") /\ OnlyTheAnswer /\ UNCHANGED <<more, got, saved>>
      /\ Refused \/ OpenFileGoesOn \/ ReadFileGoesOn \/ FilesFollow \/ NothingFollows
  BY DEF ReadResult
<1>2. /\ cpc = "receive" /\ toClient # <<>> /\ toClient' = Tail(toClient) /\ next = "result"
      /\ outcome \in {"ok", "refused"} /\ Promised /\ call \in Requests
      /\ {more, got, saved, sent} \subseteq Nat /\ errno \in Errors
      /\ outcome' = outcome /\ call' = call /\ sent' = sent /\ spc' = spc
  BY <1>1, AfterField
<1>3. PICK lost, e \in Seq(Fields) :
              /\ Whole(e, "result", outcome, call, sent, more)
              /\ spc # "closed" => lost = <<>>
              /\ e # <<>> => Head(e) = Head(toClient)
              /\ Pending' \o lost = Tail(e)
              /\ Tail(e) = <<>> => Tail(toClient) = <<>> /\ out = <<>> /\ list = <<>>
  BY <1>1, AfterField
<1>4. /\ got = 0 /\ more = 0 /\ more' = 0 /\ got' = 0
      /\ outcome = "ok" /\ call = READ_FILE => sent = 1
      /\ outcome = "ok" /\ call \notin Listing \cup {READ_FILE} => sent = 0
  BY <1>1, <1>2 DEF Promised
<1>5. /\ Read = 1 <=> outcome = "refused"
      /\ outcome = "refused" => Tail(e) = <<Bytes>>
      /\ outcome = "ok" /\ call = OPEN_FILE => Whole(Tail(e), "evicted", outcome, call, sent, 0)
      /\ outcome = "ok" /\ call = READ_FILE => Whole(Tail(e), "empty", outcome, call, sent, 0)
      /\ outcome = "ok" /\ call \in Listing \ {OPEN_FILE} => Whole(Tail(e), "count", outcome, call, sent, 0)
      /\ outcome = "ok" /\ call \notin Listing \cup {READ_FILE} => Tail(e) = <<>> /\ sent = 0
  BY <1>2, <1>3, <1>4, ResultArrives DEF Read
<1>6. more' \in Nat /\ got' \in Nat /\ saved' \in Nat
  BY <1>1, <1>2
<1>7. ASSUME NEW field \in {"message", "evicted", "empty", "count"}, Expect(field),
             Whole(Tail(e), field, outcome, call, sent, 0),
             outcome = IF field = "message" THEN "refused" ELSE "ok",
             field = "empty" => sent = 1
      PROVE  IInv'
  <2>1. cpc' = "receive" /\ next' = field /\ errno' = errno
    BY <1>2, <1>7 DEF Expect
  <2>2. Whole(Pending' \o lost, next', outcome', call', sent', more')
    BY <1>2, <1>3, <1>4, <1>7, <2>1
  <2>3. Promised'
    <3>1. field = "empty" => got' + 1 + After(more') = sent'
      BY <1>2, <1>4, <1>7 DEF After
    <3>2. \E l \in Seq(Fields) : /\ Whole(Pending' \o l, next', outcome', call', sent', more')
                                 /\ spc' # "closed" => l = <<>>
      BY <1>2, <1>3, <2>2
    <3> QED
      BY <1>2, <1>4, <1>7, <2>1, <3>1, <3>2 DEF Promised
  <2> QED
    BY <1>1, <1>2, <1>6, <2>1, <2>3, ReadKeeps
<1>8. CASE Refused
  <2>1. outcome = "refused" /\ Expect("message")
    BY <1>5, <1>8 DEF Refused
  <2>2. Whole(Tail(e), "message", outcome, call, sent, 0)
    BY <1>5, <2>1 DEF Whole
  <2> QED
    BY <1>7, <2>1, <2>2
<1>9. CASE OpenFileGoesOn
  BY <1>2, <1>5, <1>7, <1>9 DEF OpenFileGoesOn
<1>10. CASE ReadFileGoesOn
  BY <1>2, <1>4, <1>5, <1>7, <1>10 DEF ReadFileGoesOn
<1>11. CASE FilesFollow
  <2>1. call \in Listing \ {OPEN_FILE}
    BY <1>11 DEF FilesFollow, Listing, OPEN_FILE, WRITE_FILE, APPEND_TO_FILE, READ_N_FILES
  <2> QED
    BY <1>2, <1>5, <1>7, <1>11, <2>1 DEF FilesFollow
<1>12. CASE NothingFollows
  <2>1. call \notin Listing \cup {READ_FILE}
    BY <1>12 DEF NothingFollows, Listing, OPEN_FILE, WRITE_FILE, APPEND_TO_FILE, READ_N_FILES,
                 READ_FILE, LOCK_FILE, UNLOCK_FILE, CLOSE_FILE, REMOVE_FILE
  <2>2. outcome = "ok" /\ cpc' = "return" /\ errno' = None /\ next' = next
    BY <1>2, <1>5, <1>12 DEF NothingFollows, ReturnWith
  <2>3. Tail(e) = <<>> /\ sent = 0
    BY <1>5, <2>1, <2>2
  <2>4. AnswerBelieved'
    BY <1>2, <1>4, <2>2, <2>3 DEF AnswerBelieved, None
  <2>5. errno' \in Errors
    BY <2>2 DEF Errors
  <2> QED
    BY <1>1, <1>2, <1>3, <1>4, <1>6, <2>2, <2>3, <2>4, <2>5, ReadKeeps
<1> QED
  BY <1>1, <1>8, <1>9, <1>10, <1>11, <1>12

\* ReadMessage.
LEMMA ReadMessageStep ==
  ASSUME IInv, ReadMessage
  PROVE  IInv'
<1>1. /\ GetData("message") /\ OnlyTheAnswer /\ UNCHANGED <<next, more, got, saved>>
      /\ cpc' = "return" /\ errno' = "EPERM"
  BY DEF ReadMessage, ReturnWith
<1>2. /\ cpc = "receive" /\ toClient # <<>> /\ toClient' = Tail(toClient) /\ next = "message"
      /\ outcome \in {"ok", "refused"} /\ Promised
      /\ {more, got, saved, sent} \subseteq Nat
      /\ outcome' = outcome /\ spc' = spc
  BY <1>1, AfterField
<1>3. PICK e : /\ Whole(e, "message", outcome, call, sent, more)
               /\ Tail(e) = <<>> => Tail(toClient) = <<>> /\ out = <<>> /\ list = <<>>
  BY <1>1, AfterField
<1>4. Tail(e) = <<>>
  BY <1>2, <1>3, MessageArrives
<1>5. outcome = "refused" /\ more = 0
  BY <1>2 DEF Promised
<1>6. AnswerBelieved'
  BY <1>1, <1>2, <1>5 DEF AnswerBelieved, None
<1>7. /\ more' \in Nat /\ got' \in Nat /\ saved' \in Nat /\ more' = 0 /\ errno' \in Errors
      /\ next' \in {"none", "result", "message", "evicted", "count", "path", "empty", "data"}
  BY <1>1, <1>2, <1>5 DEF Errors
<1> QED
  BY <1>1, <1>2, <1>3, <1>4, <1>6, <1>7, ReadKeeps

\* ReadCount.
LEMMA ReadCountStep ==
  ASSUME IInv, ReadCount
  PROVE  IInv'
<1>1. PICK field \in {"evicted", "count"} : GetData(field)
  BY DEF ReadCount
<1>2. OnlyTheAnswer /\ UNCHANGED <<got, saved>> /\ more' = Read
  BY DEF ReadCount
<1>3. /\ cpc = "receive" /\ toClient # <<>> /\ toClient' = Tail(toClient) /\ next = field
      /\ outcome \in {"ok", "refused"} /\ Promised
      /\ {more, got, saved, sent} \subseteq Nat /\ errno \in Errors
      /\ outcome' = outcome /\ call' = call /\ sent' = sent /\ spc' = spc
  BY <1>1, <1>2, AfterField
<1>4. PICK lost, e \in Seq(Fields) :
              /\ Whole(e, field, outcome, call, sent, more)
              /\ spc # "closed" => lost = <<>>
              /\ e # <<>> => Head(e) = Head(toClient)
              /\ Pending' \o lost = Tail(e)
              /\ Tail(e) = <<>> => Tail(toClient) = <<>> /\ out = <<>> /\ list = <<>>
  BY <1>1, <1>2, AfterField
<1>5. got = 0 /\ outcome = "ok"
  BY <1>1, <1>3 DEF Promised
<1>6. /\ e # <<>> /\ Head(e).is = sent
      /\ Whole(Tail(e), "path", outcome, call, sent, sent)
  <2>1. field \in {"evicted", "count"} /\ sent \in Nat /\ more \in Nat
    BY <1>1, <1>3
  <2>2. Whole(e, field, outcome, call, sent, more)
    BY <1>4
  <2> QED
    BY <2>1, <2>2, CountArrives
<1>7. Read = sent
  BY <1>4, <1>6 DEF Read
<1>8. more' = sent /\ more' \in Nat /\ got' \in Nat /\ saved' \in Nat /\ got' = 0
  BY <1>2, <1>3, <1>5, <1>7
<1>9. CASE sent = 0
  <2>1. cpc' = "return" /\ errno' = None /\ next' = next
    BY <1>7, <1>9 DEF ReadCount, ReturnWith
  <2>2. Tail(e) = <<>>
    BY <1>6, <1>9, NoFiles DEF Whole
  <2>3. AnswerBelieved'
    BY <1>3, <1>5, <1>8, <1>9, <2>1 DEF AnswerBelieved, None
  <2>4. /\ errno' \in Errors
        /\ next' \in {"none", "result", "message", "evicted", "count", "path", "empty", "data"}
    BY <1>1, <1>3, <2>1 DEF Errors
  <2> QED
    BY <1>2, <1>3, <1>4, <1>8, <1>9, <2>1, <2>2, <2>3, <2>4, ReadKeeps
<1>10. CASE sent # 0
  <2>1. cpc' = "receive" /\ errno' = errno /\ next' = "path"
    BY <1>3, <1>7, <1>10 DEF ReadCount, Expect
  <2>2. Whole(Pending' \o lost, next', outcome', call', sent', more')
    BY <1>3, <1>4, <1>6, <1>8, <2>1
  <2>3. Promised'
    <3>1. \E l \in Seq(Fields) : /\ Whole(Pending' \o l, next', outcome', call', sent', more')
                                 /\ spc' # "closed" => l = <<>>
      BY <1>3, <1>4, <2>2
    <3>2. more' > 0 /\ got' + more' = sent'
      BY <1>3, <1>8, <1>10
    <3> QED
      BY <1>3, <1>5, <2>1, <3>1, <3>2 DEF Promised
  <2> QED
    BY <1>2, <1>3, <1>5, <1>8, <2>1, <2>3, ReadKeeps
<1> QED
  BY <1>9, <1>10

\* ReadPath.
LEMMA ReadPathStep ==
  ASSUME IInv, ReadPath
  PROVE  IInv'
<1>1. GetData("path") /\ OnlyTheAnswer /\ UNCHANGED <<more, got, saved>> /\ Expect("empty")
  BY DEF ReadPath
<1>2. /\ cpc = "receive" /\ toClient # <<>> /\ toClient' = Tail(toClient) /\ next = "path"
      /\ outcome \in {"ok", "refused"} /\ Promised
      /\ {more, got, saved, sent} \subseteq Nat /\ errno \in Errors
      /\ outcome' = outcome /\ call' = call /\ sent' = sent /\ spc' = spc
  BY <1>1, AfterField
<1>3. PICK lost, e \in Seq(Fields) :
              /\ Whole(e, "path", outcome, call, sent, more)
              /\ spc # "closed" => lost = <<>>
              /\ Pending' \o lost = Tail(e)
  BY <1>1, AfterField
<1>4. more > 0 /\ got + more = sent /\ outcome = "ok"
  BY <1>2 DEF Promised
<1>5. Whole(Tail(e), "empty", outcome, call, sent, more)
  BY <1>2, <1>3, <1>4, PathArrives
<1>6. cpc' = "receive" /\ errno' = errno /\ next' = "empty"
  BY <1>1, <1>2 DEF Expect
<1>7. more' = more /\ got' = got /\ more' \in Nat /\ got' \in Nat /\ saved' \in Nat
  BY <1>1, <1>2
<1>8. Promised'
  <2>1. \E l \in Seq(Fields) : /\ Whole(Pending' \o l, next', outcome', call', sent', more')
                               /\ spc' # "closed" => l = <<>>
    BY <1>2, <1>3, <1>5, <1>6, <1>7
  <2>2. got' + 1 + After(more') = sent'
    BY <1>2, <1>4, <1>7 DEF After
  <2> QED
    BY <1>2, <1>4, <1>6, <2>1, <2>2 DEF Promised
<1> QED
  BY <1>1, <1>2, <1>6, <1>7, <1>8, ReadKeeps

\* A file has arrived, and others follow or not.
LEMMA FileStep ==
  ASSUME IInv, NEW field \in {"empty", "data"}, GetData(field), FileArrived,
         \A e : Whole(e, field, outcome, call, sent, more) /\ Head(e) = Head(toClient)
                  => Tail(e) \in FilesOf(After(more))
  PROVE  IInv'
<1>1. /\ OnlyTheAnswer /\ got' = got + 1 /\ more' = Max({0, more - 1})
      /\ \E e \in WriteLocalFile(SavesFiles) :
           /\ saved' = IF SavesFiles /\ e = None THEN saved + 1 ELSE saved
           /\ IF more > 1 THEN Expect("path") ELSE ReturnWith(e) /\ UNCHANGED next
  BY DEF FileArrived
<1>2. /\ cpc = "receive" /\ toClient # <<>> /\ toClient' = Tail(toClient) /\ next = field
      /\ outcome \in {"ok", "refused"} /\ Promised
      /\ {more, got, saved, sent} \subseteq Nat /\ errno \in Errors
      /\ outcome' = outcome /\ call' = call /\ sent' = sent /\ spc' = spc
  BY <1>1, AfterField
<1>3. PICK lost, e \in Seq(Fields) :
              /\ Whole(e, field, outcome, call, sent, more)
              /\ spc # "closed" => lost = <<>>
              /\ e # <<>> => Head(e) = Head(toClient)
              /\ Pending' \o lost = Tail(e)
              /\ Tail(e) = <<>> => Tail(toClient) = <<>> /\ out = <<>> /\ list = <<>>
  BY <1>1, AfterField
<1>4. got + 1 + After(more) = sent /\ outcome = "ok"
  BY <1>2 DEF Promised
<1>5. e # <<>>
  BY <1>2, <1>3, EmptyArrives, DataArrives
<1>6. Tail(e) \in FilesOf(After(more))
  BY <1>3, <1>5
<1>7. Whole(Tail(e), "path", outcome, call, sent, After(more)) /\ (After(more) = 0 => Tail(e) = <<>>)
  BY <1>2, <1>6, RestIsAwaited
<1>8. more' = After(more) /\ more' \in Nat /\ got' \in Nat
  <2>1. more' = IF 0 <= more - 1 THEN more - 1 ELSE 0
    BY <1>1, <1>2, GreatestOfTwo
  <2> QED
    BY <1>1, <1>2, <2>1 DEF After
<1>9. PICK error1 \in WriteLocalFile(SavesFiles) :
           /\ saved' = IF SavesFiles /\ error1 = None THEN saved + 1 ELSE saved
           /\ IF more > 1 THEN Expect("path") ELSE ReturnWith(error1) /\ UNCHANGED next
  BY <1>1
<1>10. saved' \in Nat
  BY <1>2, <1>9
<1>11. CASE more > 1
  <2>1. cpc' = "receive" /\ errno' = errno /\ next' = "path"
    BY <1>2, <1>9, <1>11 DEF Expect
  <2>2. Promised'
    <3>1. \E l \in Seq(Fields) : /\ Whole(Pending' \o l, next', outcome', call', sent', more')
                                 /\ spc' # "closed" => l = <<>>
      BY <1>2, <1>3, <1>7, <1>8, <2>1
    <3>2. more' > 0 /\ got' + more' = sent'
      BY <1>1, <1>2, <1>4, <1>8, <1>11 DEF After
    <3> QED
      BY <1>2, <1>4, <2>1, <3>1, <3>2 DEF Promised
  <2> QED
    BY <1>1, <1>2, <1>4, <1>8, <1>10, <2>1, <2>2, ReadKeeps
<1>12. CASE ~ (more > 1)
  <2>1. cpc' = "return" /\ errno' = error1 /\ next' = next
    BY <1>9, <1>12 DEF ReturnWith
  <2>2. After(more) = 0
    BY <1>2, <1>12 DEF After
  <2>3. error1 \in {None, "EIO"}
    BY DEF WriteLocalFile
  <2>4. AnswerBelieved'
    <3>1. got' = sent'
      BY <1>1, <1>2, <1>4, <2>2
    <3>2. errno' # "EPERM"
      BY <2>1, <2>3 DEF None
    <3> QED
      BY <1>2, <1>4, <3>1, <3>2 DEF AnswerBelieved
  <2>5. /\ errno' \in Errors
        /\ next' \in {"none", "result", "message", "evicted", "count", "path", "empty", "data"}
    BY <1>2, <2>1, <2>3 DEF Errors
  <2> QED
    BY <1>1, <1>2, <1>3, <1>4, <1>7, <1>8, <1>10, <2>1, <2>2, <2>4, <2>5, ReadKeeps
<1> QED
  BY <1>11, <1>12

\* ReadContent.
LEMMA ReadContentStep ==
  ASSUME IInv, ReadContent
  PROVE  IInv'
<1>1. GetData("data") /\ FileArrived
  BY DEF ReadContent
<1>2. more \in Nat /\ sent \in Nat
  BY DEF IInv, TypeOK
<1>3. \A e : Whole(e, "data", outcome, call, sent, more) => Tail(e) \in FilesOf(After(more))
  BY <1>2, DataArrives
<1> QED
  BY <1>1, <1>3, FileStep

\* ReadEmpty.
LEMMA ReadEmptyStep ==
  ASSUME IInv, ReadEmpty
  PROVE  IInv'
<1>1. more \in Nat /\ sent \in Nat
  BY DEF IInv, TypeOK
<1>2. CASE GetData("empty") /\ Read # 0 /\ FileArrived
  <2>1. \A e : Whole(e, "empty", outcome, call, sent, more) /\ Head(e) = Head(toClient)
                 => Tail(e) \in FilesOf(After(more))
    BY <1>1, <1>2, EmptyArrives DEF Read
  <2> QED
    BY <1>2, <2>1, FileStep
<1>3. CASE GetData("empty") /\ Read = 0 /\ Expect("data") /\ UNCHANGED <<more, got, saved>>
           /\ OnlyTheAnswer
  <2>2. /\ cpc = "receive" /\ toClient # <<>> /\ toClient' = Tail(toClient) /\ next = "empty"
        /\ outcome \in {"ok", "refused"} /\ Promised
        /\ {more, got, saved, sent} \subseteq Nat /\ errno \in Errors
        /\ outcome' = outcome /\ call' = call /\ sent' = sent /\ spc' = spc
    BY <1>3, AfterField
  <2>3. PICK lost, e \in Seq(Fields) :
              /\ Whole(e, "empty", outcome, call, sent, more)
              /\ spc # "closed" => lost = <<>>
              /\ e # <<>> => Head(e) = Head(toClient)
              /\ Pending' \o lost = Tail(e)
    BY <1>3, AfterField
  <2>4. got + 1 + After(more) = sent /\ outcome = "ok"
    BY <2>2 DEF Promised
  <2>5. e # <<>> /\ (Head(e).is = 0 => Whole(Tail(e), "data", outcome, call, sent, more))
    BY <2>2, <2>3, EmptyArrives
  <2>6. Whole(Tail(e), "data", outcome, call, sent, more)
    BY <1>3, <2>3, <2>5 DEF Read
  <2>7. cpc' = "receive" /\ errno' = errno /\ next' = "data"
    BY <1>3, <2>2 DEF Expect
  <2>8. more' = more /\ got' = got /\ more' \in Nat /\ got' \in Nat /\ saved' \in Nat
    BY <1>3, <2>2
  <2>9. Promised'
    <3>1. \E l \in Seq(Fields) : /\ Whole(Pending' \o l, next', outcome', call', sent', more')
                                 /\ spc' # "closed" => l = <<>>
      BY <2>2, <2>3, <2>6, <2>7, <2>8
    <3>2. got' + 1 + After(more') = sent'
      BY <2>2, <2>4, <2>8
    <3> QED
      BY <2>2, <2>4, <2>7, <3>1, <3>2 DEF Promised
  <2> QED
    BY <1>3, <2>2, <2>4, <2>7, <2>8, <2>9, ReadKeeps
<1> QED
  BY <1>2, <1>3 DEF ReadEmpty

\* EndOfStream.
LEMMA EndOfStreamStep ==
  ASSUME IInv, EndOfStream
  PROVE  IInv'
<1> USE DEF serverVars, planVars, pastVars
<1>1. /\ cpc = "receive" /\ toClient = <<>> /\ spc = "closed"
      /\ cpc' = "return" /\ errno' \in Errors /\ reset' = FALSE
      /\ UNCHANGED <<planVars, call, toSend, next, more, connected, serverVars, toServer,
                     toClient, pastVars>>
  BY DEF EndOfStream, ReturnWith, Errors
<1>2. ~ Alive' /\ spc' = "closed" /\ ~ ClientGone
  BY <1>1 DEF Alive, ClientGone
<1>3. TypeOK'
  <2>1. /\ reset' \in BOOLEAN
        /\ cpc' \in {"connect", "option", "call", "send", "receive", "return", "exited", "killed"}
        /\ {sent, got, saved}' \subseteq Nat
    BY <1>1 DEF IInv, TypeOK
  <2> QED
    BY <1>1, <2>1 DEF IInv, TypeOK
<1>4. Ends'
  BY <1>1, <1>2 DEF IInv, Ends
<1>5. Planned'
  BY <1>1 DEF IInv, Planned, Called
<1>6. ServerSide'
  BY <1>2 DEF ServerSide, Free
<1>7. Matched' /\ Created'
  BY <1>1, <1>2 DEF Matched, Created
<1>8. Answering' /\ AnswerBelieved'
  BY <1>1, <1>2 DEF Answering, AnswerBelieved
<1>9. OnlyWritersAreLeft'
  BY <1>1, <1>2 DEF IInv, OnlyWritersAreLeft, Writes
<1> QED
  BY <1>3, <1>4, <1>5, <1>6, <1>7, <1>8, <1>9 DEF IInv

-----------------------------------------------------------------------------
(* The server reads.                                                       *)

\* What the server's steps leave alone.
LEMMA ServerSteps ==
  ASSUME IInv, OnlyTheServer
  PROVE  /\ Flags' = Flags /\ Asked' = Asked /\ (Called' <=> Called)
         /\ (ClientGone' <=> ClientGone)
         /\ UNCHANGED <<home, options, todo, error, cpc, call, toSend, next, more, errno,
                        connected, got, saved>>
<1>1. UNCHANGED <<home, options, todo, error, cpc, call, toSend, next, more, errno,
                  connected, got, saved>>
  BY DEF OnlyTheServer, planVars, apiVars
<1>2. Flags' = Flags
  BY <1>1, FlagsStay
<1> QED
  BY <1>1, <1>2 DEF Asked, Called, ClientGone

\* The server hangs up: what it has not sent is lost.
LEMMA HangUpKeeps ==
  ASSUME IInv, OnlyTheServer, HangUp, connected,
         UNCHANGED <<signal, sop, args, number, evicting, toClient, outcome, sent, justCreated>>,
         server' \in {"up", "down"},
         closeConnection' \in BOOLEAN, closeConnection' => ClientGone,
         server' = "up" /\ ~ ClientGone => Writes
  PROVE  IInv'
<1>1. /\ Flags' = Flags /\ Asked' = Asked /\ (Called' <=> Called)
      /\ (ClientGone' <=> ClientGone)
      /\ UNCHANGED <<home, options, todo, error, cpc, call, toSend, next, more, errno,
                     connected, got, saved>>
  BY ServerSteps
<1>2. /\ spc' = "closed" /\ toServer' = <<>> /\ out' = <<>> /\ list' = <<>>
      /\ reset' = (toServer # <<>>)
  BY DEF HangUp
<1>3. /\ toClient \in Seq(Fields) /\ out \in Seq(Fields) /\ list \in Seq(Fields)
      /\ <<>> \in Seq(Fields) /\ Len(<<>>) = 0
  BY EmptySeq DEF IInv, TypeOK
<1>4. ~ Alive'
  BY <1>2 DEF Alive
<1>5. TypeOK'
  <2>1. reset' \in BOOLEAN /\ {sent, got, saved}' \subseteq Nat
    BY <1>1, <1>2 DEF IInv, TypeOK
  <2> QED
    BY <1>1, <1>2, <1>3, <2>1, BoundsAssumption DEF IInv, TypeOK
<1>6. Ends'
  BY <1>1, <1>2 DEF IInv, Ends
<1>7. Planned'
  BY <1>1 DEF IInv, Planned
<1>8. ServerSide'
  BY <1>2 DEF ServerSide, Free
<1>9. Matched'
  BY <1>1, <1>2, <1>4 DEF IInv, Matched
<1>10. Answering'
  <2>1. SUFFICES ASSUME cpc = "receive", outcome # "none"
                 PROVE  Promised'
    BY <1>1 DEF Answering
  <2>2. PICK lost \in Seq(Fields) : Whole(Pending \o lost, next, outcome, call, sent, more)
    BY <2>1 DEF IInv, Answering, Promised
  <2>3. out \o list \in Seq(Fields)
    BY <1>3, ConcatProperties
  <2>4. PICK l : l = (out \o list) \o lost
    OBVIOUS
  <2>5. l \in Seq(Fields)
    BY <2>3, <2>4, ConcatProperties
  <2>6. (toClient \o (out \o list)) \o lost = toClient \o ((out \o list) \o lost)
    BY <1>3, <2>3, ConcatAssociative
  <2>7. Pending' = toClient
    BY <1>2, <1>3, ConcatEmptySeq DEF Pending
  <2>8. Pending' \o l = Pending \o lost
    BY <2>4, <2>6, <2>7 DEF Pending
  <2>9. \E x \in Seq(Fields) : /\ Whole(Pending' \o x, next', outcome', call', sent', more')
                               /\ spc' # "closed" => x = <<>>
    BY <1>1, <1>2, <2>2, <2>5, <2>8
  <2> QED
    BY <1>1, <2>1, <2>9 DEF IInv, Answering, Promised
<1>11. Created' /\ AnswerBelieved'
  BY <1>2, <1>4 DEF Created, AnswerBelieved
<1>12. OnlyWritersAreLeft'
  BY <1>1 DEF OnlyWritersAreLeft, Writes
<1> QED
  BY <1>5, <1>6, <1>7, <1>8, <1>9, <1>10, <1>11, <1>12 DEF IInv

\* The server starts, is told to stop, or ends when nobody has connected.
LEMMA ServerKeeps ==
  ASSUME IInv, OnlyTheServer,
         UNCHANGED <<spc, sop, args, number, out, list, closeConnection, evicting, wireVars,
                     outcome, sent, justCreated>>,
         server' \in {"up", "down"}, server' = "up" => server = "up" \/ spc = "none",
         signal' \in {"none", "SOFT_QUIT", "RAGE_QUIT"}
  PROVE  IInv'
<1> USE DEF wireVars
<1>1. /\ Flags' = Flags /\ Asked' = Asked /\ (Called' <=> Called)
      /\ (ClientGone' <=> ClientGone)
      /\ UNCHANGED <<home, options, todo, error, cpc, call, toSend, next, more, errno,
                     connected, got, saved>>
  BY ServerSteps
<1>2. Unread' = Unread /\ Pending' = Pending /\ (Alive' <=> Alive) /\ (Free' <=> Free)
      /\ (Writes' <=> Writes)
  BY <1>1 DEF Unread, Pending, Alive, Free, Writes
<1>3. TypeOK'
  BY <1>1 DEF IInv, TypeOK
<1>4. Ends'
  BY <1>1 DEF IInv, Ends
<1>5. Planned'
  BY <1>1 DEF IInv, Planned
<1>6. ServerSide'
  BY <1>1, <1>2 DEF IInv, ServerSide, ReadsRequest
<1>7. Matched'
  BY <1>1, <1>2 DEF IInv, Matched
<1>8. Answering'
  BY <1>1, <1>2 DEF IInv, Answering, Promised
<1>9. Created' /\ AnswerBelieved'
  BY <1>1, <1>2 DEF IInv, Created, AnswerBelieved
<1>10. OnlyWritersAreLeft'
  BY <1>1, <1>2 DEF IInv, OnlyWritersAreLeft
<1> QED
  BY <1>3, <1>4, <1>5, <1>6, <1>7, <1>8, <1>9, <1>10 DEF IInv

\* Start and Signal.
LEMMA StartStep ==
  ASSUME IInv, Start \/ Signal
  PROVE  IInv'
<1>1. CASE Start
  <2>1. spc = "none"
    BY <1>1 DEF Start, IInv, Ends
  <2>2. signal' \in {"none", "SOFT_QUIT", "RAGE_QUIT"}
    BY <1>1 DEF Start, IInv, TypeOK
  <2> QED
    BY <1>1, <2>1, <2>2, ServerKeeps DEF Start
<1>2. CASE Signal
  BY <1>2, ServerKeeps DEF Signal
<1> QED
  BY <1>1, <1>2

\* Down and Terminate.
LEMMA StopStep ==
  ASSUME IInv, Terminate \/ Down
  PROVE  IInv'
<1>1. Stop
  BY DEF Terminate, Down
<1>2. CASE spc = "none"
  <2>1. signal' \in {"none", "SOFT_QUIT", "RAGE_QUIT"}
    BY <1>1 DEF Stop, IInv, TypeOK
  <2>2. /\ OnlyTheServer /\ server' = "down"
        /\ UNCHANGED <<spc, sop, args, number, out, list, closeConnection, evicting, wireVars,
                       outcome, sent, justCreated>>
    BY <1>1, <1>2 DEF Stop, wireVars
  <2> QED
    BY <2>1, <2>2, ServerKeeps
<1>3. CASE spc # "none"
  <2>1. connected /\ closeConnection \in BOOLEAN /\ (closeConnection => ClientGone)
    BY <1>3 DEF IInv, Ends, TypeOK
  <2>2. /\ HangUp /\ OnlyTheServer /\ server' = "down"
        /\ UNCHANGED <<signal, sop, args, number, closeConnection, evicting, toClient,
                       outcome, sent, justCreated>>
    BY <1>1, <1>3 DEF Stop
  <2>3. closeConnection' \in BOOLEAN /\ (closeConnection' => ClientGone)
    BY <2>1, <2>2
  <2> QED
    BY <2>1, <2>2, <2>3, HangUpKeeps
<1> QED
  BY <1>2, <1>3

\* ReadFails.
LEMMA ReadFailsStep ==
  ASSUME IInv, ReadFails
  PROVE  IInv'
<1>1. /\ spc = "read" /\ ClientGone /\ HangUp /\ OnlyTheServer
      /\ UNCHANGED <<server, signal, sop, args, number, closeConnection, evicting, toClient,
                     outcome, sent, justCreated>>
  BY DEF ReadFails
<1>2. connected /\ closeConnection \in BOOLEAN
  BY <1>1 DEF ClientGone, IInv, TypeOK
<1>3. server \in {"up", "down"}
  BY <1>1 DEF IInv, Ends, TypeOK
<1>4. closeConnection' \in BOOLEAN /\ server' \in {"up", "down"}
  BY <1>1, <1>2, <1>3
<1> QED
  BY <1>1, <1>2, <1>4, HangUpKeeps

\* Take.
LEMMA TakeStep ==
  ASSUME IInv, Take
  PROVE  IInv'
<1> USE DEF wireVars
<1>1. /\ spc = "idle" /\ spc' = "read" /\ sop' = NoCall /\ args' = <<"type">>
      /\ toServer # <<>> \/ ClientGone
      /\ UNCHANGED <<server, signal, number, out, list, closeConnection, evicting, wireVars,
                     outcome, sent, justCreated>>
      /\ OnlyTheServer
  BY DEF Take
<1>2. /\ Flags' = Flags /\ Asked' = Asked /\ (Called' <=> Called)
      /\ (ClientGone' <=> ClientGone)
      /\ UNCHANGED <<home, options, todo, error, cpc, call, toSend, next, more, errno,
                     connected, got, saved>>
  BY <1>1, ServerSteps
<1>3. Unread' = Unread /\ Pending' = Pending /\ (Alive' <=> Alive)
  BY <1>1, <1>2 DEF Unread, Pending, Alive
<1>4. Alive
  BY <1>1 DEF IInv, Ends, Alive
<1>5. toServer # <<>> => Unread # <<>>
  BY ConcatEqualIffEmpty DEF IInv, TypeOK, Unread
<1>6. Unread = <<>> \/ (Called /\ Unread = Asked)
  BY <1>1 DEF IInv, ServerSide, Free
<1>7. Unread = <<>> => ClientGone
  BY <1>1, <1>5
<1>8. TypeOK'
  <2>1. args' \in Seq({"type", "number", "bytes"}) /\ sop' \in Requests \cup {NoCall}
    BY <1>1
  <2> QED
    BY <1>1, <1>2, <2>1 DEF IInv, TypeOK
<1>9. Ends'
  BY <1>1, <1>2 DEF IInv, Ends
<1>10. Planned'
  BY <1>1, <1>2 DEF IInv, Planned
<1>11. ServerSide'
  <2>1. ReadsRequest'
    BY <1>1, <1>2, <1>3, <1>6, <1>7 DEF ReadsRequest
  <2> QED
    BY <1>1, <2>1 DEF ServerSide, Free
<1>12. Matched'
  <2>1. cpc \notin {"option", "call", "return"}
    BY <1>4, <1>7 DEF IInv, Matched, ClientGone
  <2>2. cpc = "receive" => outcome = "none"
    BY <1>4, <1>7 DEF IInv, Matched, ClientGone
  <2> QED
    BY <1>1, <1>2, <1>4, <2>1, <2>2 DEF IInv, Matched
<1>13. Answering'
  BY <1>1, <1>2, <1>3 DEF IInv, Answering, Promised
<1>14. Created' /\ AnswerBelieved'
  BY <1>1, <1>2, <1>3, <1>4 DEF IInv, Created, AnswerBelieved, Alive
<1>15. OnlyWritersAreLeft'
  BY <1>1 DEF OnlyWritersAreLeft
<1> QED
  BY <1>8, <1>9, <1>10, <1>11, <1>12, <1>13, <1>14, <1>15 DEF IInv

\* ReadField: the request goes on with the kind that is expected, to its end.
LEMMA ReadFieldStep ==
  ASSUME IInv, ReadField
  PROVE  IInv'
<1>1. /\ spc = "read" /\ toServer # <<>> /\ toServer' = Tail(toServer)
      /\ spc' = IF args' = <<>> THEN "perform" ELSE "read"
      /\ UNCHANGED <<server, signal, out, list, closeConnection, evicting, toClient, reset,
                     outcome, sent, justCreated>>
      /\ OnlyTheServer
  BY DEF ReadField
<1>2. /\ Flags' = Flags /\ Asked' = Asked /\ (Called' <=> Called)
      /\ (ClientGone' <=> ClientGone)
      /\ UNCHANGED <<home, options, todo, error, cpc, call, toSend, next, more, errno,
                     connected, got, saved>>
  BY <1>1, ServerSteps
<1>3. toServer \in Seq(Fields) /\ toSend \in Seq(Fields) /\ Flags \in Nat
      /\ args \in Seq({"type", "number", "bytes"})
  BY FlagsAreTyped DEF IInv, TypeOK
<1>4. PICK u \in Seq(Fields) : u = Unread /\ u # <<>>
  BY <1>1, <1>3, HeadOfConcat DEF Unread
<1>5. Unread' = Tail(u) /\ Head(toServer) = Head(u)
  BY <1>1, <1>2, <1>3, <1>4, HeadOfConcat DEF Unread
<1>6. Head(u) \in Fields /\ Tail(u) \in Seq(Fields)
  BY <1>4, HeadTailProperties
<1>7. PICK is \in Nat : is = Head(u).is
  BY <1>6 DEF Fields
<1>8. /\ args' = IF Head(args) = "type" THEN Arguments(is) ELSE Tail(args)
      /\ sop' = IF Head(args) = "type" THEN is ELSE sop
      /\ number' = IF Head(args) = "number" THEN is ELSE number
  BY <1>5, <1>7 DEF ReadField
<1>9. Alive
  BY <1>1 DEF IInv, Ends, Alive
<1>10. Alive'
  BY <1>1, <1>2, <1>9 DEF Alive
<1>11. cpc \notin {"option", "call", "return"} /\ (cpc = "receive" => outcome = "none")
  BY <1>4, <1>9 DEF IInv, Matched
<1>12. ReadsRequest
  BY <1>1 DEF IInv, ServerSide
<1>13. /\ args' \in Seq({"type", "number", "bytes"}) /\ number' \in Nat
       /\ sop' = call /\ Called
       /\ args' = <<>> => Tail(u) = <<>> /\ (call = OPEN_FILE => number' = Flags)
       /\ args' # <<>> => ReadsRequest'
  <2>1. CASE args = <<"type">> /\ Called /\ u = Asked
    <3>1. Head(args) = "type" /\ "type" # "number"
      BY <2>1
    <3>2. /\ Head(u) = Type(call) /\ Tail(u) # <<>> /\ Tail(u) = Tail(Asked)
          /\ Arguments(call) \in Seq({"number", "bytes"})
          /\ AreKinds(Arguments(call), Tail(u))
      BY <1>3, <2>1, RequestForms DEF Asked, Called
    <3>3. is = call /\ call \in Requests
      BY <1>7, <2>1, <3>2, FieldsAreTyped DEF Called
    <3>4. args' = Arguments(call) /\ sop' = call /\ number' = number
      BY <1>8, <3>1, <3>3
    <3>5. Len(Tail(u)) # 0 /\ Len(args') # 0
      BY <1>6, <3>2, <3>4, EmptySeq DEF AreKinds
    <3>6. args' # <<>>
      BY <3>5, EmptySeq
    <3>7. number \in Nat /\ args' \in Seq({"type", "number", "bytes"})
      <4>1. {"number", "bytes"} \subseteq {"type", "number", "bytes"}
        OBVIOUS
      <4> QED
        BY <3>2, <3>4, <4>1, SeqMonotonic DEF IInv, TypeOK
    <3>8. ReadsRequest'
      BY <1>2, <1>5, <2>1, <3>2, <3>4 DEF ReadsRequest
    <3> QED
      BY <2>1, <3>2, <3>4, <3>6, <3>7, <3>8
  <2>2. CASE /\ Called /\ sop = call /\ u \in {Tail(Asked), Tail(Tail(Asked))}
             /\ args \in Seq({"number", "bytes"}) /\ AreKinds(args, u)
    <3>1. /\ args # <<>> /\ Head(args) = Head(u).kind
          /\ Tail(args) \in Seq({"number", "bytes"}) /\ AreKinds(Tail(args), Tail(u))
          /\ Tail(args) = <<>> <=> Tail(u) = <<>>
      BY <1>4, <2>2, TailsOfKinds
    <3>2. Head(args) \in {"number", "bytes"}
      BY <2>2, <3>1, HeadTailProperties
    <3>3. args' = Tail(args) /\ sop' = call
      BY <1>8, <2>2, <3>2
    <3>4. args' \in Seq({"type", "number", "bytes"})
      <4>1. {"number", "bytes"} \subseteq {"type", "number", "bytes"}
        OBVIOUS
      <4> QED
        BY <3>1, <3>3, <4>1, SeqMonotonic
    <3>5. number' \in Nat
      BY <1>7, <1>8 DEF IInv, TypeOK
    <3>6. /\ Tail(Asked) # <<>>
          /\ Tail(Tail(Asked)) # <<>> => Tail(Tail(Tail(Asked))) = <<>>
          /\ call = OPEN_FILE => Tail(Tail(Asked)) = <<Number(Flags)>>
      BY <1>3, <2>2, RequestForms DEF Asked, Called
    <3>7. <<Number(Flags)>> # <<>> /\ Head(<<Number(Flags)>>) = Number(Flags)
          /\ Number(Flags).kind = "number" /\ Number(Flags).is = Flags
      BY <1>3, FieldsAreTyped, Singles
    <3>8. args' = <<>> => Tail(u) = <<>>
      BY <3>1, <3>3
    <3>9. ASSUME Tail(u) = <<>>, call = OPEN_FILE
          PROVE  number' = Flags
      <4>1. u = <<Number(Flags)>>
        BY <2>2, <3>6, <3>7, <3>9
      <4>2. Head(args) = "number" /\ is = Flags
        BY <1>7, <3>1, <3>7, <4>1
      <4> QED
        BY <1>8, <4>2
    <3>10. ASSUME args' # <<>>
           PROVE  ReadsRequest'
      <4>1. Tail(u) # <<>> /\ Tail(u) = Tail(Tail(Asked))
        BY <1>4, <2>2, <3>1, <3>3, <3>6, <3>10
      <4> QED
        BY <1>2, <1>5, <2>2, <3>1, <3>3, <4>1 DEF ReadsRequest
    <3> QED
      BY <2>2, <3>3, <3>4, <3>5, <3>8, <3>9, <3>10
  <2> QED
    BY <1>4, <1>12, <2>1, <2>2 DEF ReadsRequest
<1>14. toServer' \in Seq(Fields) /\ Len(toServer') <= Capacity
  <2>1. Len(toServer) \in Nat /\ Len(toServer) <= Capacity
    BY <1>3, LenProperties DEF IInv, TypeOK
  <2> QED
    BY <1>1, <1>3, <2>1, HeadTailProperties, BoundsAssumption
<1>15. spc' \in {"perform", "read"}
  BY <1>1
<1>16. TypeOK'
  <2>1. sop' \in Requests \cup {NoCall}
    BY <1>13 DEF Called
  <2> QED
    BY <1>1, <1>2, <1>13, <1>14, <1>15, <2>1 DEF IInv, TypeOK
<1>17. Ends'
  BY <1>1, <1>2, <1>15 DEF IInv, Ends
<1>18. Planned'
  BY <1>1, <1>2 DEF IInv, Planned
<1>19. ServerSide'
  <2>1. spc' = "read" => ReadsRequest'
    BY <1>1, <1>13
  <2>2. spc' = "perform" => /\ Unread' = <<>> /\ Called' /\ sop' = call'
                            /\ (call' = OPEN_FILE => number' = Flags')
    BY <1>1, <1>2, <1>5, <1>13
  <2> QED
    BY <1>15, <2>1, <2>2 DEF ServerSide, Free
<1>20. Matched'
  BY <1>1, <1>2, <1>9, <1>11 DEF IInv, Matched
<1>21. Answering'
  BY <1>1, <1>2, <1>11 DEF Answering
<1>22. Created' /\ AnswerBelieved'
  BY <1>1, <1>2, <1>9, <1>10, <1>11 DEF IInv, Created, AnswerBelieved
<1>23. OnlyWritersAreLeft'
  BY <1>15 DEF OnlyWritersAreLeft
<1> QED
  BY <1>16, <1>17, <1>18, <1>19, <1>20, <1>21, <1>22, <1>23 DEF IInv

-----------------------------------------------------------------------------
(* It answers.                                                             *)

\* While the server has a request whole, the client waits for the answer.
LEMMA Awaiting ==
  ASSUME IInv, spc \in {"perform", "parked"}
  PROVE  /\ Alive /\ Unread = <<>> /\ Called /\ sop = call
         /\ call = OPEN_FILE => number = Flags
         /\ out = <<>> /\ list = <<>>
         /\ cpc \in {"receive", "exited", "killed"}
         /\ cpc = "receive" => outcome = "none"
<1>1. Alive /\ out = <<>> /\ list = <<>>
  BY DEF IInv, Ends, Alive
<1>2. Unread = <<>> /\ Called /\ sop = call /\ (call = OPEN_FILE => number = Flags)
  BY DEF IInv, ServerSide
<1>3. cpc \notin {"option", "call", "return"}
  BY <1>1 DEF IInv, Matched, Free
<1>4. cpc = "receive" => outcome = "none"
  BY <1>1 DEF IInv, Matched
<1>5. cpc # "send"
  <2>1. toSend = <<>>
    BY <1>2, ConcatEqualIffEmpty DEF IInv, TypeOK, Unread
  <2> QED
    BY <2>1 DEF IInv, Planned
<1>6. cpc # "connect"
  BY <1>1 DEF IInv, Ends, Alive
<1> QED
  BY <1>1, <1>2, <1>3, <1>4, <1>5, <1>6 DEF IInv, TypeOK

\* What the file-system has made of the request is what the client has to get.
LEMMA AnswerKeeps ==
  ASSUME IInv, spc \in {"perform", "parked"}, spc' = "send", OnlyTheServer,
         UNCHANGED <<server, signal, sop, args, number, closeConnection, wireVars>>,
         out' \in Seq(Fields), list' \in Seq(Fields),
         outcome' \in {"ok", "refused"}, sent' \in Nat,
         justCreated' \in BOOLEAN, evicting' \in BOOLEAN,
         Whole(out' \o list', "result", outcome', call, sent', 0),
         outcome' = "ok" /\ call = READ_FILE => sent' = 1,
         outcome' = "ok" /\ call \notin Listing \cup {READ_FILE} => sent' = 0,
         outcome' = "ok" => (justCreated' <=> call = OPEN_FILE /\ Flags = 3)
  PROVE  IInv'
<1> USE DEF wireVars
<1>1. /\ Flags' = Flags /\ Asked' = Asked /\ (Called' <=> Called)
      /\ (ClientGone' <=> ClientGone)
      /\ UNCHANGED <<home, options, todo, error, cpc, call, toSend, next, more, errno,
                     connected, got, saved>>
  BY ServerSteps
<1>2. /\ Alive /\ Unread = <<>> /\ Called /\ cpc \in {"receive", "exited", "killed"}
      /\ cpc = "receive" => outcome = "none"
  BY Awaiting
<1>3. Unread' = <<>>
  BY <1>1, <1>2 DEF Unread
<1>4. TypeOK'
  <2>1. {sent, got, saved}' \subseteq Nat
    BY <1>1 DEF IInv, TypeOK
  <2> QED
    BY <1>1, <2>1 DEF IInv, TypeOK
<1>5. Ends'
  BY <1>1, <1>2 DEF IInv, Ends
<1>6. Planned'
  BY <1>1, <1>2 DEF IInv, Planned
<1>7. ServerSide'
  BY <1>3 DEF ServerSide
<1>8. Matched'
  BY <1>1, <1>2, <1>3 DEF IInv, Matched
<1>9. Answering'
  <2>1. SUFFICES ASSUME cpc = "receive"
                 PROVE  Promised'
    BY <1>1 DEF Answering
  <2>2. next = "result" /\ toClient = <<>> /\ more = 0 /\ got = 0
    BY <1>2, <2>1 DEF IInv, Matched
  <2>3. PICK a \in Seq(Fields) : a = out' \o list'
    BY ConcatProperties
  <2>4. Pending' = a /\ a \o <<>> = a
    BY <2>2, <2>3, ConcatEmptySeq DEF Pending
  <2>5. Whole(a, next', outcome', call', sent', more')
    BY <1>1, <2>2, <2>3
  <2>6. \E x \in Seq(Fields) : /\ Whole(Pending' \o x, next', outcome', call', sent', more')
                               /\ spc' # "closed" => x = <<>>
    BY <2>4, <2>5, EmptySeq
  <2> QED
    BY <1>1, <2>2, <2>6 DEF Promised
<1>10. Created'
  BY <1>1 DEF Created
<1>11. AnswerBelieved' /\ OnlyWritersAreLeft'
  BY <1>1, <1>2 DEF AnswerBelieved, OnlyWritersAreLeft
<1> QED
  BY <1>4, <1>5, <1>6, <1>7, <1>8, <1>9, <1>10, <1>11 DEF IInv

\* Succeed, after Perform or Unpark.
LEMMA SucceedStep ==
  ASSUME IInv, spc \in {"perform", "parked"}, OnlyTheServer,
         UNCHANGED <<server, signal, sop, args, number, closeConnection, wireVars>>,
         NEW files \in SeqOf(BOOLEAN, MaxFiles), Carries(sop, files), Succeed(files)
  PROVE  IInv'
<1>1. Called /\ sop = call /\ (call = OPEN_FILE => number = Flags)
  BY Awaiting
<1>2. /\ Success(call, files) \in Seq(Fields) /\ FileList(call, files) \in Seq(Fields)
      /\ Len(files) \in Nat
      /\ Whole(Success(call, files) \o FileList(call, files), "result", "ok", call, Len(files), 0)
      /\ call = READ_FILE => Len(files) = 1
      /\ call \notin Listing \cup {READ_FILE} => Len(files) = 0
  BY <1>1, AnswerIsWhole DEF Called
<1>3. /\ spc' = "send" /\ out' = Success(call, files) /\ list' = FileList(call, files)
      /\ evicting' \in BOOLEAN
      /\ outcome' = "ok" /\ sent' = Len(files)
      /\ justCreated' = (call = OPEN_FILE /\ number = 3)
  BY <1>1 DEF Succeed, Creates
<1>4. justCreated' \in BOOLEAN /\ (justCreated' <=> call = OPEN_FILE /\ Flags = 3)
  BY <1>1, <1>3
<1> QED
  BY <1>2, <1>3, <1>4, AnswerKeeps

\* Refuse, after Perform or Unpark.
LEMMA RefuseStep ==
  ASSUME IInv, spc \in {"perform", "parked"}, OnlyTheServer,
         UNCHANGED <<server, signal, sop, args, number, closeConnection, wireVars>>,
         Refuse
  PROVE  IInv'
<1>1. list = <<>> /\ sent \in Nat /\ <<>> \in Seq(Fields)
  BY Awaiting, EmptySeq DEF IInv, TypeOK
<1>2. /\ spc' = "send" /\ out' = Refusal /\ outcome' = "refused"
      /\ evicting' \in BOOLEAN /\ justCreated' \in BOOLEAN
      /\ list' = <<>> /\ sent' = sent
  BY <1>1 DEF Refuse
<1>3. /\ Refusal \in Seq(Fields) /\ Refusal \o <<>> = Refusal
      /\ Whole(Refusal, "result", "refused", call, sent, 0)
  BY RefusalIsWhole
<1>4. Whole(out' \o list', "result", outcome', call, sent', 0)
  BY <1>2, <1>3
<1> QED
  BY <1>1, <1>2, <1>3, <1>4, AnswerKeeps

\* Park.
LEMMA ParkStep ==
  ASSUME IInv, spc = "perform", OnlyTheServer,
         UNCHANGED <<server, signal, sop, args, number, closeConnection, wireVars>>,
         Park
  PROVE  IInv'
<1> USE DEF wireVars
<1>1. /\ Flags' = Flags /\ Asked' = Asked /\ (Called' <=> Called)
      /\ (ClientGone' <=> ClientGone)
      /\ UNCHANGED <<home, options, todo, error, cpc, call, toSend, next, more, errno,
                     connected, got, saved>>
  BY ServerSteps
<1>2. /\ Alive /\ Unread = <<>> /\ Called /\ sop = call
      /\ call = OPEN_FILE => number = Flags
      /\ out = <<>> /\ list = <<>>
      /\ cpc \in {"receive", "exited", "killed"}
      /\ cpc = "receive" => outcome = "none"
  BY Awaiting
<1>3. /\ sop = LOCK_FILE /\ spc' = "parked" /\ justCreated' = FALSE
      /\ UNCHANGED <<out, list, evicting, outcome, sent>>
  BY DEF Park
<1>4. Unread' = <<>>
  BY <1>1, <1>2 DEF Unread
<1>5. TypeOK'
  <2>1. justCreated' \in BOOLEAN
    BY <1>3
  <2>2. spc' \in {"none", "backlog", "idle", "read", "perform", "parked", "send", "closed"}
    BY <1>3
  <2> QED
    BY <1>1, <1>3, <2>1, <2>2 DEF IInv, TypeOK
<1>6. Ends'
  BY <1>1, <1>2, <1>3 DEF IInv, Ends
<1>7. Planned'
  BY <1>1, <1>3 DEF IInv, Planned
<1>8. ServerSide'
  BY <1>1, <1>2, <1>3, <1>4 DEF ServerSide, Free
<1>9. Matched'
  BY <1>1, <1>2, <1>3 DEF IInv, Matched
<1>10. Answering'
  BY <1>1, <1>2, <1>3 DEF Answering
<1>11. Created'
  <2>1. call # WRITE_FILE
    BY <1>2, <1>3 DEF LOCK_FILE, WRITE_FILE
  <2> QED
    BY <1>1, <1>2, <1>3, <2>1 DEF Created
<1>12. AnswerBelieved' /\ OnlyWritersAreLeft'
  BY <1>1, <1>2, <1>3 DEF AnswerBelieved, OnlyWritersAreLeft
<1> QED
  BY <1>5, <1>6, <1>7, <1>8, <1>9, <1>10, <1>11, <1>12 DEF IInv

\* Perform.
LEMMA PerformStep ==
  ASSUME IInv, Perform
  PROVE  IInv'
<1>1. /\ spc = "perform" /\ OnlyTheServer
      /\ UNCHANGED <<server, signal, sop, args, number, closeConnection, wireVars>>
      /\ \/ \E files \in SeqOf(BOOLEAN, MaxFiles) : Carries(sop, files) /\ Succeed(files)
         \/ Refuse
         \/ Park
  BY DEF Perform
<1> QED
  BY <1>1, SucceedStep, RefuseStep, ParkStep

\* Unpark.
LEMMA UnparkStep ==
  ASSUME IInv, Unpark
  PROVE  IInv'
<1>1. /\ spc = "parked" /\ OnlyTheServer
      /\ UNCHANGED <<server, signal, sop, args, number, closeConnection, wireVars>>
      /\ Succeed(<<>>) \/ Refuse
  BY DEF Unpark
<1>2. sop = LOCK_FILE
  BY <1>1 DEF IInv, ServerSide
<1>3. <<>> \in SeqOf(BOOLEAN, MaxFiles)
  <2>1. <<>> \in [1 .. 0 -> BOOLEAN] /\ 0 \in 0 .. MaxFiles
    BY BoundsAssumption
  <2> QED
    BY <2>1 DEF SeqOf
<1>4. Carries(sop, <<>>)
  BY <1>2 DEF Carries, LOCK_FILE, OPEN_FILE, WRITE_FILE, APPEND_TO_FILE, READ_N_FILES, READ_FILE
<1> QED
  BY <1>1, <1>3, <1>4, SucceedStep, RefuseStep

\* SendAnswer: the field goes over to the client, and what is to arrive stays.
LEMMA SendAnswerStep ==
  ASSUME IInv, SendAnswer
  PROVE  IInv'
<1>1. /\ spc = "send" /\ out \o list # <<>> /\ ~ ClientGone /\ Len(toClient) < Capacity
      /\ toClient' = Append(toClient, Head(out \o list))
      /\ \/ out # <<>> /\ out' = Tail(out) /\ list' = list
         \/ out = <<>> /\ list' = Tail(list) /\ out' = out
      /\ UNCHANGED <<server, signal, spc, sop, args, number, closeConnection, evicting, toServer,
                     reset, outcome, sent, justCreated>>
      /\ OnlyTheServer
  BY DEF SendAnswer
<1>2. /\ Flags' = Flags /\ Asked' = Asked /\ (Called' <=> Called)
      /\ (ClientGone' <=> ClientGone)
      /\ UNCHANGED <<home, options, todo, error, cpc, call, toSend, next, more, errno,
                     connected, got, saved>>
  BY <1>1, ServerSteps
<1>3. /\ toClient \in Seq(Fields) /\ out \in Seq(Fields) /\ list \in Seq(Fields)
      /\ toServer \in Seq(Fields) /\ toSend \in Seq(Fields)
  BY DEF IInv, TypeOK
<1>4. ~ (out = <<>> /\ list = <<>>)
  BY <1>1, <1>3, ConcatEqualIffEmpty
<1>5. PICK a \in Seq(Fields) : a = out \o list
  BY <1>3, ConcatProperties
<1>6. a # <<>>
  BY <1>1, <1>5
<1>7. /\ out' \in Seq(Fields) /\ list' \in Seq(Fields) /\ out' \o list' = Tail(a)
  <2>1. CASE out # <<>>
    <3>1. Tail(out \o list) = Tail(out) \o list /\ Tail(out) \in Seq(Fields)
      BY <1>3, <2>1, HeadOfConcat, HeadTailProperties
    <3> QED
      BY <1>1, <1>3, <1>5, <2>1, <3>1
  <2>2. CASE out = <<>>
    <3>1. list # <<>>
      BY <1>4, <2>2
    <3>2. a = list /\ Tail(list) \in Seq(Fields)
      BY <1>3, <1>5, <2>2, <3>1, ConcatEmptySeq, HeadTailProperties
    <3>3. <<>> \o Tail(list) = Tail(list) /\ <<>> \in Seq(Fields)
      BY <3>2, ConcatEmptySeq, EmptySeq
    <3> QED
      BY <1>1, <2>2, <3>2, <3>3
  <2> QED
    BY <2>1, <2>2
<1>8. toClient' \in Seq(Fields) /\ Pending' = Pending
  <2>1. /\ Append(toClient, Head(a)) \in Seq(Fields)
        /\ Append(toClient, Head(a)) \o Tail(a) = toClient \o a
    BY <1>3, <1>6, MoveHead
  <2> QED
    BY <1>1, <1>5, <1>7, <2>1 DEF Pending
<1>9. Alive
  BY <1>1 DEF IInv, Ends, Alive
<1>10. Unread = <<>> /\ Unread' = <<>> /\ toSend = <<>>
  <2>1. Unread = <<>>
    BY <1>1, <1>4 DEF IInv, ServerSide
  <2> QED
    BY <1>1, <1>2, <1>3, <2>1, ConcatEqualIffEmpty DEF Unread
<1>11. cpc = "receive" /\ outcome # "none"
  <2>1. cpc \notin {"option", "call", "return"}
    BY <1>1, <1>4, <1>9 DEF IInv, Matched, Free
  <2>2. cpc # "send"
    BY <1>10 DEF IInv, Planned
  <2>3. cpc \notin {"connect", "exited", "killed"}
    BY <1>1, <1>9 DEF IInv, Ends, Alive, ClientGone
  <2>4. cpc = "receive"
    BY <2>1, <2>2, <2>3 DEF IInv, TypeOK
  <2> QED
    BY <1>4, <2>4 DEF IInv, Matched
<1>12. TypeOK'
  <2>1. Len(toClient') <= Capacity
    <3>1. Head(a) \in Fields /\ toClient' = Append(toClient, Head(a))
      BY <1>1, <1>5, <1>6, HeadTailProperties
    <3>2. Len(toClient') = Len(toClient) + 1 /\ Len(toClient) \in Nat
      BY <1>3, <3>1, AppendProperties, LenProperties
    <3> QED
      BY <1>1, <3>2, BoundsAssumption
  <2> QED
    BY <1>1, <1>2, <1>7, <1>8, <2>1 DEF IInv, TypeOK
<1>13. Ends'
  BY <1>1, <1>2, <1>11 DEF IInv, Ends
<1>14. Planned'
  BY <1>1, <1>2 DEF IInv, Planned
<1>15. ServerSide'
  BY <1>1, <1>10 DEF ServerSide, Free
<1>16. Matched'
  BY <1>1, <1>2, <1>10, <1>11 DEF Matched
<1>17. Answering'
  BY <1>1, <1>2, <1>8 DEF IInv, Answering, Promised
<1>18. Created'
  BY <1>1, <1>2 DEF IInv, Created, Alive
<1>19. AnswerBelieved' /\ OnlyWritersAreLeft'
  BY <1>1, <1>2, <1>11 DEF AnswerBelieved, OnlyWritersAreLeft
<1> QED
  BY <1>12, <1>13, <1>14, <1>15, <1>16, <1>17, <1>18, <1>19 DEF IInv

\* SendFails: only when the client is gone.
LEMMA SendFailsStep ==
  ASSUME IInv, SendFails
  PROVE  IInv'
<1> USE DEF wireVars
<1>1. /\ spc = "send" /\ out \o list # <<>> /\ ClientGone
      /\ closeConnection' \in BOOLEAN /\ out' = <<>> /\ list' = <<>>
      /\ UNCHANGED <<server, signal, spc, sop, args, number, evicting, wireVars,
                     outcome, sent, justCreated>>
      /\ OnlyTheServer
  BY DEF SendFails
<1>2. /\ Flags' = Flags /\ Asked' = Asked /\ (Called' <=> Called)
      /\ (ClientGone' <=> ClientGone)
      /\ UNCHANGED <<home, options, todo, error, cpc, call, toSend, next, more, errno,
                     connected, got, saved>>
  BY <1>1, ServerSteps
<1>3. cpc \in {"exited", "killed"}
  BY <1>1 DEF ClientGone
<1>4. ~ (out = <<>> /\ list = <<>>) /\ <<>> \in Seq(Fields)
  BY <1>1, ConcatEqualIffEmpty, EmptySeq DEF IInv, TypeOK
<1>5. Unread = <<>>
  BY <1>1, <1>4 DEF IInv, ServerSide
<1>6. Unread' = <<>>
  BY <1>1, <1>2, <1>5 DEF Unread
<1>7. TypeOK'
  BY <1>1, <1>2, <1>4 DEF IInv, TypeOK
<1>8. Ends'
  BY <1>1, <1>2 DEF IInv, Ends
<1>9. Planned'
  BY <1>1, <1>2 DEF IInv, Planned
<1>10. ServerSide'
  BY <1>1, <1>6 DEF ServerSide, Free
<1>11. Matched' /\ Answering' /\ AnswerBelieved'
  BY <1>2, <1>3 DEF Matched, Answering, AnswerBelieved
<1>12. Created'
  BY <1>1, <1>2 DEF IInv, Created, Alive
<1>13. OnlyWritersAreLeft'
  BY <1>1 DEF OnlyWritersAreLeft
<1> QED
  BY <1>7, <1>8, <1>9, <1>10, <1>11, <1>12, <1>13 DEF IInv

\* Answered.
LEMMA AnsweredStep ==
  ASSUME IInv, Answered
  PROVE  IInv'
<1>1. PICK fails \in IF NotificationMayFail THEN BOOLEAN ELSE {FALSE} :
        IF closeConnection \/ fails
        THEN HangUp
        ELSE spc' = "idle" /\ UNCHANGED <<out, list, reset, toServer>>
  BY DEF Answered
<1>2. /\ spc = "send" /\ out \o list = <<>> /\ closeConnection' = FALSE
      /\ UNCHANGED <<server, signal, sop, args, number, evicting, toClient, outcome, sent,
                     justCreated>>
      /\ OnlyTheServer
  BY DEF Answered
<1>3. connected /\ server \in {"up", "down"}
  BY <1>2 DEF IInv, Ends, TypeOK
<1>4. CASE closeConnection \/ fails
  <2>1. HangUp
    BY <1>1, <1>4
  <2>2. ~ ClientGone => Writes
    <3>1. closeConnection => ClientGone
      BY DEF IInv, Ends
    <3>2. fails => Writes
      BY <1>1 DEF NotificationMayFail
    <3> QED
      BY <1>4, <3>1, <3>2
  <2>3. /\ closeConnection' \in BOOLEAN /\ (closeConnection' => ClientGone)
        /\ server' \in {"up", "down"}
    BY <1>2, <1>3
  <2> QED
    BY <1>2, <1>3, <2>1, <2>2, <2>3, HangUpKeeps
<1>5. CASE ~ (closeConnection \/ fails)
  <2>1. spc' = "idle" /\ UNCHANGED <<out, list, reset, toServer>>
    BY <1>1, <1>5
  <2>2. /\ Flags' = Flags /\ Asked' = Asked /\ (Called' <=> Called)
        /\ (ClientGone' <=> ClientGone)
        /\ UNCHANGED <<home, options, todo, error, cpc, call, toSend, next, more, errno,
                       connected, got, saved>>
    BY <1>2, ServerSteps
  <2>3. out = <<>> /\ list = <<>>
    BY <1>2, ConcatEqualIffEmpty DEF IInv, TypeOK
  <2>4. Free /\ Free' /\ Alive /\ Alive'
    BY <1>2, <1>3, <2>1, <2>2, <2>3 DEF Free, Alive
  <2>5. Unread' = Unread /\ Pending' = Pending
    BY <1>2, <2>1, <2>2 DEF Unread, Pending
  <2>6. TypeOK'
    <3>1. spc' \in {"none", "backlog", "idle", "read", "perform", "parked", "send", "closed"}
      BY <2>1
    <3>2. {sent, got, saved}' \subseteq Nat
      BY <1>2, <2>2 DEF IInv, TypeOK
    <3>3. closeConnection' \in BOOLEAN
      BY <1>2
    <3>4. toClient' = toClient /\ toServer' = toServer
      BY <1>2, <2>1
    <3> QED
      BY <1>2, <2>1, <2>2, <3>1, <3>2, <3>3, <3>4 DEF IInv, TypeOK
  <2>7. Ends'
    BY <1>2, <1>3, <2>1, <2>2, <2>3 DEF IInv, Ends
  <2>8. Planned'
    BY <1>2, <2>2 DEF IInv, Planned
  <2>9. ServerSide'
    BY <2>1, <2>2, <2>4, <2>5 DEF IInv, ServerSide
  <2>10. Matched'
    BY <1>2, <2>1, <2>2, <2>4, <2>5 DEF IInv, Matched
  <2>11. Answering'
    BY <1>2, <2>1, <2>2, <2>5 DEF IInv, Answering, Promised
  <2>12. Created' /\ AnswerBelieved'
    BY <1>2, <2>1, <2>2, <2>4 DEF IInv, Created, AnswerBelieved, Alive
  <2>13. OnlyWritersAreLeft'
    BY <2>1 DEF OnlyWritersAreLeft
  <2> QED
    BY <2>6, <2>7, <2>8, <2>9, <2>10, <2>11, <2>12, <2>13 DEF IInv
<1> QED
  BY <1>4, <1>5

-----------------------------------------------------------------------------

\* Every step keeps the invariant.
LEMMA Steps ==
  ASSUME IInv, [Next]_vars
  PROVE  IInv'
<1>1. CASE UNCHANGED vars
  BY <1>1, Stutters
<1>2. CASE ClientStep
  <2>1. CASE Receive
    BY <2>1, ReadResultStep, ReadMessageStep, ReadCountStep, ReadPathStep, ReadEmptyStep,
       ReadContentStep, EndOfStreamStep DEF Receive
  <2> QED
    BY <1>2, <2>1, ConnectStep, OptionStep, CallStep, SendFieldStep, SendUnconnectedStep,
       KilledStep, CallbackStep DEF ClientStep
<1>3. CASE Kill
  BY <1>3, KilledStep
<1>4. CASE ServerStep
  BY <1>4, StopStep, TakeStep, ReadFieldStep, ReadFailsStep, PerformStep, SendAnswerStep,
     SendFailsStep, AnsweredStep DEF ServerStep
<1>5. CASE Start \/ Signal \/ Terminate \/ Unpark
  BY <1>5, StartStep, StopStep, UnparkStep
<1> QED
  BY <1>1, <1>2, <1>3, <1>4, <1>5 DEF Next

\* The invariant holds in every behaviour.
THEOREM Invariance == Spec => []IInv
<1>1. Init => IInv
  BY Initially
<1>2. IInv /\ [Next]_vars => IInv'
  BY Steps
<1> QED
  BY <1>1, <1>2, PTL DEF Spec

\* The type invariant, TypeOK of the runs.
THEOREM TypeCorrectness == Spec => []TypeOK
<1>1. IInv => TypeOK
  BY DEF IInv
<1> QED
  BY <1>1, Invariance, PTL

\* The invariant has the two sides in step.
LEMMA BothInStep ==
  ASSUME IInv
  PROVE  InStep
<1>1. ASSUME cpc = "receive", toClient # <<>>
      PROVE  Head(toClient).kind = KindOf(next)
  <2>1. PICK e : /\ Whole(e, next, outcome, call, sent, more)
                 /\ e # <<>> /\ Head(e) = Head(toClient)
    BY <1>1, FieldIsAwaited
  <2>2. Promised /\ outcome \in {"ok", "refused"}
    BY <1>1, FieldIsAwaited
  <2>3. sent \in Nat /\ more \in Nat /\ call \in Requests
    BY <1>1 DEF IInv, TypeOK, Planned, Called
  <2>4. CASE next = "result"
    <3>1. more = 0
      BY <2>2, <2>4 DEF Promised
    <3>2. Head(e).kind = "number"
      BY <2>1, <2>2, <2>3, <2>4, <3>1, ResultArrives DEF Promised
    <3> QED
      BY <2>1, <2>4, <3>2 DEF KindOf
  <2>5. CASE next = "message"
    <3>1. Whole(e, "message", outcome, call, sent, more)
      BY <2>1, <2>5
    <3>2. Head(e).kind = "bytes"
      BY <2>3, <3>1, MessageArrives
    <3> QED
      BY <2>1, <2>5, <3>2 DEF KindOf
  <2>6. CASE next \in {"evicted", "count"}
    <3>1. Head(e).kind = "number"
      BY <2>1, <2>3, <2>6, CountArrives
    <3> QED
      BY <2>1, <2>6, <3>1 DEF KindOf
  <2>7. CASE next = "path"
    <3>1. more > 0
      BY <2>2, <2>7 DEF Promised
    <3> QED
      BY <2>1, <2>3, <2>7, <3>1, PathArrives DEF KindOf
  <2>8. CASE next = "empty"
    BY <2>1, <2>3, <2>8, EmptyArrives DEF KindOf
  <2>9. CASE next = "data"
    BY <2>1, <2>3, <2>9, DataArrives DEF KindOf
  <2>10. next # "none"
    BY <2>1 DEF Whole
  <2> QED
    BY <2>4, <2>5, <2>6, <2>7, <2>8, <2>9, <2>10 DEF IInv, TypeOK
<1>2. cpc # "receive" => toClient = <<>>
  BY DEF IInv, Ends
<1>3. toServer \in Seq(Fields) /\ toSend \in Seq(Fields) /\ Flags \in Nat
      /\ args \in Seq({"type", "number", "bytes"})
  BY FlagsAreTyped DEF IInv, TypeOK
<1>4. ASSUME spc = "read", toServer # <<>>
      PROVE  Head(toServer).kind = Head(args)
  <2>1. PICK u \in Seq(Fields) : u = Unread /\ u # <<>> /\ Head(u) = Head(toServer)
    BY <1>3, <1>4, HeadOfConcat DEF Unread
  <2>2. ReadsRequest
    BY <1>4 DEF IInv, ServerSide
  <2>3. CASE args = <<"type">> /\ Called /\ u = Asked
    <3>1. Head(u) = Type(call) /\ Type(call).kind = "type"
      BY <1>3, <2>3, RequestForms, FieldsAreTyped DEF Asked, Called
    <3> QED
      BY <2>1, <2>3, <3>1
  <2>4. CASE AreKinds(args, u)
    BY <1>3, <2>1, <2>4, TailsOfKinds
  <2> QED
    BY <2>1, <2>2, <2>3, <2>4 DEF ReadsRequest
<1>5. ASSUME spc \in {"perform", "parked"}
      PROVE  toServer = <<>>
  BY <1>3, <1>5, Awaiting, ConcatEqualIffEmpty DEF Unread
<1> QED
  BY <1>1, <1>2, <1>4, <1>5 DEF InStep

\* InStep of the runs: the fields that readn finds on the socket are those that
\* the reader expects, and nothing is left when a request or a call is complete.
THEOREM SidesInStep == Spec => []InStep
<1>1. IInv => InStep
  BY BothInStep
<1> QED
  BY <1>1, Invariance, PTL

\* AnswerBelieved of the runs: as long as the connection is there, errno says of
\* the request what the server did, and every file that was sent was read, but
\* for a writeFile that could not read the local file and asked for nothing.
THEOREM BeliefIsTrue == Spec => []AnswerBelieved
<1>1. IInv => AnswerBelieved
  BY DEF IInv
<1> QED
  BY <1>1, Invariance, PTL

\* OnlyWritersAreLeft of the runs: a server that goes on closes the connection
\* of a client that is still there only after a write or an append.
THEOREM WritersOnly == Spec => []OnlyWritersAreLeft
<1>1. IInv => OnlyWritersAreLeft
  BY DEF IInv
<1> QED
  BY <1>1, Invariance, PTL

\* Only an answer of the file-system settles a request that was open.
LEMMA Settling ==
  ASSUME [Next]_vars, outcome = "none", outcome' \in {"ok", "refused"}
  PROVE  Perform \/ Unpark
<1> USE DEF vars, planVars, apiVars, serverVars, wireVars, pastVars
<1>1. CASE ClientStep
  <2>1. ~ Connect /\ ~ GiveUp /\ ~ Call /\ ~ SendField /\ ~ SendUnconnected /\ ~ BrokenPipe
    BY DEF Connect, GiveUp, Call, CallApi, CallFails, NewCall, SendField, SendUnconnected, BrokenPipe
  <2>2. ~ TakeOption
    BY DEF TakeOption, OptionDir, OptionWrite, OptionRead, OptionLock, OptionUnlock,
       OptionRemove, OptionClose, OptionOpen, OptionAppend, OptionReadN, Exit, ListOption,
       Begin, SkipOption, WrongUsage, OnlyTheOption
  <2>3. ~ Receive
    BY DEF Receive, ReadResult, ReadMessage, ReadCount, ReadPath, ReadEmpty, ReadContent,
       FileArrived, EndOfStream, OnlyTheAnswer
  <2>4. ~ Callback
    BY DEF Callback, WriteOptionCallback, ReadOptionCallback, OpenOptionCallback,
       AppendOptionCallback, LockOptionCallback, UnlockOptionCallback,
       RemoveOptionCallback, CloseOptionCallback, ReadNReturned, FileDone, CallApi, CallFails
  <2> QED
    BY <1>1, <2>1, <2>2, <2>3, <2>4 DEF ClientStep
<1>2. CASE Kill \/ Start \/ Signal \/ Terminate
  BY <1>2 DEF Kill, Start, Signal, Terminate, Stop
<1>3. CASE ServerStep
  BY <1>3 DEF ServerStep, Down, Stop, Take, ReadField, ReadFails, SendAnswer, SendFails,
     Answered
<1> QED
  BY <1>1, <1>2, <1>3 DEF Next

\* WriteFollowsOpen of the runs: what writeFile of -w and -W asks for is done
\* only when openFile(O_CREATE|O_LOCK) was the request before it and succeeded.
THEOREM WritesAreOpened == Spec => WriteFollowsOpen
<1>1. IInv /\ [Next]_vars =>
        [outcome = "none" /\ outcome' \in {"ok", "refused"} /\ sop = WRITE_FILE => justCreated]_vars
  <2> SUFFICES ASSUME IInv, [Next]_vars, outcome = "none", outcome' \in {"ok", "refused"},
                      sop = WRITE_FILE
               PROVE  justCreated
    OBVIOUS
  <2>1. spc \in {"perform", "parked"}
    BY Settling DEF Perform, Unpark
  <2>2. Alive /\ call = WRITE_FILE
    BY <2>1, Awaiting
  <2> QED
    BY <2>2 DEF IInv, Created
<1> QED
  BY <1>1, Invariance, PTL DEF Spec, WriteFollowsOpen
=============================================================================
