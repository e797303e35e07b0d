----------------------------- MODULE LineLemmas -----------------------------
(***************************************************************************)
(* Lemmas about the data of the models: lines (sequences without           *)
(* repetitions, as the threads and the clients that wait are), what is     *)
(* taken out of them and put into them, least elements, sequences joined   *)
(* to one, and sums over finite sets.                                      *)
(***************************************************************************)
EXTENDS Integers, SequencesExt, SequenceTheorems, FiniteSetTheorems,
        WellFoundedInduction, TLAPS

-----------------------------------------------------------------------------
(* Lines: sequences without repetitions.                                   *)

Line(S) == {s \in Seq(S) : IsInjective(s)}

\* Nobody is in the empty line.
LEMMA EmptyLine ==
  ASSUME NEW S
  PROVE  <<>> \in Line(S) /\ ToSet(<<>>) = {}
<1>1. <<>> \in Seq(S) /\ DOMAIN <<>> = {}
  OBVIOUS
<1> QED
  BY <1>1 DEF Line, IsInjective, ToSet

\* Whoever is not in line gets in at its end.
LEMMA AppendToLine ==
  ASSUME NEW S, NEW s \in Line(S), NEW e \in S, ~ Contains(s, e)
  PROVE  Append(s, e) \in Line(S) /\ ToSet(Append(s, e)) = ToSet(s) \cup {e}
<1> DEFINE a == Append(s, e)
<1>1. s \in Seq(S) /\ Len(s) \in Nat /\ DOMAIN s = 1 .. Len(s)
  BY LenProperties DEF Line
<1>2. /\ a \in Seq(S) /\ DOMAIN a = 1 .. Len(s) + 1
      /\ a[Len(s) + 1] = e
      /\ \A i \in 1 .. Len(s) : a[i] = s[i]
  BY <1>1, AppendProperties, LenProperties
<1>3. \A i \in 1 .. Len(s) : s[i] # e
  BY DEF Contains
<1> HIDE DEF a
<1>4. IsInjective(a)
  BY <1>1, <1>2, <1>3 DEF IsInjective, Line
<1>5. ToSet(a) = ToSet(s) \cup {e}
  BY <1>1, <1>2 DEF ToSet
<1> QED
  BY <1>2, <1>4, <1>5 DEF Line, a

\* The first in line leaves.
LEMMA TailOfLine ==
  ASSUME NEW S, NEW s \in Line(S), s # <<>>
  PROVE  /\ Head(s) \in S /\ Head(s) \in ToSet(s)
         /\ Tail(s) \in Line(S)
         /\ ToSet(Tail(s)) = ToSet(s) \ {Head(s)}
<1>1. s \in Seq(S) /\ Len(s) \in Nat \ {0} /\ DOMAIN s = 1 .. Len(s)
  BY LenProperties, EmptySeq DEF Line
<1>2. /\ Head(s) \in S /\ Head(s) = s[1]
      /\ Tail(s) \in Seq(S) /\ DOMAIN Tail(s) = 1 .. Len(s) - 1
      /\ \A i \in 1 .. Len(s) - 1 : Tail(s)[i] = s[i + 1]
  BY <1>1, HeadTailProperties, LenProperties
<1>3. IsInjective(Tail(s))
  BY <1>1, <1>2 DEF IsInjective, Line
<1>4. ToSet(Tail(s)) \subseteq ToSet(s) \ {Head(s)}
  BY <1>1, <1>2 DEF ToSet, IsInjective, Line
<1>5. ASSUME NEW x \in ToSet(s) \ {Head(s)}
      PROVE  x \in ToSet(Tail(s))
  <2>1. PICK i \in 1 .. Len(s) : x = s[i] /\ i # 1
    BY <1>1, <1>2, <1>5 DEF ToSet
  <2>2. i - 1 \in 1 .. Len(s) - 1 /\ Tail(s)[i - 1] = x
    BY <1>1, <1>2, <2>1
  <2> QED
    BY <1>2, <2>2 DEF ToSet
<1>6. Head(s) \in ToSet(s)
  BY <1>1, <1>2 DEF ToSet
<1> QED
  BY <1>2, <1>3, <1>4, <1>5, <1>6 DEF Line

\* Somebody leaves the line, wherever it is.
LEMMA RemoveFirstIsRemoveAt ==
  ASSUME NEW S, NEW s \in Line(S), NEW k \in 1 .. Len(s)
  PROVE  RemoveFirst(s, s[k]) = RemoveAt(s, k)
<1>1. {i \in 1 .. Len(s) : s[i] = s[k]} = {k}
  BY LenProperties DEF Line, IsInjective
<1>2. Min({k}) = k
  BY DEF Min
<1>3. SelectInSeq(s, LAMBDA v : v = s[k]) = k
  BY <1>1, <1>2 DEF SelectInSeq
<1> QED
  BY <1>3 DEF RemoveFirst

\* RemoveAt closes the gap.
LEMMA RemoveAtProperties ==
  ASSUME NEW S, NEW s \in Seq(S), NEW k \in 1 .. Len(s)
  PROVE  /\ RemoveAt(s, k) \in Seq(S)
         /\ DOMAIN RemoveAt(s, k) = 1 .. Len(s) - 1
         /\ \A i \in 1 .. Len(s) - 1 :
              RemoveAt(s, k)[i] = IF i < k THEN s[i] ELSE s[i + 1]
<1> DEFINE a == SubSeq(s, 1, k - 1)
           b == SubSeq(s, k + 1, Len(s))
<1>1. Len(s) \in Nat /\ DOMAIN s = 1 .. Len(s) /\ k \in Nat
  BY LenProperties
<1>2. /\ a \in Seq(S) /\ Len(a) = k - 1
      /\ \A i \in 1 .. k - 1 : a[i] = s[i]
  BY <1>1, SubSeqProperties
<1>3. /\ b \in Seq(S) /\ Len(b) = Len(s) - k
      /\ \A i \in 1 .. Len(s) - k : b[i] = s[k + i]
  <2>1. /\ b \in Seq(S)
        /\ Len(b) = IF k + 1 <= Len(s) THEN Len(s) - (k + 1) + 1 ELSE 0
        /\ \A i \in 1 .. Len(s) - (k + 1) + 1 : b[i] = s[(k + 1) + i - 1]
    BY <1>1, SubSeqProperties
  <2> HIDE DEF b
  <2>2. Len(s) - (k + 1) + 1 = Len(s) - k
    BY <1>1
  <2>3. ASSUME NEW i \in 1 .. Len(s) - k
        PROVE  b[i] = s[k + i]
    <3>1. (k + 1) + i - 1 = k + i
      BY <1>1
    <3> QED
      BY <2>1, <2>2, <3>1
  <2>4. k <= Len(s)
    BY <1>1
  <2>5. Len(b) = Len(s) - k
    <3>1. CASE k + 1 <= Len(s)
      BY <2>1, <2>2, <3>1
    <3>2. CASE ~ (k + 1 <= Len(s))
      <4>1. k = Len(s)
        <5>1. \A x, y \in Nat : x <= y /\ ~ (x + 1 <= y) => x = y
          OBVIOUS
        <5> QED
          BY <1>1, <2>4, <3>2, <5>1
      <4>2. Len(s) - k = 0
        BY <1>1, <4>1
      <4> QED
        BY <2>1, <3>2, <4>2
    <3> QED
      BY <3>1, <3>2
  <2> QED
    BY <2>1, <2>3, <2>5
<1>4. RemoveAt(s, k) = a \o b
  BY DEF RemoveAt
<1> HIDE DEF a, b
<1>5. /\ a \o b \in Seq(S)
      /\ Len(a \o b) = Len(a) + Len(b)
      /\ \A i \in 1 .. Len(a) + Len(b) :
           (a \o b)[i] = IF i <= Len(a) THEN a[i] ELSE b[i - Len(a)]
  BY <1>2, <1>3, ConcatProperties
<1>6. Len(a) + Len(b) = Len(s) - 1
  BY <1>1, <1>2, <1>3
<1>7. DOMAIN (a \o b) = 1 .. Len(s) - 1
  BY <1>5, <1>6, LenProperties
<1>8. ASSUME NEW i \in 1 .. Len(s) - 1
      PROVE  (a \o b)[i] = IF i < k THEN s[i] ELSE s[i + 1]
  <2>1. CASE i < k
    <3>1. i \in 1 .. k - 1 /\ i <= Len(a)
      BY <1>1, <1>2, <2>1
    <3> QED
      BY <1>2, <1>5, <1>6, <2>1, <3>1
  <2>2. CASE ~ (i < k)
    <3>1. /\ ~ (i <= Len(a)) /\ i - Len(a) \in 1 .. Len(s) - k
          /\ k + (i - Len(a)) = i + 1
      BY <1>1, <1>2, <2>2
    <3> QED
      BY <1>3, <1>5, <1>6, <2>2, <3>1
  <2> QED
    BY <2>1, <2>2
<1> QED
  BY <1>4, <1>5, <1>7, <1>8

\* Whoever leaves a line leaves the others in it, in order.
LEMMA RemoveFromLine ==
  ASSUME NEW S, NEW s \in Line(S), NEW e
  PROVE  /\ RemoveFirst(s, e) \in Line(S)
         /\ ToSet(RemoveFirst(s, e)) = ToSet(s) \ {e}
<1>1. s \in Seq(S) /\ Len(s) \in Nat /\ DOMAIN s = 1 .. Len(s)
  BY LenProperties DEF Line
<1>2. CASE ~ \E k \in 1 .. Len(s) : s[k] = e
  BY <1>1, <1>2 DEF RemoveFirst, ToSet
<1>3. ASSUME NEW k \in 1 .. Len(s), s[k] = e
      PROVE  /\ RemoveFirst(s, e) \in Line(S)
             /\ ToSet(RemoveFirst(s, e)) = ToSet(s) \ {e}
  <2> DEFINE r == RemoveAt(s, k)
  <2>1. RemoveFirst(s, e) = r
    BY <1>3, RemoveFirstIsRemoveAt
  <2>2. /\ r \in Seq(S) /\ DOMAIN r = 1 .. Len(s) - 1
        /\ \A i \in 1 .. Len(s) - 1 : r[i] = IF i < k THEN s[i] ELSE s[i + 1]
    BY <1>1, RemoveAtProperties
  <2> HIDE DEF r
  <2>3. \A i, j \in 1 .. Len(s) : s[i] = s[j] => i = j
    BY <1>1 DEF Line, IsInjective
  <2>4. IsInjective(r)
    <3> SUFFICES ASSUME NEW i \in 1 .. Len(s) - 1, NEW j \in 1 .. Len(s) - 1,
                        r[i] = r[j]
                 PROVE  i = j
      BY <2>2 DEF IsInjective
    <3> DEFINE At(n) == IF n < k THEN n ELSE n + 1
    <3>1. /\ At(i) \in 1 .. Len(s) /\ At(j) \in 1 .. Len(s)
          /\ r[i] = s[At(i)] /\ r[j] = s[At(j)]
      BY <1>1, <2>2
    <3>2. At(i) = At(j)
      BY <2>3, <3>1
    <3> QED
      BY <1>1, <3>2
  <2>5. ASSUME NEW x \in ToSet(r)
        PROVE  x \in ToSet(s) \ {e}
    <3>1. PICK i \in 1 .. Len(s) - 1 : x = r[i]
      BY <2>2, <2>5 DEF ToSet
    <3>2. PICK j \in 1 .. Len(s) : x = s[j] /\ j # k
      BY <1>1, <2>2, <3>1
    <3>3. x # e
      BY <1>3, <2>3, <3>2
    <3> QED
      BY <1>1, <3>2, <3>3 DEF ToSet
  <2>6. ASSUME NEW x \in ToSet(s) \ {e}
        PROVE  x \in ToSet(r)
    <3>1. PICK i \in 1 .. Len(s) : x = s[i] /\ i # k
      BY <1>1, <1>3, <2>6 DEF ToSet
    <3>2. CASE i < k
      <4>1. i \in 1 .. Len(s) - 1 /\ r[i] = x
        BY <1>1, <2>2, <3>1, <3>2
      <4> QED
        BY <2>2, <4>1 DEF ToSet
    <3>3. CASE i > k
      <4>1. i - 1 \in 1 .. Len(s) - 1 /\ ~ (i - 1 < k) /\ (i - 1) + 1 = i
        BY <1>1, <3>1, <3>3
      <4>2. r[i - 1] = x
        BY <2>2, <3>1, <4>1
      <4> QED
        BY <2>2, <4>1, <4>2 DEF ToSet
    <3> QED
      BY <1>1, <3>1, <3>2, <3>3
  <2> QED
    BY <2>1, <2>2, <2>4, <2>5, <2>6 DEF Line
<1> QED
  BY <1>2, <1>3

\* The last in line leaves.
LEMMA FrontOfLine ==
  ASSUME NEW S, NEW s \in Line(S), s # <<>>
  PROVE  /\ Last(s) \in S /\ Last(s) \in ToSet(s)
         /\ Front(s) \in Line(S)
         /\ ToSet(Front(s)) = ToSet(s) \ {Last(s)}
         /\ (Len(s) = 1 <=> Front(s) = <<>>)
<1> DEFINE n == Len(s)
           f == Front(s)
<1>1. s \in Seq(S) /\ n \in Nat \ {0} /\ DOMAIN s = 1 .. n
  BY LenProperties, EmptySeq DEF Line
<1>2. /\ f \in Seq(S) /\ Len(f) = n - 1
      /\ \A i \in 1 .. n - 1 : f[i] = s[i]
  <2>1. \A i \in 1 .. n - 1 : s[i] \in S
    BY <1>1
  <2> QED
    BY <1>1, <2>1, SubSeqProperties DEF Front
<1>3. DOMAIN f = 1 .. n - 1
  BY <1>2, LenProperties
<1>4. Last(s) = s[n] /\ s[n] \in S /\ s[n] \in ToSet(s)
  BY <1>1 DEF Last, ToSet
<1> HIDE DEF f, n
<1>5. \A i, j \in 1 .. n : s[i] = s[j] => i = j
  BY <1>1 DEF Line, IsInjective
<1>6. IsInjective(f)
  BY <1>1, <1>2, <1>3, <1>5 DEF IsInjective
<1>7. ToSet(f) = ToSet(s) \ {s[n]}
  BY <1>1, <1>2, <1>3, <1>5 DEF ToSet
<1>8. n = 1 <=> f = <<>>
  BY <1>1, <1>2, EmptySeq
<1> QED
  BY <1>2, <1>4, <1>6, <1>7, <1>8 DEF Line, f, n

\* One alone is a line.
LEMMA LineOfOne ==
  ASSUME NEW S, NEW x \in S
  PROVE  <<x>> \in Line(S) /\ ToSet(<<x>>) = {x}
<1>1. <<x>> \in Seq(S) /\ DOMAIN <<x>> = {1} /\ <<x>>[1] = x
  OBVIOUS
<1> QED
  BY <1>1 DEF Line, IsInjective, ToSet

\* The elements of a line are its entries.
LEMMA ElementsOfLine ==
  ASSUME NEW S, NEW s \in Line(S)
  PROVE  /\ s \in Seq(S) /\ Len(s) \in Nat /\ DOMAIN s = 1 .. Len(s)
         /\ ToSet(s) \subseteq S
         /\ \A x : x \in ToSet(s) <=> \E i \in 1 .. Len(s) : s[i] = x
         /\ s = <<>> <=> ToSet(s) = {}
<1>1. s \in Seq(S) /\ Len(s) \in Nat /\ DOMAIN s = 1 .. Len(s)
  BY LenProperties DEF Line
<1>2. \A i \in 1 .. Len(s) : s[i] \in S
  BY <1>1
<1>3. \A x : x \in ToSet(s) <=> \E i \in 1 .. Len(s) : s[i] = x
  BY <1>1 DEF ToSet
<1>4. s # <<>> => 1 \in 1 .. Len(s)
  BY <1>1, EmptySeq
<1>5. s = <<>> => DOMAIN s = {}
  OBVIOUS
<1>6. s = <<>> <=> ToSet(s) = {}
  BY <1>1, <1>4, <1>5 DEF ToSet
<1>7. ToSet(s) \subseteq S
  BY <1>1, <1>2 DEF ToSet
<1> QED
  BY <1>1, <1>3, <1>6, <1>7

\* A finite set in whatever order is a line, with all its elements.
LEMMA SetInLine ==
  ASSUME NEW S, IsFiniteSet(S), NEW s \in SetToSeqs(S)
  PROVE  s \in Line(S) /\ ToSet(s) = S
<1> DEFINE n == Cardinality(S)
<1>1. n \in Nat /\ IsFiniteSet(1 .. n) /\ Cardinality(1 .. n) = n
  BY FS_CardinalityType, FS_Interval
<1>2. s \in [1 .. n -> S] /\ \A i, j \in 1 .. n : i # j => s[i] # s[j]
  BY DEF SetToSeqs
<1> HIDE DEF n
<1>3. s \in Seq(S) /\ DOMAIN s = 1 .. n
  BY <1>1, <1>2
<1>4. s \in Injection(1 .. n, S)
  BY <1>2 DEF Injection, IsInjective
<1>5. s \in Surjection(1 .. n, S)
  BY <1>1, <1>4, FS_Injection DEF n
<1>6. ToSet(s) = S
  BY <1>2, <1>3, <1>5 DEF Surjection, ToSet
<1> QED
  BY <1>2, <1>3, <1>6 DEF Line, IsInjective

-----------------------------------------------------------------------------
(* Least elements.                                                         *)

\* Every set of natural numbers that is not empty has a least element.
LEMMA NatMin ==
  ASSUME NEW T, T \subseteq Nat, T # {}
  PROVE  \E x \in T : \A y \in T : x <= y
<1>1. IsWellFoundedOn(OpToRel(<, Nat), Nat)
  BY NatLessThanWellFounded
<1>2. PICK x \in T : \A y \in T : ~ (<<y, x>> \in OpToRel(<, Nat))
  BY <1>1, WFMin
<1>3. \A y \in T : ~ (y < x)
  BY <1>2 DEF OpToRel
<1>4. x \in Nat /\ \A y \in T : y \in Nat
  OBVIOUS
<1>5. ASSUME NEW y \in T PROVE x <= y
  <2>1. y \in Nat /\ ~ (y < x)
    BY <1>3, <1>4
  <2> QED
    BY <1>4, <2>1
<1> QED
  BY <1>5

\* Induction, stated with a set instead of a predicate.
LEMMA SetInduction ==
  ASSUME NEW T, 0 \in T, \A n \in Nat : n \in T => n + 1 \in T
  PROVE  Nat \subseteq T
<1> SUFFICES ASSUME Nat \ T # {} PROVE FALSE
  OBVIOUS
<1>1. PICK x \in Nat \ T : \A y \in Nat \ T : x <= y
  BY NatMin
<1>2. x # 0 /\ x - 1 \in Nat /\ ~ (x <= x - 1) /\ (x - 1) + 1 = x
  BY <1>1
<1>3. x - 1 \in T
  BY <1>1, <1>2
<1> QED
  BY <1>1, <1>2, <1>3

\* Min and Max of FiniteSetsExt are what they are called.
LEMMA LeastOfNaturals ==
  ASSUME NEW T, T \subseteq Nat, T # {}
  PROVE  Min(T) \in T
<1>1. \E x \in T : \A y \in T : x <= y
  BY NatMin
<1> QED
  BY <1>1 DEF Min

\* Max and Min of two numbers.
LEMMA GreatestOfTwo ==
  ASSUME NEW a \in Int, NEW b \in Int
  PROVE  Max({a, b}) = IF a <= b THEN b ELSE a
<1>1. \E x \in {a, b} : \A y \in {a, b} : x >= y
  <2>1. CASE a <= b  BY <2>1
  <2>2. CASE ~ (a <= b)  BY <2>2
  <2> QED  BY <2>1, <2>2
<1>2. Max({a, b}) \in {a, b} /\ \A y \in {a, b} : Max({a, b}) >= y
  BY <1>1 DEF Max
<1> QED
  BY <1>2

-----------------------------------------------------------------------------
(* Lines joined to one line.                                               *)

\* Two lines with nobody in common make one.
LEMMA ConcatLines ==
  ASSUME NEW S, NEW s \in Line(S), NEW t \in Line(S), ToSet(s) \cap ToSet(t) = {}
  PROVE  s \o t \in Line(S) /\ ToSet(s \o t) = ToSet(s) \cup ToSet(t)
<1> DEFINE c == s \o t
           m == Len(s)
           n == Len(t)
<1>1. /\ s \in Seq(S) /\ m \in Nat /\ DOMAIN s = 1 .. m
      /\ t \in Seq(S) /\ n \in Nat /\ DOMAIN t = 1 .. n
  BY LenProperties DEF Line
<1>2. /\ c \in Seq(S) /\ Len(c) = m + n
      /\ \A i \in 1 .. m + n : c[i] = IF i <= m THEN s[i] ELSE t[i - m]
  BY <1>1, ConcatProperties
<1>3. DOMAIN c = 1 .. m + n
  BY <1>1, <1>2, LenProperties
<1>4. /\ \A i, j \in 1 .. m : s[i] = s[j] => i = j
      /\ \A i, j \in 1 .. n : t[i] = t[j] => i = j
  BY <1>1 DEF Line, IsInjective
<1>5. \A i \in 1 .. m, j \in 1 .. n : s[i] # t[j]
  BY <1>1 DEF ToSet
<1> HIDE DEF c, m, n
<1>6. ASSUME NEW i \in 1 .. m + n
      PROVE  \/ i \in 1 .. m /\ c[i] = s[i]
             \/ i - m \in 1 .. n /\ i > m /\ c[i] = t[i - m]
  BY <1>1, <1>2
<1>7. ASSUME NEW i \in 1 .. m + n, NEW j \in 1 .. m + n, c[i] = c[j]
      PROVE  i = j
  <2>1. CASE i \in 1 .. m /\ c[i] = s[i] /\ j \in 1 .. m /\ c[j] = s[j]
    BY <1>4, <1>7, <2>1
  <2>2. CASE i - m \in 1 .. n /\ c[i] = t[i - m] /\ j - m \in 1 .. n /\ c[j] = t[j - m]
    <3>1. i - m = j - m
      BY <1>4, <1>7, <2>2
    <3> QED
      BY <1>1, <3>1
  <2> QED
    BY <1>5, <1>6, <1>7, <2>1, <2>2
<1>8. IsInjective(c)
  BY <1>3, <1>7 DEF IsInjective
<1>9. ASSUME NEW x \in ToSet(c)
      PROVE  x \in ToSet(s) \cup ToSet(t)
  <2>1. PICK i \in 1 .. m + n : x = c[i]
    BY <1>3, <1>9 DEF ToSet
  <2> QED
    BY <1>1, <1>6, <2>1 DEF ToSet
<1>10. ASSUME NEW x \in ToSet(s) \cup ToSet(t)
       PROVE  x \in ToSet(c)
  <2>1. CASE x \in ToSet(s)
    <3>1. PICK i \in 1 .. m : x = s[i]
      BY <1>1, <2>1 DEF ToSet
    <3>2. i \in 1 .. m + n /\ c[i] = s[i]
      BY <1>1, <1>2
    <3> QED
      BY <1>3, <3>1, <3>2 DEF ToSet
  <2>2. CASE x \in ToSet(t)
    <3>1. PICK i \in 1 .. n : x = t[i]
      BY <1>1, <2>2 DEF ToSet
    <3>2. m + i \in 1 .. m + n /\ ~ (m + i <= m) /\ (m + i) - m = i
      BY <1>1
    <3>3. c[m + i] = t[i]
      BY <1>2, <3>2
    <3> QED
      BY <1>3, <3>1, <3>2, <3>3 DEF ToSet
  <2> QED
    BY <1>10, <2>1, <2>2
<1> QED
  BY <1>2, <1>8, <1>9, <1>10 DEF Line, c

\* What FlattenSeq joins, step by step.
Flattens(f, ss, n) ==
  /\ FlattenSeq(ss) = f[n]
  /\ \A i \in 1 .. n : f[i] = IF i = 1 THEN ss[i] ELSE f[i - 1] \o ss[i]

\* What FlattenSeq computes, place by place.
LEMMA FlattenDef ==
  ASSUME NEW S, NEW n \in Nat \ {0}, NEW ss \in [1 .. n -> Seq(S)]
  PROVE  \E f \in [1 .. n -> Seq(S)] : Flattens(f, ss, n)
<1> DEFINE Joins(f, m) == \A i \in 1 .. m : f[i] = IF i = 1 THEN ss[i] ELSE f[i - 1] \o ss[i]
           T == {m \in Nat : m <= n => \E f \in [1 .. m -> Seq(S)] : Joins(f, m)}
<1>1. 0 \in T
  <2>1. [i \in 1 .. 0 |-> ss[i]] \in [1 .. 0 -> Seq(S)]
    OBVIOUS
  <2>2. \A f : Joins(f, 0)
    OBVIOUS
  <2> HIDE DEF Joins
  <2> QED
    BY <2>1, <2>2
<1>2. ASSUME NEW m \in Nat, m \in T, m + 1 <= n
      PROVE  \E f \in [1 .. m + 1 -> Seq(S)] : Joins(f, m + 1)
  <2>1. PICK f \in [1 .. m -> Seq(S)] : Joins(f, m)
    BY <1>2
  <2> DEFINE g == [i \in 1 .. m + 1 |->
                     IF i <= m THEN f[i] ELSE IF i = 1 THEN ss[i] ELSE f[i - 1] \o ss[i]]
  <2>2. ASSUME NEW i \in 1 .. m + 1
        PROVE  g[i] \in Seq(S) /\ g[i] = IF i = 1 THEN ss[i] ELSE g[i - 1] \o ss[i]
    <3>0. ss[i] \in Seq(S) /\ i \in Nat \ {0}
      BY <1>2
    <3>1. CASE i <= m
      <4>1. i \in 1 .. m /\ g[i] = f[i] /\ f[i] \in Seq(S)
        BY <3>0, <3>1
      <4>2. i # 1 => i - 1 \in 1 .. m /\ i - 1 <= m /\ i - 1 \in 1 .. m + 1
        BY <4>1
      <4>3. i # 1 => g[i - 1] = f[i - 1]
        BY <4>2
      <4> HIDE DEF g
      <4> QED
        BY <2>1, <4>1, <4>3
    <3>2. CASE ~ (i <= m) /\ i = 1
      BY <3>0, <3>2
    <3>3. CASE ~ (i <= m) /\ i # 1
      <4>1. i - 1 \in 1 .. m /\ i - 1 <= m /\ i - 1 \in 1 .. m + 1
        BY <3>3
      <4>2. g[i - 1] = f[i - 1] /\ f[i - 1] \in Seq(S)
        BY <4>1
      <4>3. g[i] = f[i - 1] \o ss[i]
        BY <3>3
      <4>4. f[i - 1] \o ss[i] \in Seq(S)
        BY <3>0, <4>2
      <4> HIDE DEF g
      <4> QED
        BY <3>3, <4>2, <4>3, <4>4
    <3> QED
      BY <3>1, <3>2, <3>3
  <2>3. DOMAIN g = 1 .. m + 1 /\ g = [i \in 1 .. m + 1 |-> g[i]]
    OBVIOUS
  <2> HIDE DEF g
  <2>4. g \in [1 .. m + 1 -> Seq(S)]
    BY <2>2, <2>3
  <2>5. Joins(g, m + 1)
    BY <2>2
  <2> QED
    BY <2>4, <2>5
<1>3. ASSUME NEW m \in Nat, m \in T
      PROVE  m + 1 \in T
  <2> HIDE DEF Joins
  <2>1. m + 1 <= n => \E f \in [1 .. m + 1 -> Seq(S)] : Joins(f, m + 1)
    BY <1>2, <1>3
  <2>2. m + 1 \in Nat
    OBVIOUS
  <2> QED
    BY <2>1, <2>2
<1> HIDE DEF T
<1>4. Nat \subseteq T
  BY <1>1, <1>3, SetInduction
<1>5. PICK f \in [1 .. n -> Seq(S)] : Joins(f, n)
  <2>1. n \in T
    BY <1>4
  <2> HIDE DEF Joins
  <2> QED
    BY <2>1 DEF T
<1> DEFINE Is(g) == g = [i \in 1 .. n |-> IF i = 1 THEN ss[i] ELSE g[i - 1] \o ss[i]]
           h == CHOOSE g : Is(g)
<1>6. Is(f)
  BY <1>5
<1>7. Is(h)
  <2> HIDE DEF Is
  <2> QED
    BY <1>6
<1>8. Len(ss) = n
  <2>1. ss \in Seq(Seq(S))
    OBVIOUS
  <2>2. DOMAIN ss = 1 .. n
    OBVIOUS
  <2> QED
    BY <2>1, <2>2, LenProperties
<1>9. FlattenSeq(ss) = h[n]
  BY <1>8 DEF FlattenSeq
<1>10. \A i \in 1 .. n : h[i] = IF i = 1 THEN ss[i] ELSE h[i - 1] \o ss[i]
  BY <1>7
<1>11. DOMAIN h = 1 .. n /\ h = [i \in 1 .. n |-> h[i]]
  BY <1>7
<1> HIDE DEF h, Is
<1> DEFINE U == {m \in Nat : m \in 1 .. n => h[m] \in Seq(S)}
<1>12. 0 \in U
  OBVIOUS
<1>13. ASSUME NEW m \in Nat, m \in U
       PROVE  m + 1 \in U
  <2> SUFFICES ASSUME m + 1 \in 1 .. n PROVE h[m + 1] \in Seq(S)
    OBVIOUS
  <2>1. ss[m + 1] \in Seq(S) /\ (m + 1) - 1 = m
    OBVIOUS
  <2>2. CASE m = 0
    BY <1>10, <2>1, <2>2
  <2>3. CASE m # 0
    <3>1. m \in 1 .. n /\ m + 1 # 1
      BY <2>3
    <3>2. h[m] \in Seq(S)
      BY <1>13, <3>1
    <3>3. h[m + 1] = h[m] \o ss[m + 1]
      BY <1>10, <2>1, <3>1
    <3> QED
      BY <2>1, <3>2, <3>3
  <2> QED
    BY <2>2, <2>3
<1> HIDE DEF U
<1>14. Nat \subseteq U
  BY <1>12, <1>13, SetInduction
<1>15. h \in [1 .. n -> Seq(S)]
  BY <1>11, <1>14 DEF U
<1> QED
  BY <1>9, <1>10, <1>15 DEF Flattens

\* Lines that have nobody in common, one after the other, are one line.
LEMMA FlattenLines ==
  ASSUME NEW S, NEW n \in Nat, NEW ss \in [1 .. n -> Line(S)],
         \A i, j \in 1 .. n : i # j => ToSet(ss[i]) \cap ToSet(ss[j]) = {}
  PROVE  /\ FlattenSeq(ss) \in Line(S)
         /\ \A x : x \in ToSet(FlattenSeq(ss)) <=> \E i \in 1 .. n : x \in ToSet(ss[i])
<1>1. CASE n = 0
  <2>1. ss \in Seq(Line(S)) /\ DOMAIN ss = {}
    BY <1>1
  <2>2. ss = <<>> /\ Len(ss) = 0
    BY <2>1, EmptySeq, LenProperties
  <2>3. FlattenSeq(ss) = <<>>
    BY <2>2 DEF FlattenSeq
  <2> QED
    BY <1>1, <2>3, EmptyLine
<1>2. CASE n # 0
  <2>1. n \in Nat \ {0} /\ ss \in [1 .. n -> Seq(S)]
    BY <1>2 DEF Line
  <2>2. PICK f \in [1 .. n -> Seq(S)] : Flattens(f, ss, n)
    BY <2>1, FlattenDef
  <2> DEFINE Joined(m) == /\ f[m] \in Line(S)
                          /\ \A x : x \in ToSet(f[m]) <=> \E i \in 1 .. m : x \in ToSet(ss[i])
             T == {m \in Nat : m \in 1 .. n => Joined(m)}
  <2>3. 0 \in T
    OBVIOUS
  <2>4. ASSUME NEW m \in Nat, m \in T, m + 1 \in 1 .. n
        PROVE  Joined(m + 1)
    <3>1. CASE m = 0
      <4>1. f[m + 1] = ss[m + 1] /\ ss[m + 1] \in Line(S) /\ 1 .. m + 1 = {m + 1}
        BY <2>2, <2>4, <3>1 DEF Flattens
      <4> QED
        BY <4>1
    <3>2. CASE m # 0
      <4>1. m \in 1 .. n /\ m + 1 # 1 /\ (m + 1) - 1 = m
        BY <2>4, <3>2
      <4>2. Joined(m)
        BY <2>4, <4>1
      <4>3. f[m + 1] = f[m] \o ss[m + 1] /\ ss[m + 1] \in Line(S)
        BY <2>2, <2>4, <4>1 DEF Flattens
      <4>4. \A i \in 1 .. m : i \in 1 .. n /\ i # m + 1
        BY <4>1
      <4>5. ToSet(f[m]) \cap ToSet(ss[m + 1]) = {}
        BY <2>4, <4>2, <4>4
      <4>6. /\ f[m + 1] \in Line(S)
            /\ ToSet(f[m + 1]) = ToSet(f[m]) \cup ToSet(ss[m + 1])
        <5>1. f[m] \in Line(S) /\ ss[m + 1] \in Line(S)
          BY <4>2, <4>3
        <5>2. \A s, t \in Line(S) : ToSet(s) \cap ToSet(t) = {} =>
                /\ s \o t \in Line(S)
                /\ ToSet(s \o t) = ToSet(s) \cup ToSet(t)
          BY ConcatLines
        <5>3. /\ f[m] \o ss[m + 1] \in Line(S)
              /\ ToSet(f[m] \o ss[m + 1]) = ToSet(f[m]) \cup ToSet(ss[m + 1])
          BY <4>5, <5>1, <5>2
        <5> QED
          BY <4>3, <5>3
      <4>7. 1 .. m + 1 = (1 .. m) \cup {m + 1}
        BY <4>1
      <4> QED
        BY <4>2, <4>6, <4>7
    <3> QED
      BY <3>1, <3>2
  <2>5. ASSUME NEW m \in Nat, m \in T
        PROVE  m + 1 \in T
    <3> HIDE DEF Joined
    <3>1. m + 1 \in 1 .. n => Joined(m + 1)
      BY <2>4, <2>5
    <3> QED
      BY <3>1
  <2> HIDE DEF T, Joined
  <2>6. Nat \subseteq T
    BY <2>3, <2>5, SetInduction
  <2>7. n \in 1 .. n
    BY <2>1
  <2>8. Joined(n)
    BY <2>6, <2>7 DEF T
  <2> QED
    BY <2>2, <2>8 DEF Joined, Flattens
<1> QED
  BY <1>1, <1>2

-----------------------------------------------------------------------------
(* Heads and tails, and what is joined.                                    *)

\* A sequence that begins with x.
LEMMA ConsProperties ==
  ASSUME NEW S, NEW x \in S, NEW t \in Seq(S)
  PROVE  /\ <<x>> \o t \in Seq(S) /\ <<x>> \o t # <<>>
         /\ Head(<<x>> \o t) = x /\ Tail(<<x>> \o t) = t
<1> DEFINE c == <<x>> \o t
<1>1. <<x>> \in Seq(S) /\ Len(<<x>>) = 1 /\ <<x>>[1] = x /\ Len(t) \in Nat
  BY LenProperties
<1>2. /\ c \in Seq(S) /\ Len(c) = 1 + Len(t)
      /\ \A i \in 1 .. 1 + Len(t) : c[i] = IF i <= 1 THEN x ELSE t[i - 1]
  BY <1>1, ConcatProperties
<1>3. c # <<>>
  BY <1>1, <1>2, EmptySeq
<1> HIDE DEF c
<1>4. Head(c) = x
  BY <1>1, <1>2, <1>3
<1>5. /\ Tail(c) \in Seq(S) /\ Len(Tail(c)) = Len(t)
      /\ \A i \in 1 .. Len(t) : Tail(c)[i] = c[i + 1]
  BY <1>1, <1>2, <1>3, HeadTailProperties
<1>6. \A i \in 1 .. Len(t) : Tail(c)[i] = t[i]
  BY <1>1, <1>2, <1>5
<1>7. Tail(c) = t
  BY <1>5, <1>6, SeqEqual
<1> QED
  BY <1>2, <1>3, <1>4, <1>7 DEF c

\* A sequence is its head and then its tail.
LEMMA HeadTailCons ==
  ASSUME NEW S, NEW s \in Seq(S), s # <<>>
  PROVE  Head(s) \in S /\ Tail(s) \in Seq(S) /\ s = <<Head(s)>> \o Tail(s)
<1> DEFINE c == <<Head(s)>> \o Tail(s)
<1>1. /\ Head(s) \in S /\ Tail(s) \in Seq(S) /\ Len(Tail(s)) = Len(s) - 1
      /\ Head(s) = s[1] /\ Len(s) \in Nat \ {0}
      /\ \A i \in 1 .. Len(s) - 1 : Tail(s)[i] = s[i + 1]
  BY HeadTailProperties, EmptySeq
<1>2. <<Head(s)>> \in Seq(S) /\ Len(<<Head(s)>>) = 1 /\ <<Head(s)>>[1] = Head(s)
  BY <1>1
<1>3. /\ c \in Seq(S) /\ Len(c) = 1 + Len(Tail(s))
      /\ \A i \in 1 .. 1 + Len(Tail(s)) : c[i] = IF i <= 1 THEN Head(s) ELSE Tail(s)[i - 1]
  BY <1>1, <1>2, ConcatProperties
<1> HIDE DEF c
<1>4. Len(c) = Len(s) /\ \A i \in 1 .. Len(s) : s[i] = c[i]
  <2>1. ASSUME NEW i \in 1 .. Len(s)
        PROVE  s[i] = c[i]
    <3>1. CASE i = 1
      BY <1>1, <1>3, <3>1
    <3>2. CASE i # 1
      <4>1. i - 1 \in 1 .. Len(s) - 1 /\ (i - 1) + 1 = i /\ ~ (i <= 1)
        BY <1>1, <3>2
      <4> QED
        BY <1>1, <1>3, <4>1
    <3> QED
      BY <3>1, <3>2
  <2> QED
    BY <1>1, <1>3, <2>1
<1>5. s = c
  BY <1>3, <1>4, SeqEqual
<1> QED
  BY <1>1, <1>5 DEF c

\* The head of two sequences is that of the first one, unless it is empty.
LEMMA HeadOfConcat ==
  ASSUME NEW S, NEW s \in Seq(S), NEW t \in Seq(S), s # <<>>
  PROVE  /\ s \o t \in Seq(S) /\ s \o t # <<>>
         /\ Head(s \o t) = Head(s) /\ Tail(s \o t) = Tail(s) \o t
<1>1. Head(s) \in S /\ Tail(s) \in Seq(S) /\ s = <<Head(s)>> \o Tail(s)
  BY HeadTailCons
<1> DEFINE h == Head(s)
           r == Tail(s)
<1>2. h \in S /\ r \in Seq(S) /\ s = <<h>> \o r /\ <<h>> \in Seq(S)
  BY <1>1
<1> HIDE DEF h, r
<1>3. s \o t = <<h>> \o (r \o t) /\ r \o t \in Seq(S)
  BY <1>2, ConcatAssociative, ConcatProperties
<1>4. /\ <<h>> \o (r \o t) \in Seq(S) /\ <<h>> \o (r \o t) # <<>>
      /\ Head(<<h>> \o (r \o t)) = h /\ Tail(<<h>> \o (r \o t)) = r \o t
  BY <1>2, <1>3, ConsProperties
<1> QED
  BY <1>3, <1>4 DEF h, r

\* A head that goes from one sequence to the end of the one before it leaves
\* both together as they were.
LEMMA MoveHead ==
  ASSUME NEW S, NEW s \in Seq(S), NEW t \in Seq(S), t # <<>>
  PROVE  /\ Append(s, Head(t)) \in Seq(S)
         /\ Append(s, Head(t)) \o Tail(t) = s \o t
<1>1. Head(t) \in S /\ Tail(t) \in Seq(S) /\ t = <<Head(t)>> \o Tail(t)
  BY HeadTailCons
<1>2. Append(s, Head(t)) = s \o <<Head(t)>> /\ Append(s, Head(t)) \in Seq(S)
  BY <1>1, AppendIsConcat, AppendProperties
<1>3. (s \o <<Head(t)>>) \o Tail(t) = s \o (<<Head(t)>> \o Tail(t))
  <2>1. <<Head(t)>> \in Seq(S)
    BY <1>1
  <2> QED
    BY <1>1, <2>1, ConcatAssociative
<1> QED
  BY <1>1, <1>2, <1>3

\* Nothing joined is nothing.
LEMMA FlattenEmpty ==
  FlattenSeq(<<>>) = <<>>
BY EmptySeq DEF FlattenSeq

\* Sequences of elements of S, joined to one.
LEMMA FlattenIsSeq ==
  ASSUME NEW S, NEW n \in Nat, NEW ss \in [1 .. n -> Seq(S)]
  PROVE  FlattenSeq(ss) \in Seq(S)
<1>1. CASE n = 0
  <2>1. ss = <<>>
    BY <1>1
  <2> QED
    BY <2>1, FlattenEmpty, EmptySeq
<1>2. CASE n # 0
  <2>1. PICK f \in [1 .. n -> Seq(S)] : Flattens(f, ss, n)
    BY <1>2, FlattenDef
  <2> QED
    BY <1>2, <2>1 DEF Flattens
<1> QED
  BY <1>1, <1>2

\* The first of the sequences that are joined comes first.
LEMMA FlattenFirst ==
  ASSUME NEW S, NEW n \in Nat, NEW ss \in [1 .. n + 1 -> Seq(S)]
  PROVE  FlattenSeq(ss) = ss[1] \o FlattenSeq([i \in 1 .. n |-> ss[i + 1]])
<1>0. \A a, b, c \in Seq(S) : (a \o b) \o c = a \o (b \o c)
  BY ConcatAssociative
<1> DEFINE r == [i \in 1 .. n |-> ss[i + 1]]
<1>1. PICK f \in [1 .. n + 1 -> Seq(S)] : Flattens(f, ss, n + 1)
  <2>1. n + 1 \in Nat \ {0}
    OBVIOUS
  <2> QED
    BY <2>1, FlattenDef
<1>2. ss[1] \in Seq(S) /\ f[1] = ss[1]
  BY <1>1 DEF Flattens
<1>3. r \in [1 .. n -> Seq(S)]
  OBVIOUS
<1>4. CASE n = 0
  <2>1. r = <<>>
    BY <1>4
  <2> HIDE DEF r
  <2>2. FlattenSeq(r) = <<>>
    BY <2>1, FlattenEmpty
  <2>3. FlattenSeq(ss) = f[1]
    BY <1>1, <1>4 DEF Flattens
  <2>4. ss[1] \o <<>> = ss[1]
    BY <1>2, ConcatEmptySeq
  <2>5. FlattenSeq(ss) = ss[1] \o FlattenSeq(r)
    BY <1>2, <2>2, <2>3, <2>4
  <2> QED
    BY <2>5 DEF r
<1>5. CASE n # 0
  <2>1. \A i \in 1 .. n : r[i] = ss[i + 1]
    OBVIOUS
  <2> HIDE DEF r
  <2>2. PICK g \in [1 .. n -> Seq(S)] : Flattens(g, r, n)
    BY <1>3, <1>5, FlattenDef
  <2> DEFINE T == {m \in Nat : m \in 1 .. n => f[m + 1] = ss[1] \o g[m]}
  <2>3. 0 \in T
    OBVIOUS
  <2>4. ASSUME NEW m \in Nat, m \in T, m + 1 \in 1 .. n
        PROVE  f[(m + 1) + 1] = ss[1] \o g[m + 1]
    <3>1. /\ (m + 1) + 1 \in 1 .. n + 1 /\ (m + 1) + 1 # 1
          /\ ((m + 1) + 1) - 1 = m + 1 /\ (m + 1) - 1 = m
          /\ r[m + 1] = ss[(m + 1) + 1] /\ ss[(m + 1) + 1] \in Seq(S)
      BY <2>1, <2>4
    <3>2. f[(m + 1) + 1] = f[m + 1] \o r[m + 1]
      BY <1>1, <3>1 DEF Flattens
    <3>3. CASE m = 0
      <4>1. m + 1 = 1
        BY <3>3
      <4>2. g[m + 1] = r[m + 1]
        BY <2>2, <2>4, <4>1 DEF Flattens
      <4>3. f[m + 1] = ss[1]
        BY <1>2, <3>3
      <4> QED
        BY <3>2, <4>2, <4>3
    <3>4. CASE m # 0
      <4>1. m \in 1 .. n /\ m + 1 # 1
        BY <2>4, <3>4
      <4>2. f[m + 1] = ss[1] \o g[m] /\ g[m] \in Seq(S)
        BY <2>4, <4>1
      <4>3. g[m + 1] = g[m] \o r[m + 1]
        BY <2>2, <2>4, <3>1, <4>1 DEF Flattens
      <4>4. r[m + 1] \in Seq(S)
        BY <3>1
      <4>5. (ss[1] \o g[m]) \o r[m + 1] = ss[1] \o (g[m] \o r[m + 1])
        BY <1>0, <1>2, <4>2, <4>4, Zenon
      <4> QED
        BY <3>2, <4>2, <4>3, <4>5
    <3> QED
      BY <3>3, <3>4
  <2>5. ASSUME NEW m \in Nat, m \in T
        PROVE  m + 1 \in T
    <3>1. m + 1 \in 1 .. n => f[(m + 1) + 1] = ss[1] \o g[m + 1]
      BY <2>4, <2>5
    <3>2. m + 1 \in Nat
      OBVIOUS
    <3> QED
      BY <3>1, <3>2
  <2> HIDE DEF T
  <2>6. Nat \subseteq T
    BY <2>3, <2>5, SetInduction
  <2>7. f[n + 1] = ss[1] \o g[n]
    <3>1. n \in T /\ n \in 1 .. n
      BY <1>5, <2>6
    <3> QED
      BY <3>1 DEF T
  <2>8. FlattenSeq(ss) = ss[1] \o FlattenSeq(r)
    BY <1>1, <2>2, <2>7 DEF Flattens
  <2> QED
    BY <2>8 DEF r
<1> QED
  BY <1>4, <1>5

\* A line has as many elements as places.
LEMMA LineCardinality ==
  ASSUME NEW S, NEW s \in Line(S)
  PROVE  IsFiniteSet(ToSet(s)) /\ Cardinality(ToSet(s)) = Len(s)
<1>1. /\ s \in Seq(S) /\ Len(s) \in Nat /\ DOMAIN s = 1 .. Len(s)
      /\ \A x : x \in ToSet(s) <=> \E i \in 1 .. Len(s) : s[i] = x
  BY ElementsOfLine
<1>2. \A i, j \in 1 .. Len(s) : s[i] = s[j] => i = j
  BY <1>1 DEF Line, IsInjective
<1> DEFINE f == [i \in 1 .. Len(s) |-> s[i]]
<1>3. f \in Bijection(1 .. Len(s), ToSet(s))
  BY <1>1, <1>2 DEF Bijection, Injection, Surjection, IsInjective
<1>4. ExistsBijection(1 .. Len(s), ToSet(s))
  BY <1>3 DEF ExistsBijection
<1>5. IsFiniteSet(1 .. Len(s)) /\ Cardinality(1 .. Len(s)) = Len(s)
  BY <1>1, FS_Interval
<1> QED
  BY <1>4, <1>5, FS_Bijection

\* Whoever is not in line gets in at its head.
LEMMA ConsToLine ==
  ASSUME NEW S, NEW s \in Line(S), NEW e \in S, e \notin ToSet(s)
  PROVE  Cons(e, s) \in Line(S) /\ ToSet(Cons(e, s)) = ToSet(s) \cup {e}
<1>1. <<e>> \in Line(S) /\ ToSet(<<e>>) = {e}
  BY LineOfOne
<1>2. <<e>> \o s \in Line(S) /\ ToSet(<<e>> \o s) = {e} \cup ToSet(s)
  BY <1>1, ConcatLines
<1> QED
  BY <1>2 DEF Cons

-----------------------------------------------------------------------------
(* Sums over finite sets; SumFunctionOnSet picks the order.                *)

\* What SumFunctionOnSet adds up, set by set.
Pick(s) == CHOOSE x \in s : TRUE
AddsUp(f, g, s) == g[s] = IF s = {} THEN 0 ELSE f[Pick(s)] + g[s \ {Pick(s)}]
Sums(f, g, S) == g \in [SUBSET S -> Nat] /\ \A s \in SUBSET S : AddsUp(f, g, s)

\* A subset of a finite set, and the set without the element that is picked.
LEMMA PickFrom ==
  ASSUME NEW S, IsFiniteSet(S), NEW s \in SUBSET S
  PROVE  /\ IsFiniteSet(s) /\ Cardinality(s) \in Nat /\ Cardinality(s) <= Cardinality(S)
         /\ Cardinality(S) \in Nat
         /\ Cardinality(s) = 0 <=> s = {}
         /\ s # {} => /\ Pick(s) \in s /\ Pick(s) \in S
                      /\ s \ {Pick(s)} \in SUBSET S
                      /\ Cardinality(s \ {Pick(s)}) = Cardinality(s) - 1
<1>1. IsFiniteSet(s) /\ Cardinality(s) <= Cardinality(S)
  BY FS_Subset
<1>2. Cardinality(s) \in Nat /\ Cardinality(S) \in Nat
  BY <1>1, FS_CardinalityType
<1>3. s # {} => Pick(s) \in s
  BY DEF Pick
<1>4. s # {} => Cardinality(s \ {Pick(s)}) = Cardinality(s) - 1
  BY <1>1, <1>3, FS_RemoveElement
<1> QED
  BY <1>1, <1>2, <1>3, <1>4, FS_EmptySet

\* SumFunctionOnSet is such a sum.
LEMMA SumDef ==
  ASSUME NEW S, IsFiniteSet(S), NEW f, \A x \in S : f[x] \in Nat
  PROVE  \E g : Sums(f, g, S) /\ SumFunctionOnSet(f, S) = g[S]
<1> DEFINE UpTo(g, k) == \A s \in SUBSET S : Cardinality(s) <= k => AddsUp(f, g, s)
           T == {k \in Nat : \E g \in [SUBSET S -> Nat] : UpTo(g, k)}
<1>1. 0 \in T
  <2> DEFINE g == [s \in SUBSET S |-> 0]
  <2>1. g \in [SUBSET S -> Nat]
    OBVIOUS
  <2>2. ASSUME NEW s \in SUBSET S, Cardinality(s) <= 0
        PROVE  s = {}
    <3>1. Cardinality(s) \in Nat /\ (Cardinality(s) = 0 <=> s = {})
      BY PickFrom
    <3> QED
      BY <2>2, <3>1
  <2>3. UpTo(g, 0)
    BY <2>2 DEF AddsUp
  <2> QED
    BY <2>1, <2>3
<1>2. ASSUME NEW k \in Nat, NEW g \in [SUBSET S -> Nat], UpTo(g, k)
      PROVE  \E h \in [SUBSET S -> Nat] : UpTo(h, k + 1)
  <2> DEFINE r(s) == IF s = {} THEN 0 ELSE f[Pick(s)] + g[s \ {Pick(s)}]
             h == [s \in SUBSET S |-> r(s)]
  <2>1. ASSUME NEW s \in SUBSET S
        PROVE  r(s) \in Nat
    <3>1. s # {} => f[Pick(s)] \in Nat /\ g[s \ {Pick(s)}] \in Nat
      <4>1. s # {} => Pick(s) \in S /\ s \ {Pick(s)} \in SUBSET S
        BY PickFrom
      <4> QED
        BY <4>1
    <3> QED
      BY <3>1
  <2>2. h \in [SUBSET S -> Nat]
    BY <2>1
  <2>3. ASSUME NEW s \in SUBSET S, Cardinality(s) <= k
        PROVE  h[s] = g[s]
    BY <1>2, <2>3 DEF AddsUp
  <2>4. ASSUME NEW s \in SUBSET S, Cardinality(s) <= k + 1
        PROVE  AddsUp(f, h, s)
    <3>1. CASE s = {}
      BY <3>1 DEF AddsUp
    <3>2. CASE s # {}
      <4>1. s \ {Pick(s)} \in SUBSET S /\ Cardinality(s \ {Pick(s)}) <= k
        BY <2>4, <3>2, PickFrom
      <4>2. h[s \ {Pick(s)}] = g[s \ {Pick(s)}]
        BY <2>3, <4>1
      <4>3. h[s] = f[Pick(s)] + g[s \ {Pick(s)}]
        BY <3>2
      <4> QED
        BY <3>2, <4>2, <4>3 DEF AddsUp
    <3> QED
      BY <3>1, <3>2
  <2> HIDE DEF h
  <2> QED
    BY <2>2, <2>4
<1>3. ASSUME NEW k \in Nat, k \in T
      PROVE  k + 1 \in T
  <2> HIDE DEF UpTo
  <2>1. PICK g \in [SUBSET S -> Nat] : UpTo(g, k)
    BY <1>3
  <2>2. \E h \in [SUBSET S -> Nat] : UpTo(h, k + 1)
    BY <1>2, <2>1
  <2> QED
    BY <2>2
<1> HIDE DEF T
<1>4. Nat \subseteq T
  BY <1>1, <1>3, SetInduction
<1>5. \E g : Sums(f, g, S)
  <2>1. Cardinality(S) \in T
    BY <1>4, FS_CardinalityType
  <2>2. PICK g \in [SUBSET S -> Nat] : UpTo(g, Cardinality(S))
    BY <2>1 DEF T
  <2>3. Sums(f, g, S)
    BY <2>2, PickFrom DEF Sums
  <2> QED
    BY <2>3
<1> DEFINE Is(g) == g = [s \in SUBSET S |->
                           IF s = {} THEN 0 ELSE f[Pick(s)] + g[s \ {Pick(s)}]]
           h == CHOOSE g : Is(g)
<1>6. \E g : Is(g)
  <2>1. PICK g : Sums(f, g, S)
    BY <1>5
  <2>2. Is(g)
    BY <2>1 DEF Sums, AddsUp
  <2> QED
    BY <2>2
<1>7. Is(h)
  <2> HIDE DEF Is
  <2> QED
    BY <1>6
<1>8. SumFunctionOnSet(f, S) = h[S]
  BY DEF SumFunctionOnSet, FoldFunctionOnSet, MapThenFoldSet, Pick
<1>9. ASSUME NEW s \in SUBSET S
      PROVE  h[s] = IF s = {} THEN 0 ELSE f[Pick(s)] + h[s \ {Pick(s)}]
  BY <1>7
<1>10. DOMAIN h = SUBSET S /\ h = [s \in SUBSET S |-> h[s]]
  BY <1>7
<1> HIDE DEF h, Is
<1> DEFINE U == {k \in Nat : \A s \in SUBSET S : Cardinality(s) <= k => h[s] \in Nat}
<1>11. 0 \in U
  <2>1. ASSUME NEW s \in SUBSET S, Cardinality(s) <= 0
        PROVE  s = {}
    <3>1. Cardinality(s) \in Nat /\ (Cardinality(s) = 0 <=> s = {})
      BY PickFrom
    <3> QED
      BY <2>1, <3>1
  <2>2. h[{}] = 0
    BY <1>9
  <2> QED
    BY <2>1, <2>2
<1>12. ASSUME NEW k \in Nat, k \in U
       PROVE  k + 1 \in U
  <2> SUFFICES ASSUME NEW s \in SUBSET S, Cardinality(s) <= k + 1
               PROVE  h[s] \in Nat
    OBVIOUS
  <2>1. CASE s = {}
    <3>1. h[s] = 0
      BY <1>9, <2>1
    <3> QED
      BY <3>1
  <2>2. CASE s # {}
    <3>1. s \ {Pick(s)} \in SUBSET S /\ Cardinality(s \ {Pick(s)}) <= k /\ f[Pick(s)] \in Nat
      BY <2>2, PickFrom
    <3>2. h[s \ {Pick(s)}] \in Nat
      BY <1>12, <3>1
    <3>3. h[s] = f[Pick(s)] + h[s \ {Pick(s)}]
      BY <1>9, <2>2
    <3> QED
      BY <3>1, <3>2, <3>3
  <2> QED
    BY <2>1, <2>2
<1> HIDE DEF U
<1>13. Nat \subseteq U
  BY <1>11, <1>12, SetInduction
<1>14. ASSUME NEW s \in SUBSET S
       PROVE  h[s] \in Nat
  <2>0. Cardinality(S) \in Nat /\ Cardinality(s) <= Cardinality(S)
    BY PickFrom
  <2>1. Cardinality(S) \in U /\ Cardinality(s) <= Cardinality(S)
    BY <1>13, <2>0
  <2> QED
    BY <2>1 DEF U
<1>15. \A s \in SUBSET S : AddsUp(f, h, s)
  BY <1>9 DEF AddsUp
<1> QED
  BY <1>8, <1>10, <1>14, <1>15 DEF Sums


\* A sum depends on what is added only.
LEMMA SumsAgree ==
  ASSUME NEW S1, NEW f1, NEW g1, IsFiniteSet(S1), Sums(f1, g1, S1),
         NEW S2, NEW f2, NEW g2, IsFiniteSet(S2), Sums(f2, g2, S2),
         NEW A, A \subseteq S1, A \subseteq S2, \A x \in A : f1[x] = f2[x]
  PROVE  g1[A] = g2[A]
<1> DEFINE T == {k \in Nat : \A s \in SUBSET A : Cardinality(s) <= k => g1[s] = g2[s]}
<1>1. /\ \A s \in SUBSET S1 : AddsUp(f1, g1, s)
      /\ \A s \in SUBSET S2 : AddsUp(f2, g2, s)
  BY DEF Sums
<1>2. IsFiniteSet(A)
  BY FS_Subset
<1>3. g1[{}] = g2[{}]
  BY <1>1 DEF AddsUp
<1>4. 0 \in T
  <2>1. ASSUME NEW s \in SUBSET A, Cardinality(s) <= 0
        PROVE  s = {}
    <3>1. Cardinality(s) \in Nat /\ (Cardinality(s) = 0 <=> s = {})
      BY <1>2, PickFrom
    <3> QED
      BY <2>1, <3>1
  <2> QED
    BY <1>3, <2>1
<1>5. ASSUME NEW k \in Nat, k \in T
      PROVE  k + 1 \in T
  <2> SUFFICES ASSUME NEW s \in SUBSET A, Cardinality(s) <= k + 1
               PROVE  g1[s] = g2[s]
    OBVIOUS
  <2>1. CASE s = {}
    BY <1>3, <2>1
  <2>2. CASE s # {}
    <3>1. Pick(s) \in A /\ s \ {Pick(s)} \in SUBSET A /\ Cardinality(s \ {Pick(s)}) <= k
      BY <1>2, <2>2, PickFrom
    <3>2. g1[s \ {Pick(s)}] = g2[s \ {Pick(s)}] /\ f1[Pick(s)] = f2[Pick(s)]
      BY <1>5, <3>1
    <3>3. s \in SUBSET S1 /\ s \in SUBSET S2
      OBVIOUS
    <3>4. /\ g1[s] = f1[Pick(s)] + g1[s \ {Pick(s)}]
          /\ g2[s] = f2[Pick(s)] + g2[s \ {Pick(s)}]
      BY <1>1, <2>2, <3>3 DEF AddsUp
    <3> QED
      BY <3>2, <3>4
  <2> QED
    BY <2>1, <2>2
<1> HIDE DEF T
<1>6. Nat \subseteq T
  BY <1>4, <1>5, SetInduction
<1>7. Cardinality(A) \in Nat
  BY <1>2, FS_CardinalityType
<1>8. Cardinality(A) \in T
  BY <1>6, <1>7
<1> QED
  BY <1>7, <1>8 DEF T

\* Any element may be the last one added.
LEMMA SumsAny ==
  ASSUME NEW S, IsFiniteSet(S), NEW f, \A x \in S : f[x] \in Nat, NEW g, Sums(f, g, S),
         NEW x \in S
  PROVE  g[S] = f[x] + g[S \ {x}]
<1> DEFINE T == {k \in Nat : \A s \in SUBSET S, y \in S :
                   y \in s /\ Cardinality(s) <= k => g[s] = f[y] + g[s \ {y}]}
<1>1. \A s \in SUBSET S : g[s] \in Nat /\ AddsUp(f, g, s)
  BY DEF Sums
<1>2. 0 \in T
  <2>1. ASSUME NEW s \in SUBSET S, Cardinality(s) <= 0
        PROVE  s = {}
    <3>1. Cardinality(s) \in Nat /\ (Cardinality(s) = 0 <=> s = {})
      BY PickFrom
    <3> QED
      BY <2>1, <3>1
  <2> QED
    BY <2>1
<1>3. ASSUME NEW k \in Nat, k \in T
      PROVE  k + 1 \in T
  <2> SUFFICES ASSUME NEW s \in SUBSET S, NEW y \in S, y \in s, Cardinality(s) <= k + 1
               PROVE  g[s] = f[y] + g[s \ {y}]
    OBVIOUS
  <2> DEFINE p == Pick(s)
  <2>1. p \in s /\ p \in S /\ s \ {p} \in SUBSET S /\ Cardinality(s \ {p}) <= k
    <3>1. s # {}
      OBVIOUS
    <3> QED
      BY <3>1, PickFrom
  <2>2. g[s] = f[p] + g[s \ {p}]
    BY <1>1 DEF AddsUp
  <2> HIDE DEF p
  <2>3. CASE p = y
    BY <2>2, <2>3
  <2>4. CASE p # y
    <3>1. g[s \ {p}] = f[y] + g[(s \ {p}) \ {y}]
      BY <1>3, <2>1, <2>4
    <3>2. /\ s \ {y} \in SUBSET S /\ p \in s \ {y}
          /\ (s \ {y}) \ {p} = (s \ {p}) \ {y}
      BY <2>1, <2>4
    <3>3. Cardinality(s \ {y}) <= k
      <4>1. IsFiniteSet(s) /\ Cardinality(s) \in Nat
        BY PickFrom
      <4>2. Cardinality(s \ {y}) = Cardinality(s) - 1
        BY <4>1, FS_RemoveElement
      <4> QED
        BY <4>1, <4>2
    <3>4. g[s \ {y}] = f[p] + g[(s \ {p}) \ {y}]
      BY <1>3, <2>1, <3>2, <3>3
    <3>5. f[p] \in Nat /\ f[y] \in Nat /\ g[(s \ {p}) \ {y}] \in Nat
      BY <1>1, <2>1
    <3> QED
      BY <2>2, <3>1, <3>4, <3>5
  <2> QED
    BY <2>3, <2>4
<1> HIDE DEF T
<1>4. Nat \subseteq T
  BY <1>2, <1>3, SetInduction
<1>5. Cardinality(S) \in Nat
  BY FS_CardinalityType
<1>6. Cardinality(S) \in T
  BY <1>4, <1>5
<1> QED
  BY <1>5, <1>6 DEF T

\* A sum of natural numbers is one, and depends on what is added only.
LEMMA SumIsNat ==
  ASSUME NEW S, IsFiniteSet(S), NEW f, \A x \in S : f[x] \in Nat
  PROVE  SumFunctionOnSet(f, S) \in Nat
<1>1. PICK g : Sums(f, g, S) /\ SumFunctionOnSet(f, S) = g[S]
  BY SumDef
<1>2. g[S] \in Nat
  BY <1>1 DEF Sums
<1> QED
  BY <1>1, <1>2

\* Nothing adds up to zero.
LEMMA SumOfNone ==
  ASSUME NEW f
  PROVE  SumFunctionOnSet(f, {}) = 0
<1>1. IsFiniteSet({})
  BY FS_EmptySet
<1>2. PICK g : Sums(f, g, {}) /\ SumFunctionOnSet(f, {}) = g[{}]
  BY <1>1, SumDef
<1>3. g[{}] = 0
  BY <1>2 DEF Sums, AddsUp
<1> QED
  BY <1>2, <1>3

\* Functions that agree on a set have the same sum over it.
LEMMA SameSum ==
  ASSUME NEW S, IsFiniteSet(S), NEW f1, NEW f2,
         \A x \in S : f1[x] \in Nat /\ f1[x] = f2[x]
  PROVE  SumFunctionOnSet(f1, S) = SumFunctionOnSet(f2, S)
<1>1. PICK g1 : Sums(f1, g1, S) /\ SumFunctionOnSet(f1, S) = g1[S]
  BY SumDef
<1>2. PICK g2 : Sums(f2, g2, S) /\ SumFunctionOnSet(f2, S) = g2[S]
  <2>1. \A x \in S : f2[x] \in Nat
    OBVIOUS
  <2> QED
    BY <2>1, SumDef
<1>3. g1[S] = g2[S]
  BY <1>1, <1>2, SumsAgree
<1> QED
  BY <1>1, <1>2, <1>3

\* One element can be taken out of a sum.
LEMMA SumWithout ==
  ASSUME NEW S, IsFiniteSet(S), NEW f, \A y \in S : f[y] \in Nat, NEW x \in S
  PROVE  SumFunctionOnSet(f, S) = f[x] + SumFunctionOnSet(f, S \ {x})
<1>1. PICK g : Sums(f, g, S) /\ SumFunctionOnSet(f, S) = g[S]
  BY SumDef
<1>2. IsFiniteSet(S \ {x}) /\ \A y \in S \ {x} : f[y] \in Nat
  BY FS_RemoveElement
<1>3. PICK h : Sums(f, h, S \ {x}) /\ SumFunctionOnSet(f, S \ {x}) = h[S \ {x}]
  BY <1>2, SumDef
<1>4. g[S] = f[x] + g[S \ {x}]
  BY <1>1, SumsAny
<1>5. g[S \ {x}] = h[S \ {x}]
  BY <1>1, <1>2, <1>3, SumsAgree
<1> QED
  BY <1>1, <1>3, <1>4, <1>5

\* The sum over a set is that over a part of it and over the rest.
LEMMA SumSplit ==
  ASSUME NEW S, IsFiniteSet(S), NEW f, \A y \in S : f[y] \in Nat, NEW P \in SUBSET S
  PROVE  SumFunctionOnSet(f, S) = SumFunctionOnSet(f, P) + SumFunctionOnSet(f, S \ P)
<1> DEFINE Sum(s) == SumFunctionOnSet(f, s)
           T == {k \in Nat : \A s \in SUBSET S :
                   Cardinality(s) <= k => Sum(S) = Sum(s) + Sum(S \ s)}
<1>1. \A s \in SUBSET S : IsFiniteSet(s) /\ \A y \in s : f[y] \in Nat
  BY FS_Subset
<1>2. ASSUME NEW s \in SUBSET S
      PROVE  Sum(s) \in Nat
  BY <1>1, SumIsNat
<1>3. Sum({}) = 0
  BY SumOfNone
<1>4. ASSUME NEW s \in SUBSET S, NEW x \in s
      PROVE  Sum(s) = f[x] + Sum(s \ {x})
  BY <1>1, SumWithout
<1> HIDE DEF Sum
<1>5. 0 \in T
  <2> SUFFICES ASSUME NEW s \in SUBSET S, Cardinality(s) <= 0
               PROVE  Sum(S) = Sum(s) + Sum(S \ s)
    OBVIOUS
  <2>1. Cardinality(s) \in Nat /\ (Cardinality(s) = 0 <=> s = {})
    BY PickFrom
  <2>2. s = {} /\ S \ s = S
    BY <2>1
  <2>3. Sum(S) \in Nat
    BY <1>2
  <2> QED
    BY <1>3, <2>2, <2>3
<1>6. ASSUME NEW k \in Nat, k \in T
      PROVE  k + 1 \in T
  <2> SUFFICES ASSUME NEW s \in SUBSET S, Cardinality(s) <= k + 1
               PROVE  Sum(S) = Sum(s) + Sum(S \ s)
    OBVIOUS
  <2>1. CASE s = {}
    <3>1. Cardinality(s) <= k
      BY <2>1, FS_EmptySet
    <3> QED
      BY <1>6, <3>1
  <2>2. CASE s # {}
    <3> DEFINE x == Pick(s)
               r == s \ {x}
    <3>1. x \in s /\ r \in SUBSET S /\ Cardinality(r) <= k
      BY <2>2, PickFrom
    <3> HIDE DEF x
    <3>2. Sum(S) = Sum(r) + Sum(S \ r)
      BY <1>6, <3>1
    <3>3. Sum(s) = f[x] + Sum(r)
      BY <1>4, <3>1
    <3>4. Sum(S \ r) = f[x] + Sum((S \ r) \ {x})
      <4>1. S \ r \in SUBSET S /\ x \in S \ r
        BY <3>1
      <4> QED
        BY <1>4, <4>1
    <3>5. (S \ r) \ {x} = S \ s
      BY <3>1
    <3>6. f[x] \in Nat /\ Sum(r) \in Nat /\ Sum(S \ s) \in Nat
      BY <1>2, <3>1
    <3> HIDE DEF r
    <3>7. Sum(S \ r) = f[x] + Sum(S \ s)
      BY <3>4, <3>5
    <3> QED
      BY <3>2, <3>3, <3>6, <3>7
  <2> QED
    BY <2>1, <2>2
<1> HIDE DEF T
<1>7. Nat \subseteq T
  BY <1>5, <1>6, SetInduction
<1>8. Cardinality(P) \in Nat
  BY <1>1, FS_CardinalityType
<1>9. Cardinality(P) \in T
  BY <1>7, <1>8
<1> QED
  BY <1>8, <1>9 DEF T, Sum
=============================================================================
