---------------------------- MODULE StreamLemmas ----------------------------
(***************************************************************************)
(* Facts about the operators of Streams, for sequences of any length, and  *)
(* about sums of any number of numbers, and the induction they rest on.    *)
(***************************************************************************)
EXTENDS Streams, SequencesExt, SequenceTheorems, FiniteSetTheorems, TLAPS

(* Induction, in terms of sets: the set of the numbers that have the       *)
(* property is all of Nat.                                                 *)

\* A set of natural numbers that is not empty has a smallest element: the intervals
\* below its elements are finite, and finite sets are well-founded by inclusion.
LEMMA Smallest ==
  ASSUME NEW U \in SUBSET Nat, U # {}
  PROVE  \E x \in U : \A y \in U : x <= y
<1> DEFINE R == StrictSubsetOrdering(Nat)
           W == {0..x : x \in U}
<1>1. IsWellFoundedOn(R, FiniteSubsetsOf(Nat))
  BY FS_StrictSubsetOrderingWellFounded
<1>2. W \subseteq FiniteSubsetsOf(Nat) /\ W # {}
  <2>1. \A x \in U : IsFiniteSet(0..x) /\ 0..x \subseteq Nat
    <3> TAKE x \in U
    <3>1. 0 \in Int /\ x \in Int
      OBVIOUS
    <3>2. IsFiniteSet(0..x)
      BY <3>1, FS_Interval
    <3> QED
      BY <3>2
  <2> QED
    BY <2>1 DEF FiniteSubsetsOf
<1>3. \E w \in W : \A v \in W : ~(<<v, w>> \in R)
  <2> HIDE DEF R, W
  <2> QED
    BY <1>1, <1>2, WFMin
<1>4. PICK x \in U : \A v \in W : ~(<<v, 0..x>> \in R)
  BY <1>3
<1>5. ASSUME NEW y \in U, y < x PROVE FALSE
  <2>1. 0..y \in SUBSET Nat /\ 0..x \in SUBSET Nat
    OBVIOUS
  <2>2. 0..y \subseteq 0..x
    BY <1>5
  <2>3. x \in 0..x /\ x \notin 0..y
    BY <1>5
  <2>4. 0..y # 0..x
    BY <2>3
  <2>5. <<0..y, 0..x>> \in R
    BY <2>1, <2>2, <2>4 DEF StrictSubsetOrdering
  <2> QED
    BY <1>4, <2>5
<1> QED
  BY <1>5

\* What holds of 0, and of n + 1 when it holds of n, holds of every number: there is
\* no smallest exception.
LEMMA Induct ==
  ASSUME NEW T, 0 \in T, \A n \in Nat : n \in T => n + 1 \in T
  PROVE  Nat \subseteq T
<1> DEFINE U == Nat \ T
<1> SUFFICES ASSUME U # {} PROVE FALSE
  OBVIOUS
<1>1. U \in SUBSET Nat
  OBVIOUS
<1> HIDE DEF U
<1>2. PICK x \in U : \A y \in U : x <= y
  BY <1>1, Smallest
<1> USE DEF U
<1>3. x \in Nat /\ x # 0 /\ x \notin T
  OBVIOUS
<1>4. x - 1 \in Nat /\ x - 1 < x /\ (x - 1) + 1 = x
  BY <1>3
<1>5. x - 1 \in U
  BY <1>3, <1>4
<1> QED
  BY <1>2, <1>3, <1>4, <1>5

----------------------------------------------------------------------------
(* Cutting a stream.                                                       *)

\* What is taken from the front of a stream and what stays behind make the stream.
LEMMA Split ==
  ASSUME NEW S, NEW s \in Seq(S), NEW k \in 0..Len(s)
  PROVE  /\ SubSeq(s, 1, k) \in Seq(S) /\ Len(SubSeq(s, 1, k)) = k
         /\ Rest(s, k) \in Seq(S) /\ Len(Rest(s, k)) = Len(s) - k
         /\ SubSeq(s, 1, k) \o Rest(s, k) = s
<1> DEFINE front == SubSeq(s, 1, k)
           back == Rest(s, k)
<1>1. Len(s) \in Nat /\ \A i \in 1..Len(s) : s[i] \in S
  BY ElementOfSeq, LenProperties
<1>2. front \in Seq(S) /\ Len(front) = k
  BY <1>1, SubSeqProperties
<1>3. \A i \in 1..k : front[i] = s[i]
  BY <1>1
<1>4. back \in Seq(S) /\ Len(back) = Len(s) - k
  BY <1>1, SubSeqProperties DEF Rest
<1>5. \A i \in 1..(Len(s) - k) : back[i] = s[k + i]
  BY <1>1 DEF Rest
<1>6. front \o back = s
  <2> HIDE DEF front, back
  <2>1. front \o back \in Seq(S) /\ Len(front \o back) = Len(s)
    BY <1>1, <1>2, <1>4, ConcatProperties
  <2>2. \A i \in 1..Len(s) : (front \o back)[i] = s[i]
    <3> TAKE i \in 1..Len(s)
    <3>1. CASE i <= k
      BY <3>1, <1>1, <1>2, <1>3, <1>4
    <3>2. CASE i > k
      <4>1. i - k \in 1..(Len(s) - k) /\ k + (i - k) = i
        BY <3>2, <1>1
      <4>2. back[i - k] = s[i]
        BY <4>1, <1>5
      <4>3. (front \o back)[i] = back[i - k]
        BY <3>2, <1>1, <1>2, <1>4
      <4> QED
        BY <4>2, <4>3
    <3>3. i <= k \/ i > k
      BY <1>1
    <3> QED
      BY <3>1, <3>2, <3>3
  <2> QED
    BY <2>1, <2>2, SeqEqual
<1> QED
  BY <1>2, <1>4, <1>6

\* A stream is a prefix of itself with anything behind it.
LEMMA PrefixOf ==
  ASSUME NEW S, NEW s \in Seq(S), NEW r \in Seq(S)
  PROVE  IsPrefix(s, s \o r)
<1>1. /\ Len(s) \in Nat /\ Len(s) <= Len(s \o r) /\ s \o r \in Seq(S)
      /\ \A i \in 1..Len(s) : (s \o r)[i] = s[i]
  OBVIOUS
<1> DEFINE f == SubSeq(s \o r, 1, Len(s))
           g == SubSeq(s, 1, Len(s))
<1>2. f = s /\ g = s
  <2>1. f \in Seq(S) /\ Len(f) = Len(s) /\ g \in Seq(S) /\ Len(g) = Len(s)
    BY <1>1, SubSeqProperties
  <2>2. \A i \in 1..Len(s) : f[i] = s[i] /\ g[i] = s[i]
    BY <1>1
  <2> HIDE DEF f, g
  <2> QED
    BY <2>1, <2>2, SeqEqual
<1> QED
  BY <1>1, <1>2 DEF IsPrefix

\* A stream of R is a stream of anything that holds R.
LEMMA Widen ==
  ASSUME NEW R, NEW S, R \subseteq S, NEW s \in Seq(R)
  PROVE  s \in Seq(S)
<1>1. Len(s) \in Nat /\ s \in [1..Len(s) -> R]
  BY LenProperties
<1>2. s \in [1..Len(s) -> S]
  BY <1>1
<1> QED
  BY <1>1, <1>2

\* Moving the front of one stream to the end of the one before it keeps the whole.
LEMMA Moved ==
  ASSUME NEW S, NEW s \in Seq(S), NEW t \in Seq(S), NEW k \in 0..Len(t)
  PROVE  (s \o SubSeq(t, 1, k)) \o Rest(t, k) = s \o t
<1> DEFINE front == SubSeq(t, 1, k)
           back == Rest(t, k)
<1>1. front \in Seq(S) /\ back \in Seq(S) /\ front \o back = t
  BY Split
<1> HIDE DEF front, back
<1>2. ASSUME NEW f \in Seq(S), NEW b \in Seq(S)
      PROVE  (s \o f) \o b = s \o (f \o b)
  BY SMTT(40)
<1>3. (s \o front) \o back = s \o t
  BY <1>1, <1>2
<1> QED
  BY <1>3 DEF front, back

----------------------------------------------------------------------------
(* Counting, and selections.                                               *)

\* A count is a number, up to n.
LEMMA CountType ==
  ASSUME NEW s, NEW S, NEW n \in Nat
  PROVE  CountIn(s, S, n) \in 0..n
<1> DEFINE T == {i \in 1..n : s[i] \in S}
<1>1. IsFiniteSet(1..n) /\ Cardinality(1..n) = n
  BY FS_Interval
<1>2. T \in SUBSET (1..n)
  OBVIOUS
<1> HIDE DEF T
<1>3. IsFiniteSet(T) /\ Cardinality(T) <= n
  BY <1>1, <1>2, FS_Subset
<1>4. Cardinality(T) \in Nat
  BY <1>3, FS_CardinalityType
<1> QED
  BY <1>3, <1>4 DEF CountIn, T

\* Nothing is counted before the first, and one more when the next is in S.
LEMMA CountStep ==
  ASSUME NEW s, NEW S, NEW n \in Nat
  PROVE  /\ CountIn(s, S, 0) = 0
         /\ CountIn(s, S, n + 1) = CountIn(s, S, n) + (IF s[n + 1] \in S THEN 1 ELSE 0)
<1>1. CountIn(s, S, 0) = 0
  BY CountType
<1> DEFINE T == {i \in 1..n : s[i] \in S}
           U == {i \in 1..(n + 1) : s[i] \in S}
<1>2. IsFiniteSet(T) /\ Cardinality(T) \in Nat
  <2>1. IsFiniteSet(1..n) /\ T \in SUBSET (1..n)
    BY FS_Interval
  <2> HIDE DEF T
  <2> QED
    BY <2>1, FS_Subset, FS_CardinalityType
<1>3. 1..(n + 1) = (1..n) \cup {n + 1}
  OBVIOUS
<1>4. CASE s[n + 1] \in S
  <2>1. U = T \cup {n + 1} /\ n + 1 \notin T
    BY <1>3, <1>4
  <2> HIDE DEF T, U
  <2>2. Cardinality(U) = Cardinality(T) + 1
    BY <1>2, <2>1, FS_AddElement
  <2> QED
    BY <1>1, <1>4, <2>2 DEF CountIn, T, U
<1>5. CASE s[n + 1] \notin S
  <2>1. U = T
    BY <1>3, <1>5
  <2>2. Cardinality(U) = Cardinality(T)
    BY <2>1
  <2> HIDE DEF T, U
  <2> QED
    BY <1>1, <1>2, <1>5, <2>2 DEF CountIn, T, U
<1> QED
  BY <1>4, <1>5

\* What is counted of s depends on s alone, as far as it goes.
LEMMA CountAgrees ==
  ASSUME NEW s, NEW u, NEW S, NEW n \in Nat, \A i \in 1..n : u[i] = s[i]
  PROVE  CountIn(u, S, n) = CountIn(s, S, n)
<1>1. {i \in 1..n : u[i] \in S} = {i \in 1..n : s[i] \in S}
  OBVIOUS
<1> QED
  BY <1>1 DEF CountIn

\* One that is in S is counted, and not again before it.
LEMMA CountReaches ==
  ASSUME NEW s, NEW S, NEW n \in Nat, NEW i \in 1..n, s[i] \in S
  PROVE  CountIn(s, S, i) \in 1..CountIn(s, S, n)
<1> DEFINE Below == {m \in Nat : CountIn(s, S, i) <= CountIn(s, S, i + m)}
<1>1. 0 \in Below
  <2>1. CountIn(s, S, i) \in Nat /\ i + 0 = i
    BY CountType
  <2> QED
    BY <2>1
<1>2. ASSUME NEW m \in Nat, m \in Below
      PROVE  m + 1 \in Below
  <2>1. i + m \in Nat /\ i + (m + 1) = (i + m) + 1
    OBVIOUS
  <2>2. CountIn(s, S, i) \in Int /\ CountIn(s, S, i + m) \in Int
    BY <2>1, CountType
  <2>3. CountIn(s, S, i + m) <= CountIn(s, S, i + (m + 1))
    BY <2>1, <2>2, CountStep
  <2>4. CountIn(s, S, i + (m + 1)) \in Int
    BY CountType
  <2> QED
    BY <1>2, <2>2, <2>3, <2>4
<1>3. Nat \subseteq Below
  <2> HIDE DEF Below
  <2> QED
    BY <1>1, <1>2, Induct
<1>4. n - i \in Nat /\ i + (n - i) = n /\ i - 1 \in Nat /\ (i - 1) + 1 = i
  OBVIOUS
<1>5. CountIn(s, S, i) <= CountIn(s, S, n)
  BY <1>3, <1>4
<1>6. CountIn(s, S, i) = CountIn(s, S, i - 1) + 1
  BY <1>4, CountStep
<1>7. CountIn(s, S, i - 1) \in Nat /\ CountIn(s, S, n) \in Nat
  BY <1>4, CountType
<1> QED
  BY <1>5, <1>6, <1>7

\* One more at the end of s is counted if it is in S, and nothing before it changes.
LEMMA CountAppend ==
  ASSUME NEW R, NEW s \in Seq(R), NEW x \in R, NEW S
  PROVE  /\ \A i \in 1..Len(s) : CountIn(Append(s, x), S, i) = CountIn(s, S, i)
         /\ CountIn(Append(s, x), S, Len(s) + 1)
              = CountIn(s, S, Len(s)) + (IF x \in S THEN 1 ELSE 0)
<1> DEFINE u == Append(s, x)
<1>1. Len(s) \in Nat /\ u[Len(s) + 1] = x /\ \A i \in 1..Len(s) : u[i] = s[i]
  OBVIOUS
<1> HIDE DEF u
<1>2. ASSUME NEW i \in 0..Len(s)
      PROVE  CountIn(u, S, i) = CountIn(s, S, i)
  <2>1. i \in Nat /\ \A j \in 1..i : u[j] = s[j]
    BY <1>1
  <2> QED
    BY <2>1, CountAgrees
<1>3. CountIn(u, S, Len(s) + 1) = CountIn(u, S, Len(s)) + (IF x \in S THEN 1 ELSE 0)
  BY <1>1, CountStep
<1> QED
  BY <1>1, <1>2, <1>3 DEF u

\* Of two streams one after the other, each is counted for itself.
LEMMA CountConcat ==
  ASSUME NEW R, NEW s \in Seq(R), NEW u \in Seq(R), NEW S, NEW k \in 0..Len(u)
  PROVE  CountIn(s \o u, S, Len(s) + k) = CountIn(s, S, Len(s)) + CountIn(u, S, k)
<1> DEFINE c == s \o u
           n == Len(s)
<1>1. n \in Nat /\ Len(u) \in Nat
  OBVIOUS
<1>2. /\ \A i \in 1..n : c[i] = s[i]
      /\ \A i \in 1..Len(u) : c[n + i] = u[i]
  OBVIOUS
<1> HIDE DEF c, n
<1>3. CountIn(c, S, n) = CountIn(s, S, n)
  BY <1>1, <1>2, CountAgrees
<1> DEFINE Good == {m \in Nat : m <= Len(u)
                      => CountIn(c, S, n + m) = CountIn(s, S, n) + CountIn(u, S, m)}
<1>4. 0 \in Good
  <2>1. CountIn(s, S, n) \in Nat /\ CountIn(u, S, 0) = 0 /\ n + 0 = n
    BY <1>1, CountType, CountStep
  <2> QED
    BY <1>3, <2>1
<1>5. ASSUME NEW m \in Nat, m \in Good
      PROVE  m + 1 \in Good
  <2> SUFFICES ASSUME m + 1 <= Len(u)
               PROVE  CountIn(c, S, n + (m + 1)) = CountIn(s, S, n) + CountIn(u, S, m + 1)
    OBVIOUS
  <2>1. n + m \in Nat /\ n + (m + 1) = (n + m) + 1 /\ m + 1 \in 1..Len(u) /\ m <= Len(u)
    BY <1>1
  <2>2. c[(n + m) + 1] = u[m + 1]
    BY <1>2, <2>1
  <2>3. /\ CountIn(c, S, (n + m) + 1)
             = CountIn(c, S, n + m) + (IF c[(n + m) + 1] \in S THEN 1 ELSE 0)
        /\ CountIn(u, S, m + 1) = CountIn(u, S, m) + (IF u[m + 1] \in S THEN 1 ELSE 0)
    BY <2>1, CountStep, SMTT(40)
  <2>4. CountIn(c, S, n + m) = CountIn(s, S, n) + CountIn(u, S, m)
    BY <1>5, <2>1
  <2>5. CountIn(s, S, n) \in Nat /\ CountIn(u, S, m) \in Nat
    BY <1>1, CountType
  <2> QED
    BY <2>1, <2>2, <2>3, <2>4, <2>5
<1>6. Nat \subseteq Good
  <2> HIDE DEF Good
  <2> QED
    BY <1>4, <1>5, Induct
<1> QED
  BY <1>6 DEF c, n

\* The selections of two streams, one after the other, are the selection of both.
LEMMA SelectConcat ==
  ASSUME NEW R, NEW s \in Seq(R), NEW u \in Seq(R), NEW t \in Seq(R), NEW v \in Seq(R),
         NEW S, IsSelection(t, s, S), IsSelection(v, u, S)
  PROVE  IsSelection(t \o v, s \o u, S)
<1> DEFINE c == s \o u
           w == t \o v
<1>1. /\ Len(s) \in Nat /\ Len(u) \in Nat /\ Len(c) = Len(s) + Len(u)
      /\ Len(t) \in Nat /\ Len(v) \in Nat /\ Len(w) = Len(t) + Len(v)
  OBVIOUS
<1>2. /\ \A i \in 1..Len(s) : c[i] = s[i]
      /\ \A i \in 1..Len(u) : c[Len(s) + i] = u[i]
  OBVIOUS
<1>3. /\ \A i \in 1..Len(t) : w[i] = t[i]
      /\ \A i \in 1..Len(v) : w[Len(t) + i] = v[i]
  OBVIOUS
<1>4. \A k \in 0..Len(u) : CountIn(c, S, Len(s) + k) = Len(t) + CountIn(u, S, k)
  BY CountConcat DEF IsSelection
<1>5. \A i \in 1..Len(s) : CountIn(c, S, i) = CountIn(s, S, i)
  <2> TAKE i \in 1..Len(s)
  <2>1. i \in Nat /\ \A j \in 1..i : c[j] = s[j]
    BY <1>1, <1>2
  <2> HIDE DEF c
  <2> QED
    BY <2>1, CountAgrees
<1> HIDE DEF c, w
<1>6. Len(w) = CountIn(c, S, Len(c))
  BY <1>1, <1>4 DEF IsSelection
<1>7. ASSUME NEW i \in 1..Len(c), c[i] \in S
      PROVE  w[CountIn(c, S, i)] = c[i]
  <2>1. CASE i <= Len(s)
    <3>1. i \in 1..Len(s)
      BY <1>1, <2>1
    <3>2. c[i] = s[i] /\ CountIn(c, S, i) = CountIn(s, S, i)
      BY <1>2, <1>5, <3>1
    <3>3. CountIn(s, S, i) \in 1..Len(t)
      BY <1>1, <1>7, <3>1, <3>2, CountReaches DEF IsSelection
    <3> QED
      BY <1>3, <1>7, <3>1, <3>2, <3>3 DEF IsSelection
  <2>2. CASE i > Len(s)
    <3> DEFINE j == i - Len(s)
    <3>1. j \in 1..Len(u) /\ i = Len(s) + j /\ j \in 0..Len(u)
      BY <1>1, <2>2
    <3> HIDE DEF j
    <3>2. c[i] = u[j] /\ CountIn(c, S, i) = Len(t) + CountIn(u, S, j)
      BY <1>2, <1>4, <3>1
    <3>3. CountIn(u, S, j) \in 1..Len(v)
      BY <1>1, <1>7, <3>1, <3>2, CountReaches DEF IsSelection
    <3> QED
      BY <1>3, <1>7, <3>1, <3>2, <3>3 DEF IsSelection
  <2> QED
    BY <1>1, <2>1, <2>2
<1> QED
  BY <1>6, <1>7 DEF IsSelection, c, w

\* A stream of nothing but S is its own selection.
LEMMA SelectAll ==
  ASSUME NEW S, NEW u \in Seq(S)
  PROVE  IsSelection(u, u, S)
<1>1. Len(u) \in Nat /\ \A i \in 1..Len(u) : u[i] \in S
  BY ElementOfSeq, LenProperties
<1>2. ASSUME NEW n \in 0..Len(u)
      PROVE  CountIn(u, S, n) = n
  <2>1. {i \in 1..n : u[i] \in S} = 1..n
    BY <1>1
  <2>2. Cardinality(1..n) = n
    BY FS_Interval
  <2> QED
    BY <2>1, <2>2 DEF CountIn
<1> QED
  BY <1>1, <1>2 DEF IsSelection

\* Of a stream without any of S nothing is selected.
LEMMA SelectNone ==
  ASSUME NEW R, NEW u \in Seq(R), NEW S, \A i \in 1..Len(u) : u[i] \notin S
  PROVE  IsSelection(<<>>, u, S)
<1>1. Len(u) \in Nat /\ Len(<<>>) = 0
  OBVIOUS
<1>2. {i \in 1..Len(u) : u[i] \in S} = {}
  OBVIOUS
<1>3. CountIn(u, S, Len(u)) = 0
  BY <1>2, FS_EmptySet DEF CountIn
<1> QED
  BY <1>1, <1>3 DEF IsSelection

----------------------------------------------------------------------------
(* Sums of numbers in a row.                                               *)

\* The element of a set that a sum takes first.
AnyOf(s) == CHOOSE x \in s : TRUE

\* g has the sums of f over the sets of D.
Sums(f, D, g) ==
  g = [s \in D |-> IF s = {} THEN 0 ELSE f[AnyOf(s)] + g[s \ {AnyOf(s)}]]

\* The subsets of S with at most n elements.
UpTo(S, n) == {s \in SUBSET S : Cardinality(s) <= n}

\* Taking the first away leaves a smaller set.
LEMMA FirstTaken ==
  ASSUME NEW S, IsFiniteSet(S), NEW n \in Nat, NEW s \in UpTo(S, n + 1), s # {}
  PROVE  AnyOf(s) \in s /\ s \ {AnyOf(s)} \in UpTo(S, n)
<1>1. s \in SUBSET S /\ Cardinality(s) <= n + 1
  BY DEF UpTo
<1>2. IsFiniteSet(s)
  BY <1>1, FS_Subset
<1>3. AnyOf(s) \in s
  BY DEF AnyOf
<1>4. Cardinality(s \ {AnyOf(s)}) = Cardinality(s) - 1 /\ Cardinality(s) \in Nat
  BY <1>2, <1>3, FS_RemoveElement, FS_CardinalityType
<1> QED
  BY <1>1, <1>3, <1>4 DEF UpTo

\* The sums over the subsets of a finite set are a function.
LEMMA SumsExist ==
  ASSUME NEW S, IsFiniteSet(S), NEW f
  PROVE  \E g : Sums(f, SUBSET S, g)
<1> DEFINE T == {n \in Nat : \E g : Sums(f, UpTo(S, n), g)}
<1>1. 0 \in T
  <2> DEFINE g == [s \in UpTo(S, 0) |-> 0]
  <2>1. ASSUME NEW s \in UpTo(S, 0) PROVE s = {}
    <3>1. IsFiniteSet(s) /\ Cardinality(s) <= 0
      BY FS_Subset DEF UpTo
    <3> QED
      BY <3>1, FS_EmptySet, FS_CardinalityType
  <2>2. Sums(f, UpTo(S, 0), g)
    BY <2>1 DEF Sums
  <2> QED
    BY <2>2
<1>2. ASSUME NEW n \in Nat, n \in T PROVE n + 1 \in T
  <2>1. PICK g : Sums(f, UpTo(S, n), g)
    BY <1>2
  <2> DEFINE h == [s \in UpTo(S, n + 1) |->
                     IF s = {} THEN 0 ELSE f[AnyOf(s)] + g[s \ {AnyOf(s)}]]
  <2>2. ASSUME NEW s \in UpTo(S, n) PROVE h[s] = g[s]
    <3>1. IsFiniteSet(s) /\ Cardinality(s) \in Nat
      BY FS_Subset, FS_CardinalityType DEF UpTo
    <3>2. s \in UpTo(S, n + 1)
      BY <3>1 DEF UpTo
    <3> QED
      BY <2>1, <3>2 DEF Sums
  <2>3. ASSUME NEW s \in UpTo(S, n + 1), s # {}
        PROVE  g[s \ {AnyOf(s)}] = h[s \ {AnyOf(s)}]
    <3>1. s \ {AnyOf(s)} \in UpTo(S, n)
      BY <2>3, FirstTaken
    <3> HIDE DEF h
    <3> QED
      BY <2>2, <3>1
  <2>4. h = [s \in UpTo(S, n + 1) |-> IF s = {} THEN 0 ELSE f[AnyOf(s)] + h[s \ {AnyOf(s)}]]
    <3> DEFINE k == [s \in UpTo(S, n + 1) |->
                       IF s = {} THEN 0 ELSE f[AnyOf(s)] + h[s \ {AnyOf(s)}]]
    <3>1. ASSUME NEW s \in UpTo(S, n + 1) PROVE h[s] = k[s]
      <4>1. k[s] = IF s = {} THEN 0 ELSE f[AnyOf(s)] + h[s \ {AnyOf(s)}]
        OBVIOUS
      <4>2. h[s] = IF s = {} THEN 0 ELSE f[AnyOf(s)] + g[s \ {AnyOf(s)}]
        OBVIOUS
      <4> HIDE DEF h, k
      <4> QED
        BY <4>1, <4>2, <2>3
    <3>2. /\ h = [s \in UpTo(S, n + 1) |-> h[s]]
          /\ k = [s \in UpTo(S, n + 1) |-> k[s]]
      OBVIOUS
    <3>3. h = k
      <4> HIDE DEF h, k
      <4> QED
        BY <3>1, <3>2
    <3> QED
      BY <3>3
  <2> HIDE DEF h
  <2>5. Sums(f, UpTo(S, n + 1), h)
    BY <2>4 DEF Sums
  <2> QED
    BY <2>5
<1>3. Nat \subseteq T
  <2> HIDE DEF T
  <2> QED
    BY <1>1, <1>2, Induct
<1>4. Cardinality(S) \in Nat
  BY FS_CardinalityType
<1>5. UpTo(S, Cardinality(S)) = SUBSET S
  BY FS_Subset DEF UpTo
<1> QED
  BY <1>3, <1>4, <1>5

\* What the sum of f is taken from.
LEMMA SumTaken ==
  ASSUME NEW f, IsFiniteSet(DOMAIN f)
  PROVE  \E g : Sums(f, SUBSET DOMAIN f, g) /\ SumFunction(f) = g[DOMAIN f]
<1> DEFINE it == CHOOSE g : Sums(f, SUBSET DOMAIN f, g)
<1>1. Sums(f, SUBSET DOMAIN f, it)
  BY SumsExist
<1>2. SumFunction(f) = it[DOMAIN f]
  BY DEF SumFunction, SumFunctionOnSet, FoldFunctionOnSet, MapThenFoldSet, Sums, AnyOf
<1> QED
  BY <1>1, <1>2

\* The sums of one function over the sets that another agrees on are the other's.
LEMMA SumsAgree ==
  ASSUME NEW R, IsFiniteSet(R), NEW S \in SUBSET R, NEW f \in [S -> Int], NEW e \in [R -> Int],
         \A x \in S : e[x] = f[x],
         NEW g, Sums(f, SUBSET S, g), NEW h, Sums(e, SUBSET R, h), NEW sub \in SUBSET S
  PROVE  g[sub] \in Int /\ h[sub] = g[sub]
<1> DEFINE T == {n \in Nat : \A s \in UpTo(S, n) : g[s] \in Int /\ h[s] = g[s]}
<1>0. IsFiniteSet(S)
  BY FS_Subset
<1>1. ASSUME NEW s \in SUBSET S
      PROVE  /\ s = {} => g[s] = 0 /\ h[s] = 0
             /\ s # {} => /\ g[s] = f[AnyOf(s)] + g[s \ {AnyOf(s)}]
                          /\ h[s] = e[AnyOf(s)] + h[s \ {AnyOf(s)}]
  <2>1. s \in SUBSET R
    OBVIOUS
  <2> QED
    BY <2>1 DEF Sums
<1>2. 0 \in T
  <2>1. ASSUME NEW s \in UpTo(S, 0) PROVE s = {} /\ s \in SUBSET S
    <3>1. IsFiniteSet(s) /\ Cardinality(s) <= 0
      BY <1>0, FS_Subset DEF UpTo
    <3> QED
      BY <3>1, FS_EmptySet, FS_CardinalityType DEF UpTo
  <2>2. ASSUME NEW s \in UpTo(S, 0) PROVE g[s] = 0 /\ h[s] = 0
    <3>1. s = {} /\ s \in SUBSET S
      BY <2>1
    <3> QED
      BY <1>1, <3>1, Zenon
  <2>3. ASSUME NEW s \in UpTo(S, 0) PROVE g[s] \in Int /\ h[s] = g[s]
    BY <2>2
  <2> QED
    BY <2>3
<1>3. ASSUME NEW n \in Nat, n \in T PROVE n + 1 \in T
  <2>1. ASSUME NEW s \in UpTo(S, n + 1) PROVE g[s] \in Int /\ h[s] = g[s]
    <3>1. s \in SUBSET S
      BY DEF UpTo
    <3>2. CASE s = {}
      <4>1. g[s] = 0 /\ h[s] = 0
        BY <1>1, <3>1, <3>2, Zenon
      <4> QED
        BY <4>1
    <3>3. CASE s # {}
      <4> DEFINE p == AnyOf(s)
      <4>1. p \in s /\ s \ {p} \in UpTo(S, n)
        BY <1>0, <3>3, FirstTaken
      <4>2. g[s] = f[p] + g[s \ {p}] /\ h[s] = e[p] + h[s \ {p}]
        BY <1>1, <3>1, <3>3
      <4> HIDE DEF p
      <4>3. g[s \ {p}] \in Int /\ h[s \ {p}] = g[s \ {p}]
        BY <1>3, <4>1
      <4>4. f[p] \in Int /\ e[p] = f[p]
        BY <3>1, <4>1
      <4> QED
        BY <4>2, <4>3, <4>4
    <3> QED
      BY <3>2, <3>3
  <2> QED
    BY <2>1
<1>4. Nat \subseteq T
  <2> HIDE DEF T
  <2> QED
    BY <1>2, <1>3, Induct
<1>5. Cardinality(sub) \in Nat
  BY <1>0, FS_Subset, FS_CardinalityType
<1>6. sub \in UpTo(S, Cardinality(sub))
  BY <1>5 DEF UpTo
<1> QED
  BY <1>4, <1>5, <1>6

\* Any element may be taken first.
LEMMA SumsWithout ==
  ASSUME NEW S, IsFiniteSet(S), NEW f \in [S -> Int], NEW g, Sums(f, SUBSET S, g),
         NEW sub \in SUBSET S, NEW any \in sub
  PROVE  g[sub] = f[any] + g[sub \ {any}]
<1> DEFINE T == {n \in Nat : \A s \in UpTo(S, n) : \A x \in s : g[s] = f[x] + g[s \ {x}]}
<1>1. ASSUME NEW s \in SUBSET S PROVE g[s] \in Int
  BY SumsAgree
<1>2. \A s \in SUBSET S : s # {} => g[s] = f[AnyOf(s)] + g[s \ {AnyOf(s)}]
  BY DEF Sums
<1>3. 0 \in T
  <2>1. ASSUME NEW s \in UpTo(S, 0) PROVE s = {}
    <3>1. IsFiniteSet(s) /\ Cardinality(s) <= 0
      BY FS_Subset DEF UpTo
    <3> QED
      BY <3>1, FS_EmptySet, FS_CardinalityType
  <2> QED
    BY <2>1
<1>4. ASSUME NEW n \in Nat, n \in T PROVE n + 1 \in T
  <2>1. ASSUME NEW s \in UpTo(S, n + 1), NEW x \in s PROVE g[s] = f[x] + g[s \ {x}]
    <3> DEFINE p == AnyOf(s)
    <3>1. s \in SUBSET S /\ IsFiniteSet(s) /\ Cardinality(s) <= n + 1
      BY FS_Subset DEF UpTo
    <3>2. p \in s /\ s \ {p} \in UpTo(S, n)
      BY FirstTaken
    <3>3. g[s] = f[p] + g[s \ {p}]
      BY <1>2, <3>1
    <3> HIDE DEF p
    <3>4. CASE x = p
      BY <3>3, <3>4
    <3>5. CASE x # p
      <4>1. x \in s \ {p} /\ p \in s \ {x}
        BY <3>2, <3>5
      <4>2. s \ {x} \in UpTo(S, n)
        <5>1. Cardinality(s \ {x}) = Cardinality(s) - 1 /\ Cardinality(s) \in Nat
          BY <3>1, FS_RemoveElement, FS_CardinalityType
        <5> QED
          BY <3>1, <5>1 DEF UpTo
      <4> DEFINE r == (s \ {p}) \ {x}
      <4>3. r = (s \ {x}) \ {p} /\ r \in SUBSET S
        BY <3>1
      <4>4. g[s \ {p}] = f[x] + g[r]
        BY <1>4, <3>2, <4>1
      <4>5. g[s \ {x}] = f[p] + g[r]
        BY <1>4, <4>1, <4>2, <4>3
      <4> HIDE DEF r
      <4>6. g[r] \in Int /\ f[x] \in Int /\ f[p] \in Int
        BY <1>1, <3>1, <3>2, <4>3
      <4> QED
        BY <3>3, <4>4, <4>5, <4>6
    <3> QED
      BY <3>4, <3>5
  <2> QED
    BY <2>1
<1>5. Nat \subseteq T
  <2> HIDE DEF T
  <2> QED
    BY <1>3, <1>4, Induct
<1>6. Cardinality(sub) \in Nat
  BY FS_Subset, FS_CardinalityType
<1>7. sub \in UpTo(S, Cardinality(sub))
  BY <1>6 DEF UpTo
<1> QED
  BY <1>5, <1>6, <1>7

\* g has the sums of f, numbers for the finite set S.
SumsOf(f, S, g) == IsFiniteSet(S) /\ f \in [S -> Int] /\ Sums(f, SUBSET S, g)

\* The sums of numbers are numbers, those of what agrees the same.
LEMMA SumsOfMore ==
  ASSUME NEW R, NEW S, NEW f, NEW e, NEW g, NEW h, SumsOf(f, S, g), SumsOf(e, R, h),
         S \subseteq R, \A x \in S : e[x] = f[x]
  PROVE  g[S] \in Int /\ h[S] = g[S]
<1>1. IsFiniteSet(S) /\ f \in [S -> Int] /\ Sums(f, SUBSET S, g)
  BY DEF SumsOf
<1>2. IsFiniteSet(R) /\ e \in [R -> Int] /\ Sums(e, SUBSET R, h)
  BY DEF SumsOf
<1>3. ASSUME NEW s \in SUBSET S PROVE g[s] \in Int /\ h[s] = g[s]
  BY <1>1, <1>2, SumsAgree
<1> QED
  BY <1>3

\* Any element may be left for the end.
LEMMA SumsLast ==
  ASSUME NEW R, NEW S, NEW f, NEW e, NEW g, NEW h, SumsOf(f, S, g), SumsOf(e, R, h),
         NEW last, last \in R, R \ {last} = S, \A x \in S : e[x] = f[x]
  PROVE  h[R] = g[S] + e[last]
<1>1. IsFiniteSet(R) /\ e \in [R -> Int] /\ Sums(e, SUBSET R, h)
  BY DEF SumsOf
<1>2. ASSUME NEW s \in SUBSET R, NEW any \in s PROVE h[s] = e[any] + h[s \ {any}]
  BY <1>1, SumsWithout
<1>3. h[R] = e[last] + h[S]
  BY <1>2
<1>4. g[S] \in Int /\ h[S] = g[S]
  BY SumsOfMore
<1>5. e[last] \in Int
  BY <1>1
<1> QED
  BY <1>3, <1>4, <1>5

\* What the sum of f is taken from.
LEMMA SumsTaken ==
  ASSUME NEW S, IsFiniteSet(S), NEW f \in [S -> Int]
  PROVE  \E g : SumsOf(f, S, g) /\ SumFunction(f) = g[S]
<1>1. DOMAIN f = S
  OBVIOUS
<1>2. \E g : Sums(f, SUBSET S, g) /\ SumFunction(f) = g[S]
  BY <1>1, SumTaken
<1> QED
  BY <1>2 DEF SumsOf

\* A sum of numbers is a number.
LEMMA SumType ==
  ASSUME NEW n \in Nat, NEW f \in [1 .. n -> Int]
  PROVE  SumFunction(f) \in Int
<1> DEFINE S == 1 .. n
<1>1. IsFiniteSet(S) /\ f \in [S -> Int]
  BY FS_Interval
<1> HIDE DEF S
<1>2. PICK g : SumsOf(f, S, g) /\ SumFunction(f) = g[S]
  BY <1>1, SumsTaken
<1>3. g[S] \in Int
  BY <1>2, SumsOfMore
<1> QED
  BY <1>2, <1>3

\* The sum of no numbers.
LEMMA SumOfNone == ASSUME NEW f \in [1 .. 0 -> Int] PROVE SumFunction(f) = 0
<1>1. DOMAIN f = {} /\ IsFiniteSet({})
  BY FS_EmptySet
<1>2. PICK g : Sums(f, SUBSET DOMAIN f, g) /\ SumFunction(f) = g[DOMAIN f]
  BY <1>1, SumTaken
<1> QED
  BY <1>1, <1>2 DEF Sums

\* One number more.
LEMMA SumOneMore ==
  ASSUME NEW n \in Nat, NEW f \in [1 .. n -> Int], NEW e \in [1 .. n + 1 -> Int],
         \A x \in 1 .. n : e[x] = f[x]
  PROVE  SumFunction(e) = SumFunction(f) + e[n + 1]
<1> DEFINE S == 1 .. n
           R == 1 .. n + 1
           last == n + 1
<1>1. R \ {last} = S /\ last \in R /\ S \subseteq R
  OBVIOUS
<1>2. IsFiniteSet(S) /\ IsFiniteSet(R)
  BY FS_Interval
<1>3. f \in [S -> Int] /\ e \in [R -> Int] /\ \A x \in S : e[x] = f[x]
  OBVIOUS
<1> HIDE DEF S, R, last
<1>4. PICK g : SumsOf(f, S, g) /\ SumFunction(f) = g[S]
  BY <1>2, <1>3, SumsTaken
<1>5. PICK h : SumsOf(e, R, h) /\ SumFunction(e) = h[R]
  BY <1>2, <1>3, SumsTaken
<1>6. h[R] = g[S] + e[last]
  BY <1>1, <1>3, <1>4, <1>5, SumsLast
<1>7. SumFunction(e) = SumFunction(f) + e[last]
  BY <1>4, <1>5, <1>6, Zenon
<1> QED
  BY <1>7 DEF last

\* The sum of noughts.
LEMMA SumOfNoughts ==
  ASSUME NEW n \in Nat, NEW f \in [1 .. n -> Int], \A x \in 1 .. n : f[x] = 0
  PROVE  SumFunction(f) = 0
<1> DEFINE T == {m \in Nat : \A e \in [1 .. m -> Int] :
                   (\A x \in 1 .. m : e[x] = 0) => SumFunction(e) = 0}
<1>1. 0 \in T
  BY SumOfNone
<1>2. ASSUME NEW m \in Nat, m \in T PROVE m + 1 \in T
  <2> SUFFICES ASSUME NEW e \in [1 .. m + 1 -> Int], \A x \in 1 .. m + 1 : e[x] = 0
               PROVE  SumFunction(e) = 0
    OBVIOUS
  <2> DEFINE d == [x \in 1 .. m |-> e[x]]
  <2>1. d \in [1 .. m -> Int] /\ \A x \in 1 .. m : d[x] = 0 /\ e[x] = d[x]
    OBVIOUS
  <2>2. e[m + 1] = 0
    OBVIOUS
  <2> HIDE DEF d
  <2>3. SumFunction(d) = 0
    BY <1>2, <2>1
  <2>4. SumFunction(e) = SumFunction(d) + e[m + 1]
    BY <2>1, SumOneMore
  <2> QED
    BY <2>2, <2>3, <2>4
<1>3. Nat \subseteq T
  <2> HIDE DEF T
  <2> QED
    BY <1>1, <1>2, Induct
<1> QED
  BY <1>3

\* The sum of sums.
LEMMA SumOfSums ==
  ASSUME NEW n \in Nat, NEW f \in [1 .. n -> Int], NEW g \in [1 .. n -> Int],
         NEW h \in [1 .. n -> Int], \A x \in 1 .. n : h[x] = f[x] + g[x]
  PROVE  SumFunction(h) = SumFunction(f) + SumFunction(g)
<1> DEFINE Added(m) ==
      \A a \in [1 .. m -> Int], b \in [1 .. m -> Int], c \in [1 .. m -> Int] :
        (\A x \in 1 .. m : c[x] = a[x] + b[x]) => SumFunction(c) = SumFunction(a) + SumFunction(b)
    T == {m \in Nat : Added(m)}
<1>1. 0 \in T
  <2>1. ASSUME NEW a \in [1 .. 0 -> Int] PROVE SumFunction(a) = 0
    BY SumOfNone
  <2> QED
    BY <2>1
<1>2. ASSUME NEW m \in Nat, m \in T PROVE m + 1 \in T
  <2> SUFFICES Added(m + 1)
    <3> HIDE DEF Added
    <3> QED
      OBVIOUS
  <2> TAKE a \in [1 .. m + 1 -> Int], b \in [1 .. m + 1 -> Int], c \in [1 .. m + 1 -> Int]
  <2> HAVE \A x \in 1 .. m + 1 : c[x] = a[x] + b[x]
  <2> DEFINE less(e) == [x \in 1 .. m |-> e[x]]
  <2>1. ASSUME NEW e \in [1 .. m + 1 -> Int]
        PROVE  /\ less(e) \in [1 .. m -> Int] /\ SumFunction(less(e)) \in Int
               /\ SumFunction(e) = SumFunction(less(e)) + e[m + 1]
    <3> DEFINE d == less(e)
    <3>1. d \in [1 .. m -> Int] /\ \A x \in 1 .. m : e[x] = d[x]
      OBVIOUS
    <3> HIDE DEF d
    <3>2. SumFunction(d) \in Int /\ SumFunction(e) = SumFunction(d) + e[m + 1]
      BY <3>1, SumType, SumOneMore
    <3> QED
      BY <3>1, <3>2 DEF d
  <2>2. \A x \in 1 .. m : less(c)[x] = less(a)[x] + less(b)[x]
    OBVIOUS
  <2>3. c[m + 1] = a[m + 1] + b[m + 1] /\ a[m + 1] \in Int /\ b[m + 1] \in Int
    OBVIOUS
  <2> HIDE DEF less
  <2>4. SumFunction(less(c)) = SumFunction(less(a)) + SumFunction(less(b))
    BY <1>2, <2>1, <2>2
  <2>5. /\ SumFunction(a) = SumFunction(less(a)) + a[m + 1] /\ SumFunction(less(a)) \in Int
        /\ SumFunction(b) = SumFunction(less(b)) + b[m + 1] /\ SumFunction(less(b)) \in Int
        /\ SumFunction(c) = SumFunction(less(c)) + c[m + 1]
    BY <2>1
  <2> QED
    BY <2>3, <2>4, <2>5
<1>3. Nat \subseteq T
  <2> HIDE DEF T
  <2> QED
    BY <1>1, <1>2, Induct
<1>4. Added(n)
  BY <1>3
<1> QED
  BY <1>4

\* Of n numbers those of g are those of f but for one.
OnlyAt(x, n, f, g) ==
  /\ n \in Nat /\ f \in [1 .. n -> Int] /\ g \in [1 .. n -> Int] /\ x \in 1 .. n
  /\ \A y \in 1 .. n : y # x => g[y] = f[y]

\* A sum changes by what one of its numbers changes.
LEMMA SumUpdate ==
  ASSUME NEW x, NEW n, NEW f, NEW g, OnlyAt(x, n, f, g)
  PROVE  SumFunction(g) = SumFunction(f) + (g[x] - f[x])
<1> DEFINE Changed(m) ==
      \A a \in [1 .. m -> Int], b \in [1 .. m -> Int], z \in 1 .. m :
        (\A y \in 1 .. m : y # z => b[y] = a[y])
          => SumFunction(b) = SumFunction(a) + (b[z] - a[z])
    T == {m \in Nat : Changed(m)}
<1>1. 0 \in T
  OBVIOUS
<1>2. ASSUME NEW m \in Nat, m \in T PROVE m + 1 \in T
  <2> SUFFICES Changed(m + 1)
    <3> HIDE DEF Changed
    <3> QED
      OBVIOUS
  <2> TAKE a \in [1 .. m + 1 -> Int], b \in [1 .. m + 1 -> Int], z \in 1 .. m + 1
  <2> HAVE \A y \in 1 .. m + 1 : y # z => b[y] = a[y]
  <2> DEFINE less(e) == [y \in 1 .. m |-> e[y]]
  <2>1. ASSUME NEW e \in [1 .. m + 1 -> Int]
        PROVE  /\ less(e) \in [1 .. m -> Int] /\ SumFunction(less(e)) \in Int
               /\ SumFunction(e) = SumFunction(less(e)) + e[m + 1]
    <3> DEFINE d == less(e)
    <3>1. d \in [1 .. m -> Int] /\ \A y \in 1 .. m : e[y] = d[y]
      OBVIOUS
    <3> HIDE DEF d
    <3>2. SumFunction(d) \in Int /\ SumFunction(e) = SumFunction(d) + e[m + 1]
      BY <3>1, SumType, SumOneMore
    <3> QED
      BY <3>1, <3>2 DEF d
  <2>2. a[m + 1] \in Int /\ b[m + 1] \in Int /\ a[z] \in Int /\ b[z] \in Int
    OBVIOUS
  <2>3. /\ SumFunction(a) = SumFunction(less(a)) + a[m + 1] /\ SumFunction(less(a)) \in Int
        /\ SumFunction(b) = SumFunction(less(b)) + b[m + 1] /\ SumFunction(less(b)) \in Int
    <3> HIDE DEF less
    <3> QED
      BY <2>1
  <2>5. CASE z = m + 1
    <3>1. less(b) = less(a)
      BY <2>5
    <3> HIDE DEF less
    <3> QED
      BY <2>2, <2>3, <2>5, <3>1
  <2>4. CASE z # m + 1
    <3>1. z \in 1 .. m /\ \A y \in 1 .. m : y # z => less(b)[y] = less(a)[y]
      BY <2>4
    <3>2. less(b)[z] = b[z] /\ less(a)[z] = a[z] /\ b[m + 1] = a[m + 1]
      BY <2>4, <3>1
    <3> HIDE DEF less
    <3>3. SumFunction(less(b)) = SumFunction(less(a)) + (less(b)[z] - less(a)[z])
      BY <1>2, <2>1, <3>1
    <3> QED
      BY <2>2, <2>3, <3>2, <3>3
  <2> QED
    BY <2>4, <2>5
<1>3. Nat \subseteq T
  <2> HIDE DEF T
  <2> QED
    BY <1>1, <1>2, Induct
<1>4. /\ n \in Nat /\ f \in [1 .. n -> Int] /\ g \in [1 .. n -> Int] /\ x \in 1 .. n
      /\ \A y \in 1 .. n : y # x => g[y] = f[y]
  BY DEF OnlyAt
<1>5. Changed(n)
  BY <1>3, <1>4
<1> QED
  BY <1>4, <1>5
=============================================================================
