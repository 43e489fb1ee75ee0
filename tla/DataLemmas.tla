----------------------------- MODULE DataLemmas -----------------------------
(* Induction over the data of a fold.  The library states induction with an *)
(* operator for the hypothesis; here it is a set, and its instances can be  *)
(* cited.  A fold over a sequence is the iteration of a function over the   *)
(* sets of its indices, the largest index last, and such an iteration       *)
(* exists.  So does a sum over a set, whatever order adds it up.            *)
EXTENDS Naturals, Sequences, SequencesExt, SequenceTheorems,
        Filtering, FiniteSetTheorems, WellFoundedInduction, TLAPS

\* A set of natural numbers that is not empty has a least one.
LEMMA LeastNumber ==
  ASSUME NEW T \in SUBSET Nat, T # {}
  PROVE  \E n \in T : \A m \in T : n <= m
<1>. DEFINE Less == {ss \in Nat \X Nat : ss[1] < ss[2]}
<1>0. IsWellFoundedOn(Less, Nat)
  BY NatLessThanWellFounded, Zenon DEF OpToRel
<1>1. PICK n \in T : \A m \in T : ~(<<m, n>> \in Less)
  <2>. HIDE DEF Less
  <2>. QED BY <1>0, WFMin
<1>2. ASSUME NEW m \in T PROVE n <= m
  <2>1. m \in Nat /\ n \in Nat OBVIOUS
  <2>2. ~(<<m, n>> \in Less) BY <1>1
  <2>3. ~(m < n) BY <2>1, <2>2
  <2>. QED BY <2>1, <2>3
<1>. QED BY <1>2

\* A set with 0, and with the successor of each of its numbers, has them all.
LEMMA Induction ==
  ASSUME NEW S, 0 \in S, \A n \in Nat : n \in S => n + 1 \in S
  PROVE  Nat \subseteq S
<1> DEFINE T == Nat \ S
<1>1. SUFFICES ASSUME T # {} PROVE FALSE OBVIOUS
<1>2. PICK n \in T : \A m \in T : n <= m BY <1>1, LeastNumber
<1>3. n # 0 /\ n - 1 \in Nat BY <1>2
<1>4. n - 1 \in S BY <1>2, <1>3
<1>. QED BY <1>2, <1>3, <1>4

\* A set of indices that is not empty has a largest one.
LEMMA MaxIsLargest ==
  ASSUME NEW n \in Nat, NEW s \in SUBSET (1 .. n), s # {}
  PROVE  Max(s) \in s /\ \A j \in s : j <= Max(s)
<1>. DEFINE Bounds == {b \in Nat : \A j \in s : j <= b}
<1>1. n \in Bounds OBVIOUS
<1>2. PICK b \in Bounds : \A c \in Bounds : b <= c BY <1>1, LeastNumber
<1>3. b \in s
  <2>1. SUFFICES ASSUME b \notin s PROVE FALSE OBVIOUS
  <2>2. PICK j \in s : TRUE OBVIOUS
  <2>3. b - 1 \in Nat BY <1>2, <2>2
  <2>4. b - 1 \in Bounds BY <1>2, <2>1, <2>3
  <2>. QED BY <1>2, <2>4
<1>4. \A j \in s : b >= j BY <1>2
<1>. QED BY <1>3, <1>4 DEF Max

LEMMA LastIsLargest ==
  ASSUME NEW m \in Nat
  PROVE  Max(1 .. (m + 1)) = m + 1
<1>. DEFINE s == 1 .. (m + 1)
<1>1. m + 1 \in s /\ s \in SUBSET (1 .. (m + 1)) /\ m + 1 \in Nat OBVIOUS
<1>2. Max(s) \in s /\ m + 1 <= Max(s)
  <2>. HIDE DEF s
  <2>. QED BY <1>1, MaxIsLargest
<1>. QED BY <1>2

(* What the folds of the community modules choose: for each set of indices *)
(* the result of taking its members in order.                               *)
IsIteration(it, base, G, m) ==
  it = [s \in SUBSET (1 .. m) |-> IF s = {} THEN base ELSE G[<<it[s \ {Max(s)}], Max(s)>>]]

\* There is one, whatever function is iterated.
LEMMA IterationExists ==
  ASSUME NEW A, NEW base \in A, NEW n \in Nat, NEW G \in [A \X (1 .. n) -> A]
  PROVE  \E it \in [SUBSET (1 .. n) -> A] : IsIteration(it, base, G, n)
<1>. DEFINE Good == {m \in Nat : m <= n => \E it \in [SUBSET (1 .. m) -> A] : IsIteration(it, base, G, m)}
<1>1. 0 \in Good
  <2>. DEFINE it == [s \in SUBSET (1 .. 0) |-> base]
  <2>1. SUBSET (1 .. 0) = {{}} OBVIOUS
  <2>2. it \in [SUBSET (1 .. 0) -> A] OBVIOUS
  <2>3. IsIteration(it, base, G, 0) BY <2>1 DEF IsIteration
  <2>. QED BY <2>2, <2>3
<1>2. ASSUME NEW m \in Nat, m \in Good PROVE m + 1 \in Good
  <2>1. SUFFICES ASSUME m + 1 <= n
                PROVE  \E it \in [SUBSET (1 .. (m + 1)) -> A] : IsIteration(it, base, G, m + 1)
    <3>1. m + 1 \in Nat OBVIOUS
    <3>. QED BY <3>1, Zenon
  <2>2. \E it \in [SUBSET (1 .. m) -> A] : IsIteration(it, base, G, m)
    <3>1. m <= n BY <2>1
    <3>. QED BY <1>2, <3>1, Zenon
  <2>3. PICK it \in [SUBSET (1 .. m) -> A] : IsIteration(it, base, G, m) BY <2>2
  <2>4. ASSUME NEW s \in SUBSET (1 .. m)
        PROVE  it[s] = IF s = {} THEN base ELSE G[<<it[s \ {Max(s)}], Max(s)>>]
    BY <2>3 DEF IsIteration
  <2>. HIDE DEF Good
  <2>. DEFINE Taken(s) == IF m + 1 \in s THEN G[<<it[s \ {m + 1}], m + 1>>] ELSE it[s]
              longer == [s \in SUBSET (1 .. (m + 1)) |-> Taken(s)]
  <2>5. ASSUME NEW s \in SUBSET (1 .. (m + 1)) PROVE Taken(s) \in A
      <4>1. CASE m + 1 \in s
        <5>1. s \ {m + 1} \in SUBSET (1 .. m) OBVIOUS
        <5>2. it[s \ {m + 1}] \in A BY <5>1, <2>3
        <5>3. m + 1 \in 1 .. n BY <2>1
        <5>. QED BY <4>1, <5>2, <5>3
      <4>2. CASE m + 1 \notin s
        <5>1. s \in SUBSET (1 .. m) BY <4>2
        <5>. QED BY <4>2, <5>1, <2>3
      <4>. QED BY <4>1, <4>2
  <2>6. longer \in [SUBSET (1 .. (m + 1)) -> A]
    <3>. HIDE DEF Taken
    <3>. QED BY <2>5
  <2>7. ASSUME NEW s \in SUBSET (1 .. (m + 1))
        PROVE  Taken(s) = IF s = {} THEN base ELSE G[<<longer[s \ {Max(s)}], Max(s)>>]
    <3>1. CASE m + 1 \in s
      <4>0. m + 1 \in Nat /\ s # {} BY <3>1
      <4>1. Max(s) \in s /\ \A j \in s : j <= Max(s) BY <4>0, MaxIsLargest, Zenon
      <4>2. Max(s) \in 1 .. (m + 1) /\ m + 1 <= Max(s) BY <3>1, <4>1
      <4>5. Max(s) = m + 1 BY <4>2
      <4>3. s \ {m + 1} \in SUBSET (1 .. m) OBVIOUS
      <4>4. longer[s \ {m + 1}] = it[s \ {m + 1}] BY <4>3
      <4>. HIDE DEF longer
      <4>. QED BY <3>1, <4>5, <4>4
    <3>2. CASE m + 1 \notin s
      <4>1. s \in SUBSET (1 .. m) BY <3>2
      <4>3. CASE s = {} BY <4>1, <4>3, <2>4
      <4>4. CASE s # {}
        <5>1. Max(s) \in s BY <4>1, <4>4, MaxIsLargest
        <5>2. s \ {Max(s)} \in SUBSET (1 .. (m + 1)) /\ m + 1 \notin s \ {Max(s)} BY <4>1, <3>2
        <5>3. longer[s \ {Max(s)}] = it[s \ {Max(s)}] BY <5>2
        <5>. HIDE DEF longer
        <5>. QED BY <3>2, <4>1, <4>4, <5>3, <2>4
      <4>. QED BY <4>3, <4>4
    <3>. QED BY <3>1, <3>2
  <2>8. IsIteration(longer, base, G, m + 1)
    <3>. HIDE DEF Taken
    <3>1. longer = [s \in SUBSET (1 .. (m + 1)) |-> IF s = {} THEN base ELSE G[<<longer[s \ {Max(s)}], Max(s)>>]]
      BY <2>7
    <3>. QED BY <3>1 DEF IsIteration
  <2>. QED BY <2>6, <2>8
<1>3. n \in Good
  <2>. HIDE DEF Good
  <2>. QED BY <1>1, <1>2, Induction
<1>4. n <= n OBVIOUS
<1>. QED BY <1>3, <1>4, Zenon

\* What the first and each further step keep, all of them keep.
LEMMA IterationStays ==
  ASSUME NEW A, NEW n \in Nat, NEW it, it[{}] \in A,
         \A m \in 1 .. n : it[(1 .. m) \ {Max(1 .. m)}] \in A => it[1 .. m] \in A
  PROVE  it[1 .. n] \in A
<1>. DEFINE Good == {m \in Nat : m <= n => it[1 .. m] \in A}
<1>1. 0 \in Good
  <2>1. 1 .. 0 = {} OBVIOUS
  <2>. QED BY <2>1
<1>2. ASSUME NEW m \in Nat, m \in Good PROVE m + 1 \in Good
  <2>1. SUFFICES ASSUME m + 1 <= n PROVE it[1 .. (m + 1)] \in A
    <3>1. m + 1 \in Nat OBVIOUS
    <3>. QED BY <3>1
  <2>2. Max(1 .. (m + 1)) = m + 1 BY LastIsLargest
  <2>3. (1 .. (m + 1)) \ {m + 1} = 1 .. m OBVIOUS
  <2>4. it[1 .. m] \in A BY <1>2, <2>1
  <2>5. m + 1 \in 1 .. n BY <2>1
  <2>. HIDE DEF Good
  <2>. QED BY <2>2, <2>3, <2>4, <2>5
<1>3. Nat \subseteq Good
  <2>. HIDE DEF Good
  <2>. QED BY <1>1, <1>2, Induction
<1>4. n \in Good BY <1>3
<1>. QED BY <1>4

\* v has the values a fold of G goes through, one step at a time.
IsRun(v, base, G, n) ==
    v[0] = base /\ \A m \in 1 .. n : v[m] = G[<<v[m - 1], m>>]

\* The steps of iter are those of G, as long as they stay in A.
Follows(iter, A, G, n) ==
    \A s \in SUBSET (1 .. n) :
        s # {} /\ iter[s \ {Max(s)}] \in A => iter[s] = G[<<iter[s \ {Max(s)}], Max(s)>>]

RunsThrough(iter, A, base, G, n) ==
    \E v \in [0 .. n -> A] : IsRun(v, base, G, n) /\ v[n] = iter[1 .. n]

\* An iteration whose steps agree with G on A goes through a run of G.
LEMMA IterationRuns ==
    ASSUME NEW A, NEW base \in A, NEW n \in Nat, NEW G, NEW iter,
           iter[{}] = base, Follows(iter, A, G, n), \A a \in A, m \in 1 .. n : G[<<a, m>>] \in A
    PROVE  RunsThrough(iter, A, base, G, n)
<1>. DEFINE Good == {m \in Nat : m <= n => iter[1 .. m] \in A}
            v == [m \in 0 .. n |-> iter[1 .. m]]
<1>1. ASSUME NEW m \in Nat, m + 1 <= n, iter[1 .. m] \in A
      PROVE  iter[1 .. (m + 1)] = G[<<iter[1 .. m], m + 1>>] /\ iter[1 .. (m + 1)] \in A
    <2>1. Max(1 .. (m + 1)) = m + 1 BY LastIsLargest
    <2>2. (1 .. (m + 1)) \ {m + 1} = 1 .. m OBVIOUS
    <2>3. (1 .. (m + 1)) \in SUBSET (1 .. n) /\ m + 1 \in 1 .. (m + 1) /\ m + 1 \in 1 .. n BY <1>1
    <2>4. iter[1 .. (m + 1)] = G[<<iter[1 .. m], m + 1>>] BY <1>1, <2>1, <2>2, <2>3 DEF Follows
    <2>. QED BY <1>1, <2>3, <2>4
<1>2. 0 \in Good
    <2>1. 1 .. 0 = {} OBVIOUS
    <2>. QED BY <2>1
<1>3. ASSUME NEW m \in Nat, m \in Good PROVE m + 1 \in Good
    <2>1. SUFFICES ASSUME m + 1 <= n PROVE iter[1 .. (m + 1)] \in A OBVIOUS
    <2>2. iter[1 .. m] \in A BY <1>3, <2>1
    <2>. QED BY <1>1, <2>1, <2>2
<1>4. \A m \in 0 .. n : iter[1 .. m] \in A
    <2>1. Nat \subseteq Good
        <3>. HIDE DEF Good
        <3>. QED BY <1>2, <1>3, Induction
    <2>. QED BY <2>1
<1>5. v \in [0 .. n -> A] BY <1>4
<1>6. v[0] = base /\ v[n] = iter[1 .. n]
    <2>1. 1 .. 0 = {} OBVIOUS
    <2>. QED BY <2>1
<1>7. ASSUME NEW m \in 1 .. n PROVE v[m] = G[<<v[m - 1], m>>]
    <2>1. m - 1 \in Nat /\ (m - 1) + 1 = m /\ m - 1 \in 0 .. n /\ m \in 0 .. n OBVIOUS
    <2>2. iter[1 .. (m - 1)] \in A BY <1>4, <2>1
    <2>3. iter[1 .. ((m - 1) + 1)] = G[<<iter[1 .. (m - 1)], (m - 1) + 1>>] BY <1>1, <2>1, <2>2
    <2>. QED BY <2>1, <2>3
<1>. HIDE DEF v
<1>. QED BY <1>5, <1>6, <1>7 DEF IsRun, RunsThrough

\* What stays of a sequence when its k-th element is removed.
LEMMA RemovedAt ==
    ASSUME NEW S, NEW s \in Seq(S), NEW k \in DOMAIN s
    PROVE  LET t == RemoveAt(s, k) IN
           /\ t \in Seq(S) /\ Len(t) = Len(s) - 1
           /\ \A j \in 1 .. Len(t) : t[j] = s[IF j < k THEN j ELSE j + 1]
<1>. DEFINE t == RemoveAt(s, k)
            a == SubSeq(s, 1, k - 1)
            b == SubSeq(s, k + 1, Len(s))
<1>1. /\ Len(s) \in Nat /\ k \in 1 .. Len(s) /\ DOMAIN s = 1 .. Len(s)
      /\ \A i \in 1 .. Len(s) : s[i] \in S
    BY LenProperties
<1>2. /\ a \in Seq(S) /\ Len(a) = k - 1
      /\ \A j \in 1 .. k - 1 : a[j] = s[j]
    <2>1. \A i \in 1 .. k - 1 : s[i] \in S BY <1>1
    <2>2. 1 \in Int /\ k - 1 \in Int BY <1>1
    <2>3. /\ a \in Seq(S)
          /\ Len(a) = IF 1 <= k - 1 THEN k - 1 - 1 + 1 ELSE 0
          /\ \A j \in 1 .. k - 1 - 1 + 1 : a[j] = s[1 + j - 1]
        BY <2>1, <2>2, SubSeqProperties
    <2>. HIDE DEF a
    <2>. QED BY <2>3, <1>1
<1>3. /\ b \in Seq(S) /\ Len(b) = Len(s) - k
      /\ \A j \in 1 .. Len(s) - k : b[j] = s[k + j]
    <2>1. \A i \in k + 1 .. Len(s) : s[i] \in S BY <1>1
    <2>2. k + 1 \in Int /\ Len(s) \in Int BY <1>1
    <2>3. /\ b \in Seq(S)
          /\ Len(b) = IF k + 1 <= Len(s) THEN Len(s) - (k + 1) + 1 ELSE 0
          /\ \A j \in 1 .. Len(s) - (k + 1) + 1 : b[j] = s[k + 1 + j - 1]
        BY <2>1, <2>2, SubSeqProperties
    <2>. HIDE DEF b
    <2>4. Len(b) = Len(s) - k
        <3>1. CASE k = Len(s) BY <2>3, <1>1, <3>1
        <3>2. CASE k < Len(s)
            <4>1. k + 1 <= Len(s) BY <3>2, <1>1
            <4>2. Len(b) = Len(s) - (k + 1) + 1 BY <4>1, <2>3
            <4>. QED BY <4>2, <1>1
        <3>. QED BY <3>1, <3>2, <1>1
    <2>5. ASSUME NEW j \in 1 .. Len(s) - k PROVE b[j] = s[k + j]
        <3>1. j \in 1 .. Len(s) - (k + 1) + 1 /\ k + 1 + j - 1 = k + j BY <1>1
        <3>. QED BY <3>1, <2>3
    <2>. QED BY <2>3, <2>4, <2>5
<1>4. t = a \o b BY Zenon DEF RemoveAt
<1>. HIDE DEF t, a, b
<1>5. /\ t \in Seq(S) /\ Len(t) = Len(a) + Len(b)
      /\ \A j \in 1 .. Len(a) + Len(b) :
            t[j] = IF j <= Len(a) THEN a[j] ELSE b[j - Len(a)]
    BY <1>2, <1>3, <1>4, ConcatProperties
<1>6. Len(t) = Len(s) - 1 BY <1>1, <1>2, <1>3, <1>5
<1>7. ASSUME NEW j \in 1 .. Len(t) PROVE t[j] = s[IF j < k THEN j ELSE j + 1]
    <2>1. CASE j < k BY <1>1, <1>2, <1>3, <1>5, <1>6, <2>1
    <2>2. CASE ~(j < k)
        <3>1. /\ j \in 1 .. Len(a) + Len(b) /\ ~(j <= Len(a))
              /\ j - Len(a) \in 1 .. Len(s) - k /\ k + (j - Len(a)) = j + 1
            BY <1>1, <1>2, <1>3, <1>6, <2>2
        <3>. QED BY <3>1, <1>3, <1>5, <2>2
    <2>. QED BY <2>1, <2>2
<1>. QED BY <1>5, <1>6, <1>7 DEF t

------------------------------------------------------------------------------
(* Sums.  MapThenSumSet chooses an element of each set it sums over, so how   *)
(* a sum changes with its set is a fact about every order of the elements.    *)

\* What MapThenSumSet chooses: for each subset of S the sum of B over it.
Chosen(T) == CHOOSE x \in T : TRUE
IsSum(it, B, S) ==
    it = [T \in SUBSET S |-> IF T = {} THEN 0 ELSE B[Chosen(T)] + it[T \ {Chosen(T)}]]

\* MapThenSumSet of B over R, as its definition reads when it is expanded.
SumOver(B, R) == (CHOOSE it : IsSum(it, B, R))[R]

\* The subsets of a finite set lose one element at a time.
LEMMA OneChosen ==
    ASSUME NEW S, IsFiniteSet(S), NEW T \in SUBSET S, T # {}
    PROVE  /\ Chosen(T) \in T /\ Chosen(T) \in S
           /\ T \ {Chosen(T)} \in SUBSET S
           /\ Cardinality(T) \in Nat \ {0}
           /\ Cardinality(T \ {Chosen(T)}) = Cardinality(T) - 1
<1>1. Chosen(T) \in T BY DEF Chosen
<1>2. IsFiniteSet(T) BY FS_Subset
<1>3. Cardinality(T) \in Nat /\ Cardinality(T) # 0 BY <1>2, FS_CardinalityType, FS_EmptySet
<1>4. Cardinality(T \ {Chosen(T)}) = Cardinality(T) - 1 BY <1>1, <1>2, FS_RemoveElement
<1>. QED BY <1>1, <1>3, <1>4

\* So does any of its elements.
LEMMA OneTaken ==
    ASSUME NEW S, IsFiniteSet(S), NEW T \in SUBSET S, NEW x \in T
    PROVE  /\ T \ {x} \in SUBSET S /\ Cardinality(T) \in Nat \ {0}
           /\ Cardinality(T \ {x}) = Cardinality(T) - 1
<1>1. IsFiniteSet(T) BY FS_Subset
<1>2. Cardinality(T) \in Nat /\ Cardinality(T) # 0 BY <1>1, FS_CardinalityType, FS_EmptySet
<1>3. Cardinality(T \ {x}) = Cardinality(T) - 1 BY <1>1, FS_RemoveElement
<1>. QED BY <1>2, <1>3

\* There is a sum.
LEMMA SumExists ==
    ASSUME NEW S, IsFiniteSet(S), NEW B \in [S -> Nat]
    PROVE  \E it \in [SUBSET S -> Nat] : IsSum(it, B, S)
<1>. DEFINE Upto(n) == {T \in SUBSET S : Cardinality(T) <= n}
            Sums(it, n) == \A T \in Upto(n) :
                it[T] = IF T = {} THEN 0 ELSE B[Chosen(T)] + it[T \ {Chosen(T)}]
            Good == {n \in Nat : \E it \in [Upto(n) -> Nat] : Sums(it, n)}
<1>1. 0 \in Good
    <2>. DEFINE it == [T \in Upto(0) |-> 0]
    <2>1. ASSUME NEW T \in Upto(0) PROVE T = {}
        <3>1. T # {} => Cardinality(T) \in Nat \ {0} BY OneChosen
        <3>. QED BY <3>1
    <2>2. it \in [Upto(0) -> Nat]
        <3>. HIDE DEF Upto
        <3>. QED OBVIOUS
    <2>3. Sums(it, 0) BY <2>1
    <2>. QED BY <2>2, <2>3
<1>2. ASSUME NEW n \in Nat, n \in Good PROVE n + 1 \in Good
    <2>1. PICK it \in [Upto(n) -> Nat] : Sums(it, n) BY <1>2
    <2>. HIDE DEF Good
    <2>. DEFINE Sum(T) == IF T \in Upto(n) THEN it[T] ELSE B[Chosen(T)] + it[T \ {Chosen(T)}]
                longer == [T \in Upto(n + 1) |-> Sum(T)]
    <2>2. ASSUME NEW T \in Upto(n + 1), T # {}
          PROVE  T \ {Chosen(T)} \in Upto(n) /\ T \ {Chosen(T)} \in Upto(n + 1) /\ Chosen(T) \in S
        BY <2>2, OneChosen
    <2>3. {} \in Upto(n) BY FS_EmptySet
    <2>4. ASSUME NEW T \in Upto(n + 1) PROVE Sum(T) \in Nat
        <3>1. CASE T \in Upto(n) BY <3>1
        <3>2. CASE T \notin Upto(n)
            <4>1. T # {} BY <2>3, <3>2
            <4>2. it[T \ {Chosen(T)}] \in Nat /\ B[Chosen(T)] \in Nat BY <2>2, <4>1
            <4>. QED BY <3>2, <4>2
        <3>. QED BY <3>1, <3>2
    <2>5. longer \in [Upto(n + 1) -> Nat]
        <3>. HIDE DEF Sum, Upto
        <3>. QED BY <2>4
    <2>6. ASSUME NEW T \in Upto(n + 1)
          PROVE  longer[T] = IF T = {} THEN 0 ELSE B[Chosen(T)] + longer[T \ {Chosen(T)}]
        <3>1. CASE T = {}
            <4>1. longer[T] = it[T] BY <2>3, <3>1
            <4>2. it[T] = 0 BY <2>1, <2>3, <3>1
            <4>. QED BY <3>1, <4>1, <4>2
        <3>2. CASE T # {}
            <4>1. longer[T \ {Chosen(T)}] = it[T \ {Chosen(T)}] BY <2>2, <3>2
            <4>2. longer[T] = B[Chosen(T)] + it[T \ {Chosen(T)}]
                <5>1. CASE T \in Upto(n) BY <2>1, <3>2, <5>1
                <5>2. CASE T \notin Upto(n) BY <5>2
                <5>. QED BY <5>1, <5>2
            <4>. QED BY <3>2, <4>1, <4>2
        <3>. QED BY <3>1, <3>2
    <2>7. n + 1 \in Nat /\ Sums(longer, n + 1)
        <3>. HIDE DEF longer, Upto
        <3>. QED BY <2>6
    <2>. HIDE DEF Sums, longer
    <2>. QED BY <2>5, <2>7 DEF Good
<1>3. PICK n \in Nat : n = Cardinality(S) BY FS_CardinalityType
<1>4. n \in Good
    <2>. HIDE DEF Good
    <2>. QED BY <1>1, <1>2, Induction
<1>5. Upto(n) = SUBSET S
    BY <1>3, FS_Subset
<1>6. PICK it \in [Upto(n) -> Nat] : Sums(it, n) BY <1>4
<1>7. it = [T \in SUBSET S |-> IF T = {} THEN 0 ELSE B[Chosen(T)] + it[T \ {Chosen(T)}]]
    <2>. HIDE DEF Upto
    <2>. QED BY <1>5, <1>6
<1>. QED BY <1>5, <1>6, <1>7 DEF IsSum

\* Whichever element was chosen, the sum is that of one, and of the rest.
LEMMA SumOfOne ==
    ASSUME NEW S, IsFiniteSet(S), NEW B \in [S -> Nat],
           NEW it \in [SUBSET S -> Nat], IsSum(it, B, S)
    PROVE  \A T \in SUBSET S : \A x \in T : it[T] = B[x] + it[T \ {x}]
<1>. DEFINE Good == {n \in Nat : \A T \in SUBSET S : \A x \in T :
                        Cardinality(T) = n => it[T] = B[x] + it[T \ {x}]}
<1>1. 0 \in Good BY OneTaken
<1>2. ASSUME NEW n \in Nat, n \in Good PROVE n + 1 \in Good
    <2>1. SUFFICES ASSUME NEW T \in SUBSET S, NEW x \in T, Cardinality(T) = n + 1
                   PROVE  it[T] = B[x] + it[T \ {x}]
        OBVIOUS
    <2>2. PICK c : c = Chosen(T) OBVIOUS
    <2>3. /\ c \in T /\ T \ {c} \in SUBSET S /\ T \ {x} \in SUBSET S
          /\ Cardinality(T \ {c}) = n /\ Cardinality(T \ {x}) = n
        BY <2>1, <2>2, OneChosen, OneTaken
    <2>4. it[T] = B[c] + it[T \ {c}] BY <2>2, <2>3 DEF IsSum
    <2>5. CASE c = x BY <2>4, <2>5
    <2>6. CASE c # x
        <3>1. x \in T \ {c} /\ c \in T \ {x} BY <2>3, <2>6
        <3>2. it[T \ {c}] = B[x] + it[(T \ {c}) \ {x}] BY <1>2, <2>3, <3>1
        <3>3. it[T \ {x}] = B[c] + it[(T \ {x}) \ {c}] BY <1>2, <2>3, <3>1
        <3>4. (T \ {x}) \ {c} = (T \ {c}) \ {x} /\ (T \ {c}) \ {x} \in SUBSET S OBVIOUS
        <3>5. PICK r \in Nat : r = it[(T \ {c}) \ {x}] BY <3>4
        <3>6. PICK b, d \in Nat : b = B[c] /\ d = B[x] BY <2>3
        <3>7. it[T \ {c}] = d + r BY <3>2, <3>5, <3>6
        <3>8. it[T \ {x}] = b + r BY <3>3, <3>4, <3>5, <3>6
        <3>9. it[T] = b + (d + r) BY <2>4, <3>6, <3>7
        <3>. QED BY <3>6, <3>8, <3>9
    <2>. QED BY <2>5, <2>6
<1>3. SUFFICES ASSUME NEW T \in SUBSET S, NEW x \in T PROVE it[T] = B[x] + it[T \ {x}]
    OBVIOUS
<1>4. Cardinality(T) \in Nat BY OneTaken
<1>5. Cardinality(T) \in Good
    <2>. HIDE DEF Good
    <2>. QED BY <1>1, <1>2, <1>4, Induction
<1>. QED BY <1>5

\* The sum over a set is the same whatever larger set it is taken from.
LEMMA SumsAgree ==
    ASSUME NEW S, IsFiniteSet(S), NEW B \in [S -> Nat], NEW R \in SUBSET S,
           NEW it \in [SUBSET S -> Nat], IsSum(it, B, S), NEW jt, IsSum(jt, B, R), NEW T \in SUBSET R
    PROVE  jt[T] = it[T]
<1>. DEFINE Good == {n \in Nat : \A Q \in SUBSET R : Cardinality(Q) = n => jt[Q] = it[Q]}
<1>1. 0 \in Good
    <2>1. \A Q \in SUBSET S : Cardinality(Q) = 0 => Q = {} BY OneChosen
    <2>2. jt[{}] = 0 /\ it[{}] = 0
        <3>1. {} \in SUBSET R /\ {} \in SUBSET S OBVIOUS
        <3>. QED BY <3>1 DEF IsSum
    <2>. QED BY <2>1, <2>2
<1>2. ASSUME NEW n \in Nat, n \in Good PROVE n + 1 \in Good
    <2>1. SUFFICES ASSUME NEW Q \in SUBSET R, Cardinality(Q) = n + 1 PROVE jt[Q] = it[Q]
        OBVIOUS
    <2>2. Q \in SUBSET S /\ Q # {} BY <2>1, FS_EmptySet
    <2>3. PICK c : c = Chosen(Q) OBVIOUS
    <2>4. c \in Q /\ Q \ {c} \in SUBSET R /\ Cardinality(Q \ {c}) = n
        BY <2>1, <2>2, <2>3, OneChosen
    <2>5. jt[Q \ {c}] = it[Q \ {c}] BY <1>2, <2>4
    <2>6. jt[Q] = B[c] + jt[Q \ {c}] /\ it[Q] = B[c] + it[Q \ {c}]
        BY <2>2, <2>3 DEF IsSum
    <2>. QED BY <2>5, <2>6
<1>3. Cardinality(T) \in Nat BY FS_Subset, FS_CardinalityType
<1>4. Cardinality(T) \in Good
    <2>. HIDE DEF Good
    <2>. QED BY <1>1, <1>2, <1>3, Induction
<1>. QED BY <1>4

\* One function that gives the sum of B over every subset of S.
AddsUp(it, B, S) ==
    /\ it[{}] = 0
    /\ \A T \in SUBSET S : \A x \in T : it[T] = B[x] + it[T \ {x}]
    /\ \A R \in SUBSET S : SumOver(B, R) = it[R]

\* Chosen anew for each set, the sums over the subsets of S are one function.
LEMMA SumIs ==
    ASSUME NEW S, IsFiniteSet(S), NEW B \in [S -> Nat]
    PROVE  \E it \in [SUBSET S -> Nat] : AddsUp(it, B, S)
<1>1. PICK it \in [SUBSET S -> Nat] : IsSum(it, B, S) BY SumExists
<1>2. it[{}] = 0
    <2>1. {} \in SUBSET S OBVIOUS
    <2>2. it = [T \in SUBSET S |-> IF T = {} THEN 0 ELSE B[Chosen(T)] + it[T \ {Chosen(T)}]]
        BY <1>1 DEF IsSum
    <2>3. ASSUME NEW T \in SUBSET S, T = {} PROVE it[T] = 0
        BY <2>2, <2>3
    <2>. QED BY <2>1, <2>3
<1>3. \A T \in SUBSET S : \A x \in T : it[T] = B[x] + it[T \ {x}]
    <2>1. it \in [SUBSET S -> Nat] /\ IsFiniteSet(S) /\ B \in [S -> Nat] /\ IsSum(it, B, S) BY <1>1
    <2>2. ASSUME NEW T \in SUBSET S, NEW x \in T PROVE it[T] = B[x] + it[T \ {x}]
        BY <2>1, SumOfOne
    <2>. QED BY <2>2
<1>4. ASSUME NEW R \in SUBSET S PROVE SumOver(B, R) = it[R]
    <2>1. \E jt : IsSum(jt, B, R)
        <3>. DEFINE jt == [T \in SUBSET R |-> it[T]]
        <3>1. ASSUME NEW T \in SUBSET R
              PROVE  jt[T] = IF T = {} THEN 0 ELSE B[Chosen(T)] + jt[T \ {Chosen(T)}]
            <4>1. T \in SUBSET S /\ T \ {Chosen(T)} \in SUBSET R OBVIOUS
            <4>2. it[T] = IF T = {} THEN 0 ELSE B[Chosen(T)] + it[T \ {Chosen(T)}]
                BY <1>1, <4>1 DEF IsSum
            <4>. QED BY <4>1, <4>2
        <3>2. jt = [T \in SUBSET R |-> IF T = {} THEN 0 ELSE B[Chosen(T)] + jt[T \ {Chosen(T)}]]
            BY <3>1
        <3>. QED BY <3>2 DEF IsSum
    <2>2. PICK kt : kt = (CHOOSE jt : IsSum(jt, B, R)) OBVIOUS
    <2>3. IsSum(kt, B, R) BY <2>1, <2>2
    <2>4. R \in SUBSET R OBVIOUS
    <2>5. kt[R] = it[R] BY <1>1, <2>3, <2>4, SumsAgree
    <2>. QED BY <2>2, <2>5 DEF SumOver
<1>. QED BY <1>1, <1>2, <1>3, <1>4 DEF AddsUp

------------------------------------------------------------------------------
(* Filters.  What is kept of a sequence comes in its order, and is shorter    *)
(* when anything was dropped.                                                 *)

(* v has what is kept of each of the first members.                         *)
IsKept(v, s, T) ==
    /\ v[0] = <<>>
    /\ \A m \in 1 .. Len(s) : v[m] = IF s[m] \in T THEN Append(v[m - 1], s[m]) ELSE v[m - 1]

\* Filtering is deciding on the members one by one.
LEMMA KeepSteps ==
    ASSUME NEW S, NEW s \in Seq(S), NEW T
    PROVE  \E v \in [0 .. Len(s) -> Seq(S)] : IsKept(v, s, T) /\ KeepIn(s, T) = v[Len(s)]
<1>. DEFINE n == Len(s)
            A == Seq(S)
            none == <<>>
            Keep(a, x) == IF x \in T THEN Append(a, x) ELSE a
            Is(it) == it = [i \in SUBSET (1 .. n) |-> IF i = {} THEN none ELSE Keep(it[i \ {Max(i)}], s[Max(i)])]
            iter == CHOOSE it : Is(it)
            G == [x \in A \X (1 .. n) |-> Keep(x[1], s[x[2]])]
<1>1. n \in Nat /\ DOMAIN s = 1 .. n OBVIOUS
<1>2. KeepIn(s, T) = iter[1 .. n]
    BY <1>1 DEF KeepIn, FoldLeft, MapThenFoldSet
<1>3. none \in A /\ \A a \in A, i \in 1 .. n : Keep(a, s[i]) \in A
    <2>1. \A i \in 1 .. n : s[i] \in S BY <1>1
    <2>. QED BY <2>1, AppendProperties, EmptySeq
<1>. HIDE DEF A, Keep, none
<1>4. /\ G \in [A \X (1 .. n) -> A]
      /\ \A a \in A, i \in 1 .. n : G[<<a, i>>] = Keep(a, s[i])
    <2>. HIDE DEF n
    <2>. QED BY <1>3
<1>5. ASSUME NEW i \in SUBSET (1 .. n), i # {} PROVE Max(i) \in 1 .. n
    BY <1>1, <1>5, MaxIsLargest
<1>6. PICK it \in [SUBSET (1 .. n) -> A] : IsIteration(it, none, G, n)
    <2>. HIDE DEF n, G
    <2>. QED BY <1>1, <1>3, <1>4, IterationExists
<1>. HIDE DEF G
<1>7. Is(it)
    <2>1. ASSUME NEW i \in SUBSET (1 .. n), i # {}
          PROVE  G[<<it[i \ {Max(i)}], Max(i)>>] = Keep(it[i \ {Max(i)}], s[Max(i)])
        <3>1. i \ {Max(i)} \in SUBSET (1 .. n) OBVIOUS
        <3>. HIDE DEF n
        <3>. QED BY <1>4, <1>5, <1>6, <2>1, <3>1
    <2>. HIDE DEF n
    <2>. QED BY <1>6, <2>1 DEF IsIteration
<1>8. Is(iter)
    <2>. HIDE DEF Is
    <2>. QED BY <1>7
<1>9. PICK v \in [0 .. n -> A] : IsRun(v, none, G, n) /\ v[n] = iter[1 .. n]
    <2>1. iter[{}] = none BY <1>8
    <2>2. ASSUME NEW i \in SUBSET (1 .. n), i # {}, iter[i \ {Max(i)}] \in A
          PROVE  iter[i] = G[<<iter[i \ {Max(i)}], Max(i)>>]
        <3>. HIDE DEF n, iter
        <3>. QED BY <1>4, <1>5, <1>8, <2>2
    <2>3. Follows(iter, A, G, n)
        <3>. HIDE DEF n, iter
        <3>. QED BY <2>2 DEF Follows
    <2>4. n \in Nat /\ none \in A /\ \A a \in A, m \in 1 .. n : G[<<a, m>>] \in A
        <3>. HIDE DEF n
        <3>. QED BY <1>1, <1>3, <1>4
    <2>5. RunsThrough(iter, A, none, G, n)
        <3>. HIDE DEF n, iter, Is
        <3>. QED BY <2>1, <2>3, <2>4, IterationRuns
    <2>. HIDE DEF iter, Is, n
    <2>. QED BY <2>5 DEF RunsThrough
<1>10. IsKept(v, s, T)
    <2>1. \A m \in 1 .. n : v[m] = Keep(v[m - 1], s[m])
        <3>1. ASSUME NEW m \in 1 .. n PROVE v[m] = Keep(v[m - 1], s[m])
            <4>1. m - 1 \in 0 .. n BY <1>1
            <4>2. v[m - 1] \in A BY <1>9, <4>1
            <4>3. v[m] = G[<<v[m - 1], m>>] BY <1>9 DEF IsRun
            <4>. HIDE DEF n
            <4>. QED BY <1>4, <4>2, <4>3
        <3>. QED BY <3>1
    <2>. QED BY <1>9, <2>1 DEF IsKept, IsRun, Keep, none
<1>. HIDE DEF iter
<1>. QED BY <1>2, <1>9, <1>10 DEF A

(* t has the members of s at the indices f, in order, and those are all the *)
(* ones that are in T.                                                      *)
IsPicked(f, t, s, T) ==
    /\ \A j \in 1 .. Len(t) : f[j] \in 1 .. Len(s) /\ t[j] = s[f[j]] /\ t[j] \in T
    /\ \A i, j \in 1 .. Len(t) : i < j => f[i] < f[j]
    /\ \A i \in 1 .. Len(s) : s[i] \in T => \E j \in 1 .. Len(t) : f[j] = i
    /\ Len(t) <= Len(s)
    /\ (\E i \in 1 .. Len(s) : s[i] \notin T) => Len(t) < Len(s)

\* What is kept.
LEMMA KeptIsPicked ==
    ASSUME NEW S, NEW s \in Seq(S), NEW T
    PROVE  /\ KeepIn(s, T) \in Seq(S)
           /\ \E f \in [1 .. Len(KeepIn(s, T)) -> Nat] : IsPicked(f, KeepIn(s, T), s, T)
<1>. DEFINE n == Len(s)
<1>1. PICK v \in [0 .. n -> Seq(S)] : IsKept(v, s, T) /\ KeepIn(s, T) = v[n] BY KeepSteps
<1>2. n \in Nat /\ \A i \in 1 .. n : s[i] \in S OBVIOUS
<1>3. v[0] = <<>> /\ \A m \in 1 .. n : v[m] = IF s[m] \in T THEN Append(v[m - 1], s[m]) ELSE v[m - 1]
    BY <1>1 DEF IsKept
<1>. HIDE DEF n
<1>. DEFINE Part(f, t, m) ==
                /\ \A j \in 1 .. Len(t) : f[j] \in 1 .. m /\ t[j] = s[f[j]] /\ t[j] \in T
                /\ \A i, j \in 1 .. Len(t) : i < j => f[i] < f[j]
                /\ \A i \in 1 .. m : s[i] \in T => \E j \in 1 .. Len(t) : f[j] = i
                /\ Len(t) <= m
                /\ (\E i \in 1 .. m : s[i] \notin T) => Len(t) < m
            Good == {m \in Nat : m <= n => \E f \in [1 .. Len(v[m]) -> Nat] : Part(f, v[m], m)}
<1>4. 0 \in Good
    <2>1. PICK f : f = [j \in 1 .. 0 |-> 0] OBVIOUS
    <2>2. f \in [1 .. Len(v[0]) -> Nat] /\ Len(v[0]) = 0 BY <1>3, <2>1
    <2>3. Part(f, v[0], 0) BY <2>2
    <2>. QED BY <2>2, <2>3
<1>5. ASSUME NEW m \in Nat, m \in Good PROVE m + 1 \in Good
    <2>1. SUFFICES ASSUME m + 1 <= n
                   PROVE  \E f \in [1 .. Len(v[m + 1]) -> Nat] : Part(f, v[m + 1], m + 1)
        <3>1. m + 1 \in Nat OBVIOUS
        <3>. HIDE DEF Part
        <3>. QED BY <3>1, Zenon
    <2>2. m + 1 \in 1 .. n /\ (m + 1) - 1 = m /\ m <= n /\ m \in 0 .. n BY <1>2, <2>1
    <2>3. PICK f \in [1 .. Len(v[m]) -> Nat] : Part(f, v[m], m) BY <1>5, <2>2
    <2>. HIDE DEF Good
    <2>4. PICK t \in Seq(S) : t = v[m] BY <1>1, <2>2
    <2>5. CASE s[m + 1] \notin T
        <3>1. v[m + 1] = t BY <1>3, <2>2, <2>4, <2>5
        <3>2. Part(f, t, m + 1)
            <4>1. Part(f, t, m) BY <2>3, <2>4
            <4>2. Len(t) \in Nat OBVIOUS
            <4>3. \A i \in 1 .. (m + 1) : i = m + 1 \/ i \in 1 .. m OBVIOUS
            <4>4. ASSUME NEW j \in 1 .. Len(t) PROVE f[j] \in 1 .. (m + 1) /\ t[j] = s[f[j]] /\ t[j] \in T
                <5>1. f[j] \in 1 .. m /\ t[j] = s[f[j]] /\ t[j] \in T BY <4>1
                <5>. QED BY <5>1
            <4>5. ASSUME NEW i \in 1 .. (m + 1), s[i] \in T PROVE \E j \in 1 .. Len(t) : f[j] = i
                <5>1. i \in 1 .. m BY <2>5, <4>3, <4>5
                <5>. QED BY <4>1, <4>5, <5>1
            <4>6. Len(t) <= m + 1 /\ Len(t) < m + 1 BY <4>1, <4>2
            <4>. QED BY <4>1, <4>4, <4>5, <4>6
        <3>. HIDE DEF Part
        <3>. QED BY <2>3, <2>4, <3>1, <3>2
    <2>6. CASE s[m + 1] \in T
        <3>0. s[m + 1] \in S /\ Len(t) \in Nat BY <1>2, <2>2
        <3>1. v[m + 1] = Append(t, s[m + 1]) BY <1>3, <2>2, <2>4, <2>6
        <3>2. PICK u \in Seq(S) : u = Append(t, s[m + 1]) BY <3>0, AppendProperties
        <3>3. /\ Len(u) = Len(t) + 1 /\ u[Len(t) + 1] = s[m + 1]
              /\ \A j \in 1 .. Len(t) : u[j] = t[j]
            BY <3>0, <3>2
        <3>4. PICK g : g = [j \in 1 .. (Len(t) + 1) |-> IF j = Len(t) + 1 THEN m + 1 ELSE f[j]] OBVIOUS
        <3>5. g[Len(t) + 1] = m + 1 /\ \A j \in 1 .. Len(t) : g[j] = f[j]
            BY <3>0, <3>4
        <3>6. g \in [1 .. Len(u) -> Nat] BY <2>3, <2>4, <3>0, <3>3, <3>4
        <3>7. Part(f, t, m) BY <2>3, <2>4
        <3>8. \A j \in 1 .. Len(u) : j = Len(t) + 1 \/ j \in 1 .. Len(t) BY <3>0, <3>3
        <3>9. \A i \in 1 .. (m + 1) : i = m + 1 \/ i \in 1 .. m OBVIOUS
        <3>10. ASSUME NEW j \in 1 .. Len(u) PROVE g[j] \in 1 .. (m + 1) /\ u[j] = s[g[j]] /\ u[j] \in T
            <4>1. CASE j = Len(t) + 1 BY <2>6, <3>3, <3>5, <4>1
            <4>2. CASE j \in 1 .. Len(t)
                <5>1. f[j] \in 1 .. m /\ t[j] = s[f[j]] /\ t[j] \in T BY <3>7, <4>2
                <5>2. g[j] = f[j] /\ u[j] = t[j] BY <3>3, <3>5, <4>2
                <5>. QED BY <5>1, <5>2
            <4>. QED BY <3>8, <4>1, <4>2
        <3>11. ASSUME NEW i \in 1 .. Len(u), NEW j \in 1 .. Len(u), i < j PROVE g[i] < g[j]
            <4>1. i \in 1 .. Len(t) BY <3>0, <3>3, <3>11
            <4>2. g[i] = f[i] /\ f[i] \in 1 .. m BY <3>5, <3>7, <4>1
            <4>3. CASE j = Len(t) + 1 BY <3>5, <4>2, <4>3
            <4>4. CASE j \in 1 .. Len(t) BY <3>5, <3>7, <3>11, <4>1, <4>2, <4>4
            <4>. QED BY <3>8, <4>3, <4>4
        <3>12. ASSUME NEW i \in 1 .. (m + 1), s[i] \in T PROVE \E j \in 1 .. Len(u) : g[j] = i
            <4>1. CASE i = m + 1
                <5>1. Len(t) + 1 \in 1 .. Len(u) BY <3>0, <3>3
                <5>. QED BY <3>5, <4>1, <5>1
            <4>2. CASE i \in 1 .. m
                <5>1. PICK j \in 1 .. Len(t) : f[j] = i BY <3>7, <3>12, <4>2
                <5>2. j \in 1 .. Len(u) BY <3>0, <3>3
                <5>. QED BY <3>5, <5>1, <5>2
            <4>. QED BY <3>9, <4>1, <4>2
        <3>13. Len(u) <= m + 1 BY <3>0, <3>3, <3>7
        <3>14. (\E i \in 1 .. (m + 1) : s[i] \notin T) => Len(u) < m + 1
            BY <2>6, <3>0, <3>3, <3>7, <3>9
        <3>15. Part(g, u, m + 1) BY <3>10, <3>11, <3>12, <3>13, <3>14
        <3>. HIDE DEF Part
        <3>. QED BY <3>1, <3>2, <3>6, <3>15
    <2>. QED BY <2>5, <2>6
<1>6. n \in Good
    <2>. HIDE DEF Good
    <2>. QED BY <1>2, <1>4, <1>5, Induction
<1>7. PICK f \in [1 .. Len(v[n]) -> Nat] : Part(f, v[n], n)
    <2>1. n <= n BY <1>2
    <2>. HIDE DEF Part
    <2>. QED BY <1>6, <2>1
<1>8. IsPicked(f, v[n], s, T) BY <1>7 DEF IsPicked, n
<1>9. v[n] \in Seq(S) BY <1>1, <1>2
<1>. HIDE DEF Part
<1>. QED BY <1>1, <1>7, <1>8, <1>9

\* Nothing is dropped.
LEMMA KeptWhole ==
    ASSUME NEW S, NEW s \in Seq(S), NEW T, \A i \in 1 .. Len(s) : s[i] \in T
    PROVE  KeepIn(s, T) = s
<1>. DEFINE n == Len(s)
<1>1. PICK v \in [0 .. n -> Seq(S)] : IsKept(v, s, T) /\ KeepIn(s, T) = v[n] BY KeepSteps
<1>2. n \in Nat /\ \A i \in 1 .. n : s[i] \in S OBVIOUS
<1>3. v[0] = <<>> /\ \A m \in 1 .. n : v[m] = Append(v[m - 1], s[m]) BY <1>1 DEF IsKept
<1>. HIDE DEF n
<1>. DEFINE Good == {m \in Nat : m <= n => Len(v[m]) = m /\ \A i \in 1 .. m : v[m][i] = s[i]}
<1>4. 0 \in Good BY <1>3
<1>5. ASSUME NEW m \in Nat, m \in Good PROVE m + 1 \in Good
    <2>1. SUFFICES ASSUME m + 1 <= n
                   PROVE  Len(v[m + 1]) = m + 1 /\ \A i \in 1 .. (m + 1) : v[m + 1][i] = s[i]
        OBVIOUS
    <2>2. m + 1 \in 1 .. n /\ (m + 1) - 1 = m /\ m \in 0 .. n /\ m <= n BY <2>1, <1>2
    <2>3. v[m + 1] = Append(v[m], s[m + 1]) BY <2>2, <1>3
    <2>4. v[m] \in Seq(S) /\ s[m + 1] \in S /\ Len(v[m]) = m BY <2>2, <1>1, <1>2, <1>5
    <2>5. /\ Len(v[m + 1]) = m + 1
          /\ \A i \in 1 .. m : v[m + 1][i] = v[m][i]
          /\ v[m + 1][m + 1] = s[m + 1]
        BY <2>3, <2>4, AppendProperties
    <2>6. \A i \in 1 .. m : v[m][i] = s[i] BY <2>2, <1>5
    <2>7. \A i \in 1 .. (m + 1) : i \in 1 .. m \/ i = m + 1 OBVIOUS
    <2>. QED BY <2>5, <2>6, <2>7
<1>6. n \in Good
    <2>. HIDE DEF Good
    <2>. QED BY <1>2, <1>4, <1>5, Induction
<1>7. Len(v[n]) = n /\ \A i \in 1 .. n : v[n][i] = s[i] BY <1>2, <1>6
<1>8. v[n] \in Seq(S) BY <1>1, <1>2
<1>. QED BY <1>1, <1>7, <1>8, SeqEqual DEF n

\* A finite set, put into an order.
LEMMA SeqOfSet ==
    ASSUME NEW S, IsFiniteSet(S)
    PROVE  SetToSeq(S) \in Seq(S) /\ \A x \in S : \E i \in 1 .. Len(SetToSeq(S)) : SetToSeq(S)[i] = x
<1>1. PICK n \in Nat : n = Cardinality(S) /\ ExistsBijection(1 .. n, S) BY FS_CardinalityType
<1>2. PICK f \in [1 .. n -> S] : IsInjective(f)
    BY <1>1 DEF ExistsBijection, Bijection, Injection, IsInjective
<1>3. PICK g : g = SetToSeq(S) OBVIOUS
<1>4. g \in [1 .. n -> S] /\ IsInjective(g) BY <1>1, <1>2, <1>3 DEF SetToSeq
<1>5. g \in Injection(1 .. n, S) BY <1>4 DEF Injection, IsInjective
<1>6. Cardinality(1 .. n) = n BY FS_Interval
<1>7. g \in Surjection(1 .. n, S) BY <1>1, <1>5, <1>6, FS_Injection
<1>8. g \in Seq(S) /\ Len(g) = n BY <1>4
<1>. QED BY <1>3, <1>7, <1>8 DEF Surjection

------------------------------------------------------------------------------
(* Sequences put behind each other.                                         *)

\* v has what FlattenSeq goes through, one sequence at a time.
IsFlattening(v, ss) ==
    v[0] = <<>> /\ \A m \in 1 .. Len(ss) : v[m] = v[m - 1] \o ss[m]

\* What the definition of FlattenSeq recurs on.
IsFlatten(f, ss) ==
    f = [i \in 1 .. Len(ss) |-> IF i = 1 THEN ss[i] ELSE f[i - 1] \o ss[i]]

LEMMA FlattenExists ==
    ASSUME NEW S, NEW ss \in Seq(Seq(S))
    PROVE  \E f : IsFlatten(f, ss)
<1>. DEFINE A == Seq(S)
            n == Len(ss)
            G == [p \in A \X (1 .. n) |-> p[1] \o ss[p[2]]]
<1>1. n \in Nat /\ <<>> \in A /\ \A i \in 1 .. n : ss[i] \in A BY LenProperties
<1>2. G \in [A \X (1 .. n) -> A]
    <2>1. ASSUME NEW a \in A, NEW i \in 1 .. n PROVE a \o ss[i] \in A
        <3>1. ss[i] \in Seq(S) BY <1>1
        <3>. QED BY <3>1, ConcatProperties
    <2>. QED BY <2>1
<1>3. PICK it \in [SUBSET (1 .. n) -> A] : IsIteration(it, <<>>, G, n)
    <2>. HIDE DEF A, G, n
    <2>. QED BY <1>1, <1>2, IterationExists
<1>. DEFINE f == [i \in 1 .. n |-> it[1 .. i]]
<1>4. it[{}] = <<>>
    <2>1. {} \in SUBSET (1 .. n) OBVIOUS
    <2>. HIDE DEF A, G, n
    <2>. QED BY <2>1, <1>3 DEF IsIteration
<1>5. ASSUME NEW i \in 1 .. n
      PROVE  it[1 .. i] = it[1 .. (i - 1)] \o ss[i] /\ it[1 .. (i - 1)] \in A
    <2>1. PICK m \in Nat : i = m + 1
        <3>1. i - 1 \in Nat /\ i = (i - 1) + 1 BY <1>1
        <3>. QED BY <3>1
    <2>2. Max(1 .. i) = i BY <2>1, LastIsLargest
    <2>3. (1 .. i) \ {i} = 1 .. (i - 1) BY <1>1
    <2>4. (1 .. i) \in SUBSET (1 .. n) /\ i \in 1 .. i /\ (1 .. (i - 1)) \in SUBSET (1 .. n)
        <3>. HIDE DEF n
        <3>. QED BY <1>1
    <2>5. it[1 .. i] = G[<<it[1 .. (i - 1)], i>>]
        <3>. HIDE DEF A, G, n
        <3>. QED BY <2>2, <2>3, <2>4, <1>3 DEF IsIteration
    <2>6. it[1 .. (i - 1)] \in A BY <2>4, <1>3
    <2>. QED BY <2>5, <2>6
<1>6. ASSUME NEW i \in 1 .. n
      PROVE  it[1 .. i] = IF i = 1 THEN ss[i] ELSE f[i - 1] \o ss[i]
    <2>1. CASE i = 1
        <3>1. 1 .. (i - 1) = {} BY <2>1
        <3>2. it[1 .. i] = <<>> \o ss[i] BY <3>1, <1>4, <1>5
        <3>3. ss[i] \in Seq(S) BY <1>1
        <3>. QED BY <2>1, <3>2, <3>3
    <2>2. CASE i # 1
        <3>1. i - 1 \in 1 .. n BY <2>2, <1>1
        <3>2. f[i - 1] = it[1 .. (i - 1)] BY <3>1
        <3>. HIDE DEF f
        <3>. QED BY <2>2, <3>2, <1>5
    <2>. QED BY <2>1, <2>2
<1>7. IsFlatten(f, ss)
    <2>1. f = [i \in 1 .. n |-> IF i = 1 THEN ss[i] ELSE f[i - 1] \o ss[i]] BY <1>6
    <2>. HIDE DEF f
    <2>. QED BY <2>1 DEF IsFlatten
<1>. QED BY <1>7

LEMMA FlattenGoesThrough ==
    ASSUME NEW S, NEW ss \in Seq(Seq(S))
    PROVE  \E v \in [0 .. Len(ss) -> Seq(S)] : IsFlattening(v, ss) /\ FlattenSeq(ss) = v[Len(ss)]
<1>. DEFINE n == Len(ss)
            f == CHOOSE g : IsFlatten(g, ss)
            v == [m \in 0 .. n |-> IF m = 0 THEN <<>> ELSE f[m]]
<1>1. n \in Nat /\ (\A i \in 1 .. n : ss[i] \in Seq(S)) BY LenProperties
<1>2. f = [i \in 1 .. n |-> IF i = 1 THEN ss[i] ELSE f[i - 1] \o ss[i]]
    <2>1. IsFlatten(f, ss)
        <3>1. \E g : IsFlatten(g, ss) BY FlattenExists
        <3>. QED BY <3>1, Zenon
    <2>. HIDE DEF f
    <2>. QED BY <2>1 DEF IsFlatten
<1>3. FlattenSeq(ss) = v[n]
    <2>1. CASE n = 0
        <3>1. ss = <<>> BY <2>1
        <3>2. FlattenSeq(ss) = ss BY <2>1 DEF FlattenSeq
        <3>3. v[n] = <<>> BY <2>1
        <3>. QED BY <3>1, <3>2, <3>3
    <2>2. CASE n # 0
        <3>1. FlattenSeq(ss) = f[n] BY <2>2, Zenon DEF FlattenSeq, IsFlatten
        <3>2. v[n] = f[n]
            <4>1. n \in 0 .. n BY <1>1
            <4>. HIDE DEF f
            <4>. QED BY <4>1, <2>2
        <3>. QED BY <3>1, <3>2
    <2>. QED BY <2>1, <2>2
<1>. HIDE DEF f
<1>4. ASSUME NEW m \in 1 .. n PROVE v[m] = v[m - 1] \o ss[m]
    <2>1. m \in 0 .. n /\ m - 1 \in 0 .. n /\ m # 0 BY <1>1
    <2>2. v[m] = IF m = 1 THEN ss[m] ELSE f[m - 1] \o ss[m] BY <2>1, <1>2
    <2>3. CASE m = 1
        <3>1. v[m - 1] = <<>> /\ ss[m] \in Seq(S) BY <2>1, <2>3, <1>1
        <3>2. v[m] = ss[m] BY <2>2, <2>3
        <3>3. <<>> \o ss[m] = ss[m] BY <3>1, ConcatEmptySeq
        <3>. QED BY <3>1, <3>2, <3>3
    <2>4. CASE m # 1
        <3>1. v[m - 1] = f[m - 1] BY <2>1, <2>4
        <3>. QED BY <2>2, <2>4, <3>1
    <2>. QED BY <2>3, <2>4
<1>5. v[0] = <<>> BY <1>1
<1>6. v \in [0 .. n -> Seq(S)]
    <2>. DEFINE Good == {m \in Nat : m <= n => v[m] \in Seq(S)}
    <2>1. 0 \in Good BY <1>5
    <2>2. ASSUME NEW m \in Nat, m \in Good PROVE m + 1 \in Good
        <3>1. SUFFICES ASSUME m + 1 <= n PROVE v[m + 1] \in Seq(S)
            <4>1. m + 1 \in Nat OBVIOUS
            <4>. HIDE DEF v
            <4>. QED BY <4>1
        <3>2. v[m] \in Seq(S)
            <4>. HIDE DEF v
            <4>. QED BY <2>2, <3>1, <1>1
        <3>3. m + 1 \in 1 .. n /\ (m + 1) - 1 = m BY <3>1, <1>1
        <3>4. v[m + 1] = v[m] \o ss[m + 1]
            <4>. HIDE DEF v
            <4>. QED BY <3>3, <1>4
        <3>5. ss[m + 1] \in Seq(S) BY <3>3, <1>1
        <3>. HIDE DEF v
        <3>. QED BY <3>2, <3>4, <3>5, ConcatProperties
    <2>3. Nat \subseteq Good
        <3>. HIDE DEF Good
        <3>. QED BY <2>1, <2>2, Induction
    <2>4. ASSUME NEW m \in 0 .. n PROVE v[m] \in Seq(S)
        <3>. HIDE DEF v
        <3>1. m \in Nat /\ m <= n BY <1>1
        <3>2. m \in Good
            <4>. HIDE DEF Good
            <4>. QED BY <3>1, <2>3
        <3>. QED BY <3>1, <3>2
    <2>5. \A m \in 0 .. n : (IF m = 0 THEN <<>> ELSE f[m]) \in Seq(S) BY <2>4
    <2>. QED BY <2>5
<1>7. IsFlattening(v, ss)
    <2>. HIDE DEF v
    <2>. QED BY <1>4, <1>5 DEF IsFlattening
<1>. HIDE DEF v
<1>. QED BY <1>3, <1>6, <1>7

------------------------------------------------------------------------------
(* Sorting by rank.                                                         *)

\* R orders S strictly, and any two of its members.
IsOrder(S, R) ==
    /\ \A x \in S : <<x, x>> \notin R
    /\ \A x, y \in S : x = y \/ <<x, y>> \in R \/ <<y, x>> \in R
    /\ \A x, y, z \in S : <<x, y>> \in R /\ <<y, z>> \in R => <<x, z>> \in R

Below(S, R, x) == {y \in S : <<y, x>> \in R}

LEMMA RankGrows ==
    ASSUME NEW S, IsFiniteSet(S), NEW R, IsOrder(S, R), NEW x \in S, NEW y \in S, <<x, y>> \in R
    PROVE  Cardinality(Below(S, R, x)) < Cardinality(Below(S, R, y))
<1> DEFINE A == Below(S, R, x)
           B == Below(S, R, y)
<1>1. A \subseteq B /\ x \in B /\ x \notin A BY DEF Below, IsOrder
<1>2. B \subseteq S BY DEF Below
<1>3. IsFiniteSet(B) BY <1>2, FS_Subset
<1> HIDE DEF A, B
<1>4. IsFiniteSet(A) /\ Cardinality(A) <= Cardinality(B) /\ Cardinality(B) # Cardinality(A) BY <1>1, <1>3, FS_Subset
<1>5. Cardinality(A) \in Nat /\ Cardinality(B) \in Nat BY <1>3, <1>4, FS_CardinalityType
<1>6. Cardinality(A) < Cardinality(B) BY <1>4, <1>5
<1> QED BY <1>6 DEF A, B

LEMMA RankIsInjective ==
    ASSUME NEW S, IsFiniteSet(S), NEW R, IsOrder(S, R)
    PROVE  /\ \A x \in S : Cardinality(Below(S, R, x)) \in 0 .. (Cardinality(S) - 1)
           /\ \A x, y \in S : Cardinality(Below(S, R, x)) = Cardinality(Below(S, R, y)) => x = y
<1>1. Cardinality(S) \in Nat BY FS_CardinalityType
<1>2. ASSUME NEW x \in S
      PROVE  Cardinality(Below(S, R, x)) \in 0 .. (Cardinality(S) - 1)
  <2> DEFINE A == Below(S, R, x)
  <2>1. A \subseteq S /\ x \notin A BY DEF Below, IsOrder
  <2> HIDE DEF A
  <2>2. IsFiniteSet(A) /\ Cardinality(A) <= Cardinality(S) /\ Cardinality(S) # Cardinality(A) BY <2>1, FS_Subset
  <2>3. Cardinality(A) \in Nat BY <2>2, FS_CardinalityType
  <2>4. Cardinality(A) \in 0 .. (Cardinality(S) - 1) BY <1>1, <2>2, <2>3
  <2> QED BY <2>4 DEF A
<1>3. ASSUME NEW x \in S, NEW y \in S, Cardinality(Below(S, R, x)) = Cardinality(Below(S, R, y))
      PROVE  x = y
  <2>1. SUFFICES ASSUME x # y PROVE FALSE OBVIOUS
  <2>2. <<x, y>> \in R \/ <<y, x>> \in R BY <2>1 DEF IsOrder
  <2>3. Cardinality(Below(S, R, x)) \in Int /\ Cardinality(Below(S, R, y)) \in Int BY <1>2
  <2> QED BY <1>3, <2>2, <2>3, RankGrows
<1> QED BY <1>2, <1>3

\* Every rank is taken.
LEMMA RankIsTaken ==
    ASSUME NEW S, IsFiniteSet(S), NEW R, IsOrder(S, R), NEW i \in 1 .. Cardinality(S)
    PROVE  \E x \in S : Cardinality(Below(S, R, x)) = i - 1
<1> DEFINE n == Cardinality(S)
           T == 0 .. (n - 1)
           f == [x \in S |-> Cardinality(Below(S, R, x))]
<1>1. n \in Nat BY FS_CardinalityType
<1>2. f \in [S -> T] BY RankIsInjective
<1>3. \A x, y \in S : f[x] = f[y] => x = y BY RankIsInjective
<1>4. IsFiniteSet(T) /\ Cardinality(T) = n
  <2>1. 0 \in Int /\ n - 1 \in Int BY <1>1
  <2>2. IsFiniteSet(0 .. (n - 1)) /\ Cardinality(0 .. (n - 1)) = IF 0 > n - 1 THEN 0 ELSE (n - 1) - 0 + 1 BY <2>1, FS_Interval
  <2> QED BY <1>1, <2>2
<1> HIDE DEF f, T
<1>5. f \in Injection(S, T) BY <1>2, <1>3 DEF Injection, IsInjective
<1>6. f \in Surjection(S, T) BY <1>4, <1>5, FS_Injection
<1>7. i - 1 \in T BY <1>1 DEF T
<1>8. PICK x \in S : f[x] = i - 1 BY <1>6, <1>7 DEF Surjection
<1> QED BY <1>8 DEF f

\* Sorted by rank a set is all there, once and in order.
LEMMA RankedIsSorted ==
    ASSUME NEW S, IsFiniteSet(S), NEW R, IsOrder(S, R)
    PROVE  /\ Ranked(S, R) \in Seq(S) /\ Len(Ranked(S, R)) = Cardinality(S) /\ Cardinality(S) \in Nat
           /\ \A i \in 1 .. Cardinality(S) : Cardinality(Below(S, R, Ranked(S, R)[i])) = i - 1
           /\ \A x \in S : \E i \in 1 .. Cardinality(S) : Ranked(S, R)[i] = x
           /\ \A i, j \in 1 .. Cardinality(S) : i < j => <<Ranked(S, R)[i], Ranked(S, R)[j]>> \in R
<1> DEFINE n == Cardinality(S)
           t == Ranked(S, R)
<1>1. n \in Nat BY FS_CardinalityType
<1>2. t = [i \in 1 .. n |-> CHOOSE x \in S : Cardinality(Below(S, R, x)) = i - 1] BY DEF Ranked, Below
<1> HIDE DEF t
<1>3. ASSUME NEW i \in 1 .. n
      PROVE  t[i] \in S /\ Cardinality(Below(S, R, t[i])) = i - 1
  BY <1>2, RankIsTaken
<1>4. t \in [1 .. n -> S] BY <1>2, <1>3
<1>5. t \in Seq(S) /\ Len(t) = n BY <1>1, <1>4
<1>6. ASSUME NEW x \in S
      PROVE  \E i \in 1 .. n : t[i] = x
  <2> DEFINE i == Cardinality(Below(S, R, x)) + 1
  <2>1. Cardinality(Below(S, R, x)) \in 0 .. (n - 1) BY RankIsInjective
  <2>2. i \in 1 .. n /\ i - 1 = Cardinality(Below(S, R, x)) BY <1>1, <2>1
  <2>3. t[i] = x BY <1>3, <2>2, RankIsInjective
  <2> QED BY <2>2, <2>3
<1>7. ASSUME NEW i \in 1 .. n, NEW j \in 1 .. n, i < j
      PROVE  <<t[i], t[j]>> \in R
  <2>1. t[i] # t[j] BY <1>3, <1>7
  <2>2. SUFFICES ASSUME <<t[j], t[i]>> \in R PROVE FALSE BY <1>3, <2>1 DEF IsOrder
  <2>3. Cardinality(Below(S, R, t[j])) < Cardinality(Below(S, R, t[i])) BY <1>3, <2>2, RankGrows
  <2> QED BY <1>3, <1>7, <2>3
<1> QED BY <1>1, <1>3, <1>5, <1>6, <1>7 DEF t

\* What is in order and is all of a set is the set sorted by rank.
LEMMA SortedIsRanked ==
    ASSUME NEW S, IsFiniteSet(S), NEW R, IsOrder(S, R), NEW t \in Seq(S),
           \A i, j \in 1 .. Len(t) : i < j => <<t[i], t[j]>> \in R,
           \A x \in S : \E i \in 1 .. Len(t) : t[i] = x
    PROVE  t = Ranked(S, R)
<1> DEFINE m == Len(t)
<1>1. m \in Nat /\ t \in [1 .. m -> S] OBVIOUS
<1>2. \A i, j \in 1 .. m : t[i] = t[j] => i = j
  <2> SUFFICES ASSUME NEW i \in 1 .. m, NEW j \in 1 .. m, t[i] = t[j], i # j PROVE FALSE OBVIOUS
  <2>1. i < j \/ j < i BY <1>1
  <2>2. <<t[i], t[i]>> \in R BY <2>1
  <2> QED BY <2>2, <1>1 DEF IsOrder
<1>3. ASSUME NEW i \in 1 .. m
      PROVE  Cardinality(Below(S, R, t[i])) = i - 1
  <2> DEFINE D == 1 .. (i - 1)
             B == Below(S, R, t[i])
             f == [j \in D |-> t[j]]
  <2>1. \A j \in D : j \in 1 .. m /\ j < i BY <1>1
  <2>2. f \in [D -> B] BY <1>1, <2>1 DEF Below
  <2>3. \A j, k \in D : f[j] = f[k] => j = k BY <1>2, <2>1
  <2>4. ASSUME NEW y \in B
        PROVE  \E j \in D : f[j] = y
    <3>1. PICK j \in 1 .. m : t[j] = y BY DEF Below
    <3>2. <<t[j], t[i]>> \in R BY <3>1 DEF Below
    <3>3. j < i
      <4> SUFFICES ASSUME ~(j < i) PROVE FALSE OBVIOUS
      <4>1. j = i \/ i < j BY <1>1
      <4>2. <<t[i], t[i]>> \in R
        <5>1. t[i] \in S /\ t[j] \in S BY <1>1
        <5>2. j = i => <<t[i], t[i]>> \in R BY <3>2
        <5>3. i < j => <<t[i], t[j]>> \in R OBVIOUS
        <5> QED BY <3>2, <4>1, <5>1, <5>2, <5>3 DEF IsOrder
      <4> QED BY <1>1, <4>2 DEF IsOrder
    <3>4. j \in D BY <1>1, <3>3
    <3> QED BY <3>1, <3>4
  <2> HIDE DEF f
  <2>5. f \in Bijection(D, B)
    <3>1. f \in Injection(D, B) BY <2>2, <2>3 DEF Injection, IsInjective
    <3>2. f \in Surjection(D, B) BY <2>2, <2>4 DEF Surjection
    <3> QED BY <3>1, <3>2 DEF Bijection
  <2>6. IsFiniteSet(D) /\ Cardinality(D) = i - 1
    <3>1. 1 \in Int /\ i - 1 \in Int BY <1>1
    <3>2. IsFiniteSet(1 .. (i - 1)) /\ Cardinality(1 .. (i - 1)) = IF 1 > i - 1 THEN 0 ELSE (i - 1) - 1 + 1 BY <3>1, FS_Interval
    <3> QED BY <1>1, <3>2
  <2> HIDE DEF D, B
  <2>7. Cardinality(B) = Cardinality(D) BY <2>5, <2>6, FS_Bijection DEF ExistsBijection
  <2> QED BY <2>6, <2>7 DEF B
<1>4. m = Cardinality(S)
  <2>1. t \in Injection(1 .. m, S) BY <1>1, <1>2 DEF Injection, IsInjective
  <2>2. t \in Surjection(1 .. m, S) BY <1>1 DEF Surjection
  <2>3. t \in Bijection(1 .. m, S) BY <2>1, <2>2 DEF Bijection
  <2>4. IsFiniteSet(1 .. m) /\ Cardinality(1 .. m) = m
    <3>1. 1 \in Int /\ m \in Int BY <1>1
    <3>2. IsFiniteSet(1 .. m) /\ Cardinality(1 .. m) = IF 1 > m THEN 0 ELSE m - 1 + 1 BY <3>1, FS_Interval
    <3> QED BY <1>1, <3>2
  <2> QED BY <2>3, <2>4, FS_Bijection DEF ExistsBijection
<1> DEFINE u == Ranked(S, R)
<1>5. /\ u \in Seq(S) /\ Len(u) = m
      /\ \A i \in 1 .. m : Cardinality(Below(S, R, u[i])) = i - 1
  BY <1>4, RankedIsSorted
<1> HIDE DEF u
<1>6. \A i \in 1 .. m : u[i] = t[i]
  <2> SUFFICES ASSUME NEW i \in 1 .. m PROVE u[i] = t[i] OBVIOUS
  <2>1. u[i] \in S /\ t[i] \in S BY <1>1, <1>5
  <2>2. Cardinality(Below(S, R, u[i])) = Cardinality(Below(S, R, t[i])) BY <1>3, <1>5
  <2> HIDE DEF m
  <2> QED BY <2>1, <2>2, RankIsInjective
<1>7. u = t BY <1>1, <1>5, <1>6, SeqEqual
<1> QED BY <1>7 DEF u
=============================================================================
