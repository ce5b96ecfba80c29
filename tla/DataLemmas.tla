---------------------------- MODULE DataLemmas ----------------------------
(***************************************************************************)
(* What the proofs of several components need to know of finite sets and   *)
(* of sequences, and of sums over both.  Induction over the subsets of a   *)
(* finite set is stated without operators as parameters: a lemma is about  *)
(* sets and functions, so that a proof can use it by naming its own.  What *)
(* the folds of FiniteSetsExt compute follows from FoldExists and Induct.  *)
(***************************************************************************)
EXTENDS Integers, Sequences, FiniteSets, FiniteSetsExt, SequencesExt,
        FiniteSetTheorems, SequenceTheorems, WellFoundedInduction, TLAPS

-----------------------------------------------------------------------------
\* Finite sets.

\* Of finite sets there is a minimal one: strict inclusion between finite sets
\* is well-founded.
LEMMA MinimalSet ==
  ASSUME NEW C, C # {}, \A T \in C : IsFiniteSet(T)
  PROVE \E T \in C : \A U \in C : U \subseteq T => U = T
<1> DEFINE S == UNION C
           R == StrictSubsetOrdering(S)
<1>1. IsWellFoundedOn(R, FiniteSubsetsOf(S)) BY FS_StrictSubsetOrderingWellFounded
<1>2. C \subseteq FiniteSubsetsOf(S) BY DEF FiniteSubsetsOf
<1>3. \E x \in C : \A y \in C : ~ (<<y, x>> \in R) BY <1>1, <1>2, WFMin
<1>4. \A x, y \in C : y \subseteq x /\ y # x => <<y, x>> \in R  BY DEF StrictSubsetOrdering
<1> QED BY <1>3, <1>4

\* The maximum of finitely many integers is one of them, and none is greater.
LEMMA MaxOf ==
  ASSUME NEW S, IsFiniteSet(S), S # {}, S \subseteq Int
  PROVE  Max(S) \in S /\ \A x \in S : x <= Max(S)
<1> DEFINE Above == [x \in S |-> {y \in S : y > x}]
           C == {Above[x] : x \in S}
<1>1. \A x \in S : IsFiniteSet(Above[x]) BY FS_Subset
<1>2. \A x \in S : \A y : y \in Above[x] <=> y \in S /\ y > x OBVIOUS
<1>3. \A x \in S : Above[x] \subseteq S OBVIOUS
<1> HIDE DEF Above
<1>4. C # {} OBVIOUS
<1>5. \A T \in C : IsFiniteSet(T) BY <1>1
<1> HIDE DEF C
<1>6. PICK T \in C : \A U \in C : U \subseteq T => U = T BY <1>4, <1>5, MinimalSet
<1> USE DEF C
<1>7. PICK x \in S : T = Above[x] OBVIOUS
<1>9. \A y \in S : Above[y] \subseteq T => Above[y] = T BY <1>6
<1> HIDE DEF C
<1>8. \A y \in S : x >= y
  <2> SUFFICES ASSUME NEW y \in S, y > x PROVE FALSE OBVIOUS
  <2>0. x \in Int /\ y \in Int OBVIOUS
  <2>1. Above[y] \subseteq Above[x]
    <3> SUFFICES ASSUME NEW z \in Above[y] PROVE z \in Above[x] OBVIOUS
    <3>1. z \in S /\ z > y BY <1>2
    <3>2. z > x BY <3>1, <2>0
    <3> QED BY <3>1, <3>2, <1>2
  <2>2. y \in Above[x] /\ y \notin Above[y] BY <1>2, <2>0
  <2> QED BY <1>9, <1>7, <2>1, <2>2
<1> QED BY <1>8 DEF Max

\* Of natural numbers there is a least one, finitely many or not.
LEMMA MinOf ==
  ASSUME NEW S, S # {}, S \subseteq Nat
  PROVE  Min(S) \in S /\ \A x \in S : Min(S) <= x
<1>1. \E n \in S : \A m \in S : ~(<<m, n>> \in OpToRel(<, Nat))
  BY NatLessThanWellFounded, WFMin
<1>2. PICK n \in S : \A m \in S : ~(<<m, n>> \in OpToRel(<, Nat))
  BY <1>1
<1>3. \A m \in S : <<m, n>> \in OpToRel(<, Nat) <=> m < n
  BY DEF OpToRel
<1>4. ASSUME NEW m \in S PROVE n <= m
  <2>1. ~(m < n)
    BY <1>2, <1>3
  <2>2. m \in Int /\ n \in Int
    OBVIOUS
  <2> QED
    BY <2>1, <2>2
<1> QED
  BY <1>4 DEF Min

\* The greater of two integers.
LEMMA MaxOfTwo ==
  ASSUME NEW x \in Int, NEW y \in Int
  PROVE  Max({x, y}) = IF x >= y THEN x ELSE y
<1>1. IsFiniteSet({x, y})
  <2>1. IsFiniteSet({x})
    BY FS_Singleton
  <2>2. IsFiniteSet({x} \cup {y})
    BY <2>1, FS_AddElement
  <2>3. {x, y} = {x} \cup {y}
    OBVIOUS
  <2> QED
    BY <2>2, <2>3
<1>2. Max({x, y}) \in {x, y} /\ \A z \in {x, y} : z <= Max({x, y})
  BY <1>1, MaxOf
<1> QED
  BY <1>2

\* A function takes finitely many arguments to finitely many values.
LEMMA ImageFinite ==
  ASSUME NEW S, IsFiniteSet(S), NEW f
  PROVE  IsFiniteSet({f[x] : x \in S})
<1> DEFINE T == {f[x] : x \in S}
           g == [x \in S |-> f[x]]
<1>1. g \in Surjection(S, T) BY DEF Surjection
<1> HIDE DEF g, T
<1>2. IsFiniteSet(T) BY <1>1, FS_Surjection
<1> QED BY <1>2 DEF T

\* Induction: a family that holds the empty set, and each set T when it holds T
\* without some member of it, holds every subset of S.
LEMMA Induct ==
  ASSUME NEW S, IsFiniteSet(S), NEW C \in SUBSET SUBSET S, {} \in C,
         \A T \in SUBSET S : T # {} => \E x \in T : (T \ {x} \in C => T \in C)
  PROVE  SUBSET S \subseteq C
<1> SUFFICES ASSUME (SUBSET S) \ C # {} PROVE FALSE OBVIOUS
<1>1. \A T \in (SUBSET S) \ C : IsFiniteSet(T) BY FS_Subset
<1> DEFINE D == (SUBSET S) \ C
<1>4. D # {} /\ \A T \in D : IsFiniteSet(T) BY <1>1
<1> HIDE DEF D
<1>5. \E T \in D : \A U \in D : U \subseteq T => U = T BY <1>4, MinimalSet
<1> USE DEF D
<1>2. PICK T \in (SUBSET S) \ C : \A U \in (SUBSET S) \ C : U \subseteq T => U = T BY <1>5
<1>3. PICK x \in T : T \ {x} \in C => T \in C OBVIOUS
<1> QED BY <1>2, <1>3

\* Recursion: there is a function on the subsets of S whose value at T comes from
\* the member c[T] and the value at the rest, as in the folds over sets.
Chooses(c, S) == \A T \in SUBSET S : T # {} => c[T] \in T
Steps(F, S, V) == \A x \in S, v \in V : F[x][v] \in V
FoldOf(g, S, V, base, F, c) ==
  g \in [SUBSET S -> V] /\ \A T \in SUBSET S : g[T] = IF T = {} THEN base ELSE F[c[T]][g[T \ {c[T]}]]

\* Such a function exists: closed families of subsets, on which it is defined, grow.
LEMMA FoldExists ==
  ASSUME NEW S, IsFiniteSet(S), NEW V, NEW base, base \in V, NEW c, Chooses(c, S), NEW F, Steps(F, S, V)
  PROVE  \E g : FoldOf(g, S, V, base, F, c)
<1> USE DEF Chooses, Steps
<1> DEFINE Closed(D) == D \in SUBSET SUBSET S /\ \A U \in D : U # {} => U \ {c[U]} \in D
           Fits(D, g) == \A U \in D : g[U] = IF U = {} THEN base ELSE F[c[U]][g[U \ {c[U]}]]
           Good(T, D, g) == Closed(D) /\ T \in D /\ g \in [D -> V] /\ Fits(D, g)
\* A closed family can be extended by one set, and says what the values are.
<1>1. Good({}, {{}}, [U \in {{}} |-> base]) OBVIOUS
<1>2. ASSUME NEW T \in SUBSET S, T # {}, NEW D, NEW g, Good(T \ {c[T]}, D, g)
      PROVE  \E E, h : Good(T, E, h)
  <2> DEFINE E == D \cup {T}
             h == [U \in E |-> IF U = T THEN F[c[T]][g[T \ {c[T]}]] ELSE g[U]]
  <2>1. c[T] \in T /\ c[T] \in S /\ T # T \ {c[T]} BY <1>2
  <2>2. Closed(E) BY <1>2
  <2>3. g[T \ {c[T]}] \in V BY <1>2, <2>1
  <2>4. F[c[T]][g[T \ {c[T]}]] \in V BY <2>1, <2>3
  <2>5. h \in [E -> V] BY <1>2, <2>4
  <2>6. CASE T \in D
    <3>1. Good(T, D, g) BY <1>2, <2>6
    <3> HIDE DEF Good
    <3> QED BY <3>1
  <2>7. CASE T \notin D
    <3>1. ASSUME NEW U \in E PROVE h[U] = IF U = {} THEN base ELSE F[c[U]][h[U \ {c[U]}]]
      <4>1. CASE U = T BY <4>1, <1>2, <2>1
      <4>2. CASE U # T
        <5>1. U \in D /\ h[U] = g[U] BY <4>2
        <5>2. U # {} => U \ {c[U]} \in D /\ U \ {c[U]} # T BY <5>1, <1>2, <2>7
        <5> QED BY <5>1, <5>2, <1>2
      <4> QED BY <4>1, <4>2
    <3>2. Fits(E, h) BY <3>1
    <3>3. T \in E OBVIOUS
    <3> HIDE DEF E, h, Fits, Closed
    <3>4. Good(T, E, h) BY <3>2, <3>3, <2>2, <2>5
    <3> HIDE DEF Good
    <3> QED BY <3>4
  <2> QED BY <2>6, <2>7
<1>3. ASSUME NEW T \in SUBSET S, NEW D, NEW g, Good(T, D, g)
      PROVE  /\ g[T] \in V
             /\ T = {} => g[T] = base
             /\ T # {} => Good(T \ {c[T]}, D, g) /\ g[T] = F[c[T]][g[T \ {c[T]}]]
  BY <1>3
<1> DEFINE Val(T, v) == \E D, g : Good(T, D, g) /\ v = g[T]
           Some == {T \in SUBSET S : \E D, g : Good(T, D, g)}
           Same == {T \in SUBSET S : \A v, w : Val(T, v) /\ Val(T, w) => v = w}
<1> HIDE DEF Good, Val
<1>4. SUBSET S \subseteq Some
  <2>1. {} \in Some BY <1>1
  <2>2. \A T \in SUBSET S : T # {} => \E x \in T : (T \ {x} \in Some => T \in Some) BY <1>2
  <2>3. Some \in SUBSET SUBSET S OBVIOUS
  <2> HIDE DEF Some
  <2> QED BY <2>1, <2>2, <2>3, Induct
<1>5. \A T \in SUBSET S : \E v : Val(T, v) BY <1>4 DEF Val
<1>6. ASSUME NEW T \in SUBSET S, NEW v, Val(T, v)
      PROVE  /\ v \in V
             /\ T = {} => v = base
             /\ T # {} => \E w : Val(T \ {c[T]}, w) /\ v = F[c[T]][w]
  <2>1. PICK D, g : Good(T, D, g) /\ v = g[T] BY <1>6 DEF Val
  <2>2. T # {} => Val(T \ {c[T]}, g[T \ {c[T]}]) BY <1>3, <2>1 DEF Val
  <2>3. v \in V /\ (T = {} => v = base) BY <1>3, <2>1
  <2>4. T # {} => v = F[c[T]][g[T \ {c[T]}]] BY <1>3, <2>1
  <2> QED BY <2>2, <2>3, <2>4
<1>7. SUBSET S \subseteq Same
  <2>1. {} \in Same
    <3>1. {} \in SUBSET S OBVIOUS
    <3>2. \A v : Val({}, v) => v = base BY <3>1, <1>6
    <3> QED BY <3>1, <3>2
  <2>2. ASSUME NEW T \in SUBSET S, T # {}, T \ {c[T]} \in Same PROVE T \in Same
    <3> SUFFICES ASSUME NEW v, NEW w, Val(T, v), Val(T, w) PROVE v = w OBVIOUS
    <3>1. PICK x : Val(T \ {c[T]}, x) /\ v = F[c[T]][x] BY <1>6, <2>2
    <3>2. PICK y : Val(T \ {c[T]}, y) /\ w = F[c[T]][y] BY <1>6, <2>2
    <3>3. x = y BY <2>2, <3>1, <3>2
    <3> QED BY <3>1, <3>2, <3>3
  <2>3. \A T \in SUBSET S : T # {} => \E x \in T : (T \ {x} \in Same => T \in Same) BY <2>2
  <2>4. Same \in SUBSET SUBSET S OBVIOUS
  <2> HIDE DEF Same
  <2> QED BY <2>1, <2>3, <2>4, Induct
<1> DEFINE G == [T \in SUBSET S |-> CHOOSE v : Val(T, v)]
<1>8. \A T \in SUBSET S : Val(T, G[T]) BY <1>5
<1>9. G \in [SUBSET S -> V] BY <1>6, <1>8
<1> HIDE DEF G
<1>10. ASSUME NEW T \in SUBSET S PROVE G[T] = IF T = {} THEN base ELSE F[c[T]][G[T \ {c[T]}]]
  <2>0. Val(T, G[T]) BY <1>8
  <2>1. CASE T = {} BY <1>6, <2>0, <2>1
  <2>2. CASE T # {}
    <3>1. T \ {c[T]} \in SUBSET S OBVIOUS
    <3>2. PICK w : Val(T \ {c[T]}, w) /\ G[T] = F[c[T]][w] BY <1>6, <2>0, <2>2
    <3>3. w = G[T \ {c[T]}] BY <3>1, <3>2, <1>7, <1>8
    <3> QED BY <2>2, <3>2, <3>3
  <2> QED BY <2>1, <2>2
<1> QED BY <1>9, <1>10 DEF FoldOf

-----------------------------------------------------------------------------
\* Recursion and induction over numbers, and sorting.

\* What holds at 0 and goes on from each number to the next holds up to N.
LEMMA UpTo ==
  ASSUME NEW N \in Nat, NEW C, 0 \in C, \A n \in 0..(N - 1) : n \in C => n + 1 \in C
  PROVE  \A n \in 0..N : n \in C
<1> DEFINE Out == {n \in 0..N : n \notin C}
<1> SUFFICES ASSUME Out # {} PROVE FALSE OBVIOUS
<1>1. Out \subseteq Nat OBVIOUS
<1>2. Min(Out) \in Out /\ \A n \in Out : Min(Out) <= n BY <1>1, MinOf
<1>3. PICK m \in Out : \A n \in Out : m <= n BY <1>2
<1>4. m # 0 /\ m - 1 \in 0..(N - 1) BY <1>3
<1>5. m - 1 \in C BY <1>3, <1>4
<1>6. (m - 1) + 1 = m BY <1>3
<1> QED BY <1>3, <1>4, <1>5, <1>6

\* A function on 0..N whose value at n comes from the one at n - 1.
Advances(F, N, V) == \A n \in 1..N, v \in V : F[n][v] \in V
Recursion(g, N, V, base, F) ==
  g \in [0..N -> V] /\ \A n \in 0..N : g[n] = IF n = 0 THEN base ELSE F[n][g[n - 1]]

\* Such a function exists.
LEMMA RecursionExists ==
  ASSUME NEW N \in Nat, NEW V, NEW base, base \in V, NEW F, Advances(F, N, V)
  PROVE  \E g : Recursion(g, N, V, base, F)
<1> USE DEF Advances, Recursion
<1> DEFINE S == 1..N
           c == [T \in SUBSET S |-> Max(T)]
<1>1. IsFiniteSet(S) /\ S \subseteq Int BY FS_Interval
<1>2. ASSUME NEW T \in SUBSET S, T # {} PROVE Max(T) \in T /\ \A x \in T : x <= Max(T)
  <2> HIDE DEF S
  <2>1. IsFiniteSet(T) BY <1>1, FS_Subset
  <2>2. T \subseteq Int BY <1>1
  <2> QED BY <2>1, <2>2, <1>2, MaxOf
<1>3. Chooses(c, S) BY <1>2 DEF Chooses
<1>4. Steps(F, S, V) BY DEF Steps
<1>5. \A n \in S : c[1..n] = n
  <2> SUFFICES ASSUME NEW n \in S PROVE c[1..n] = n OBVIOUS
  <2>1. 1..n \in SUBSET S /\ n \in 1..n OBVIOUS
  <2>2. Max(1..n) \in 1..n /\ n <= Max(1..n) BY <1>2, <2>1
  <2>3. Max(1..n) = n BY <2>2
  <2> QED BY <2>1, <2>3
<1> HIDE DEF S, c
<1>6. PICK h : FoldOf(h, S, V, base, F, c) BY <1>1, <1>3, <1>4, FoldExists
<1> DEFINE g == [n \in 0..N |-> h[1..n]]
<1>7. \A n \in 0..N : 1..n \in SUBSET S BY DEF S
<1>8. g \in [0..N -> V] BY <1>6, <1>7 DEF FoldOf
<1>9. ASSUME NEW n \in 0..N PROVE g[n] = IF n = 0 THEN base ELSE F[n][g[n - 1]]
  <2>1. CASE n = 0
    <3>1. 1..n = {} BY <2>1
    <3> QED BY <2>1, <3>1, <1>6, <1>7 DEF FoldOf
  <2>2. CASE n # 0
    <3>1. n \in S /\ n - 1 \in 0..N /\ 1..n # {} /\ (1..n) \ {n} = 1..(n - 1) BY <2>2 DEF S
    <3>2. h[1..n] = F[c[1..n]][h[(1..n) \ {c[1..n]}]] BY <3>1, <1>6, <1>7 DEF FoldOf
    <3>3. h[1..n] = F[n][h[1..(n - 1)]] BY <3>1, <3>2, <1>5
    <3> QED BY <3>1, <3>3, <2>2
  <2> QED BY <2>1, <2>2
<1> QED BY <1>8, <1>9

\* A finite set can be put in order, by any strict total order L on it.
Orders(L, S) ==
  /\ \A x, y \in S : x # y => <<x, y>> \in L \/ <<y, x>> \in L
  /\ \A x, y, z \in S : <<x, y>> \in L /\ <<y, z>> \in L => <<x, z>> \in L
InOrder(s, n, L) == \A i, j \in 1..n : i < j => <<s[i], s[j]>> \in L

\* A finite set can be put in the order of a total relation.
LEMMA SortExists ==
  ASSUME NEW S, IsFiniteSet(S), NEW L, Orders(L, S)
  PROVE  \E s \in [1..Cardinality(S) -> S] : InOrder(s, Cardinality(S), L)
<1> DEFINE Greatest(x, T) == x \in T /\ \A y \in T \ {x} : <<y, x>> \in L
           C == {T \in SUBSET S : T # {} => \E x : Greatest(x, T)}
           D == {T \in SUBSET S : \E s \in [1..Cardinality(T) -> T] : InOrder(s, Cardinality(T), L)}
<1>1. SUBSET S \subseteq C
  <2>1. {} \in C OBVIOUS
  <2>2. ASSUME NEW T \in SUBSET S, T # {}, NEW x \in T, T \ {x} \in C PROVE T \in C
    <3>1. CASE T = {x}
      <4>1. Greatest(x, T) BY <3>1
      <4> QED BY <4>1
    <3>2. CASE T # {x}
      <4>1. PICK g : Greatest(g, T \ {x}) BY <2>2, <3>2
      <4>2. CASE <<g, x>> \in L
        <5>1. Greatest(x, T) BY <4>1, <4>2 DEF Orders
        <5> QED BY <5>1
      <4>3. CASE <<x, g>> \in L
        <5>1. Greatest(g, T) BY <4>1, <4>3
        <5> QED BY <5>1
      <4> QED BY <4>1, <4>2, <4>3 DEF Orders
    <3> QED BY <3>1, <3>2
  <2>3. \A T \in SUBSET S : T # {} => \E x \in T : (T \ {x} \in C => T \in C) BY <2>2
  <2>4. C \in SUBSET SUBSET S OBVIOUS
  <2> HIDE DEF C
  <2> QED BY <2>1, <2>3, <2>4, Induct
<1>2. SUBSET S \subseteq D
  <2>1. {} \in D
    <3>1. Cardinality({}) = 0 BY FS_EmptySet
    <3>2. <<>> \in [1..0 -> {}] /\ InOrder(<<>>, 0, L) BY DEF InOrder
    <3> QED BY <3>1, <3>2
  <2>2. ASSUME NEW T \in SUBSET S, NEW g, Greatest(g, T), T \ {g} \in D PROVE T \in D
    <3>1. IsFiniteSet(T) /\ IsFiniteSet(T \ {g}) BY FS_Subset
    <3>2. Cardinality(T \ {g}) = Cardinality(T) - 1 BY <3>1, <2>2, FS_RemoveElement
    <3>3. Cardinality(T) \in Nat /\ Cardinality(T \ {g}) \in Nat BY <3>1, FS_CardinalityType
    <3>4. PICK n \in Nat : n = Cardinality(T \ {g}) BY <3>3
    <3>5. Cardinality(T) = n + 1 BY <3>2, <3>3, <3>4
    <3>6. PICK s \in [1..n -> T \ {g}] : InOrder(s, n, L) BY <2>2, <3>4
    <3> DEFINE t == [i \in 1..(n + 1) |-> IF i = n + 1 THEN g ELSE s[i]]
    <3>7. t \in [1..(n + 1) -> T] BY <3>6, <2>2
    <3>8. InOrder(t, n + 1, L) BY <3>6, <2>2 DEF InOrder
    <3> QED BY <3>5, <3>7, <3>8
  <2>3. \A T \in SUBSET S : T # {} => \E x \in T : (T \ {x} \in D => T \in D) BY <1>1, <2>2
  <2>4. D \in SUBSET SUBSET S OBVIOUS
  <2> HIDE DEF D
  <2> QED BY <2>1, <2>3, <2>4, Induct
<1> QED BY <1>2

-----------------------------------------------------------------------------
\* Queues: sequences in which nothing is listed twice.

\* The element that RemoveFirst removes is the only one of its kind.
LEMMA RemoveFirstAt ==
  ASSUME NEW S, NEW s \in Seq(S), NEW e, IsInjective(s), e \in ToSet(s)
  PROVE  \E k \in 1..Len(s) : s[k] = e /\ RemoveFirst(s, e) = RemoveAt(s, k)
<1>0. DOMAIN s = 1..Len(s) /\ Len(s) \in Nat
  BY LenProperties
<1>1. PICK k \in 1..Len(s) : s[k] = e
  BY <1>0 DEF ToSet
<1>2. {i \in 1..Len(s) : s[i] = e} = {k}
  BY <1>0, <1>1 DEF IsInjective
<1>3. Min({k}) = k
  BY <1>0 DEF Min
<1>4. SelectInSeq(s, LAMBDA v : v = e) = k
  BY <1>2, <1>3 DEF SelectInSeq
<1> QED
  BY <1>1, <1>4 DEF RemoveFirst

\* Removing element k of a sequence shifts the ones behind it.
LEMMA RemoveAtProperties ==
  ASSUME NEW S, NEW s \in Seq(S), NEW k \in 1..Len(s)
  PROVE  /\ RemoveAt(s, k) \in Seq(S)
         /\ Len(RemoveAt(s, k)) = Len(s) - 1
         /\ \A n \in 1..(Len(s) - 1) : RemoveAt(s, k)[n] = IF n < k THEN s[n] ELSE s[n + 1]
<1> DEFINE front == SubSeq(s, 1, k - 1)
           back == SubSeq(s, k + 1, Len(s))
<1>0. Len(s) \in Nat /\ k \in Nat /\ \A n \in 1..Len(s) : s[n] \in S
  BY ElementOfSeq, LenProperties
<1>1. /\ front \in Seq(S) /\ Len(front) = k - 1
      /\ \A n \in 1..(k - 1) : front[n] = s[n]
  <2>1. \A n \in 1..(k - 1) : s[n] \in S
    BY <1>0
  <2> QED
    BY <2>1, <1>0, SubSeqProperties
<1>2. /\ back \in Seq(S) /\ Len(back) = Len(s) - k
      /\ \A n \in 1..(Len(s) - k) : back[n] = s[k + n]
  <2>1. \A n \in (k + 1)..Len(s) : s[n] \in S
    BY <1>0
  <2> QED
    BY <2>1, <1>0, SubSeqProperties
<1> HIDE DEF front, back
<1>3. /\ front \o back \in Seq(S)
      /\ Len(front \o back) = Len(front) + Len(back)
      /\ \A n \in 1..(Len(front) + Len(back)) :
           (front \o back)[n] = IF n <= Len(front) THEN front[n] ELSE back[n - Len(front)]
  BY <1>1, <1>2, ConcatProperties
<1>l. Len(front) + Len(back) = Len(s) - 1
  BY <1>0, <1>1, <1>2
<1>4. RemoveAt(s, k) = front \o back
  BY DEF RemoveAt, front, back
<1>5. ASSUME NEW n \in 1..(Len(s) - 1)
      PROVE  (front \o back)[n] = IF n < k THEN s[n] ELSE s[n + 1]
  <2>0. n \in Nat /\ n <= Len(s) - 1
    BY <1>0, <1>5
  <2>1. CASE n < k
    <3>1. n \in 1..(k - 1) /\ n <= Len(front)
      BY <2>0, <2>1, <1>0, <1>1, <1>5
    <3> QED
      BY <3>1, <2>1, <1>1, <1>3, <1>5, <1>l
  <2>2. CASE n >= k
    <3>1. n - (k - 1) \in 1..(Len(s) - k) /\ k + (n - (k - 1)) = n + 1
      BY <2>0, <2>2, <1>0
    <3>2. (front \o back)[n] = back[n - (k - 1)]
      BY <2>0, <2>2, <1>0, <1>1, <1>3, <1>5, <1>l
    <3>3. back[n - (k - 1)] = s[n + 1]
      BY <3>1, <1>2
    <3> QED
      BY <3>2, <3>3, <2>0, <2>2, <1>0
  <2>3. n < k \/ n >= k
    BY <2>0, <1>0
  <2> QED
    BY <2>1, <2>2, <2>3
<1> QED
  BY <1>3, <1>4, <1>5, <1>l

\* RemoveFirst takes one element out of a queue and leaves the others.
LEMMA RemoveFirstProperties ==
  ASSUME NEW S, NEW s \in Seq(S), NEW e, IsInjective(s)
  PROVE  /\ RemoveFirst(s, e) \in Seq(S)
         /\ IsInjective(RemoveFirst(s, e))
         /\ ToSet(RemoveFirst(s, e)) = ToSet(s) \ {e}
<1>0. DOMAIN s = 1..Len(s) /\ Len(s) \in Nat
  BY LenProperties
<1>1. CASE e \notin ToSet(s)
  BY <1>0, <1>1 DEF RemoveFirst, ToSet
<1>2. CASE e \in ToSet(s)
  <2>1. PICK k \in 1..Len(s) : s[k] = e /\ RemoveFirst(s, e) = RemoveAt(s, k)
    BY <1>2, RemoveFirstAt
  <2> DEFINE t == RemoveAt(s, k)
  <2>2. /\ t \in Seq(S) /\ Len(t) = Len(s) - 1
        /\ \A n \in 1..(Len(s) - 1) : t[n] = IF n < k THEN s[n] ELSE s[n + 1]
    BY RemoveAtProperties
  <2>3. DOMAIN t = 1..(Len(s) - 1)
    BY <2>2, LenProperties
  <2> HIDE DEF t
  <2>4. IsInjective(t)
    BY SMTT(30), <1>0, <2>2, <2>3 DEF IsInjective
  <2>5. ASSUME NEW x \in ToSet(t) PROVE x \in ToSet(s) \ {e}
    <3>1. PICK n \in 1..(Len(s) - 1) : t[n] = x
      BY <2>3, <2>5 DEF ToSet
    <3>2. n \in 1..Len(s) /\ n + 1 \in 1..Len(s) /\ k \in Int
      BY <1>0
    <3>3. PICK i \in 1..Len(s) : i # k /\ s[i] = x
      BY <1>0, <2>2, <3>1, <3>2
    <3> QED
      BY <1>0, <2>1, <3>3 DEF ToSet, IsInjective
  <2>6. ASSUME NEW x \in ToSet(s) \ {e} PROVE x \in ToSet(t)
    <3>1. PICK i \in 1..Len(s) : s[i] = x
      BY <1>0, <2>6 DEF ToSet
    <3>2. i # k
      BY <2>1, <2>6, <3>1
    <3>3. CASE i < k
      <4>1. i \in 1..(Len(s) - 1) /\ t[i] = x
        BY <1>0, <2>2, <3>1, <3>3
      <4> QED
        BY <4>1, <2>3 DEF ToSet
    <3>4. CASE i > k
      <4>1. i - 1 \in 1..(Len(s) - 1) /\ ~(i - 1 < k) /\ (i - 1) + 1 = i
        BY <1>0, <3>4
      <4>2. t[i - 1] = x
        BY <4>1, <2>2, <3>1
      <4> QED
        BY <4>1, <4>2, <2>3 DEF ToSet
    <3> QED
      BY <3>2, <3>3, <3>4, <1>0
  <2> QED
    BY <2>1, <2>2, <2>4, <2>5, <2>6 DEF t
<1> QED
  BY <1>1, <1>2

\* A newcomer is put behind the others.
LEMMA AppendFresh ==
  ASSUME NEW S, NEW s \in Seq(S), NEW e \in S, IsInjective(s), e \notin ToSet(s)
  PROVE  /\ Append(s, e) \in Seq(S)
         /\ IsInjective(Append(s, e))
         /\ ToSet(Append(s, e)) = ToSet(s) \cup {e}
<1> DEFINE t == Append(s, e)
<1>1. /\ t \in Seq(S) /\ Len(t) = Len(s) + 1 /\ t[Len(s) + 1] = e
      /\ \A n \in 1..Len(s) : t[n] = s[n]
  BY AppendProperties
<1>2. DOMAIN t = 1..(Len(s) + 1) /\ DOMAIN s = 1..Len(s) /\ Len(s) \in Nat
  BY <1>1, LenProperties
<1> HIDE DEF t
<1>3. \A n \in 1..(Len(s) + 1) : n \in 1..Len(s) \/ n = Len(s) + 1
  BY <1>2
<1>4. \A n \in 1..Len(s) : n \in 1..(Len(s) + 1) /\ s[n] # e
  BY <1>2 DEF ToSet
<1>5. Len(s) + 1 \in 1..(Len(s) + 1)
  BY <1>2
<1>6. IsInjective(t)
  BY <1>1, <1>2, <1>3, <1>4 DEF IsInjective
<1>7. ToSet(t) = ToSet(s) \cup {e}
  BY <1>1, <1>2, <1>3, <1>4, <1>5 DEF ToSet
<1> QED
  BY <1>1, <1>6, <1>7 DEF t

-----------------------------------------------------------------------------
\* Sums of natural numbers over finite sets.
Sum(f, S) == SumFunctionOnSet(f, S)
Picked(T) == CHOOSE x \in T : TRUE
SumRecursion(g, f, S) == g = [T \in SUBSET S |-> IF T = {} THEN 0 ELSE f[Picked(T)] + g[T \ {Picked(T)}]]

\* The recursive function behind a sum.
LEMMA SumFunctionExists ==
  ASSUME NEW S, IsFiniteSet(S), NEW f, \A x \in S : f[x] \in Nat
  PROVE  \E g \in [SUBSET S -> Nat] : SumRecursion(g, f, S) /\ Sum(f, S) = g[S]
<1> DEFINE I == CHOOSE h : h = [T \in SUBSET S |-> IF T = {} THEN 0 ELSE f[Picked(T)] + h[T \ {Picked(T)}]]
           c == [T \in SUBSET S |-> Picked(T)]
           F == [x \in S |-> [v \in Nat |-> f[x] + v]]
<1>1. Sum(f, S) = I[S]
  BY Zenon DEF Sum, Picked, SumFunctionOnSet, FoldFunctionOnSet, MapThenFoldSet
<1>2. \A T \in SUBSET S : T # {} => Picked(T) \in T
  BY DEF Picked
<1>3. Chooses(c, S)
  BY <1>2 DEF Chooses
<1>4. Steps(F, S, Nat)
  BY DEF Steps
<1>5. PICK g : FoldOf(g, S, Nat, 0, F, c)
  <2> HIDE DEF F, c
  <2> QED
    BY <1>3, <1>4, FoldExists
<1>6. g \in [SUBSET S -> Nat] /\ \A T \in SUBSET S : g[T] = IF T = {} THEN 0 ELSE F[c[T]][g[T \ {c[T]}]]
  BY <1>5 DEF FoldOf
<1>7. ASSUME NEW T \in SUBSET S PROVE g[T] = IF T = {} THEN 0 ELSE f[Picked(T)] + g[T \ {Picked(T)}]
  <2>1. CASE T = {}
    BY <1>6, <2>1
  <2>2. CASE T # {}
    <3>1. c[T] = Picked(T) /\ Picked(T) \in S /\ T \ {Picked(T)} \in SUBSET S
      BY <1>2, <2>2
    <3>2. g[T \ {Picked(T)}] \in Nat
      BY <1>6, <3>1
    <3>3. F[Picked(T)][g[T \ {Picked(T)}]] = f[Picked(T)] + g[T \ {Picked(T)}]
      BY <3>1, <3>2
    <3> QED
      BY <1>6, <2>2, <3>1, <3>3
  <2> QED
    BY <2>1, <2>2
<1>8. g = [T \in SUBSET S |-> IF T = {} THEN 0 ELSE f[Picked(T)] + g[T \ {Picked(T)}]]
  BY <1>6, <1>7
<1>9. I = [T \in SUBSET S |-> IF T = {} THEN 0 ELSE f[Picked(T)] + I[T \ {Picked(T)}]]
  BY <1>8, Zenon
<1> HIDE DEF I
<1> DEFINE Same == {T \in SUBSET S : I[T] = g[T]}
<1>10. SUBSET S \subseteq Same
  <2>1. {} \in Same
    BY <1>8, <1>9
  <2>2. \A T \in SUBSET S : T # {} => \E x \in T : (T \ {x} \in Same => T \in Same)
    <3> SUFFICES ASSUME NEW T \in SUBSET S, T # {}, T \ {Picked(T)} \in Same PROVE T \in Same
      BY <1>2
    <3>1. I[T] = f[Picked(T)] + I[T \ {Picked(T)}]
      BY <1>9
    <3>2. g[T] = f[Picked(T)] + g[T \ {Picked(T)}]
      BY <1>7
    <3> QED
      BY <3>1, <3>2
  <2>3. Same \in SUBSET SUBSET S
    OBVIOUS
  <2> HIDE DEF Same
  <2> QED
    BY <2>1, <2>2, <2>3, Induct
<1>11. I[S] = g[S]
  BY <1>10
<1> QED
  BY <1>1, <1>6, <1>8, <1>11 DEF SumRecursion

\* Two such functions agree wherever both are defined.
LEMMA SumFunctionUnique ==
  ASSUME NEW S, IsFiniteSet(S), NEW f, NEW R \in SUBSET S,
         NEW g, SumRecursion(g, f, S), NEW h, SumRecursion(h, f, R)
  PROVE  h[R] = g[R]
<1>1. IsFiniteSet(R)
  BY FS_Subset
<1> DEFINE Same == {T \in SUBSET R : h[T] = g[T]}
<1>2. \A T \in SUBSET R : T # {} => Picked(T) \in T
  BY DEF Picked
<1>3. SUBSET R \subseteq Same
  <2>1. {} \in Same
    BY DEF SumRecursion
  <2>2. \A T \in SUBSET R : T # {} => \E x \in T : (T \ {x} \in Same => T \in Same)
    <3> SUFFICES ASSUME NEW T \in SUBSET R, T # {}, T \ {Picked(T)} \in Same PROVE T \in Same
      BY <1>2
    <3>1. h[T] = f[Picked(T)] + h[T \ {Picked(T)}]
      BY DEF SumRecursion
    <3>2. g[T] = f[Picked(T)] + g[T \ {Picked(T)}]
      <4>1. T \in SUBSET S
        OBVIOUS
      <4> QED
        BY <4>1 DEF SumRecursion
    <3> QED
      BY <3>1, <3>2
  <2>3. Same \in SUBSET SUBSET R
    OBVIOUS
  <2> HIDE DEF Same
  <2> QED
    BY <1>1, <2>1, <2>2, <2>3, Induct
<1> QED
  BY <1>3

\* A sum is a number, of nothing zero, and any member may be counted first.
LEMMA SumStep ==
  ASSUME NEW S, IsFiniteSet(S), NEW f, \A x \in S : f[x] \in Nat
  PROVE  /\ Sum(f, S) \in Nat
         /\ S = {} => Sum(f, S) = 0
         /\ \A e \in S : Sum(f, S) = f[e] + Sum(f, S \ {e})
<1>1. PICK g \in [SUBSET S -> Nat] : SumRecursion(g, f, S) /\ Sum(f, S) = g[S]
  BY SumFunctionExists
<1>2. ASSUME NEW R \in SUBSET S PROVE Sum(f, R) = g[R]
  <2>1. IsFiniteSet(R) /\ \A x \in R : f[x] \in Nat
    BY FS_Subset
  <2>2. PICK h \in [SUBSET R -> Nat] : SumRecursion(h, f, R) /\ Sum(f, R) = h[R]
    BY <2>1, SumFunctionExists
  <2> QED
    BY <1>1, <2>2, SumFunctionUnique
<1>3. \A T \in SUBSET S : T # {} => Picked(T) \in T /\ g[T] = f[Picked(T)] + g[T \ {Picked(T)}]
  BY <1>1 DEF SumRecursion, Picked
<1> DEFINE Odd == {T \in SUBSET S : \E e \in T : g[T] # f[e] + g[T \ {e}]}
<1>4. Odd = {}
  <2> SUFFICES ASSUME Odd # {} PROVE FALSE
    OBVIOUS
  <2>1. \A T \in Odd : IsFiniteSet(T)
    BY FS_Subset
  <2>2. \E T \in Odd : \A U \in Odd : U \subseteq T => U = T
    <3> HIDE DEF Odd
    <3> QED
      BY <2>1, MinimalSet
  <2>3. PICK T \in Odd : \A U \in Odd : U \subseteq T => U = T
    BY <2>2
  <2>4. PICK e \in T : g[T] # f[e] + g[T \ {e}]
    OBVIOUS
  <2> DEFINE x == Picked(T)
  <2>5. x \in T /\ g[T] = f[x] + g[T \ {x}] /\ e # x
    BY <1>3, <2>4
  <2> HIDE DEF x
  <2>6. T \ {x} \notin Odd /\ T \ {e} \notin Odd /\ T \ {x} \in SUBSET S /\ T \ {e} \in SUBSET S
    BY <2>3, <2>4, <2>5
  <2>7. g[T \ {x}] = f[e] + g[(T \ {x}) \ {e}] /\ g[T \ {e}] = f[x] + g[(T \ {e}) \ {x}]
    BY <2>4, <2>5, <2>6
  <2>8. (T \ {x}) \ {e} = (T \ {e}) \ {x} /\ (T \ {e}) \ {x} \in SUBSET S
    OBVIOUS
  <2> DEFINE rest == g[(T \ {e}) \ {x}]
  <2>9. rest \in Nat /\ f[x] \in Nat /\ f[e] \in Nat
    BY <1>1, <2>4, <2>5, <2>8
  <2>10. g[T] = f[x] + (f[e] + rest) /\ g[T \ {e}] = f[x] + rest
    BY <2>5, <2>7, <2>8
  <2> HIDE DEF rest
  <2> QED
    BY <2>4, <2>9, <2>10
<1>5. Sum(f, S) \in Nat
  BY <1>1
<1>6. S = {} => Sum(f, S) = 0
  BY <1>1 DEF SumRecursion
<1>7. ASSUME NEW e \in S PROVE Sum(f, S) = f[e] + Sum(f, S \ {e})
  <2>1. g[S] = f[e] + g[S \ {e}]
    BY <1>4
  <2> QED
    BY <1>1, <1>2, <2>1
<1> QED
  BY <1>5, <1>6, <1>7

\* One more member.
LEMMA SumAdd ==
  ASSUME NEW S, IsFiniteSet(S), NEW e, e \notin S, NEW f, \A x \in S \cup {e} : f[x] \in Nat
  PROVE  Sum(f, S \cup {e}) = f[e] + Sum(f, S)
<1>1. IsFiniteSet(S \cup {e})
  BY FS_AddElement
<1>2. (S \cup {e}) \ {e} = S
  OBVIOUS
<1> QED
  BY <1>1, <1>2, SumStep

\* Smaller numbers, or fewer of them, make no greater sum.
LEMMA SumLeq ==
  ASSUME NEW S, IsFiniteSet(S), NEW f, \A x \in S : f[x] \in Nat,
         NEW R \in SUBSET S, NEW g, \A x \in R : g[x] \in Nat /\ g[x] <= f[x]
  PROVE  Sum(g, R) <= Sum(f, S)
<1> DEFINE C == {T \in SUBSET S : Sum(g, T \cap R) <= Sum(f, T)}
<1>0. \A T \in SUBSET S : IsFiniteSet(T) /\ IsFiniteSet(T \cap R)
  BY FS_Subset
<1>1. {} \in C
  <2>1. Sum(f, {}) = 0 /\ Sum(g, {} \cap R) = 0
    <3>1. {} \cap R = {} /\ IsFiniteSet({})
      BY FS_EmptySet
    <3> QED
      BY <3>1, SumStep
  <2> QED
    BY <2>1
<1>2. ASSUME NEW T \in SUBSET S, T # {} PROVE \E x \in T : (T \ {x} \in C => T \in C)
  <2>1. PICK e \in T : TRUE
    BY <1>2
  <2> SUFFICES ASSUME T \ {e} \in C PROVE T \in C
    OBVIOUS
  <2>2. Sum(f, T) = f[e] + Sum(f, T \ {e}) /\ Sum(f, T \ {e}) \in Nat /\ f[e] \in Nat
    <3>1. IsFiniteSet(T) /\ \A x \in T : f[x] \in Nat
      BY <1>0
    <3>2. IsFiniteSet(T \ {e}) /\ \A x \in T \ {e} : f[x] \in Nat
      BY <1>0, <3>1
    <3> QED
      BY <3>1, <3>2, SumStep
  <2>3. IsFiniteSet(T \cap R) /\ \A x \in T \cap R : g[x] \in Nat
    BY <1>0
  <2>4. IsFiniteSet((T \ {e}) \cap R) /\ \A x \in (T \ {e}) \cap R : g[x] \in Nat
    BY <1>0
  <2>5. Sum(g, (T \ {e}) \cap R) \in Nat /\ Sum(g, (T \ {e}) \cap R) <= Sum(f, T \ {e})
    BY <2>4, SumStep
  <2>6. CASE e \in R
    <3>1. (T \cap R) \ {e} = (T \ {e}) \cap R /\ e \in T \cap R
      BY <2>6
    <3>2. Sum(g, T \cap R) = g[e] + Sum(g, (T \ {e}) \cap R)
      BY <2>3, <3>1, SumStep
    <3>3. g[e] \in Nat /\ g[e] <= f[e]
      BY <2>6
    <3>4. Sum(g, T \cap R) <= Sum(f, T)
      BY <2>2, <2>5, <3>2, <3>3
    <3> QED
      BY <3>4
  <2>7. CASE e \notin R
    <3>1. Sum(g, T \cap R) = Sum(g, (T \ {e}) \cap R)
      <4>1. T \cap R = (T \ {e}) \cap R
        BY <2>7
      <4> QED
        BY <4>1
    <3>2. Sum(g, T \cap R) <= Sum(f, T)
      BY <2>2, <2>5, <3>1
    <3> QED
      BY <3>2
  <2> QED
    BY <2>6, <2>7
<1>3. C \in SUBSET SUBSET S
  OBVIOUS
<1>4. SUBSET S \subseteq C
  <2> HIDE DEF C
  <2> QED
    BY <1>1, <1>2, <1>3, Induct
<1>5. S \in C /\ S \cap R = R
  BY <1>4
<1> QED
  BY <1>5

\* A sum depends on the numbers only.
LEMMA SumSame ==
  ASSUME NEW S, IsFiniteSet(S), NEW f, NEW g, \A x \in S : f[x] \in Nat /\ g[x] = f[x]
  PROVE  Sum(g, S) = Sum(f, S)
<1>1. \A x \in S : g[x] \in Nat /\ f[x] <= g[x] /\ g[x] <= f[x]
  OBVIOUS
<1>2. Sum(g, S) <= Sum(f, S) /\ Sum(f, S) <= Sum(g, S)
  BY <1>1, SumLeq
<1>3. Sum(g, S) \in Nat /\ Sum(f, S) \in Nat
  BY <1>1, SumStep
<1> QED
  BY <1>2, <1>3

\* It does not depend on how they are numbered.
LEMMA SumRenumbered ==
  ASSUME NEW S, IsFiniteSet(S), NEW h, \A x, y \in S : h[x] = h[y] => x = y,
         NEW f, \A x \in S : f[h[x]] \in Nat, NEW g, \A x \in S : g[x] = f[h[x]]
  PROVE  Sum(g, S) = Sum(f, {h[x] : x \in S})
<1> DEFINE Image(T) == {h[x] : x \in T}
           C == {T \in SUBSET S : Sum(g, T) = Sum(f, Image(T))}
<1>0. \A T \in SUBSET S : IsFiniteSet(T) /\ IsFiniteSet(Image(T))
  BY FS_Subset, ImageFinite
<1>1. {} \in C
  <2>1. Image({}) = {} /\ IsFiniteSet({})
    BY FS_EmptySet
  <2>2. Sum(f, {}) = 0 /\ Sum(g, {}) = 0
    BY <2>1, SumStep
  <2> QED
    BY <2>1, <2>2
<1>2. ASSUME NEW T \in SUBSET S, T # {} PROVE \E x \in T : (T \ {x} \in C => T \in C)
  <2>1. PICK e \in T : TRUE
    BY <1>2
  <2> SUFFICES ASSUME T \ {e} \in C PROVE T \in C
    OBVIOUS
  <2>2. Image(T) \ {h[e]} = Image(T \ {e}) /\ h[e] \in Image(T)
    OBVIOUS
  <2>3. IsFiniteSet(T) /\ IsFiniteSet(Image(T)) /\ (\A x \in T : g[x] \in Nat) /\ \A x \in Image(T) : f[x] \in Nat
    BY <1>0
  <2> HIDE DEF Image
  <2>4. Sum(g, T) = g[e] + Sum(g, T \ {e})
    BY <2>3, SumStep
  <2>5. Sum(f, Image(T)) = f[h[e]] + Sum(f, Image(T \ {e}))
    <3> DEFINE U == Image(T)
    <3>1. IsFiniteSet(U) /\ (\A x \in U : f[x] \in Nat) /\ h[e] \in U
      BY <2>2, <2>3
    <3> HIDE DEF U
    <3>2. Sum(f, U) = f[h[e]] + Sum(f, U \ {h[e]})
      BY <3>1, SumStep
    <3> QED
      BY <2>2, <3>2 DEF U
  <2> QED
    BY <2>4, <2>5
<1>3. C \in SUBSET SUBSET S
  OBVIOUS
<1>4. SUBSET S \subseteq C
  <2> HIDE DEF C
  <2> QED
    BY <1>1, <1>2, <1>3, Induct
<1> QED
  BY <1>4

\* The sum over two sets that share nothing.
LEMMA SumUnion ==
  ASSUME NEW R, NEW S, IsFiniteSet(R), IsFiniteSet(S), R \cap S = {}, NEW f, \A x \in R \cup S : f[x] \in Nat
  PROVE  Sum(f, R \cup S) = Sum(f, R) + Sum(f, S)
<1> DEFINE C == {T \in SUBSET S : Sum(f, R \cup T) = Sum(f, R) + Sum(f, T)}
<1>0. /\ IsFiniteSet(R \cup S) /\ Sum(f, R) \in Nat
      /\ \A T \in SUBSET S : IsFiniteSet(T) /\ IsFiniteSet(R \cup T) /\ \A x \in R \cup T : f[x] \in Nat
  BY FS_Subset, FS_Union, SumStep
<1>1. {} \in C
  <2>1. R \cup {} = R /\ IsFiniteSet({}) /\ Sum(f, {}) = 0
    BY FS_EmptySet, SumStep
  <2> QED
    BY <1>0, <2>1
<1>2. ASSUME NEW T \in SUBSET S, T # {} PROVE \E x \in T : (T \ {x} \in C => T \in C)
  <2>1. PICK e \in T : TRUE
    BY <1>2
  <2> SUFFICES ASSUME T \ {e} \in C PROVE T \in C
    OBVIOUS
  <2>2. (R \cup T) \ {e} = R \cup (T \ {e}) /\ e \in R \cup T
    OBVIOUS
  <2>3. Sum(f, R \cup T) = f[e] + Sum(f, R \cup (T \ {e}))
    <3> DEFINE U == R \cup T
    <3>1. IsFiniteSet(U) /\ (\A x \in U : f[x] \in Nat) /\ e \in U
      BY <1>0
    <3> HIDE DEF U
    <3>2. Sum(f, U) = f[e] + Sum(f, U \ {e})
      BY <3>1, SumStep
    <3> QED
      BY <2>2, <3>2 DEF U
  <2>4. Sum(f, T) = f[e] + Sum(f, T \ {e}) /\ f[e] \in Nat /\ Sum(f, T \ {e}) \in Nat
    <3>1. IsFiniteSet(T \ {e}) /\ \A x \in T \ {e} : f[x] \in Nat
      BY <1>0
    <3> QED
      BY <1>0, <3>1, SumStep
  <2> QED
    BY <1>0, <2>3, <2>4
<1>3. C \in SUBSET SUBSET S
  OBVIOUS
<1>4. SUBSET S \subseteq C
  <2> HIDE DEF C
  <2> QED
    BY <1>1, <1>2, <1>3, Induct
<1> QED
  BY <1>4

\* What adds up to something has a member that counts.
LEMMA SumPositive ==
  ASSUME NEW S, IsFiniteSet(S), NEW f, \A x \in S : f[x] \in Nat, Sum(f, S) > 0
  PROVE  \E x \in S : f[x] > 0
<1> SUFFICES ASSUME \A x \in S : f[x] = 0 PROVE FALSE
  OBVIOUS
<1> DEFINE C == {T \in SUBSET S : Sum(f, T) = 0}
<1>0. \A T \in SUBSET S : IsFiniteSet(T)
  BY FS_Subset
<1>1. {} \in C
  BY FS_EmptySet, SumStep
<1>2. ASSUME NEW T \in SUBSET S, T # {} PROVE \E x \in T : (T \ {x} \in C => T \in C)
  <2>1. PICK e \in T : TRUE
    BY <1>2
  <2>2. IsFiniteSet(T) /\ \A x \in T : f[x] \in Nat
    BY <1>0
  <2>3. Sum(f, T) = f[e] + Sum(f, T \ {e}) /\ f[e] = 0
    BY <2>2, SumStep
  <2>4. T \ {e} \in C => Sum(f, T) = 0
    BY <2>3
  <2> QED
    BY <2>4
<1>3. C \in SUBSET SUBSET S
  OBVIOUS
<1>4. SUBSET S \subseteq C
  <2> HIDE DEF C
  <2> QED
    BY <1>1, <1>2, <1>3, Induct
<1> QED
  BY <1>4

\* Sums along a sequence.
SumTo(f, k) == Sum(f, 1..k)

\* One more element.
LEMMA SumToStep ==
  ASSUME NEW n \in Nat, NEW f, \A i \in 1..(n + 1) : f[i] \in Nat
  PROVE  SumTo(f, n) \in Nat /\ SumTo(f, n + 1) = SumTo(f, n) + f[n + 1]
<1>1. IsFiniteSet(1..n) /\ n + 1 \notin 1..n /\ 1..(n + 1) = 1..n \cup {n + 1}
  BY FS_Interval
<1> DEFINE I == 1..n
<1>2. /\ IsFiniteSet(I) /\ n + 1 \notin I /\ \A x \in I \cup {n + 1} : f[x] \in Nat
      /\ \A x \in I : f[x] \in Nat
  BY <1>1
<1> HIDE DEF I
<1>3. Sum(f, I \cup {n + 1}) = f[n + 1] + Sum(f, I) /\ Sum(f, I) \in Nat
  BY <1>2, SumAdd, SumStep
<1>4. f[n + 1] \in Nat
  BY <1>2
<1>5. Sum(f, I \cup {n + 1}) = Sum(f, I) + f[n + 1]
  BY <1>3, <1>4
<1> QED
  BY <1>1, <1>3, <1>5 DEF I, SumTo

\* No element, and the type of a sum.
LEMMA SumToType ==
  ASSUME NEW n \in Nat, NEW f, \A i \in 1..n : f[i] \in Nat
  PROVE  SumTo(f, n) \in Nat /\ SumTo(f, 0) = 0
<1>1. IsFiniteSet(1..n) /\ IsFiniteSet(1..0) /\ 1..0 = {}
  BY FS_Interval
<1> QED
  BY <1>1, SumStep DEF SumTo

\* The same numbers.
LEMMA SumToSame ==
  ASSUME NEW n \in Nat, NEW f, NEW g, \A i \in 1..n : f[i] \in Nat /\ g[i] = f[i]
  PROVE  SumTo(g, n) = SumTo(f, n)
<1>1. IsFiniteSet(1..n)
  BY FS_Interval
<1> QED
  BY <1>1, SumSame DEF SumTo

\* A part, and no greater numbers, make no greater sum.
LEMMA SumToLeq ==
  ASSUME NEW n \in Nat, NEW m \in 0..n, NEW f, \A i \in 1..n : f[i] \in Nat
  PROVE  SumTo(f, m) <= SumTo(f, n)
<1>1. IsFiniteSet(1..n) /\ 1..m \in SUBSET (1..n) /\ \A i \in 1..m : f[i] \in Nat /\ f[i] <= f[i]
  BY FS_Interval
<1> QED
  BY <1>1, SumLeq DEF SumTo

\* The first a elements and the m behind them.
LEMMA SumToShift ==
  ASSUME NEW a \in Nat, NEW m \in Nat, NEW f, \A i \in 1..(a + m) : f[i] \in Nat,
         NEW g, \A i \in 1..m : g[i] = f[a + i]
  PROVE  SumTo(f, a + m) = SumTo(f, a) + SumTo(g, m)
<1> DEFINE h == [i \in 1..m |-> a + i]
           R == 1..a
           S == {h[i] : i \in 1..m}
<1>1. IsFiniteSet(1..m) /\ IsFiniteSet(R)
  BY FS_Interval
<1>2. IsFiniteSet(S)
  <2> HIDE DEF h
  <2> QED
    BY <1>1, ImageFinite
<1>3. S = (a + 1)..(a + m)
  <2>1. ASSUME NEW x \in (a + 1)..(a + m) PROVE x \in S
    <3>1. x - a \in 1..m /\ h[x - a] = x
      OBVIOUS
    <3> QED
      BY <3>1
  <2>2. \A i \in 1..m : h[i] \in (a + 1)..(a + m)
    OBVIOUS
  <2> QED
    BY <2>1, <2>2
<1>4. R \cap S = {} /\ R \cup S = 1..(a + m)
  BY <1>3
<1>5. Sum(g, 1..m) = Sum(f, S)
  <2>1. \A x, y \in 1..m : h[x] = h[y] => x = y
    OBVIOUS
  <2>2. \A x \in 1..m : f[h[x]] \in Nat /\ g[x] = f[h[x]]
    OBVIOUS
  <2> DEFINE D == 1..m
  <2> HIDE DEF h, D
  <2>3. IsFiniteSet(D) /\ (\A x, y \in D : h[x] = h[y] => x = y) /\ \A x \in D : f[h[x]] \in Nat /\ g[x] = f[h[x]]
    BY <1>1, <2>1, <2>2 DEF D
  <2>4. Sum(g, D) = Sum(f, {h[x] : x \in D})
    BY <2>3, SumRenumbered
  <2> QED
    BY <2>4 DEF D
<1>6. \A x \in R \cup S : f[x] \in Nat
  BY <1>4
<1> HIDE DEF R, S
<1>7. Sum(f, R \cup S) = Sum(f, R) + Sum(f, S)
  BY <1>1, <1>2, <1>4, <1>6, SumUnion
<1> QED
  BY <1>4, <1>5, <1>7 DEF SumTo, R

\* All but element k.
LEMMA SumToWithout ==
  ASSUME NEW n \in Nat, NEW k \in 1..n, NEW f, \A i \in 1..n : f[i] \in Nat,
         NEW g, \A i \in 1..(n - 1) : g[i] = IF i < k THEN f[i] ELSE f[i + 1]
  PROVE  SumTo(f, n) = f[k] + SumTo(g, n - 1)
<1> DEFINE h == [i \in 1..(n - 1) |-> IF i < k THEN i ELSE i + 1]
           S == {h[i] : i \in 1..(n - 1)}
           N == 1..n
<1>1. IsFiniteSet(1..(n - 1)) /\ IsFiniteSet(N)
  BY FS_Interval
<1>2. S = N \ {k}
  <2>1. ASSUME NEW x \in 1..n, x # k PROVE x \in S
    <3>1. CASE x < k
      <4>1. x \in 1..(n - 1) /\ h[x] = x
        BY <3>1
      <4> QED
        BY <4>1
    <3>2. CASE x > k
      <4>1. x - 1 \in 1..(n - 1) /\ h[x - 1] = x
        BY <3>2
      <4> QED
        BY <4>1
    <3> QED
      BY <2>1, <3>1, <3>2
  <2>2. \A i \in 1..(n - 1) : h[i] \in 1..n /\ h[i] # k
    OBVIOUS
  <2> QED
    BY <2>1, <2>2
<1>3. Sum(g, 1..(n - 1)) = Sum(f, S)
  <2>1. \A x, y \in 1..(n - 1) : h[x] = h[y] => x = y
    OBVIOUS
  <2>2. \A x \in 1..(n - 1) : f[h[x]] \in Nat /\ g[x] = f[h[x]]
    OBVIOUS
  <2> DEFINE D == 1..(n - 1)
  <2> HIDE DEF h, D
  <2>3. IsFiniteSet(D) /\ (\A x, y \in D : h[x] = h[y] => x = y) /\ \A x \in D : f[h[x]] \in Nat /\ g[x] = f[h[x]]
    BY <1>1, <2>1, <2>2 DEF D
  <2>4. Sum(g, D) = Sum(f, {h[x] : x \in D})
    BY <2>3, SumRenumbered
  <2> QED
    BY <2>4 DEF D
<1>4. Sum(f, N) = f[k] + Sum(f, N \ {k})
  <2>1. k \in N /\ \A x \in N : f[x] \in Nat
    OBVIOUS
  <2> HIDE DEF N
  <2> QED
    BY <1>1, <2>1, SumStep
<1> QED
  BY <1>2, <1>3, <1>4 DEF SumTo, N

\* The first element and the ones behind it.
LEMMA SumToTail ==
  ASSUME NEW k \in Nat, NEW f, \A i \in 1..(k + 1) : f[i] \in Nat,
         NEW g, \A i \in 1..k : g[i] = f[i + 1]
  PROVE  SumTo(f, k + 1) = f[1] + SumTo(g, k)
<1>1. SumTo(f, 1) = f[1]
  <2>1. \A i \in 1..(0 + 1) : f[i] \in Nat
    OBVIOUS
  <2>2. SumTo(f, 0 + 1) = SumTo(f, 0) + f[0 + 1] /\ SumTo(f, 0) = 0
    BY <2>1, SumToStep, SumToType
  <2>3. f[1] \in Nat
    OBVIOUS
  <2> QED BY <2>2, <2>3
<1>2. PICK a \in Nat : a = 1
  OBVIOUS
<1>3. \A i \in 1..k : g[i] = f[a + i]
  BY <1>2
<1>4. \A i \in 1..(a + k) : f[i] \in Nat
  BY <1>2
<1>5. SumTo(f, a + k) = SumTo(f, a) + SumTo(g, k)
  BY ONLY <1>3, <1>4, SumToShift, a \in Nat, k \in Nat
<1> QED BY <1>1, <1>2, <1>5
=============================================================================
