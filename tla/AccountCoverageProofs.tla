----------------------- MODULE AccountCoverageProofs -----------------------
(***************************************************************************)
(* Coverage is exact about time and never ahead of the database: what      *)
(* mergeCoverage and missingCoverage compute, for all intervals, and that  *)
(* no crash, erased database or failed page lets a checkpoint claim what   *)
(* was not stored.                                                         *)
(***************************************************************************)
EXTENDS AccountCoverage, DataLemmas, TLAPS

-----------------------------------------------------------------------------
\* Intervals.

Pairs == Int \X Int
Span(R) == UNION {r[1]..r[2] : r \in R}

\* The cells of a list of intervals are the span of its members.
LEMMA CellsAreSpan == \A s : Cells(s) = Span(ToSet(s))
BY DEF Cells, Span

\* Finitely many ranges can be put in order.
LEMMA SortedRanges ==
  ASSUME NEW R \in SUBSET Pairs, IsFiniteSet(R)
  PROVE  /\ Sorted(R) \in [1..Cardinality(R) -> R]
         /\ \A m, n \in 1..Cardinality(R) : m < n => Before(Sorted(R)[m], Sorted(R)[n])
<1> DEFINE L == {p \in R \X R : Before(p[1], p[2])}
<1>1. ASSUME NEW x \in R, NEW y \in R PROVE <<x, y>> \in L <=> Before(x, y) OBVIOUS
<1>2. \A x, y \in R : x # y => Before(x, y) \/ Before(y, x)
  BY DEF Before, Pairs
<1>3. \A x, y, z \in R : Before(x, y) /\ Before(y, z) => Before(x, z)
  BY DEF Before, Pairs
<1> HIDE DEF L
<1>4. Orders(L, R) BY <1>1, <1>2, <1>3 DEF Orders
<1>5. PICK s \in [1..Cardinality(R) -> R] : InOrder(s, Cardinality(R), L) BY <1>4, SortExists
<1>6. \A m, n \in DOMAIN s : m < n => Before(s[m], s[n]) BY <1>1, <1>5 DEF InOrder
<1> QED BY <1>6 DEF Sorted
\* A cell of a list is in one of its intervals.
LEMMA CellOf ==
  ASSUME NEW s \in Seq(Pairs), NEW t
  PROVE  t \in Cells(s) <=> \E i \in 1..Len(s) : t \in s[i][1]..s[i][2]
<1>1. ToSet(s) = {s[i] : i \in 1..Len(s)} BY LenProperties DEF ToSet
<1> QED BY <1>1 DEF Cells

\* Taking a range that begins no earlier than the last interval adds just its
\* seconds.
LEMMA MergedStep ==
  ASSUME NEW done \in Seq(Pairs), NEW r \in Pairs
  PROVE  /\ Merged(done, r) \in Seq(Pairs)
         /\ (done # <<>> => Last(done)[1] <= r[1]) =>
              /\ Merged(done, r) # <<>> /\ Last(Merged(done, r))[1] <= r[1]
              /\ Cells(Merged(done, r)) = Cells(done) \cup (r[1]..r[2])
<1>0. /\ Len(done) \in Nat /\ DOMAIN done = 1..Len(done)
      /\ r[1] \in Int /\ r[2] \in Int /\ r = <<r[1], r[2]>>
      /\ \A i \in 1..Len(done) : done[i] \in Pairs
  BY LenProperties, ElementOfSeq DEF Pairs
<1>1. CASE done # <<>> /\ Touches(Last(done), r)
  <2> DEFINE n == Len(done)
             last == <<done[n][1], Max({done[n][2], r[2]})>>
             new == [done EXCEPT ![n] = last]
  <2>1. n \in 1..Len(done) /\ n > 0 BY <1>0, <1>1, EmptySeq
  <2>2. done[n][1] \in Int /\ done[n][2] \in Int BY <1>0, <2>1 DEF Pairs
  <2>3. Max({done[n][2], r[2]}) = IF done[n][2] >= r[2] THEN done[n][2] ELSE r[2] BY <1>0, <2>2, MaxOfTwo
  <2>4. Last(done) = done[n] /\ r[1] <= done[n][2] + 1 BY <1>1 DEF Last, Touches
  <2>5. last \in Pairs /\ last[1] = done[n][1] /\ last[2] = IF done[n][2] >= r[2] THEN done[n][2] ELSE r[2]
    BY <1>0, <2>2, <2>3 DEF Pairs
  <2>6. done[n][1] <= r[1] => last[1]..last[2] = (done[n][1]..done[n][2]) \cup (r[1]..r[2])
    BY <1>0, <2>2, <2>4, <2>5
  <2> HIDE DEF last
  <2>7. Merged(done, r) = new BY <1>1 DEF Merged, Last, last
  <2>8. new \in Seq(Pairs) /\ Len(new) = n /\ \A i \in 1..n : new[i] = IF i = n THEN last ELSE done[i]
    BY <1>0, <2>1, <2>5
  <2> HIDE DEF new
  <2>9. new # <<>> /\ Last(new) = last BY <2>1, <2>8, EmptySeq DEF Last
  <2>10. done[n][1] <= r[1] => Cells(new) = Cells(done) \cup (r[1]..r[2])
    <3> SUFFICES ASSUME done[n][1] <= r[1], NEW t PROVE t \in Cells(new) <=> t \in Cells(done) \/ t \in r[1]..r[2] OBVIOUS
    <3>1. t \in Cells(new) <=> \E i \in 1..n : t \in new[i][1]..new[i][2] BY <2>8, CellOf
    <3>2. t \in Cells(done) <=> \E i \in 1..n : t \in done[i][1]..done[i][2] BY CellOf
    <3>3. \A i \in 1..n : i # n => new[i] = done[i] BY <2>8
    <3>4. new[n] = last BY <2>1, <2>8
    <3> HIDE DEF n
    <3>5. (\E i \in 1..n : t \in new[i][1]..new[i][2]) <=> t \in last[1]..last[2] \/ \E i \in 1..n : i # n /\ t \in done[i][1]..done[i][2]
      BY <3>3, <3>4, <2>1
    <3>6. (\E i \in 1..n : t \in done[i][1]..done[i][2]) <=> t \in done[n][1]..done[n][2] \/ \E i \in 1..n : i # n /\ t \in done[i][1]..done[i][2]
      BY <2>1
    <3> QED BY <3>1, <3>2, <3>5, <3>6, <2>6
  <2> QED BY <1>1, <2>4, <2>5, <2>7, <2>8, <2>9, <2>10
<1>2. CASE ~(done # <<>> /\ Touches(Last(done), r))
  <2> DEFINE new == Append(done, r)
  <2>1. Merged(done, r) = new BY <1>2 DEF Merged
  <2>2. new \in Seq(Pairs) /\ Len(new) = Len(done) + 1 /\ \A i \in 1..(Len(done) + 1) : new[i] = IF i <= Len(done) THEN done[i] ELSE r
    BY <1>0, AppendProperties
  <2> HIDE DEF new
  <2>3. new # <<>> /\ Last(new) = r BY <1>0, <2>2, EmptySeq DEF Last
  <2>4. Cells(new) = Cells(done) \cup (r[1]..r[2])
    <3> SUFFICES ASSUME NEW t PROVE t \in Cells(new) <=> t \in Cells(done) \/ t \in r[1]..r[2] OBVIOUS
    <3>1. t \in Cells(new) <=> \E i \in 1..(Len(done) + 1) : t \in new[i][1]..new[i][2] BY <2>2, CellOf
    <3>2. t \in Cells(done) <=> \E i \in 1..Len(done) : t \in done[i][1]..done[i][2] BY CellOf
    <3>3. \A i \in 1..(Len(done) + 1) : i = Len(done) + 1 \/ i \in 1..Len(done) BY <1>0
    <3>4. new[Len(done) + 1] = r /\ Len(done) + 1 \in 1..(Len(done) + 1) BY <1>0, <2>2
    <3>5. \A i \in 1..Len(done) : new[i] = done[i] /\ i \in 1..(Len(done) + 1) BY <1>0, <2>2
    <3> QED BY <3>1, <3>2, <3>3, <3>4, <3>5
  <2>5. r[1] <= r[1] BY <1>0
  <2> QED BY <2>1, <2>2, <2>3, <2>4, <2>5
<1> QED BY <1>1, <1>2

\* Rows are kept normal: intervals are not empty, and in order with at least a
\* second between them.
Normal(s) ==
  /\ \A i \in 1..Len(s) : s[i][1] <= s[i][2]
  /\ \A i, j \in 1..Len(s) : i < j => s[i][2] + 1 < s[j][1]

\* Taking a range that begins no earlier than the last interval keeps a row normal.
LEMMA MergedNormal ==
  ASSUME NEW done \in Seq(Pairs), NEW r \in Pairs, r[1] <= r[2], Normal(done),
         done # <<>> => Last(done)[1] <= r[1]
  PROVE  Normal(Merged(done, r))
<1>0. /\ Len(done) \in Nat /\ DOMAIN done = 1..Len(done)
      /\ r[1] \in Int /\ r[2] \in Int
      /\ \A i \in 1..Len(done) : done[i] \in Pairs /\ done[i][1] \in Int /\ done[i][2] \in Int
  BY LenProperties, ElementOfSeq DEF Pairs
<1>1. CASE done # <<>> /\ Touches(Last(done), r)
  <2> DEFINE n == Len(done)
             last == <<done[n][1], Max({done[n][2], r[2]})>>
             new == [done EXCEPT ![n] = last]
  <2>1. n \in 1..Len(done) /\ n > 0 BY <1>0, <1>1, EmptySeq
  <2>2. done[n][1] \in Int /\ done[n][2] \in Int BY <1>0, <2>1
  <2>3. Max({done[n][2], r[2]}) = IF done[n][2] >= r[2] THEN done[n][2] ELSE r[2] BY <1>0, <2>2, MaxOfTwo
  <2>5. last \in Pairs /\ last[1] = done[n][1] /\ last[2] = IF done[n][2] >= r[2] THEN done[n][2] ELSE r[2]
    BY <1>0, <2>2, <2>3 DEF Pairs
  <2>6. done[n][1] <= done[n][2] BY <2>1 DEF Normal
  <2>7. last[1] <= last[2] BY <1>0, <2>2, <2>5, <2>6
  <2> HIDE DEF last
  <2>8. Merged(done, r) = new BY <1>1 DEF Merged, Last, last
  <2>9. new \in Seq(Pairs) /\ Len(new) = n /\ \A i \in 1..n : new[i] = IF i = n THEN last ELSE done[i]
    BY <1>0, <2>1, <2>5
  <2> HIDE DEF new
  <2>10. \A i \in 1..n : new[i][1] <= new[i][2] BY <2>7, <2>9 DEF Normal
  <2>11. ASSUME NEW i \in 1..n, NEW j \in 1..n, i < j PROVE new[i][2] + 1 < new[j][1]
    <3>0. i # n
      <4>1. n \in Nat BY <1>0
      <4> HIDE DEF n
      <4> QED BY <2>11, <4>1
    <3>1. new[i] = done[i] /\ done[i][2] + 1 < done[j][1] BY <3>0, <2>9, <2>11 DEF Normal
    <3>2. new[j][1] = done[j][1] BY <2>5, <2>9
    <3> QED BY <3>1, <3>2
  <2> QED BY <2>8, <2>9, <2>10, <2>11 DEF Normal
<1>2. CASE ~(done # <<>> /\ Touches(Last(done), r))
  <2> DEFINE n == Len(done)
             new == Append(done, r)
  <2>1. Merged(done, r) = new BY <1>2 DEF Merged
  <2>2. new \in Seq(Pairs) /\ Len(new) = n + 1 /\ \A i \in 1..(n + 1) : new[i] = IF i <= n THEN done[i] ELSE r
    BY <1>0, AppendProperties
  <2> HIDE DEF new
  <2>3. \A i \in 1..(n + 1) : new[i][1] <= new[i][2] BY <1>0, <2>2 DEF Normal
  <2>4. ASSUME NEW i \in 1..(n + 1), NEW j \in 1..(n + 1), i < j PROVE new[i][2] + 1 < new[j][1]
    <3>1. i \in 1..n /\ new[i] = done[i] BY <1>0, <2>2, <2>4
    <3>2. CASE j \in 1..n BY <1>0, <2>2, <2>4, <3>1, <3>2 DEF Normal
    <3>3. CASE j = n + 1
      <4>1. new[j] = r /\ n \in 1..n BY <1>0, <2>2, <3>1, <3>3
      <4>2. done[n][2] + 1 < r[1] BY <1>0, <1>2, <4>1, <3>1, EmptySeq DEF Touches, Last
      <4>3. done[i][2] <= done[n][2]
        <5>1. CASE i = n BY <5>1, <1>0, <4>1
        <5>2. CASE i # n
          <6>0. n \in Nat BY <1>0
          <6>1. i < n
            <7> HIDE DEF n
            <7> QED BY <6>0, <3>1, <5>2
          <6>2. done[i][2] + 1 < done[n][1] /\ done[n][1] <= done[n][2] BY <3>1, <4>1, <6>1 DEF Normal
          <6> QED BY <6>2, <1>0, <3>1, <4>1
        <5> QED BY <5>1, <5>2
      <4> QED BY <1>0, <3>1, <4>1, <4>2, <4>3
    <3> QED BY <1>0, <3>2, <3>3
  <2> QED BY <2>1, <2>2, <2>3, <2>4 DEF Normal
<1> QED BY <1>1, <1>2

\* mergeCoverage covers what the ranges cover, no second more and none less,
\* in a normal row.
THEOREM MergeCovers ==
  ASSUME NEW R \in SUBSET Pairs, IsFiniteSet(R), \A r \in R : r[1] <= r[2]
  PROVE  /\ MergeCoverage(R) \in Seq(Pairs) /\ Normal(MergeCoverage(R))
         /\ Cells(MergeCoverage(R)) = Span(R)
<1> DEFINE N == Cardinality(R)
           s == Sorted(R)
<1>1. s \in [1..N -> R] /\ \A m, n \in 1..N : m < n => Before(s[m], s[n]) BY SortedRanges
<1>2. N \in Nat BY FS_CardinalityType
<1>3. {s[i] : i \in 1..N} = R
  <2>1. \A i, j \in 1..N : i # j => s[i] # s[j]
    <3>1. \A i \in 1..N : s[i] \in Pairs BY <1>1
    <3>2. \A x \in Pairs : ~Before(x, x) BY DEF Before, Pairs
    <3>3. \A i, j \in 1..N : i # j => i < j \/ j < i BY <1>2
    <3> QED BY <1>1, <3>1, <3>2, <3>3
  <2>2. Cardinality(1..N) = N BY <1>2, FS_Interval
  <2>3. s \in Injection(1..N, R) BY <1>1, <2>1 DEF Injection, IsInjective
  <2>4. s \in Surjection(1..N, R) BY <2>2, <2>3, FS_Injection
  <2> QED BY <1>1, <2>4 DEF Surjection
<1> HIDE DEF s, N
<1> DEFINE F == [n \in 1..N |-> [v \in Seq(Pairs) |-> Merged(v, s[n])]]
           Rec(g) == g = [n \in 0..N |-> IF n = 0 THEN <<>> ELSE Merged(g[n - 1], s[n])]
<1>4. \E g : Rec(g)
  <2>1. \A n \in 1..N, v \in Seq(Pairs) : F[n][v] = Merged(v, s[n]) OBVIOUS
  <2>5. \A n \in 1..N, v \in Seq(Pairs) : F[n][v] \in Seq(Pairs)
    <3> SUFFICES ASSUME NEW n \in 1..N, NEW v \in Seq(Pairs) PROVE F[n][v] \in Seq(Pairs) OBVIOUS
    <3>1. s[n] \in Pairs BY <1>1
    <3> QED BY <2>1, <3>1, MergedStep
  <2>2. <<>> \in Seq(Pairs) BY EmptySeq
  <2> HIDE DEF F
  <2>6. Advances(F, N, Seq(Pairs)) BY <2>5 DEF Advances
  <2>3. PICK g : Recursion(g, N, Seq(Pairs), <<>>, F) BY <1>2, <2>2, <2>6, RecursionExists
  <2>4. \A n \in 0..N : g[n] = IF n = 0 THEN <<>> ELSE Merged(g[n - 1], s[n])
    <3> SUFFICES ASSUME NEW n \in 0..N, n # 0 PROVE g[n] = Merged(g[n - 1], s[n]) BY <2>3 DEF Recursion
    <3>1. n \in 1..N /\ n - 1 \in 0..N BY <1>2
    <3> QED BY <2>1, <2>3, <3>1 DEF Recursion
  <2> QED BY <2>3, <2>4 DEF Recursion
<1>5. PICK g : Rec(g) /\ MergeCoverage(R) = g[N]
  BY <1>4 DEF MergeCoverage, s, N
<1>g. \A n \in 0..N : g[n] = IF n = 0 THEN <<>> ELSE Merged(g[n - 1], s[n])
  BY <1>5
<1> DEFINE Done(n) == /\ g[n] \in Seq(Pairs)
                      /\ n > 0 => g[n] # <<>> /\ Last(g[n])[1] <= s[n][1]
                      /\ n = 0 => g[n] = <<>>
                      /\ Normal(g[n])
                      /\ Cells(g[n]) = Span({s[i] : i \in 1..n})
           C == {n \in 0..N : Done(n)}
<1>6. 0 \in C
  <2>1. 0 \in 0..N /\ g[0] = <<>> BY <1>2, <1>g
  <2>2. Cells(<<>>) = {} BY DEF Cells, ToSet
  <2>3. Span({s[i] : i \in 1..0}) = {} BY DEF Span
  <2>4. <<>> \in Seq(Pairs) BY EmptySeq
  <2>6. Cells(g[0]) = Span({s[i] : i \in 1..0}) BY <2>1, <2>2, <2>3
  <2>7. g[0] \in Seq(Pairs) BY <2>1, <2>4
  <2>8. Normal(<<>>) BY DEF Normal
  <2>9. Normal(g[0]) BY <2>1, <2>8
  <2>5. Done(0) BY <2>1, <2>6, <2>7, <2>9
  <2> QED BY <2>1, <2>5
<1>7. ASSUME NEW n \in 0..(N - 1), Done(n) PROVE Done(n + 1)
  <2>1. n + 1 \in 1..N /\ n + 1 > 0 /\ n + 1 # 0 /\ (n + 1) - 1 = n BY <1>2
  <2>2. g[n + 1] = Merged(g[n], s[n + 1])
    <3>1. n + 1 \in 0..N BY <2>1
    <3>2. g[n + 1] = IF n + 1 = 0 THEN <<>> ELSE Merged(g[(n + 1) - 1], s[n + 1]) BY <3>1, <1>g
    <3> QED BY <2>1, <3>2
  <2>3. s[n + 1] \in Pairs BY <1>1, <2>1
  <2>4. g[n] # <<>> => Last(g[n])[1] <= s[n + 1][1]
    <3> SUFFICES ASSUME n # 0 PROVE Last(g[n])[1] <= s[n + 1][1] BY <1>7
    <3>1. n \in 1..N /\ n < n + 1 /\ n > 0 BY <1>2
    <3>2. s[n][1] <= s[n + 1][1] /\ s[n][1] \in Int /\ s[n + 1][1] \in Int BY <1>1, <2>1, <3>1 DEF Before, Pairs
    <3>3. Last(g[n])[1] \in Int
      <4>1. Last(g[n]) \in Pairs BY <1>7, <3>1, EmptySeq, ElementOfSeq, LenProperties DEF Last
      <4> QED BY <4>1 DEF Pairs
    <3> QED BY <1>7, <3>1, <3>2, <3>3
  <2>5. Span({s[i] : i \in 1..(n + 1)}) = Span({s[i] : i \in 1..n}) \cup (s[n + 1][1]..s[n + 1][2])
    <3>1. \A i \in 1..(n + 1) : i = n + 1 \/ i \in 1..n OBVIOUS
    <3>2. {s[i] : i \in 1..(n + 1)} = {s[i] : i \in 1..n} \cup {s[n + 1]} BY <3>1
    <3> QED BY <3>2 DEF Span
  <2>6. Normal(g[n]) /\ g[n] \in Seq(Pairs) BY <1>7
  <2>7. s[n + 1][1] <= s[n + 1][2] BY <1>1, <2>1
  <2>8. Normal(g[n + 1]) BY <2>2, <2>3, <2>4, <2>6, <2>7, MergedNormal
  <2> QED BY <1>7, <2>1, <2>2, <2>3, <2>4, <2>5, <2>8, MergedStep
<1>8. N \in C
  <2>1. ASSUME NEW n \in 0..(N - 1), n \in C PROVE n + 1 \in C
    <3>1. n + 1 \in 0..N BY <1>2
    <3>2. Done(n + 1) BY <2>1, <1>7
    <3> QED BY <3>1, <3>2
  <2> HIDE DEF C
  <2> QED BY <1>2, <1>6, <2>1, UpTo
<1> QED BY <1>3, <1>5, <1>8
-----------------------------------------------------------------------------
\* missingCoverage.

\* After the intervals whose cells are C: before seen.since the gaps are what C
\* lacks, and behind it C has nothing up to hi.
Swept(seen, C, lo, hi) ==
  /\ seen.since \in Int /\ seen.gaps \in SUBSET Pairs /\ lo <= seen.since
  /\ \A t \in Int : t \in Span(seen.gaps) <=> lo <= t /\ t < seen.since /\ t \notin C
  /\ \A t \in Span(seen.gaps) : t <= hi
  /\ \A r \in seen.gaps : r[1] <= r[2]
  /\ \A t \in C : t >= seen.since => t > hi

\* A gap covers its seconds.
LEMMA GapCells ==
  ASSUME NEW G \in SUBSET Pairs, NEW a \in Int, NEW b \in Int
  PROVE  /\ G \cup Gap(a, b) \in SUBSET Pairs
         /\ Span(G \cup Gap(a, b)) = Span(G) \cup (a..b)
         /\ \A r \in Gap(a, b) : r[1] <= r[2]
<1>1. CASE a <= b
  <2> DEFINE p == <<a, b>>
  <2>1. p \in Pairs /\ p[1] = a /\ p[2] = b BY DEF Pairs
  <2>2. Gap(a, b) = {p} BY <1>1 DEF Gap
  <2> HIDE DEF p
  <2>3. Span(G \cup {p}) = Span(G) \cup (p[1]..p[2]) BY DEF Span
  <2> QED BY <1>1, <2>1, <2>2, <2>3
<1>2. CASE ~(a <= b)
  <2>1. Gap(a, b) = {} BY <1>2 DEF Gap
  <2>2. a..b = {} BY <1>2
  <2> QED BY <2>1, <2>2
<1> QED BY <1>1, <1>2

\* The cells of a span of pairs are seconds.
LEMMA SpanInt == ASSUME NEW G \in SUBSET Pairs PROVE Span(G) \subseteq Int
BY DEF Span, Pairs

\* One interval more, none of whose seconds lie before an earlier one's end.
LEMMA PassedSwept ==
  ASSUME NEW seen, NEW C \in SUBSET Int, NEW lo \in Int, NEW hi \in Int, Swept(seen, C, lo, hi),
         NEW i \in Pairs, i[1] <= i[2], seen.since = lo \/ seen.since <= i[1]
  PROVE  /\ Swept(Passed(seen, i, hi), C \cup (i[1]..i[2]), lo, hi)
         /\ Passed(seen, i, hi).since \in {seen.since, i[2] + 1}
<1> DEFINE since == seen.since
           G == seen.gaps
           new == Passed(seen, i, hi)
           D == C \cup (i[1]..i[2])
<1>0. i[1] \in Int /\ i[2] \in Int /\ since \in Int /\ G \in SUBSET Pairs BY DEF Swept, Pairs
<1>s. Span(G) \subseteq Int BY <1>0, SpanInt
<1>t. \A t \in Int : t \in Span(G) <=> lo <= t /\ t < since /\ t \notin C BY DEF Swept
<1>u. \A t \in Span(G) : t <= hi BY DEF Swept
<1>v. \A t \in C : t >= since => t > hi BY DEF Swept
<1>w. lo <= since BY DEF Swept
<1>x. \A r \in G : r[1] <= r[2] BY DEF Swept
<1>1. CASE i[2] < since \/ i[1] > hi
  <2>1. new = seen BY <1>1 DEF Passed
  <2>2. ASSUME NEW t \in Int PROVE t \in Span(G) <=> lo <= t /\ t < since /\ t \notin D
    <3>1. t \in Span(G) => t \notin i[1]..i[2] BY <1>0, <1>1, <1>t, <1>u
    <3> QED BY <3>1, <1>t
  <2>3. ASSUME NEW t \in D, t >= since PROVE t > hi
    <3>1. CASE t \in C BY <3>1, <2>3, <1>v
    <3>2. CASE t \in i[1]..i[2]
      <4>1. t \in Int /\ t <= i[2] /\ i[1] <= t BY <3>2, <1>0
      <4>2. i[1] > hi BY <1>0, <1>1, <2>3, <4>1
      <4> QED BY <1>0, <4>1, <4>2
    <3> QED BY <2>3, <3>1, <3>2
  <2> QED BY <2>1, <2>2, <2>3, <1>0, <1>u, <1>w, <1>x DEF Swept
<1>2. CASE ~(i[2] < since \/ i[1] > hi)
  <2>1. Behind(since, i) = i[2] + 1 BY <1>0, <1>2, MaxOfTwo DEF Behind
  <2>2. new = [since |-> i[2] + 1, gaps |-> G \cup Gap(since, i[1] - 1)] BY <1>2, <2>1 DEF Passed
  <2> DEFINE H == G \cup Gap(since, i[1] - 1)
  <2>3. /\ H \in SUBSET Pairs /\ Span(H) = Span(G) \cup (since..(i[1] - 1))
        /\ \A r \in Gap(since, i[1] - 1) : r[1] <= r[2]
    <3>1. i[1] - 1 \in Int BY <1>0
    <3> HIDE DEF since, G
    <3> QED BY <3>1, <1>0, GapCells
  <2> HIDE DEF H
  <2>4. ASSUME NEW t \in Int PROVE t \in Span(H) <=> lo <= t /\ t < i[2] + 1 /\ t \notin D
    <3>1. CASE t < since
      <4>1. t \notin since..(i[1] - 1) BY <3>1, <1>0
      <4>2. lo <= t => t \notin i[1]..i[2] BY <3>1, <1>0, <1>2
      <4>3. t < i[2] + 1 BY <3>1, <1>0, <1>2
      <4> QED BY <4>1, <4>2, <4>3, <2>3, <1>t, <3>1
    <3>2. CASE t >= since
      <4>1. t \notin Span(G) BY <3>2, <1>t, <1>0
      <4>2. lo <= t BY <3>2, <1>0, <1>w
      <4>3. t \in C => t > hi BY <3>2, <1>v
      <4>4. t \in since..(i[1] - 1) <=> t < i[1] BY <3>2, <1>0
      <4>5. t < i[1] => t <= i[2] /\ t <= hi /\ t \notin i[1]..i[2] BY <1>0, <1>2
      <4>6. t >= i[1] /\ t < i[2] + 1 => t \in i[1]..i[2] BY <1>0
      <4> QED BY <4>1, <4>2, <4>3, <4>4, <4>5, <4>6, <2>3, <1>0
    <3> QED BY <3>1, <3>2, <1>0
  <2>5. \A t \in Span(H) : t <= hi BY <2>3, <1>0, <1>2, <1>u
  <2>6. ASSUME NEW t \in D, t >= i[2] + 1 PROVE t > hi
    <3>1. CASE t \in C
      <4>0. t \in Int BY <3>1
      <4>a. since \in Int /\ i[2] \in Int /\ i[2] >= since BY <1>0, <1>2
      <4> HIDE DEF since
      <4>1. t >= since BY <4>0, <4>a, <2>6
      <4> QED BY <3>1, <4>1, <1>v
    <3>2. CASE t \in i[1]..i[2] BY <3>2, <1>0, <2>6
    <3> QED BY <2>6, <3>1, <3>2
  <2>7. lo <= i[2] + 1 /\ i[2] + 1 \in Int BY <1>0, <1>2, <1>w
  <2>8. new.since = i[2] + 1 /\ new.gaps = H BY <2>2 DEF H
  <2>9. \A r \in H : r[1] <= r[2] BY <2>3, <1>x DEF H
  <2> QED BY <2>9, <2>3, <2>4, <2>5, <2>6, <2>7, <2>8 DEF Swept
<1> QED BY <1>1, <1>2

\* The gaps stay pairs.
LEMMA PassedTypes ==
  ASSUME NEW v \in [since : Int, gaps : SUBSET Pairs], NEW i \in Pairs, NEW hi \in Int
  PROVE  Passed(v, i, hi) \in [since : Int, gaps : SUBSET Pairs]
<1> DEFINE since == v.since
           G == v.gaps
           a == i[1] - 1
           b == i[2] + 1
<1>1. since \in Int /\ G \in SUBSET Pairs /\ a \in Int /\ b \in Int BY DEF Pairs
<1>2. Behind(since, i) \in Int
  <2>1. Max({since, b}) \in Int
    <3> HIDE DEF since, b
    <3> QED BY <1>1, MaxOfTwo
  <2> QED BY <2>1 DEF Behind
<1>3. G \cup Gap(since, a) \in SUBSET Pairs
  <2> HIDE DEF since, G, a
  <2> QED BY <1>1, GapCells
<1>4. Passed(v, i, hi) = IF i[2] < since \/ i[1] > hi THEN v ELSE [since |-> Behind(since, i), gaps |-> G \cup Gap(since, a)]
  BY DEF Passed
<1> HIDE DEF since, G, a, b
<1> QED BY <1>2, <1>3, <1>4

\* missingCoverage returns the seconds of lo..hi that a normal row lacks, no
\* second more and none less.
THEOREM MissingIsTheRest ==
  ASSUME NEW s \in Seq(Pairs), Normal(s), NEW lo \in Int, NEW hi \in Int
  PROVE  /\ MissingCoverage(s, lo, hi) \in SUBSET Pairs
         /\ Span(MissingCoverage(s, lo, hi)) = (lo..hi) \ Cells(s)
         /\ \A r \in MissingCoverage(s, lo, hi) : r[1] <= r[2]
<1> DEFINE N == Len(s)
           V == [since : Int, gaps : SUBSET Pairs]
           base == [since |-> lo, gaps |-> {}]
           F == [n \in 1..N |-> [v \in V |-> Passed(v, s[n], hi)]]
           Rec(g) == g = [n \in 0..N |-> IF n = 0 THEN [since |-> lo, gaps |-> {}] ELSE Passed(g[n - 1], s[n], hi)]
<1>1. N \in Nat /\ \A n \in 1..N : s[n] \in Pairs /\ s[n][1] \in Int /\ s[n][2] \in Int
  BY LenProperties, ElementOfSeq DEF Pairs
<1>2. ASSUME NEW n \in 1..N, NEW v \in V PROVE F[n][v] = Passed(v, s[n], hi) /\ F[n][v] \in V
  <2>1. F[n][v] = Passed(v, s[n], hi) OBVIOUS
  <2>2. s[n] \in Pairs /\ v.since \in Int /\ v.gaps \in SUBSET Pairs BY <1>1
  <2>3. Passed(v, s[n], hi) \in V
    <3>1. v \in [since : Int, gaps : SUBSET Pairs] OBVIOUS
    <3> HIDE DEF F, V, N
    <3>2. Passed(v, s[n], hi) \in [since : Int, gaps : SUBSET Pairs] BY <2>2, <3>1, PassedTypes
    <3> QED BY <3>2 DEF V
  <2> QED BY <2>1, <2>3
<1>3. base \in V OBVIOUS
<1> HIDE DEF N, V, F
<1>4. \E g : Rec(g)
  <2>1. Advances(F, N, V) BY <1>2 DEF Advances
  <2> HIDE DEF base
  <2>2. PICK g : Recursion(g, N, V, base, F) BY <1>1, <1>3, <2>1, RecursionExists
  <2>3. \A n \in 0..N : g[n] = IF n = 0 THEN base ELSE Passed(g[n - 1], s[n], hi)
    <3> SUFFICES ASSUME NEW n \in 0..N, n # 0 PROVE g[n] = Passed(g[n - 1], s[n], hi) BY <2>2 DEF Recursion
    <3>1. n \in 1..N /\ n - 1 \in 0..N BY <1>1
    <3> QED BY <1>2, <2>2, <3>1 DEF Recursion
  <2> QED BY <2>2, <2>3 DEF Recursion, base
<1>5. PICK g : Rec(g) /\ MissingCoverage(s, lo, hi) = g[N].gaps \cup Gap(g[N].since, hi)
  BY <1>4 DEF MissingCoverage, N
<1>g. \A n \in 0..N : g[n] = IF n = 0 THEN base ELSE Passed(g[n - 1], s[n], hi)
  BY <1>5
<1> DEFINE C(n) == UNION {s[i][1]..s[i][2] : i \in 1..n}
           Done(n) == /\ Swept(g[n], C(n), lo, hi)
                      /\ \A j \in (n + 1)..N : g[n].since = lo \/ g[n].since <= s[j][1]
           D == {n \in 0..N : Done(n)}
<1>6. 0 \in D
  <2>0. 0 \in 0..N BY <1>1
  <2>1. g[0] = base
    <3> HIDE DEF base
    <3> QED BY <2>0, <1>g
  <2>2. C(0) = {} OBVIOUS
  <2>3. Span({}) = {} BY DEF Span
  <2>4. Swept(base, {}, lo, hi) BY <2>3 DEF Swept
  <2>5. g[0].since = lo BY <2>1
  <2> HIDE DEF C, base
  <2>6. Done(0) BY <2>1, <2>2, <2>4, <2>5
  <2> QED BY <2>0, <2>6
<1>7. ASSUME NEW n \in 0..(N - 1), Done(n) PROVE Done(n + 1)
  <2>1. n + 1 \in 1..N /\ n + 1 \in 0..N /\ n + 1 # 0 /\ (n + 1) - 1 = n BY <1>1
  <2>2. g[n + 1] = Passed(g[n], s[n + 1], hi)
    <3>1. g[n + 1] = IF n + 1 = 0 THEN base ELSE Passed(g[(n + 1) - 1], s[n + 1], hi) BY <2>1, <1>g
    <3> QED BY <2>1, <3>1
  <2> DEFINE i == s[n + 1]
  <2>3. i \in Pairs /\ i[1] <= i[2] BY <1>1, <2>1 DEF Normal, N
  <2>4. g[n].since = lo \/ g[n].since <= i[1]
    <3>1. n + 1 \in (n + 1)..N BY <1>1
    <3> QED BY <3>1, <1>7
  <2>5. C(n) \in SUBSET Int
    <3>1. \A j \in 1..n : s[j][1] \in Int /\ s[j][2] \in Int BY <1>1
    <3> QED BY <3>1
  <2>6. C(n + 1) = C(n) \cup (i[1]..i[2])
    <3>1. \A j \in 1..(n + 1) : j = n + 1 \/ j \in 1..n OBVIOUS
    <3>2. \A j \in 1..n : j \in 1..(n + 1) OBVIOUS
    <3>3. n + 1 \in 1..(n + 1) BY <2>1
    <3> QED BY <3>1, <3>2, <3>3
  <2> HIDE DEF C, i
  <2>7. Swept(g[n], C(n), lo, hi) BY <1>7
  <2>8. /\ Swept(Passed(g[n], i, hi), C(n) \cup (i[1]..i[2]), lo, hi)
        /\ Passed(g[n], i, hi).since \in {g[n].since, i[2] + 1}
    BY <2>3, <2>4, <2>5, <2>7, PassedSwept
  <2>9. g[n + 1] = Passed(g[n], i, hi) BY <2>2 DEF i
  <2>10. ASSUME NEW j \in (n + 2)..N PROVE g[n + 1].since = lo \/ g[n + 1].since <= s[j][1]
    <3>1. j \in (n + 1)..N /\ j \in 1..N /\ n + 1 < j BY <1>1
    <3>2. CASE g[n + 1].since = g[n].since BY <3>1, <3>2, <1>7
    <3>3. CASE g[n + 1].since = i[2] + 1
      <4>1. i[2] + 1 < s[j][1] BY <2>1, <3>1 DEF Normal, N, i
      <4>2. i[2] \in Int /\ s[j][1] \in Int BY <1>1, <2>1, <3>1 DEF i
      <4> QED BY <3>3, <4>1, <4>2
    <3> QED BY <2>8, <2>9, <3>2, <3>3
  <2>11. (n + 1) + 1 = n + 2 OBVIOUS
  <2>12. Swept(g[n + 1], C(n + 1), lo, hi) BY <2>6, <2>8, <2>9
  <2> QED BY <2>10, <2>11, <2>12
<1>8. Done(N)
  <2>1. ASSUME NEW n \in 0..(N - 1), n \in D PROVE n + 1 \in D
    <3>1. n + 1 \in 0..N BY <1>1
    <3>2. Done(n) BY <2>1
    <3> HIDE DEF Done
    <3>3. Done(n + 1) BY <3>2, <1>7
    <3> QED BY <3>1, <3>3
  <2>2. N \in 0..N BY <1>1
  <2> HIDE DEF D
  <2>3. N \in D BY <1>1, <1>6, <2>1, <2>2, UpTo
  <2> HIDE DEF Done
  <2> QED BY <2>3 DEF D
<1>9. C(N) = Cells(s)
  <2>1. \A t : t \in Cells(s) <=> \E i \in 1..N : t \in s[i][1]..s[i][2] BY CellOf DEF N
  <2> QED BY <2>1
<1> DEFINE G == g[N].gaps
           since == g[N].since
<1> HIDE DEF C
<1>10. Swept(g[N], Cells(s), lo, hi) BY <1>8, <1>9
<1>11. /\ since \in Int /\ G \in SUBSET Pairs /\ lo <= since
       /\ \A t \in Int : t \in Span(G) <=> lo <= t /\ t < since /\ t \notin Cells(s)
       /\ \A t \in Span(G) : t <= hi
       /\ \A r \in G : r[1] <= r[2]
       /\ \A t \in Cells(s) : t >= since => t > hi
  BY <1>10 DEF Swept
<1>12. MissingCoverage(s, lo, hi) = G \cup Gap(since, hi) BY <1>5
<1> HIDE DEF G, since
<1>13. G \cup Gap(since, hi) \in SUBSET Pairs /\ Span(G \cup Gap(since, hi)) = Span(G) \cup (since..hi)
      /\ \A r \in Gap(since, hi) : r[1] <= r[2]
  BY <1>11, GapCells
<1>14. Span(G) \subseteq Int BY <1>11, SpanInt
<1>15. ASSUME NEW t PROVE t \in Span(G) \cup (since..hi) <=> t \in (lo..hi) \ Cells(s)
  <2>1. CASE t \in Int
    <3>1. CASE t < since
      <4>1. t \notin since..hi BY <3>1, <1>11
      <4>2. t \in Span(G) <=> lo <= t /\ t \notin Cells(s) BY <2>1, <3>1, <1>11
      <4>3. t \in Span(G) => t <= hi BY <1>11
      <4>4. lo <= t /\ t \notin Cells(s) => t <= hi BY <4>2, <4>3
      <4>5. t \in lo..hi <=> lo <= t /\ t <= hi BY <2>1
      <4> QED BY <4>1, <4>2, <4>4, <4>5
    <3>2. CASE t >= since
      <4>1. t \notin Span(G) BY <2>1, <3>2, <1>11
      <4>2. lo <= t BY <2>1, <3>2, <1>11
      <4>3. t \in Cells(s) => t > hi BY <3>2, <1>11
      <4>4. t \in since..hi <=> t <= hi BY <2>1, <3>2, <1>11
      <4>5. t \in lo..hi <=> t <= hi BY <2>1, <4>2
      <4>6. t > hi => ~(t <= hi) BY <2>1
      <4> QED BY <4>1, <4>3, <4>4, <4>5, <4>6
    <3> QED BY <2>1, <3>1, <3>2, <1>11
  <2>2. CASE t \notin Int
    <3>1. t \notin Span(G) BY <2>2, <1>14
    <3>2. t \notin since..hi /\ t \notin lo..hi BY <2>2
    <3> QED BY <3>1, <3>2
  <2> QED BY <2>1, <2>2
<1> QED BY <1>11, <1>12, <1>13, <1>15
-----------------------------------------------------------------------------
(***************************************************************************)
(* The invariant.  Types says what the variables hold; rows are normal and *)
(* no window is empty.  Fences says how generations tell a new database    *)
(* from an erased one.  Honest is the property with what leads to it:      *)
(* pages and checkpoints of this database speak of what it holds.  Barriers *)
(* says where a group's checkpoints can be while its scan flushes.         *)
(***************************************************************************)
Windows == {w \in [lo : Int, hi : Int, kinds : SUBSET Kinds] : w.lo <= w.hi}
Checkpoints ==
  {r \in [group : Groups, generation : Nat, kinds : SUBSET Kinds, lo : Int, hi : Int] : r.lo <= r.hi}
RowOK(s) == s \in Seq(Pairs) /\ Normal(s)
PageOK(p) ==
  /\ p \in [window : Windows, got : SUBSET Events, left : SUBSET Events]
  /\ p.got \in Pages(p.window) /\ p.left \subseteq p.got
Batch(b) == b \in SUBSET Checkpoints /\ IsFiniteSet(b)

DatabaseOK ==
  /\ generation \in Nat \cup {None}
  /\ coverage = [k \in Kinds |-> coverage[k]] /\ \A k \in Kinds : coverage[k] # None => RowOK(coverage[k])
  /\ faults \in Nat /\ session \in DOMAIN Clock
ScanOK ==
  /\ stage = [g \in Groups |-> stage[g]] /\ step = [g \in Groups |-> step[g]]
  /\ records \in [Groups -> Nat \cup {None}]
  /\ jobs \in [Groups -> SUBSET Windows] /\ pending \in [Groups -> Seq(Windows)]
  /\ page = [g \in Groups |-> page[g]] /\ \A g \in Groups : page[g] # None => PageOK(page[g])
QueueOK ==
  /\ Batch(queued) /\ running \in Seq(SUBSET Checkpoints) /\ \A n \in 1..Len(running) : Batch(running[n])
  /\ barrier \in [Groups -> Nat]
Types == DatabaseOK /\ ScanOK /\ QueueOK

\* A generation that somebody has read, of a registry with generation gen after n
\* faults: none is given out twice.
Given(x, gen, n) == x \in Nat /\ x <= n /\ (gen = None => x < n)
InQueue(r, q, run) == r \in q \/ \E n \in 1..Len(run) : r \in run[n]
Fences ==
  /\ generation # None => generation <= faults
  /\ \A g \in Groups : records[g] # None => Given(records[g], generation, faults)
  /\ \A r \in Checkpoints : InQueue(r, queued, running) => Given(r.generation, generation, faults)
  /\ \A g \in Groups : page[g] # None \/ jobs[g] # {} => records[g] # None
  /\ \A g \in Groups : step[g] \in {"job", "flush"} => page[g] = None

\* Every event of these kinds and seconds is in S, or there are more than a page.
Told(S, kinds, cells) ==
  \A k \in kinds : \A t \in cells : Held(k, t) \subseteq S \/ Cardinality(Held(k, t)) > PageSize
Honest ==
  /\ \A k \in Kinds : Told(stored, {k}, Covered(k))
  /\ \A g \in Groups : page[g] # None /\ records[g] = generation => page[g].got \ page[g].left \subseteq stored
  /\ \A r \in Checkpoints : InQueue(r, queued, running) /\ r.generation = generation =>
       Told(stored, r.kinds, r.lo..r.hi)

Barriers ==
  \A g \in Groups :
    /\ stage[g] = "begin" => step[g] = "job" /\ jobs[g] = {}
    /\ step[g] \in {"job", "feed"} => \A r \in Checkpoints : InQueue(r, queued, running) => r.group # g
    /\ step[g] = "flush" =>
         /\ \A r \in queued : r.group # g
         /\ \A n \in 1..Len(running) : \A r \in running[n] : r.group = g => n <= barrier[g]

IInv == Types /\ Fences /\ Honest /\ Barriers


-----------------------------------------------------------------------------
\* Helpers of the actions.

\* Asking for a page gives the group a page of which nothing is stored yet.
LEMMA AskOK ==
  ASSUME page = [g \in Groups |-> page[g]], NEW g \in Groups, NEW w \in Windows, Ask(g, w)
  PROVE  /\ page' = [h \in Groups |-> page'[h]]
         /\ PageOK(page'[g]) /\ page'[g].got \ page'[g].left = {}
         /\ \A h \in Groups \ {g} : page'[h] = page[h]
<1>1. PICK got \in Pages(w) : page' = [page EXCEPT ![g] = [window |-> w, got |-> got, left |-> got]] BY DEF Ask
<1>2. got \subseteq Events BY DEF Pages, kSubset, Matching
<1>3. page'[g] = [window |-> w, got |-> got, left |-> got] BY <1>1
<1>4. PageOK(page'[g]) BY <1>2, <1>3 DEF PageOK
<1> QED BY <1>1, <1>3, <1>4

\* Where checkpoints are after a drain.
LEMMA DrainOK ==
  ASSUME QueueOK, NEW requests, Batch(requests), Drain(requests)
  PROVE  /\ Batch(queued') /\ running' \in Seq(SUBSET Checkpoints) /\ \A n \in 1..Len(running') : Batch(running'[n])
         /\ Len(running') = IF requests = {} THEN Len(running) ELSE Len(running) + 1
         /\ \A n \in 1..Len(running') : running'[n] = IF n <= Len(running) THEN running[n] ELSE requests
         /\ \A r : InQueue(r, queued', running') <=> r \in requests \/ \E n \in 1..Len(running) : r \in running[n]
<1>0. running \in Seq(SUBSET Checkpoints) /\ Len(running) \in Nat BY LenProperties DEF QueueOK
<1>1. queued' = {} /\ Batch(queued') BY FS_EmptySet DEF Drain, Batch
<1>2. CASE requests = {}
  <2>1. running' = running BY <1>2 DEF Drain
  <2>2. \A n \in 1..Len(running') : Batch(running'[n]) BY <2>1 DEF QueueOK
  <2> QED BY <1>0, <1>1, <1>2, <2>1, <2>2 DEF InQueue
<1>3. CASE requests # {}
  <2>1. running' = Append(running, requests) BY <1>3 DEF Drain
  <2>2. requests \in SUBSET Checkpoints BY DEF Batch
  <2>3. /\ running' \in Seq(SUBSET Checkpoints) /\ Len(running') = Len(running) + 1
        /\ \A n \in 1..(Len(running) + 1) : running'[n] = IF n <= Len(running) THEN running[n] ELSE requests
    BY <1>0, <2>1, <2>2, AppendProperties
  <2>4. \A n \in 1..Len(running') : Batch(running'[n]) BY <1>0, <2>3 DEF QueueOK
  <2>5. ASSUME NEW r PROVE InQueue(r, queued', running') <=> r \in requests \/ \E n \in 1..Len(running) : r \in running[n]
    <3>1. \A n \in 1..(Len(running) + 1) : n \in 1..Len(running) \/ n = Len(running) + 1 BY <1>0
    <3>2. \A n \in 1..Len(running) : n \in 1..(Len(running) + 1) /\ running'[n] = running[n] BY <1>0, <2>3
    <3>3. Len(running) + 1 \in 1..(Len(running) + 1) /\ running'[Len(running) + 1] = requests BY <1>0, <2>3
    <3> QED BY <1>1, <2>3, <3>1, <3>2, <3>3 DEF InQueue
  <2> QED BY <1>1, <1>3, <2>3, <2>4, <2>5
<1> QED BY <1>2, <1>3

\* Where they are when the first batch is over.
LEMMA TailOK ==
  ASSUME QueueOK, running # <<>>, running' = Tail(running), queued' = queued
  PROVE  /\ running' \in Seq(SUBSET Checkpoints) /\ \A n \in 1..Len(running') : Batch(running'[n])
         /\ Len(running') = Len(running) - 1 /\ Len(running) >= 1
         /\ \A n \in 1..Len(running') : running'[n] = running[n + 1] /\ n + 1 \in 1..Len(running)
         /\ \A r : InQueue(r, queued', running') => InQueue(r, queued, running)
         /\ \A r \in Head(running) : InQueue(r, queued, running)
         /\ Batch(Head(running))
<1>0. running \in Seq(SUBSET Checkpoints) /\ Len(running) \in Nat BY LenProperties DEF QueueOK
<1>1. Len(running) >= 1 /\ Head(running) = running[1] BY <1>0, HeadTailProperties, EmptySeq
<1>2. /\ running' \in Seq(SUBSET Checkpoints) /\ Len(running') = Len(running) - 1
      /\ \A n \in 1..(Len(running) - 1) : running'[n] = running[n + 1]
  BY <1>0, HeadTailProperties
<1>3. \A n \in 1..(Len(running) - 1) : n + 1 \in 1..Len(running) BY <1>0
<1>4. 1 \in 1..Len(running) BY <1>0, <1>1
<1>5. \A n \in 1..Len(running') : Batch(running'[n]) BY <1>2, <1>3 DEF QueueOK
<1>6. \A r : InQueue(r, queued', running') => InQueue(r, queued, running) BY <1>2, <1>3 DEF InQueue
<1>7. Batch(Head(running)) BY <1>1, <1>4 DEF QueueOK
<1>8. \A r \in Head(running) : InQueue(r, queued, running) BY <1>1, <1>4 DEF InQueue
<1> QED BY <1>1, <1>2, <1>3, <1>5, <1>6, <1>7, <1>8

\* What a flush makes of the queue.
LEMMA WaitsOK ==
  ASSUME QueueOK, NEW g \in Groups, NEW requests, Batch(requests), Waits(g, requests)
  PROVE  /\ QueueOK'
         /\ queued' = {} /\ barrier'[g] = Len(running')
         /\ \A h \in Groups \ {g} : barrier'[h] = barrier[h]
         /\ Len(running') >= Len(running)
         /\ \A n \in 1..Len(running') : running'[n] = IF n <= Len(running) THEN running[n] ELSE requests
         /\ \A r : InQueue(r, queued', running') <=> r \in requests \/ \E n \in 1..Len(running) : r \in running[n]
<1>0. Len(running) \in Nat BY LenProperties DEF QueueOK
<1>1. Drain(requests) /\ barrier' = [barrier EXCEPT ![g] = Barrier(requests)] BY DEF Waits
<1>2. Len(running') = IF requests = {} THEN Len(running) ELSE Len(running) + 1 BY <1>1, DrainOK
<1>3. Barrier(requests) = Len(running') BY <1>2 DEF Barrier
<1>4. barrier \in [Groups -> Nat] BY DEF QueueOK
<1>5. barrier'[g] = Len(running') /\ \A h \in Groups \ {g} : barrier'[h] = barrier[h] BY <1>1, <1>3, <1>4
<1>6. barrier' \in [Groups -> Nat] BY <1>0, <1>1, <1>2, <1>3, <1>4
<1>7. QueueOK' BY <1>1, <1>6, DrainOK DEF QueueOK
<1>8. queued' = {} BY <1>1 DEF Drain
<1>9. Len(running') >= Len(running) BY <1>0, <1>2
<1> QED BY <1>1, <1>5, <1>7, <1>8, <1>9, DrainOK

\* What a scan makes of its stack and of the queue.
LEMMA GoOnOK ==
  ASSUME Types, NEW g \in Groups, NEW stack \in Seq(Windows), NEW requests, Batch(requests), queued \subseteq requests,
         GoOn(g, stack, requests)
  PROVE  /\ QueueOK'
         /\ pending' \in [Groups -> Seq(Windows)]
         /\ page' = [h \in Groups |-> page'[h]] /\ \A h \in Groups \ {g} : page'[h] = page[h]
         /\ page'[g] # None => PageOK(page'[g]) /\ page'[g].got \ page'[g].left = {}
         /\ step' = [h \in Groups |-> step'[h]] /\ \A h \in Groups \ {g} : step'[h] = step[h]
         /\ step'[g] \in {"scan", "flush"}
         /\ step'[g] = "flush" => queued' = {} /\ barrier'[g] = Len(running') /\ page'[g] = None
         /\ \A h \in Groups \ {g} : barrier'[h] = barrier[h]
         /\ queued' \subseteq requests
         /\ \A n \in 1..Len(running') : running'[n] = IF n <= Len(running) THEN running[n] ELSE requests
         /\ \A r : InQueue(r, queued', running') <=> r \in requests \/ \E n \in 1..Len(running) : r \in running[n]
<1>0. /\ page = [h \in Groups |-> page[h]] /\ step = [h \in Groups |-> step[h]]
      /\ pending \in [Groups -> Seq(Windows)] /\ QueueOK /\ barrier \in [Groups -> Nat]
  BY DEF Types, ScanOK, QueueOK
<1>1. CASE /\ stack # <<>>
           /\ Ask(g, Last(stack)) /\ pending' = [pending EXCEPT ![g] = Front(stack)]
           /\ step' = [step EXCEPT ![g] = "scan"]
           /\ queued' = requests /\ timer' = (timer \/ requests # queued)
           /\ UNCHANGED <<running, barrier, flushing>>
  <2>1. Len(stack) \in Nat /\ Len(stack) >= 1 BY <1>1, EmptySeq, LenProperties
  <2>2. Last(stack) \in Windows BY <2>1, ElementOfSeq DEF Last
  <2>3. Front(stack) \in Seq(Windows)
    <3>1. \A n \in 1..(Len(stack) - 1) : stack[n] \in Windows BY <2>1, ElementOfSeq
    <3> QED BY <2>1, <3>1, SubSeqProperties DEF Front
  <2>4. /\ page' = [h \in Groups |-> page'[h]] /\ \A h \in Groups \ {g} : page'[h] = page[h]
        /\ PageOK(page'[g]) /\ page'[g].got \ page'[g].left = {}
    BY <1>0, <1>1, <2>2, AskOK
  <2>5. QueueOK' BY <1>0, <1>1 DEF QueueOK
  <2>6. pending' \in [Groups -> Seq(Windows)] BY <1>0, <1>1, <2>3
  <2>7. step' = [h \in Groups |-> step'[h]] /\ step'[g] = "scan" /\ \A h \in Groups \ {g} : step'[h] = step[h]
    BY <1>0, <1>1
  <2>8. \A n \in 1..Len(running') : running'[n] = IF n <= Len(running) THEN running[n] ELSE requests
    <3>1. Len(running) \in Nat BY <1>0, LenProperties DEF QueueOK
    <3> QED BY <1>1, <3>1
  <2>9. \A r : InQueue(r, queued', running') <=> r \in requests \/ \E n \in 1..Len(running) : r \in running[n]
    BY <1>1 DEF InQueue
  <2> QED BY <1>1, <2>4, <2>5, <2>6, <2>7, <2>8, <2>9
<1>2. CASE /\ stack = <<>>
           /\ page' = [page EXCEPT ![g] = None] /\ pending' = [pending EXCEPT ![g] = <<>>]
           /\ step' = [step EXCEPT ![g] = "flush"]
           /\ timer' = FALSE /\ Waits(g, requests)
  <2>1. pending' \in [Groups -> Seq(Windows)] BY <1>0, <1>2, EmptySeq
  <2>2. page' = [h \in Groups |-> page'[h]] /\ page'[g] = None /\ \A h \in Groups \ {g} : page'[h] = page[h]
    BY <1>0, <1>2
  <2>3. step' = [h \in Groups |-> step'[h]] /\ step'[g] = "flush" /\ \A h \in Groups \ {g} : step'[h] = step[h]
    BY <1>0, <1>2
  <2> QED BY <1>0, <1>2, <2>1, <2>2, <2>3, WaitsOK
<1> QED BY <1>1, <1>2 DEF GoOn

\* The parts of a divided window are windows.
LEMMA HalvesOK ==
  ASSUME NEW p, PageOK(p), ~Complete(p), NEW halves \in Halves(p)
  PROVE  halves \in Seq(Windows)
<1> USE CoverageConstants
<1> DEFINE w == p.window
<1>0. /\ w \in [lo : Int, hi : Int, kinds : SUBSET Kinds] /\ w.lo <= w.hi
      /\ w.lo \in Int /\ w.hi \in Int /\ w.kinds \in SUBSET Kinds
  BY DEF PageOK, Windows
<1>1. CASE w.lo < w.hi
  <2> DEFINE T == {TimeOf[e] : e \in p.got}
             m == Middle(p)
  <2>1. p.got \subseteq Matching(w) /\ IsFiniteSet(p.got)
    <3>1. p.got \subseteq Matching(w) /\ p.got \subseteq Events BY DEF PageOK, Pages, kSubset
    <3> QED BY <3>1, FS_Subset
  <2>2. p.got # {}
    <3>1. Cardinality(p.got) >= PageSize BY DEF Complete, Full
    <3>2. p.got = {} => Cardinality(p.got) = 0 BY FS_EmptySet
    <3>3. PageSize \in Nat /\ PageSize # 0 OBVIOUS
    <3> QED BY <3>1, <3>2, <3>3
  <2>3. T # {} /\ T \subseteq Nat
    <3>1. p.got \subseteq Events BY DEF PageOK
    <3> QED BY <2>2, <3>1
  <2>4. \A t \in T : w.lo <= t /\ t <= w.hi /\ t \in Int BY <1>0, <2>1 DEF Matching
  <2>5. Oldest(p) \in T
    <3> HIDE DEF T
    <3>1. Min(T) \in T BY <2>3, MinOf
    <3> QED BY <3>1 DEF Oldest, T
  <2>6. m \in Int /\ w.lo <= m /\ m < w.hi
    <3> DEFINE o == Oldest(p) - 1
    <3> HIDE DEF T
    <3>0. Oldest(p) \in Int /\ Oldest(p) <= w.hi BY <2>4, <2>5
    <3>1. o \in Int /\ o < w.hi BY <3>0, <1>0
    <3> HIDE DEF o
    <3>2. Max({w.lo, o}) = IF w.lo >= o THEN w.lo ELSE o BY <1>0, <3>1, MaxOfTwo
    <3>3. m = Max({w.lo, o}) BY DEF Middle, o
    <3> HIDE DEF m, w
    <3> QED BY <1>0, <1>1, <3>1, <3>2, <3>3
  <2>7. halves = TimeHalves(w, m) BY <1>1 DEF Halves
  <2> HIDE DEF m, w
  <2>8. [w EXCEPT !.hi = m] \in Windows BY <1>0, <2>6 DEF Windows
  <2>9. [w EXCEPT !.lo = m + 1] \in Windows
    <3> DEFINE l == m + 1
    <3>1. l \in Int /\ l <= w.hi BY <1>0, <2>6
    <3> HIDE DEF l
    <3>2. [w EXCEPT !.lo = l] \in Windows BY <1>0, <3>1 DEF Windows
    <3> QED BY <3>2 DEF l
  <2> QED BY <2>7, <2>8, <2>9 DEF TimeHalves
<1>2. CASE ~(w.lo < w.hi)
  <2>1. PICK first : first \subseteq w.kinds /\ halves = <<[w EXCEPT !.kinds = @ \ first], [w EXCEPT !.kinds = first]>>
    BY <1>2 DEF Halves, kSubset
  <2> HIDE DEF w
  <2>2. [w EXCEPT !.kinds = @ \ first] \in Windows BY <1>0 DEF Windows
  <2>3. [w EXCEPT !.kinds = first] \in Windows BY <1>0, <2>1 DEF Windows
  <2> QED BY <2>1, <2>2, <2>3
<1> QED BY <1>1, <1>2

\* A complete page that is stored tells all of its window.
LEMMA CompleteTold ==
  ASSUME NEW p, PageOK(p), Complete(p), NEW S, p.got \subseteq S
  PROVE  Told(S, p.window.kinds, p.window.lo..p.window.hi)
<1> USE CoverageConstants
<1> DEFINE w == p.window
           M == Matching(w)
           n == Cardinality(M)
<1>0. w.lo \in Int /\ w.hi \in Int /\ w.kinds \in SUBSET Kinds BY DEF PageOK, Windows
<1>1. IsFiniteSet(M) /\ n \in Nat
  <2>1. M \subseteq Events BY DEF Matching
  <2>2. IsFiniteSet(M) BY <2>1, FS_Subset
  <2> QED BY <2>2, FS_CardinalityType
<1>2. p.got \subseteq M /\ Cardinality(p.got) = Min({PageSize, n}) BY DEF PageOK, Pages, kSubset
<1>3. ASSUME NEW k \in w.kinds, NEW t \in w.lo..w.hi PROVE Held(k, t) \subseteq M
  BY <1>3 DEF Held, Matching
<1> HIDE DEF M, n
<1>4. Min({PageSize, n}) \in {PageSize, n} /\ Min({PageSize, n}) <= n /\ Min({PageSize, n}) <= PageSize
  <2> DEFINE T == {PageSize, n}
  <2>1. T \subseteq Nat /\ T # {} BY <1>1
  <2>2. PageSize \in T /\ n \in T OBVIOUS
  <2> HIDE DEF T
  <2>3. Min(T) \in T /\ \A x \in T : Min(T) <= x BY <2>1, MinOf
  <2>4. Min(T) \in T /\ Min(T) <= n /\ Min(T) <= PageSize BY <2>2, <2>3
  <2> QED BY <2>4 DEF T
<1>5. CASE Min({PageSize, n}) = n
  <2>1. p.got = M BY <1>1, <1>2, <1>5, FS_Subset DEF n
  <2>2. \A k \in w.kinds : \A t \in w.lo..w.hi : Held(k, t) \subseteq S BY <1>3, <2>1
  <2> QED BY <2>2 DEF Told
<1>6. CASE Min({PageSize, n}) # n
  <2>1. Cardinality(p.got) = PageSize /\ PageSize < n BY <1>1, <1>2, <1>4, <1>6
  <2>2. w.lo = w.hi /\ Cardinality(w.kinds) = 1 BY <2>1 DEF Complete, Full
  <2>3. PICK k : w.kinds = {k}
    <3>1. IsFiniteSet(w.kinds) BY <1>0, FS_Subset
    <3> QED BY <2>2, <3>1, FS_Singleton
  <2>4. M = Held(k, w.lo) BY <2>2, <2>3, <1>0 DEF M, Matching, Held
  <2>5. \A t \in w.lo..w.hi : t = w.lo BY <2>2, <1>0
  <2>6. Cardinality(Held(k, w.lo)) > PageSize BY <2>1, <2>4, <1>1 DEF n
  <2> QED BY <2>3, <2>5, <2>6 DEF Told
<1> QED BY <1>5, <1>6

\* Gaps of the kinds of a group, put together, are windows whose seconds are
\* for each kind those of its gaps.
LEMMA CombinedOK ==
  ASSUME NEW g \in Groups, NEW gaps, \A k \in KindsOf[g] : gaps[k] \in SUBSET Pairs /\ \A r \in gaps[k] : r[1] <= r[2]
  PROVE  /\ Combined(g, gaps) \in SUBSET Windows
         /\ \A k \in KindsOf[g] : UNION {w.lo..w.hi : w \in {x \in Combined(g, gaps) : k \in x.kinds}} = Span(gaps[k])
<1>1. KindsOf[g] \subseteq Kinds BY CoverageConstants
<1> DEFINE Of(r) == Window(r[1], r[2], {k \in KindsOf[g] : r \in gaps[k]})
           All == UNION {gaps[k] : k \in KindsOf[g]}
<1>2. Combined(g, gaps) = {Of(r) : r \in All} BY DEF Combined
<1>3. ASSUME NEW r \in All PROVE /\ Of(r) \in Windows
                                 /\ Of(r).lo = r[1] /\ Of(r).hi = r[2] /\ Of(r).kinds = {k \in KindsOf[g] : r \in gaps[k]}
  <2>1. r[1] \in Int /\ r[2] \in Int /\ r[1] <= r[2] BY DEF Pairs
  <2> DEFINE S == {k \in KindsOf[g] : r \in gaps[k]}
  <2>2. S \in SUBSET Kinds BY <1>1
  <2> HIDE DEF S
  <2>3. Window(r[1], r[2], S) \in Windows BY <2>1, <2>2 DEF Window, Windows
  <2>4. Window(r[1], r[2], S).lo = r[1] /\ Window(r[1], r[2], S).hi = r[2] /\ Window(r[1], r[2], S).kinds = S BY DEF Window
  <2> QED BY <2>3, <2>4 DEF S
<1> HIDE DEF Of
<1>4. ASSUME NEW k \in KindsOf[g]
      PROVE  UNION {w.lo..w.hi : w \in {x \in Combined(g, gaps) : k \in x.kinds}} = Span(gaps[k])
  <2>1. \A r \in All : k \in Of(r).kinds <=> r \in gaps[k] BY <1>3
  <2>2. \A r \in gaps[k] : r \in All OBVIOUS
  <2> HIDE DEF All
  <2>3. {x \in Combined(g, gaps) : k \in x.kinds} = {Of(r) : r \in gaps[k]} BY <1>2, <2>1, <2>2
  <2>4. \A r \in gaps[k] : Of(r).lo..Of(r).hi = r[1]..r[2] BY <1>3, <2>2
  <2>5. UNION {w.lo..w.hi : w \in {Of(r) : r \in gaps[k]}} = UNION {r[1]..r[2] : r \in gaps[k]} BY <2>4
  <2> QED BY <2>3, <2>5 DEF Span
<1> QED BY <1>2, <1>3, <1>4

\* The row of a kind, and what the relay is still to be asked of it.
LEMMA RowsOK ==
  ASSUME DatabaseOK, NEW k \in Kinds
  PROVE  RowOK(Row(k)) /\ Cells(Row(k)) = Covered(k)
<1>1. RowOK(<<>>) BY EmptySeq DEF RowOK, Normal
<1>2. Cells(<<>>) = {} BY DEF Cells, ToSet
<1> QED BY <1>1, <1>2 DEF DatabaseOK, Row, Covered

\* The clock of a session, and how far back the feed's snapshot reaches.
LEMMA TimesOK == ASSUME DatabaseOK PROVE now \in Nat /\ Since \in Nat /\ Since <= now
<1> USE CoverageConstants
<1>1. now \in Nat BY ElementOfSeq DEF DatabaseOK, now
<1> DEFINE b == now - Overlap
<1>2. b \in Int /\ b <= now BY <1>1
<1> HIDE DEF b
<1>3. Max({0, b}) = IF 0 >= b THEN 0 ELSE b BY <1>2, MaxOfTwo
<1>4. Since = Max({0, b}) BY DEF Since, b
<1> QED BY <1>1, <1>2, <1>3, <1>4

\* The backlog of a group is exactly what its rows do not cover of the past.
LEMMA BacklogOK ==
  ASSUME DatabaseOK, NEW g \in Groups
  PROVE  /\ Backlog(g) \in SUBSET Windows
         /\ \A k \in KindsOf[g] :
              UNION {w.lo..w.hi : w \in {x \in Backlog(g) : k \in x.kinds}} = (0..(Since - 1)) \ Covered(k)
<1>1. KindsOf[g] \subseteq Kinds BY CoverageConstants
<1> DEFINE gaps == [k \in KindsOf[g] |-> MissingCoverage(Row(k), 0, Since - 1)]
<1>2. ASSUME NEW k \in KindsOf[g]
      PROVE  /\ gaps[k] \in SUBSET Pairs /\ \A r \in gaps[k] : r[1] <= r[2]
             /\ Span(gaps[k]) = (0..(Since - 1)) \ Covered(k)
  <2>1. Row(k) \in Seq(Pairs) /\ Normal(Row(k)) /\ Cells(Row(k)) = Covered(k) BY <1>1, RowsOK DEF RowOK
  <2>2. 0 \in Int /\ Since - 1 \in Int BY TimesOK
  <2> DEFINE s == Row(k)
             hi == Since - 1
  <2>3. gaps[k] = MissingCoverage(s, 0, hi) OBVIOUS
  <2> HIDE DEF s, hi
  <2>4. /\ MissingCoverage(s, 0, hi) \in SUBSET Pairs
        /\ Span(MissingCoverage(s, 0, hi)) = (0..hi) \ Cells(s)
        /\ \A r \in MissingCoverage(s, 0, hi) : r[1] <= r[2]
    BY <2>1, <2>2, MissingIsTheRest DEF s, hi
  <2> QED BY <2>1, <2>3, <2>4 DEF s, hi
<1>3. Backlog(g) = Combined(g, gaps) BY DEF Backlog
<1> HIDE DEF gaps
<1> QED BY <1>2, <1>3, CombinedOK

\* The windows of the catch-up are windows.
LEMMA CatchupsOK ==
  ASSUME DatabaseOK, NEW g \in Groups
  PROVE  Catchups(g) \in SUBSET Windows
<1>1. KindsOf[g] \subseteq Kinds BY CoverageConstants
<1> DEFINE gaps == [k \in KindsOf[g] |->
             IF Row(k) # <<>> /\ CatchupFrom(Row(k)) < Since THEN {<<CatchupFrom(Row(k)), Since - 1>>} ELSE {}]
<1>2. ASSUME NEW k \in KindsOf[g]
      PROVE  gaps[k] \in SUBSET Pairs /\ \A r \in gaps[k] : r[1] <= r[2]
  <2>1. CASE Row(k) # <<>> /\ CatchupFrom(Row(k)) < Since
    <3> DEFINE s == Row(k)
               b == Last(s)[2] - Overlap
               from == CatchupFrom(s)
    <3>1. s \in Seq(Pairs) /\ Len(s) \in 1..Len(s) BY <1>1, <2>1, RowsOK, EmptySeq, LenProperties DEF RowOK
    <3>2. Last(s) \in Pairs BY <3>1, ElementOfSeq DEF Last
    <3>3. b \in Int BY <3>2, CoverageConstants DEF Pairs
    <3> HIDE DEF b
    <3>4. Max({0, b}) \in Int BY <3>3, MaxOfTwo
    <3>5. from \in Int BY <3>4 DEF CatchupFrom, b
    <3>6. Since \in Int /\ from < Since BY <2>1, TimesOK
    <3>7. gaps[k] = {<<from, Since - 1>>} BY <2>1
    <3> HIDE DEF gaps, from
    <3> DEFINE r == <<from, Since - 1>>
    <3>8. r \in Pairs /\ r[1] = from /\ r[2] = Since - 1 BY <3>5, <3>6 DEF Pairs
    <3>9. from <= Since - 1 BY <3>5, <3>6
    <3> HIDE DEF r
    <3>10. gaps[k] = {r} BY <3>7 DEF r
    <3> QED BY <3>8, <3>9, <3>10
  <2>2. CASE ~(Row(k) # <<>> /\ CatchupFrom(Row(k)) < Since) BY <2>2
  <2> QED BY <2>1, <2>2
<1>3. Catchups(g) = Combined(g, gaps) BY DEF Catchups
<1> HIDE DEF gaps
<1> QED BY <1>2, <1>3, CombinedOK

-----------------------------------------------------------------------------
\* The actions.

\* What is stored stays told while the database grows.
LEMMA ToldGrows ==
  ASSUME NEW S, NEW T, S \subseteq T, NEW kinds, NEW cells, Told(S, kinds, cells)
  PROVE  Told(T, kinds, cells)
BY DEF Told

\* The queue of a step that does not touch it.
LEMMA QueueSame ==
  ASSUME QueueOK, UNCHANGED queue
  PROVE  QueueOK' /\ queued' = queued /\ running' = running /\ barrier' = barrier
BY DEF QueueOK, queue

\* Reading records creates what is missing.
Creates(g) ==
  /\ generation' = Registry
  /\ coverage' = [k \in Kinds |-> IF k \in KindsOf[g] THEN Row(k) ELSE coverage[k]]
  /\ UNCHANGED <<faults, session>>

\* The registry gets a generation that nobody has read before, and no second
\* becomes covered.
LEMMA CreatesOK ==
  ASSUME DatabaseOK, Fences, NEW g \in Groups, Creates(g)
  PROVE  /\ DatabaseOK' /\ generation' # None /\ generation' <= faults
         /\ Given(generation', generation', faults)
         /\ \A x : Given(x, generation, faults) => Given(x, generation', faults) /\ (x = generation' => x = generation)
         /\ \A k \in Kinds : Covered(k)' = Covered(k)
<1>0. faults \in Nat /\ generation \in Nat \cup {None} /\ None \notin Nat BY CoverageConstants DEF DatabaseOK
<1>1. generation' = IF generation = None THEN faults ELSE generation BY DEF Creates, Registry
<1>2. generation' \in Nat /\ generation' # None /\ generation' <= faults BY <1>0, <1>1 DEF Fences
<1>3. Given(generation', generation', faults) BY <1>2 DEF Given
<1>4. ASSUME NEW x, Given(x, generation, faults) PROVE Given(x, generation', faults) /\ (x = generation' => x = generation)
  BY <1>0, <1>1, <1>2, <1>4 DEF Given
<1>5. ASSUME NEW k \in Kinds PROVE (coverage'[k] # None => RowOK(coverage'[k])) /\ Covered(k)' = Covered(k)
  <2>1. coverage'[k] = IF k \in KindsOf[g] THEN Row(k) ELSE coverage[k] BY DEF Creates
  <2>2. Cells(<<>>) = {} BY DEF Cells, ToSet
  <2>3. CASE coverage'[k] = coverage[k] BY <2>3 DEF DatabaseOK, Covered
  <2>4. CASE coverage'[k] # coverage[k]
    <3>1. coverage[k] = None /\ coverage'[k] = <<>> BY <2>1, <2>4 DEF Row
    <3>2. RowOK(<<>>) BY EmptySeq DEF RowOK, Normal
    <3> QED BY <3>1, <3>2, <2>2 DEF Covered
  <2> QED BY <2>3, <2>4
<1>6. coverage' = [k \in Kinds |-> coverage'[k]] BY DEF Creates
<1>7. DatabaseOK' BY <1>0, <1>2, <1>5, <1>6 DEF DatabaseOK, Creates
<1> QED BY <1>2, <1>3, <1>4, <1>5, <1>7

\* Storing an event of a page keeps the invariant.
LEMMA PersistKeeps ==
  ASSUME IInv, NEW g \in Groups, Persist(g)
  PROVE  IInv'
<1> USE DEF IInv
<1>0. /\ page[g] # None /\ UNCHANGED <<generation, coverage, limits, stage, step, records, jobs, pending, failed, queue>>
      /\ UNCHANGED <<faults, session, queued, running, barrier>>
  BY DEF Persist, limits, queue
<1>1. PICK e \in page[g].left : /\ stored' = stored \cup {e}
                                /\ page' = [page EXCEPT ![g].left = @ \ {e}]
  BY DEF Persist
<1>2. page = [h \in Groups |-> page[h]] /\ PageOK(page[g]) BY <1>0 DEF Types, ScanOK
<1>3. page'[g] = [page[g] EXCEPT !.left = @ \ {e}] /\ \A h \in Groups \ {g} : page'[h] = page[h] BY <1>1, <1>2
<1>4. page' = [h \in Groups |-> page'[h]] BY <1>1, <1>2
<1>5. PageOK(page'[g]) /\ page'[g].got = page[g].got /\ page'[g].left = page[g].left \ {e}
  <2> DEFINE p == page[g]
  <2>1. p \in [window : Windows, got : SUBSET Events, left : SUBSET Events] BY <1>2 DEF PageOK
  <2> HIDE DEF p
  <2>2. [p EXCEPT !.left = @ \ {e}] \in [window : Windows, got : SUBSET Events, left : SUBSET Events] BY <2>1
  <2>3. /\ [p EXCEPT !.left = @ \ {e}].got = p.got /\ [p EXCEPT !.left = @ \ {e}].left = p.left \ {e}
        /\ [p EXCEPT !.left = @ \ {e}].window = p.window
    BY <2>1
  <2> QED BY <1>2, <1>3, <2>2, <2>3 DEF PageOK, p
<1>6. Types'
  <2>1. DatabaseOK' BY <1>0 DEF Types, DatabaseOK
  <2>2. ScanOK' BY <1>0, <1>3, <1>4, <1>5 DEF Types, ScanOK
  <2>3. QueueOK' BY <1>0, QueueSame DEF Types
  <2> QED BY <2>1, <2>2, <2>3 DEF Types
<1>7. Fences'
  <2>1. \A h \in Groups : page'[h] # None => page[h] # None BY <1>0, <1>3
  <2> QED BY <1>0, <2>1 DEF Fences
<1>8. Honest'
  <2>1. \A k \in Kinds : Covered(k)' = Covered(k) BY <1>0 DEF Covered
  <2>2. \A k \in Kinds : Told(stored', {k}, Covered(k)') BY <1>1, <2>1, ToldGrows DEF Honest
  <2>3. ASSUME NEW h \in Groups, page'[h] # None, records'[h] = generation' PROVE page'[h].got \ page'[h].left \subseteq stored'
    <3>1. CASE h = g BY <3>1, <2>3, <1>0, <1>1, <1>5 DEF Honest
    <3>2. CASE h # g BY <3>2, <2>3, <1>0, <1>1, <1>3 DEF Honest
    <3> QED BY <3>1, <3>2
  <2>4. ASSUME NEW r \in Checkpoints, InQueue(r, queued', running'), r.generation = generation'
        PROVE  Told(stored', r.kinds, r.lo..r.hi)
    <3>1. Told(stored, r.kinds, r.lo..r.hi) BY <2>4, <1>0 DEF Honest
    <3> QED BY <3>1, <1>1, ToldGrows
  <2> QED BY <2>2, <2>3, <2>4 DEF Honest
<1>9. Barriers' BY <1>0 DEF Barriers
<1> QED BY <1>6, <1>7, <1>8, <1>9

\* What the queue holds after a batch was taken from it is what it held before.
LEMMA TimerFiresKeeps == ASSUME IInv, TimerFires PROVE IInv'
<1> USE DEF IInv
<1>0. /\ Drain(queued)
      /\ UNCHANGED <<generation, coverage, stored, faults, session, stage, step, records, jobs, pending, page, barrier>>
  BY DEF TimerFires, database, limits, scanning
<1>1. QueueOK /\ Batch(queued) /\ Len(running) \in Nat BY LenProperties DEF Types, QueueOK
<1>2. /\ Batch(queued') /\ running' \in Seq(SUBSET Checkpoints) /\ \A n \in 1..Len(running') : Batch(running'[n])
      /\ \A n \in 1..Len(running') : running'[n] = IF n <= Len(running) THEN running[n] ELSE queued
      /\ \A r : InQueue(r, queued', running') <=> r \in queued \/ \E n \in 1..Len(running) : r \in running[n]
  BY <1>0, <1>1, DrainOK
<1>3. \A r : InQueue(r, queued', running') <=> InQueue(r, queued, running) BY <1>2 DEF InQueue
<1>4. Types'
  <2>1. DatabaseOK' BY <1>0 DEF Types, DatabaseOK
  <2>2. ScanOK' BY <1>0 DEF Types, ScanOK
  <2>3. QueueOK' BY <1>0, <1>2 DEF Types, QueueOK
  <2> QED BY <2>1, <2>2, <2>3 DEF Types
<1>5. Fences' BY <1>0, <1>3 DEF Fences
<1>6. Honest'
  <2>1. \A k \in Kinds : Covered(k)' = Covered(k) BY <1>0 DEF Covered
  <2> QED BY <2>1, <1>0, <1>3 DEF Honest
<1>7. Barriers'
  <2>1. queued' = {} BY <1>0 DEF Drain
  <2>2. \A n \in 1..Len(running') : n <= Len(running) => n \in 1..Len(running) BY <1>1
  <2>3. ASSUME NEW g \in Groups, step[g] = "flush", NEW n \in 1..Len(running'), NEW r \in running'[n], r.group = g
        PROVE  n <= barrier[g]
    <3>1. n <= Len(running) BY <1>2, <2>3 DEF Barriers
    <3> QED BY <1>2, <2>2, <2>3, <3>1 DEF Barriers
  <2> QED BY <1>0, <1>3, <2>1, <2>3 DEF Barriers
<1> QED BY <1>4, <1>5, <1>6, <1>7

\* A flush that finds more requests takes them too and waits for their batch.
LEMMA FlushAgainKeeps == ASSUME IInv, NEW g \in Groups, FlushAgain(g) PROVE IInv'
<1> USE DEF IInv
<1>0. /\ Waits(g, queued)
      /\ UNCHANGED <<generation, coverage, stored, faults, session, stage, step, records, jobs, pending, page>>
  BY DEF FlushAgain, database, limits, scanning
<1>1. QueueOK /\ Batch(queued) /\ Len(running) \in Nat BY LenProperties DEF Types, QueueOK
<1>2. /\ QueueOK'
      /\ queued' = {} /\ barrier'[g] = Len(running')
      /\ \A h \in Groups \ {g} : barrier'[h] = barrier[h]
      /\ \A n \in 1..Len(running') : running'[n] = IF n <= Len(running) THEN running[n] ELSE queued
      /\ \A r : InQueue(r, queued', running') <=> r \in queued \/ \E n \in 1..Len(running) : r \in running[n]
  BY <1>0, <1>1, WaitsOK
<1>3. \A r : InQueue(r, queued', running') <=> InQueue(r, queued, running) BY <1>2 DEF InQueue
<1>4. Types'
  <2>1. DatabaseOK' BY <1>0 DEF Types, DatabaseOK
  <2>2. ScanOK' BY <1>0 DEF Types, ScanOK
  <2> QED BY <2>1, <2>2, <1>2 DEF Types
<1>5. Fences' BY <1>0, <1>3 DEF Fences
<1>6. Honest'
  <2>1. \A k \in Kinds : Covered(k)' = Covered(k) BY <1>0 DEF Covered
  <2> QED BY <2>1, <1>0, <1>3 DEF Honest
<1>7. Barriers'
  <2>1. Len(running') \in Nat BY <1>2, LenProperties DEF QueueOK
  <2>2. \A n \in 1..Len(running') : n <= Len(running) => n \in 1..Len(running) BY <1>1
  <2>3. ASSUME NEW h \in Groups, step[h] = "flush", NEW n \in 1..Len(running'), NEW r \in running'[n], r.group = h
        PROVE  n <= barrier'[h]
    <3>1. CASE h = g BY <3>1, <1>2, <2>1
    <3>2. CASE h # g
      <4>1. n <= Len(running) BY <1>2, <2>3 DEF Barriers
      <4> QED BY <1>2, <2>2, <2>3, <3>2, <4>1 DEF Barriers
    <3> QED BY <3>1, <3>2
  <2> QED BY <1>0, <1>2, <1>3, <2>3 DEF Barriers
<1> QED BY <1>4, <1>5, <1>6, <1>7

\* A flush ends when no batch with a request of its group is left.
LEMMA FlushEndsKeeps == ASSUME IInv, NEW g \in Groups, FlushEnds(g) PROVE IInv'
<1> USE DEF IInv
<1>0. /\ step[g] = "flush" /\ barrier[g] = 0 /\ queued = {}
      /\ step' = [step EXCEPT ![g] = "job"]
      /\ UNCHANGED <<generation, coverage, stored, faults, session, pending, page, queued, running, barrier>>
  BY DEF FlushEnds, First, Ready, database, limits
<1>1. \/ UNCHANGED <<stage, records, jobs>>
      \/ /\ records' = [records EXCEPT ![g] = None] /\ jobs' = [jobs EXCEPT ![g] = {}]
         /\ \E next \in AfterFailure(g) : stage' = [stage EXCEPT ![g] = next]
  BY DEF FlushEnds
<1>2. /\ records \in [Groups -> Nat \cup {None}] /\ jobs \in [Groups -> SUBSET Windows]
      /\ stage = [h \in Groups |-> stage[h]] /\ step = [h \in Groups |-> step[h]]
  BY DEF Types, ScanOK
<1>3. step' = [h \in Groups |-> step'[h]] /\ step'[g] = "job" /\ \A h \in Groups \ {g} : step'[h] = step[h]
  BY <1>0, <1>2
<1>4. /\ stage' = [h \in Groups |-> stage'[h]] /\ records' \in [Groups -> Nat \cup {None}] /\ jobs' \in [Groups -> SUBSET Windows]
      /\ \A h \in Groups \ {g} : stage'[h] = stage[h] /\ records'[h] = records[h] /\ jobs'[h] = jobs[h]
      /\ \/ stage'[g] = stage[g] /\ records'[g] = records[g] /\ jobs'[g] = jobs[g]
         \/ records'[g] = None /\ jobs'[g] = {}
  BY <1>1, <1>2
<1>5. Types'
  <2>1. DatabaseOK' BY <1>0 DEF Types, DatabaseOK
  <2>2. ScanOK' BY <1>0, <1>3, <1>4 DEF Types, ScanOK
  <2>3. QueueOK' BY <1>0 DEF Types, QueueOK
  <2> QED BY <2>1, <2>2, <2>3 DEF Types
<1>6. page[g] = None BY <1>0 DEF Fences
<1>7. Fences'
  <2>1. ASSUME NEW h \in Groups PROVE records'[h] # None => Given(records'[h], generation', faults')
    BY <1>0, <1>4 DEF Fences
  <2>2. ASSUME NEW h \in Groups, page'[h] # None \/ jobs'[h] # {} PROVE records'[h] # None
    BY <1>0, <1>4, <1>6, <2>2 DEF Fences
  <2>3. ASSUME NEW h \in Groups, step'[h] \in {"job", "flush"} PROVE page'[h] = None
    BY <1>0, <1>3, <1>6, <2>3 DEF Fences
  <2> QED BY <1>0, <2>1, <2>2, <2>3 DEF Fences
<1>8. Honest'
  <2>1. \A k \in Kinds : Covered(k)' = Covered(k) BY <1>0 DEF Covered
  <2>2. \A h \in Groups : page'[h] # None => records'[h] = records[h] BY <1>0, <1>4, <1>6
  <2> QED BY <2>1, <2>2, <1>0 DEF Honest
<1>9. Barriers'
  <2>1. ASSUME NEW r \in Checkpoints, InQueue(r, queued, running) PROVE r.group # g
    <3>1. barrier[g] \in Nat /\ Len(running) \in Nat BY LenProperties DEF Types, QueueOK
    <3>2. \A n \in 1..Len(running) : ~(n <= barrier[g]) BY <1>0, <3>1
    <3> QED BY <1>0, <2>1, <3>2 DEF Barriers, InQueue
  <2>2. ASSUME NEW h \in Groups
        PROVE  /\ stage'[h] = "begin" => step'[h] = "job" /\ jobs'[h] = {}
               /\ step'[h] \in {"job", "feed"} => \A r \in Checkpoints : InQueue(r, queued, running) => r.group # h
               /\ step'[h] = "flush" => step[h] = "flush"
    <3>1. CASE h = g BY <3>1, <1>3, <1>4, <2>1 DEF Barriers
    <3>2. CASE h # g BY <3>2, <1>3, <1>4 DEF Barriers
    <3> QED BY <3>1, <3>2
  <2> QED BY <1>0, <2>2 DEF Barriers
<1> QED BY <1>5, <1>7, <1>8, <1>9

\* The database is erased: what was read of it belongs to no registry any more.
LEMMA ResetKeeps == ASSUME IInv, Reset PROVE IInv'
<1> USE DEF IInv
<1>0. /\ generation' = None /\ coverage' = [k \in Kinds |-> None] /\ stored' = {} /\ faults' = faults + 1
      /\ UNCHANGED <<session, stage, step, records, jobs, pending, page, queued, running, barrier>>
  BY DEF Reset, scanning, queue
<1>1. None \notin Nat /\ faults \in Nat BY CoverageConstants DEF Types, DatabaseOK
<1>2. Types'
  <2>1. DatabaseOK' BY <1>0, <1>1 DEF Types, DatabaseOK
  <2>2. ScanOK' BY <1>0 DEF Types, ScanOK
  <2>3. QueueOK' BY <1>0 DEF Types, QueueOK
  <2> QED BY <2>1, <2>2, <2>3 DEF Types
<1>3. \A x : Given(x, generation, faults) => Given(x, None, faults + 1) BY <1>1 DEF Given
<1>4. Fences' BY <1>0, <1>3 DEF Fences
<1>5. Honest'
  <2>1. \A k \in Kinds : Covered(k)' = {} BY <1>0 DEF Covered
  <2>2. \A g \in Groups : page[g] # None => records[g] # generation' BY <1>0 DEF Fences
  <2>3. \A r \in Checkpoints : r.generation # generation' BY <1>0, <1>1 DEF Checkpoints
  <2>4. \A k \in Kinds : Told(stored', {k}, Covered(k)') BY <2>1 DEF Told
  <2> QED BY <1>0, <2>2, <2>3, <2>4 DEF Honest
<1>6. Barriers' BY <1>0 DEF Barriers
<1> QED BY <1>2, <1>4, <1>5, <1>6

\* Another tab reads: the registry may be new, and then nobody here has read it.
LEMMA OtherTabReadsKeeps == ASSUME IInv, NEW g \in Groups, OtherTabReads(g) PROVE IInv'
<1> USE DEF IInv
<1>0. /\ Creates(g) /\ faults' = faults
      /\ UNCHANGED <<stored, session, stage, step, records, jobs, pending, page, queued, running, barrier>>
  BY DEF OtherTabReads, Creates, limits, scanning, queue
<1>1. /\ DatabaseOK' /\ generation' # None /\ generation' <= faults
      /\ \A x : Given(x, generation, faults) => Given(x, generation', faults) /\ (x = generation' => x = generation)
      /\ \A k \in Kinds : Covered(k)' = Covered(k)
  BY <1>0, CreatesOK DEF Types
<1>2. Types'
  <2>1. ScanOK' BY <1>0 DEF Types, ScanOK
  <2>2. QueueOK' BY <1>0 DEF Types, QueueOK
  <2> QED BY <1>1, <2>1, <2>2 DEF Types
<1>3. Fences' BY <1>0, <1>1 DEF Fences
<1>4. Honest'
  <2>1. ASSUME NEW h \in Groups, page[h] # None, records[h] = generation' PROVE records[h] = generation
    BY <1>1, <2>1 DEF Fences
  <2>2. ASSUME NEW r \in Checkpoints, InQueue(r, queued, running), r.generation = generation' PROVE r.generation = generation
    BY <1>1, <2>2 DEF Fences
  <2> QED BY <1>0, <1>1, <2>1, <2>2 DEF Honest
<1>5. Barriers' BY <1>0 DEF Barriers
<1> QED BY <1>2, <1>3, <1>4, <1>5

\* The tab ends: the next session begins with what the database holds.
LEMMA RestartKeeps == ASSUME IInv, Restart PROVE IInv'
<1> USE DEF IInv
<1>0. /\ session < Len(Clock) /\ session' = session + 1
      /\ records' = [g \in Groups |-> None] /\ jobs' = [g \in Groups |-> {}]
      /\ pending' = [g \in Groups |-> <<>>] /\ page' = [g \in Groups |-> None]
      /\ stage' = [g \in Groups |-> "begin"] /\ step' = [g \in Groups |-> "job"]
      /\ queued' = {} /\ running' = <<>> /\ barrier' = [g \in Groups |-> 0]
      /\ UNCHANGED <<generation, coverage, stored, faults>>
  BY DEF Restart, database
<1>1. Types'
  <2>1. session' \in DOMAIN Clock
    <3>1. session \in 1..Len(Clock) /\ Len(Clock) \in Nat BY CoverageConstants, LenProperties DEF Types, DatabaseOK
    <3> QED BY <1>0, <3>1, CoverageConstants
  <2>2. DatabaseOK' BY <1>0, <2>1 DEF Types, DatabaseOK
  <2>3. ScanOK' BY <1>0, EmptySeq DEF ScanOK
  <2>4. Batch({}) BY FS_EmptySet DEF Batch
  <2>5. QueueOK' BY <1>0, <2>4, EmptySeq DEF QueueOK
  <2> QED BY <2>2, <2>3, <2>5 DEF Types
<1>2. ASSUME NEW r, InQueue(r, queued', running') PROVE FALSE BY <1>0, <1>2 DEF InQueue
<1>3. Fences' BY <1>0, <1>2 DEF Types, Fences
<1>4. Honest'
  <2>1. \A k \in Kinds : Covered(k)' = Covered(k) BY <1>0 DEF Covered
  <2> QED BY <1>0, <1>2, <2>1 DEF Honest
<1>5. Barriers' BY <1>0, <1>2 DEF Barriers
<1> QED BY <1>1, <1>3, <1>4, <1>5

\* The first batch is over, committed or not: who waits comes nearer.
LEMMA BatchOverOK ==
  ASSUME IInv, BatchOver
  PROVE  /\ QueueOK' /\ Barriers'
         /\ \A r : InQueue(r, queued', running') => InQueue(r, queued, running)
         /\ \A r \in Head(running) : InQueue(r, queued, running)
         /\ Batch(Head(running))
<1> USE DEF IInv
<1>0. /\ running # <<>> /\ running' = Tail(running) /\ queued' = queued
      /\ barrier' = [g \in Groups |-> Max({0, barrier[g] - 1})]
      /\ UNCHANGED <<stage, step, jobs>>
  BY DEF BatchOver, scanning
<1>1. QueueOK /\ barrier \in [Groups -> Nat] BY DEF Types, QueueOK
<1>2. /\ running' \in Seq(SUBSET Checkpoints) /\ \A n \in 1..Len(running') : Batch(running'[n])
      /\ \A n \in 1..Len(running') : running'[n] = running[n + 1] /\ n + 1 \in 1..Len(running)
      /\ \A r : InQueue(r, queued', running') => InQueue(r, queued, running)
      /\ \A r \in Head(running) : InQueue(r, queued, running)
      /\ Batch(Head(running))
  BY <1>0, <1>1, TailOK
<1>3. ASSUME NEW g \in Groups PROVE barrier'[g] \in Nat /\ barrier'[g] >= barrier[g] - 1
  <2> DEFINE b == barrier[g] - 1
  <2>1. b \in Int BY <1>1
  <2>2. barrier'[g] = Max({0, b}) BY <1>0
  <2> HIDE DEF b
  <2>3. Max({0, b}) = IF 0 >= b THEN 0 ELSE b BY <2>1, MaxOfTwo
  <2>4. barrier'[g] \in Nat /\ barrier'[g] >= b BY <2>1, <2>2, <2>3
  <2> QED BY <2>4 DEF b
<1>4. QueueOK'
  <2>1. barrier' \in [Groups -> Nat] BY <1>0, <1>3
  <2> QED BY <1>0, <1>1, <1>2, <2>1 DEF QueueOK
<1>5. Barriers'
  <2>1. ASSUME NEW g \in Groups, step[g] = "flush", NEW n \in 1..Len(running'), NEW r \in running'[n], r.group = g
        PROVE  n <= barrier'[g]
    <3>1. n + 1 \in 1..Len(running) /\ r \in running[n + 1] BY <1>2, <2>1
    <3>2. n + 1 <= barrier[g] BY <3>1, <2>1 DEF Barriers
    <3>3. barrier[g] \in Int /\ barrier'[g] \in Int /\ n \in Int BY <1>1, <1>3
    <3> QED BY <1>3, <3>2, <3>3
  <2> QED BY <1>0, <1>2, <2>1 DEF Barriers
<1> QED BY <1>2, <1>4, <1>5

\* A committed batch covers what its requests tell, and they belong to this
\* database: no second becomes covered whose events it does not hold.
LEMMA BatchCommitsKeeps == ASSUME IInv, BatchCommits PROVE IInv'
<1> USE DEF IInv
<1>0. /\ ~Obsolete(Head(running)) /\ coverage' = Marked(Head(running))
      /\ UNCHANGED <<generation, stored, faults, session, stage, step, records, jobs, pending, page>>
  BY DEF BatchCommits, BatchOver, scanning
<1>1. /\ QueueOK' /\ Barriers'
      /\ \A r : InQueue(r, queued', running') => InQueue(r, queued, running)
      /\ \A r \in Head(running) : InQueue(r, queued, running)
      /\ Batch(Head(running))
  BY BatchOverOK DEF BatchCommits
<1> DEFINE B == Head(running)
           Of(k) == {x \in B : k \in x.kinds}
           Ranges(k) == {<<r.lo, r.hi>> : r \in Of(k)}
<1>2. B \in SUBSET Checkpoints /\ IsFiniteSet(B) BY <1>1 DEF Batch
<1>3. \A r \in B : r.generation = generation /\ \A k \in r.kinds : coverage[k] # None BY <1>0 DEF Obsolete
<1>4. \A r \in B : Told(stored, r.kinds, r.lo..r.hi) BY <1>1, <1>2, <1>3 DEF Honest
<1>5. ASSUME NEW k \in Kinds
      PROVE  /\ coverage'[k] # None => RowOK(coverage'[k])
             /\ Told(stored, {k}, Covered(k)')
  <2>1. coverage'[k] = IF Ranges(k) = {} THEN coverage[k] ELSE MergeCoverage(ToSet(coverage[k]) \cup Ranges(k))
    BY <1>0 DEF Marked
  <2>2. CASE Ranges(k) = {}
    <3>1. coverage'[k] = coverage[k] BY <2>1, <2>2
    <3>2. Covered(k)' = Covered(k) BY <3>1 DEF Covered
    <3> QED BY <3>1, <3>2 DEF Types, DatabaseOK, Honest
  <2>3. CASE Ranges(k) # {}
    <3> DEFINE s == coverage[k]
               S == ToSet(s) \cup Ranges(k)
    <3>1. s # None /\ RowOK(s)
      <4>1. PICK r \in Of(k) : TRUE BY <2>3
      <4> QED BY <4>1, <1>3 DEF Types, DatabaseOK
    <3>2. s \in Seq(Pairs) /\ Normal(s) BY <3>1 DEF RowOK
    <3>3. /\ ToSet(s) = {s[i] : i \in 1..Len(s)} /\ Len(s) \in Nat
          /\ \A i \in 1..Len(s) : s[i] \in Pairs
      BY <3>2, LenProperties, ElementOfSeq DEF ToSet
    <3>4. ToSet(s) \in SUBSET Pairs /\ \A p \in ToSet(s) : p[1] <= p[2] BY <3>2, <3>3 DEF Normal
    <3>5. IsFiniteSet(ToSet(s))
      <4> HIDE DEF s
      <4>1. IsFiniteSet(1..Len(s)) BY <3>3, FS_Interval
      <4>2. IsFiniteSet({s[i] : i \in 1..Len(s)}) BY <4>1, ImageFinite
      <4> QED BY <3>3, <4>2
    <3>6. Ranges(k) \in SUBSET Pairs /\ \A p \in Ranges(k) : p[1] <= p[2] BY <1>2 DEF Pairs, Checkpoints
    <3>7. IsFiniteSet(Ranges(k))
      <4> DEFINE F == Of(k)
                 f == [r \in F |-> <<r.lo, r.hi>>]
      <4>1. IsFiniteSet(F) BY <1>2, FS_Subset
      <4>2. Ranges(k) = {f[r] : r \in F} OBVIOUS
      <4> HIDE DEF F, f
      <4>3. IsFiniteSet({f[r] : r \in F}) BY <4>1, ImageFinite
      <4> QED BY <4>2, <4>3
    <3>8. coverage'[k] = MergeCoverage(S) BY <2>1, <2>3
    <3>9. IsFiniteSet(S) BY <3>5, <3>7, FS_Union
    <3>10. S \in SUBSET Pairs /\ \A r \in S : r[1] <= r[2] BY <3>4, <3>6
    <3> HIDE DEF S
    <3>11. RowOK(coverage'[k]) /\ Cells(coverage'[k]) = Span(S) BY <3>8, <3>9, <3>10, MergeCovers DEF RowOK
    <3>12. coverage'[k] # None => Covered(k)' = Span(S) BY <3>11 DEF Covered
    <3>13. Covered(k)' \subseteq Span(S) BY <3>12 DEF Covered
    <3>14. ASSUME NEW t \in Span(S) PROVE Held(k, t) \subseteq stored \/ Cardinality(Held(k, t)) > PageSize
      <4>1. PICK p \in S : t \in p[1]..p[2] BY <3>14 DEF Span
      <4>2. CASE p \in ToSet(s)
        <5>1. t \in Cells(s) BY <4>1, <4>2 DEF Cells
        <5>2. t \in Covered(k) BY <3>1, <5>1 DEF Covered
        <5> QED BY <5>2 DEF Honest, Told
      <4>3. CASE p \in Ranges(k)
        <5>1. PICK r \in Of(k) : p = <<r.lo, r.hi>> BY <4>3
        <5>2. t \in r.lo..r.hi /\ k \in r.kinds BY <4>1, <5>1
        <5> QED BY <1>4, <5>2 DEF Told
      <4> QED BY <4>1, <4>2, <4>3 DEF S
    <3> QED BY <3>11, <3>13, <3>14 DEF Told
  <2> QED BY <2>2, <2>3
<1>6. Types'
  <2>1. coverage' = [k \in Kinds |-> coverage'[k]] BY <1>0 DEF Marked
  <2>2. DatabaseOK' BY <1>0, <1>5, <2>1 DEF Types, DatabaseOK
  <2>3. ScanOK' BY <1>0 DEF Types, ScanOK
  <2> QED BY <1>1, <2>2, <2>3 DEF Types
<1>7. Fences' BY <1>0, <1>1 DEF Fences
<1>8. Honest' BY <1>0, <1>1, <1>5 DEF Honest
<1> QED BY <1>1, <1>6, <1>7, <1>8

\* A rejected batch leaves the rows alone.
LEMMA BatchRejectedKeeps == ASSUME IInv, BatchRejected PROVE IInv'
<1> USE DEF IInv
<1>0. /\ faults' = faults \/ faults' = faults + 1
      /\ UNCHANGED <<generation, coverage, stored, session, stage, step, records, jobs, pending, page>>
  BY DEF BatchRejected, BatchOver, scanning
<1>1. /\ QueueOK' /\ Barriers'
      /\ \A r : InQueue(r, queued', running') => InQueue(r, queued, running)
  BY BatchOverOK DEF BatchRejected
<1>2. faults \in Nat BY DEF Types, DatabaseOK
<1>3. Types'
  <2>1. DatabaseOK' BY <1>0, <1>2 DEF Types, DatabaseOK
  <2>2. ScanOK' BY <1>0 DEF Types, ScanOK
  <2> QED BY <1>1, <2>1, <2>2 DEF Types
<1>4. \A x : Given(x, generation, faults) => Given(x, generation, faults') BY <1>0, <1>2 DEF Given
<1>5. Fences'
  <2>1. generation # None => generation <= faults' BY <1>0, <1>2 DEF Fences, Types, DatabaseOK
  <2> QED BY <1>0, <1>1, <1>4, <2>1 DEF Fences
<1>6. Honest'
  <2>1. \A k \in Kinds : Covered(k)' = Covered(k) BY <1>0 DEF Covered
  <2> QED BY <2>1, <1>0, <1>1 DEF Honest
<1> QED BY <1>1, <1>3, <1>5, <1>6

\* A run begins with the records as they are, the feed's snapshot of the
\* newest seconds and the windows of the catch-up.
LEMMA BeginKeeps == ASSUME IInv, NEW g \in Groups, Begin(g) PROVE IInv'
<1> USE DEF IInv
<1>0. /\ Creates(g) /\ records' = [records EXCEPT ![g] = generation'] /\ stage[g] = "begin"
      /\ stage' = [stage EXCEPT ![g] = "recent"] /\ step' = [step EXCEPT ![g] = "feed"]
      /\ Ask(g, Window(Since, now, KindsOf[g]))
      /\ jobs' = [jobs EXCEPT ![g] = Catchups(g)]
      /\ UNCHANGED <<stored, faults, session, pending, queued, running, barrier>>
  BY DEF Begin, ReadRecords, Creates, limits, queue
<1>1. /\ DatabaseOK' /\ generation' # None /\ generation' <= faults /\ Given(generation', generation', faults)
      /\ \A x : Given(x, generation, faults) => Given(x, generation', faults) /\ (x = generation' => x = generation)
      /\ \A k \in Kinds : Covered(k)' = Covered(k)
  BY <1>0, CreatesOK DEF Types
<1>2. generation' \in Nat BY <1>1 DEF Given
<1>3. /\ records \in [Groups -> Nat \cup {None}] /\ jobs \in [Groups -> SUBSET Windows]
      /\ stage = [h \in Groups |-> stage[h]] /\ step = [h \in Groups |-> step[h]] /\ page = [h \in Groups |-> page[h]]
  BY DEF Types, ScanOK
<1>4. Window(Since, now, KindsOf[g]) \in Windows
  <2>1. Since \in Int /\ now \in Int /\ Since <= now /\ KindsOf[g] \in SUBSET Kinds
    BY TimesOK, CoverageConstants DEF Types
  <2> QED BY <2>1 DEF Window, Windows
<1>5. /\ page' = [h \in Groups |-> page'[h]]
      /\ PageOK(page'[g]) /\ page'[g].got \ page'[g].left = {}
      /\ \A h \in Groups \ {g} : page'[h] = page[h]
  <2> HIDE DEF IInv
  <2> DEFINE w == Window(Since, now, KindsOf[g])
  <2>1. w \in Windows /\ Ask(g, w) BY <1>0, <1>4
  <2> HIDE DEF w
  <2> QED BY <1>3, <2>1, AskOK
<1>6. Catchups(g) \in SUBSET Windows BY CatchupsOK DEF Types
<1>7. /\ records' \in [Groups -> Nat \cup {None}] /\ records'[g] = generation'
      /\ jobs' \in [Groups -> SUBSET Windows]
      /\ stage' = [h \in Groups |-> stage'[h]] /\ stage'[g] = "recent"
      /\ step' = [h \in Groups |-> step'[h]] /\ step'[g] = "feed"
      /\ \A h \in Groups \ {g} : /\ records'[h] = records[h] /\ jobs'[h] = jobs[h]
                                 /\ stage'[h] = stage[h] /\ step'[h] = step[h]
  BY <1>0, <1>2, <1>3, <1>6
<1>8. Types'
  <2>1. pending' \in [Groups -> Seq(Windows)] BY <1>0 DEF Types, ScanOK
  <2>2. \A h \in Groups : page'[h] # None => PageOK(page'[h]) BY <1>5 DEF Types, ScanOK
  <2>3. ScanOK' BY <1>5, <1>7, <2>1, <2>2 DEF ScanOK
  <2>4. QueueOK' BY <1>0 DEF Types, QueueOK
  <2> QED BY <1>1, <2>3, <2>4 DEF Types
<1>9. Fences'
  <2>1. ASSUME NEW h \in Groups
        PROVE  /\ records'[h] # None => Given(records'[h], generation', faults)
               /\ page'[h] # None \/ jobs'[h] # {} => records'[h] # None
               /\ step'[h] \in {"job", "flush"} => page'[h] = None
    <3>1. CASE h = g BY <3>1, <1>1, <1>7
    <3>2. CASE h # g BY <3>2, <1>1, <1>5, <1>7 DEF Fences
    <3> QED BY <3>1, <3>2
  <2>2. generation' <= faults' BY <1>0, <1>1
  <2>3. \A r \in Checkpoints : InQueue(r, queued', running') => Given(r.generation, generation', faults')
    BY <1>0, <1>1 DEF Fences
  <2> QED BY <1>0, <2>1, <2>2, <2>3 DEF Fences
<1>10. Honest'
  <2>1. ASSUME NEW h \in Groups, page'[h] # None, records'[h] = generation'
        PROVE  page'[h].got \ page'[h].left \subseteq stored
    <3>1. CASE h = g BY <3>1, <1>5
    <3>2. CASE h # g
      <4>1. page[h] # None /\ page'[h] = page[h] /\ records[h] = generation' BY <2>1, <3>2, <1>5, <1>7
      <4>2. records[h] = generation BY <4>1, <1>1 DEF Fences
      <4> QED BY <4>1, <4>2 DEF Honest
    <3> QED BY <3>1, <3>2
  <2>2. ASSUME NEW r \in Checkpoints, InQueue(r, queued, running), r.generation = generation' PROVE r.generation = generation
    BY <1>1, <2>2 DEF Fences
  <2> QED BY <1>0, <1>1, <2>1, <2>2 DEF Honest
<1>11. Barriers'
  <2>1. step[g] = "job" BY <1>0 DEF Barriers
  <2>2. ASSUME NEW h \in Groups
        PROVE  /\ stage'[h] = "begin" => step'[h] = "job" /\ jobs'[h] = {}
               /\ step'[h] \in {"job", "feed"} => \A r \in Checkpoints : InQueue(r, queued, running) => r.group # h
               /\ step'[h] = "flush" => step[h] = "flush"
    <3>1. CASE h = g BY <3>1, <1>7, <2>1 DEF Barriers
    <3>2. CASE h # g BY <3>2, <1>7 DEF Barriers
    <3> QED BY <3>1, <3>2
  <2> QED BY <1>0, <2>2 DEF Barriers
<1> QED BY <1>8, <1>9, <1>10, <1>11

\* The scan of one more window begins.
LEMMA NextJobKeeps == ASSUME IInv, NEW g \in Groups, NextJob(g) PROVE IInv'
<1> USE DEF IInv
<1>0. /\ step[g] = "job" /\ step' = [step EXCEPT ![g] = "scan"]
      /\ UNCHANGED <<generation, coverage, stored, faults, session, stage, records, pending, queued, running, barrier>>
  BY DEF NextJob, database, limits, queue
<1>1. PICK w \in jobs[g] : jobs' = [jobs EXCEPT ![g] = @ \ {w}] /\ Ask(g, w) BY DEF NextJob
<1>2. /\ jobs \in [Groups -> SUBSET Windows] /\ step = [h \in Groups |-> step[h]] /\ page = [h \in Groups |-> page[h]]
  BY DEF Types, ScanOK
<1>3. /\ page' = [h \in Groups |-> page'[h]]
      /\ PageOK(page'[g]) /\ page'[g].got \ page'[g].left = {}
      /\ \A h \in Groups \ {g} : page'[h] = page[h]
  BY <1>1, <1>2, AskOK
<1>4. /\ jobs' \in [Groups -> SUBSET Windows] /\ \A h \in Groups : jobs'[h] \subseteq jobs[h]
      /\ step' = [h \in Groups |-> step'[h]] /\ step'[g] = "scan" /\ \A h \in Groups \ {g} : step'[h] = step[h]
  BY <1>0, <1>1, <1>2
<1>5. Types'
  <2>1. DatabaseOK' BY <1>0 DEF Types, DatabaseOK
  <2>2. \A h \in Groups : page'[h] # None => PageOK(page'[h]) BY <1>3 DEF Types, ScanOK
  <2>3. ScanOK' BY <1>0, <1>3, <1>4, <2>2 DEF Types, ScanOK
  <2>4. QueueOK' BY <1>0 DEF Types, QueueOK
  <2> QED BY <2>1, <2>3, <2>4 DEF Types
<1>6. Fences'
  <2>1. records[g] # None BY <1>1 DEF Fences
  <2>2. ASSUME NEW h \in Groups
        PROVE  /\ page'[h] # None \/ jobs'[h] # {} => records'[h] # None
               /\ step'[h] \in {"job", "flush"} => page'[h] = None
    <3>1. CASE h = g BY <3>1, <2>1, <1>0, <1>4
    <3>2. CASE h # g BY <3>2, <1>0, <1>3, <1>4 DEF Fences
    <3> QED BY <3>1, <3>2
  <2> QED BY <1>0, <2>2 DEF Fences
<1>7. Honest'
  <2>1. \A k \in Kinds : Covered(k)' = Covered(k) BY <1>0 DEF Covered
  <2>2. ASSUME NEW h \in Groups, page'[h] # None, records'[h] = generation' PROVE page'[h].got \ page'[h].left \subseteq stored'
    <3>1. CASE h = g BY <3>1, <1>3
    <3>2. CASE h # g BY <3>2, <2>2, <1>0, <1>3 DEF Honest
    <3> QED BY <3>1, <3>2
  <2> QED BY <1>0, <2>1, <2>2 DEF Honest
<1>8. Barriers'
  <2>1. stage[g] # "begin" BY <1>1 DEF Barriers
  <2>2. ASSUME NEW h \in Groups
        PROVE  /\ stage'[h] = "begin" => step'[h] = "job" /\ jobs'[h] = {}
               /\ step'[h] \in {"job", "feed"} => step[h] \in {"job", "feed"}
               /\ step'[h] = "flush" => step[h] = "flush"
    <3>1. CASE h = g BY <3>1, <2>1, <1>0, <1>4
    <3>2. CASE h # g BY <3>2, <1>0, <1>4 DEF Barriers
    <3> QED BY <3>1, <3>2
  <2> QED BY <1>0, <2>2 DEF Barriers
<1> QED BY <1>5, <1>6, <1>7, <1>8

\* The backfill begins with the records as they are now.
LEMMA BackfillKeeps == ASSUME IInv, NEW g \in Groups, Backfill(g) PROVE IInv'
<1> USE DEF IInv
<1>0. /\ Creates(g) /\ records' = [records EXCEPT ![g] = generation']
      /\ stage' = [stage EXCEPT ![g] = "backfill"] /\ jobs' = [jobs EXCEPT ![g] = Backlog(g)] /\ step[g] = "job"
      /\ UNCHANGED <<stored, faults, session, step, pending, page, queued, running, barrier>>
  BY DEF Backfill, ReadRecords, Creates, limits, queue
<1>1. /\ DatabaseOK' /\ generation' # None /\ generation' <= faults /\ Given(generation', generation', faults)
      /\ \A x : Given(x, generation, faults) => Given(x, generation', faults) /\ (x = generation' => x = generation)
      /\ \A k \in Kinds : Covered(k)' = Covered(k)
  BY <1>0, CreatesOK DEF Types
<1>2. generation' \in Nat BY <1>1 DEF Given
<1>3. /\ records \in [Groups -> Nat \cup {None}] /\ jobs \in [Groups -> SUBSET Windows]
      /\ stage = [h \in Groups |-> stage[h]]
  BY DEF Types, ScanOK
<1>4. Backlog(g) \in SUBSET Windows BY BacklogOK DEF Types
<1>5. /\ records' \in [Groups -> Nat \cup {None}] /\ records'[g] = generation'
      /\ jobs' \in [Groups -> SUBSET Windows]
      /\ stage' = [h \in Groups |-> stage'[h]] /\ stage'[g] = "backfill"
      /\ \A h \in Groups \ {g} : records'[h] = records[h] /\ jobs'[h] = jobs[h] /\ stage'[h] = stage[h]
  BY <1>0, <1>2, <1>3, <1>4
<1>6. Types'
  <2>1. ScanOK' BY <1>0, <1>5 DEF Types, ScanOK
  <2>2. QueueOK' BY <1>0 DEF Types, QueueOK
  <2> QED BY <1>1, <2>1, <2>2 DEF Types
<1>7. page[g] = None BY <1>0 DEF Fences
<1>8. Fences'
  <2>1. ASSUME NEW h \in Groups
        PROVE  /\ records'[h] # None => Given(records'[h], generation', faults)
               /\ page'[h] # None \/ jobs'[h] # {} => records'[h] # None
    <3>1. CASE h = g BY <3>1, <1>1, <1>5
    <3>2. CASE h # g BY <3>2, <1>0, <1>1, <1>5 DEF Fences
    <3> QED BY <3>1, <3>2
  <2>2. generation' <= faults' BY <1>0, <1>1
  <2>3. \A r \in Checkpoints : InQueue(r, queued', running') => Given(r.generation, generation', faults')
    BY <1>0, <1>1 DEF Fences
  <2>4. \A h \in Groups : step'[h] \in {"job", "flush"} => page'[h] = None BY <1>0 DEF Fences
  <2> QED BY <1>0, <2>1, <2>2, <2>3, <2>4 DEF Fences
<1>9. Honest'
  <2>1. ASSUME NEW h \in Groups, page'[h] # None, records'[h] = generation'
        PROVE  page'[h].got \ page'[h].left \subseteq stored
    <3>1. h # g /\ page[h] # None /\ page'[h] = page[h] /\ records[h] = generation' BY <2>1, <1>0, <1>5, <1>7
    <3>2. records[h] = generation BY <3>1, <1>1 DEF Fences
    <3> QED BY <3>1, <3>2 DEF Honest
  <2>2. ASSUME NEW r \in Checkpoints, InQueue(r, queued, running), r.generation = generation' PROVE r.generation = generation
    BY <1>1, <2>2 DEF Fences
  <2> QED BY <1>0, <1>1, <2>1, <2>2 DEF Honest
<1>10. Barriers'
  <2>1. ASSUME NEW h \in Groups PROVE stage'[h] = "begin" => step'[h] = "job" /\ jobs'[h] = {}
    <3>1. CASE h = g BY <3>1, <1>5
    <3>2. CASE h # g BY <3>2, <1>0, <1>5 DEF Barriers
    <3> QED BY <3>1, <3>2
  <2> QED BY <1>0, <2>1 DEF Barriers
<1> QED BY <1>6, <1>8, <1>9, <1>10

\* A page fails: the feed's run begins again, a scan flushes what it has.
LEMMA PageFailsKeeps == ASSUME IInv, NEW g \in Groups, PageFails(g) PROVE IInv'
<1> USE DEF IInv
<1>0. /\ page[g] # None /\ faults' = faults + 1
      /\ page' = [page EXCEPT ![g] = None] /\ pending' = [pending EXCEPT ![g] = <<>>]
      /\ UNCHANGED <<generation, coverage, stored, session>>
  BY DEF PageFails, database
<1>1. /\ records \in [Groups -> Nat \cup {None}] /\ jobs \in [Groups -> SUBSET Windows]
      /\ pending \in [Groups -> Seq(Windows)] /\ page = [h \in Groups |-> page[h]]
      /\ stage = [h \in Groups |-> stage[h]] /\ step = [h \in Groups |-> step[h]]
      /\ faults \in Nat /\ QueueOK /\ Batch(queued)
  BY DEF Types, ScanOK, DatabaseOK, QueueOK
<1>2. /\ page' = [h \in Groups |-> page'[h]] /\ page'[g] = None /\ \A h \in Groups \ {g} : page'[h] = page[h]
      /\ pending' \in [Groups -> Seq(Windows)]
  BY <1>0, <1>1, EmptySeq
<1>3. DatabaseOK' BY <1>0, <1>1 DEF Types, DatabaseOK
<1>4. \A x : Given(x, generation, faults) => Given(x, generation, faults') BY <1>0, <1>1 DEF Given
<1>5. generation' # None => generation' <= faults' BY <1>0, <1>1 DEF Fences, Types, DatabaseOK
<1>6. \A k \in Kinds : Covered(k)' = Covered(k) BY <1>0 DEF Covered
<1>7. stage[g] # "begin" BY <1>0 DEF Barriers, Fences
<1>8. CASE /\ step[g] = "feed"
           /\ stage' = [stage EXCEPT ![g] = "begin"] /\ step' = [step EXCEPT ![g] = "job"]
           /\ records' = [records EXCEPT ![g] = None] /\ jobs' = [jobs EXCEPT ![g] = {}]
           /\ UNCHANGED <<failed, queue>>
  <2>1. UNCHANGED <<queued, running, barrier>> BY <1>8 DEF queue
  <2>2. /\ stage' = [h \in Groups |-> stage'[h]] /\ step' = [h \in Groups |-> step'[h]] /\ step'[g] = "job"
        /\ records' \in [Groups -> Nat \cup {None}] /\ records'[g] = None
        /\ jobs' \in [Groups -> SUBSET Windows] /\ jobs'[g] = {}
        /\ \A h \in Groups \ {g} : /\ stage'[h] = stage[h] /\ step'[h] = step[h]
                                   /\ records'[h] = records[h] /\ jobs'[h] = jobs[h]
    BY <1>1, <1>8
  <2>3. Types'
    <3>1. \A h \in Groups : page'[h] # None => PageOK(page'[h]) BY <1>2 DEF Types, ScanOK
    <3>2. ScanOK' BY <1>2, <2>2, <3>1 DEF ScanOK
    <3>3. QueueOK' BY <1>1, <2>1 DEF QueueOK
    <3> QED BY <1>3, <3>2, <3>3 DEF Types
  <2>4. Fences'
    <3>1. ASSUME NEW h \in Groups
          PROVE  /\ records'[h] # None => Given(records'[h], generation', faults')
                 /\ page'[h] # None \/ jobs'[h] # {} => records'[h] # None
                 /\ step'[h] \in {"job", "flush"} => page'[h] = None
      <4>1. CASE h = g BY <4>1, <1>2, <2>2
      <4>2. CASE h # g BY <4>2, <1>0, <1>2, <1>4, <2>2 DEF Fences
      <4> QED BY <4>1, <4>2
    <3> QED BY <1>0, <1>4, <1>5, <2>1, <3>1 DEF Fences
  <2>5. Honest'
    <3>1. \A h \in Groups : page'[h] # None => page'[h] = page[h] /\ records'[h] = records[h] BY <1>2, <2>2
    <3> QED BY <1>0, <1>6, <2>1, <3>1 DEF Honest
  <2>6. Barriers'
    <3>1. ASSUME NEW h \in Groups
          PROVE  /\ stage'[h] = "begin" => step'[h] = "job" /\ jobs'[h] = {}
                 /\ step'[h] \in {"job", "feed"} => step[h] \in {"job", "feed"}
                 /\ step'[h] = "flush" => step[h] = "flush"
      <4>1. CASE h = g BY <4>1, <1>8, <2>2
      <4>2. CASE h # g BY <4>2, <2>2 DEF Barriers
      <4> QED BY <4>1, <4>2
    <3> QED BY <2>1, <3>1 DEF Barriers
  <2> QED BY <2>3, <2>4, <2>5, <2>6
<1>9. CASE /\ step' = [step EXCEPT ![g] = "flush"] /\ Waits(g, queued)
           /\ UNCHANGED <<stage, records, jobs>>
  <2>1. /\ QueueOK'
        /\ queued' = {} /\ barrier'[g] = Len(running')
        /\ \A h \in Groups \ {g} : barrier'[h] = barrier[h]
        /\ \A n \in 1..Len(running') : running'[n] = IF n <= Len(running) THEN running[n] ELSE queued
        /\ \A r : InQueue(r, queued', running') <=> r \in queued \/ \E n \in 1..Len(running) : r \in running[n]
    BY <1>1, <1>9, WaitsOK
  <2>2. \A r : InQueue(r, queued', running') <=> InQueue(r, queued, running) BY <2>1 DEF InQueue
  <2>3. step' = [h \in Groups |-> step'[h]] /\ step'[g] = "flush" /\ \A h \in Groups \ {g} : step'[h] = step[h]
    BY <1>1, <1>9
  <2>4. Types'
    <3>1. \A h \in Groups : page'[h] # None => PageOK(page'[h]) BY <1>2 DEF Types, ScanOK
    <3>2. ScanOK' BY <1>1, <1>2, <1>9, <2>3, <3>1 DEF ScanOK
    <3> QED BY <1>3, <2>1, <3>2 DEF Types
  <2>5. Fences'
    <3>1. ASSUME NEW h \in Groups
          PROVE  /\ page'[h] # None => page[h] # None
                 /\ step'[h] \in {"job", "flush"} => page'[h] = None
      <4>1. CASE h = g BY <4>1, <1>2
      <4>2. CASE h # g BY <4>2, <1>2, <2>3 DEF Fences
      <4> QED BY <4>1, <4>2
    <3> QED BY <1>0, <1>4, <1>5, <1>9, <2>2, <3>1 DEF Fences
  <2>6. Honest'
    <3>1. \A h \in Groups : page'[h] # None => page'[h] = page[h] BY <1>2
    <3> QED BY <1>0, <1>6, <1>9, <2>2, <3>1 DEF Honest
  <2>7. Barriers'
    <3>0. Len(running) \in Nat /\ Len(running') \in Nat BY <1>1, <2>1, LenProperties DEF QueueOK
    <3>1. \A n \in 1..Len(running') : n <= Len(running) => n \in 1..Len(running) BY <3>0
    <3>2. ASSUME NEW h \in Groups, step'[h] = "flush", NEW n \in 1..Len(running'), NEW r \in running'[n], r.group = h
          PROVE  n <= barrier'[h]
      <4>1. CASE h = g BY <4>1, <2>1, <3>0
      <4>2. CASE h # g
        <5>1. n <= Len(running) BY <2>1, <2>3, <3>2, <4>2 DEF Barriers
        <5> QED BY <2>1, <2>3, <3>1, <3>2, <4>2, <5>1 DEF Barriers
      <4> QED BY <4>1, <4>2
    <3>3. ASSUME NEW h \in Groups
          PROVE  /\ stage'[h] = "begin" => step'[h] = "job" /\ jobs'[h] = {}
                 /\ step'[h] \in {"job", "feed"} => step[h] \in {"job", "feed"}
      <4>1. CASE h = g BY <4>1, <1>7, <1>9, <2>3
      <4>2. CASE h # g BY <4>2, <1>9, <2>3 DEF Barriers
      <4> QED BY <4>1, <4>2
    <3> QED BY <2>1, <2>2, <3>2, <3>3 DEF Barriers
  <2> QED BY <2>4, <2>5, <2>6, <2>7
<1> QED BY <1>8, <1>9 DEF PageFails

\* A page is read: a complete one becomes a checkpoint of what is stored.
LEMMA PageReadKeeps == ASSUME IInv, NEW g \in Groups, PageRead(g) PROVE IInv'
<1> USE DEF IInv
<1>0. /\ page[g] # None /\ page[g].left = {}
      /\ UNCHANGED <<generation, coverage, stored, faults, session, stage, records, jobs>>
  BY DEF PageRead, database, limits
<1>1. /\ records \in [Groups -> Nat \cup {None}] /\ pending \in [Groups -> Seq(Windows)] /\ pending[g] \in Seq(Windows)
      /\ QueueOK /\ Batch(queued) /\ PageOK(page[g])
  BY <1>0 DEF Types, ScanOK, QueueOK
<1> DEFINE R == Request(g, page[g].window)
<1>2. /\ R \in Checkpoints /\ R.group = g /\ R.generation = records[g] /\ R.kinds = page[g].window.kinds
      /\ R.lo = page[g].window.lo /\ R.hi = page[g].window.hi
      /\ Given(R.generation, generation, faults)
  <2> DEFINE w == page[g].window
  <2>1. w.kinds \in SUBSET Kinds /\ w.lo \in Int /\ w.hi \in Int /\ w.lo <= w.hi BY <1>1 DEF PageOK, Windows
  <2>2. records[g] # None /\ Given(records[g], generation, faults) BY <1>0 DEF Fences
  <2>3. records[g] \in Nat BY <2>2 DEF Given
  <2> HIDE DEF w
  <2>4. /\ Request(g, w) \in [group : Groups, generation : Nat, kinds : SUBSET Kinds, lo : Int, hi : Int]
        /\ Request(g, w).group = g /\ Request(g, w).generation = records[g] /\ Request(g, w).kinds = w.kinds
        /\ Request(g, w).lo = w.lo /\ Request(g, w).hi = w.hi
    BY <2>1, <2>3 DEF Request
  <2> QED BY <2>1, <2>2, <2>4 DEF Checkpoints, w
<1> HIDE DEF R
<1> DEFINE May(stack, requests) ==
             /\ GoOn(g, stack, requests)
             /\ requests = queued \/ (requests = queued \cup {R} /\ Complete(page[g]))
<1>3. PICK stack \in Seq(Windows) : \E requests : May(stack, requests)
  <2>1. CASE Complete(page[g]) /\ GoOn(g, pending[g], queued \cup {R})
    BY <1>1, <2>1
  <2>2. CASE ~Complete(page[g]) /\ \E halves \in Halves(page[g]) : GoOn(g, pending[g] \o halves, queued)
    <3>1. PICK halves \in Halves(page[g]) : GoOn(g, pending[g] \o halves, queued) BY <2>2
    <3>2. halves \in Seq(Windows) BY <1>1, <2>2, HalvesOK
    <3>3. pending[g] \o halves \in Seq(Windows) BY <1>1, <3>2, ConcatProperties
    <3> QED BY <3>1, <3>3
  <2> QED BY <2>1, <2>2 DEF PageRead, R
<1>31. PICK requests : May(stack, requests) BY <1>3
<1>4. Batch(requests) /\ queued \subseteq requests
  <2>1. IsFiniteSet({R}) BY FS_Singleton
  <2>2. IsFiniteSet(queued \cup {R}) BY <1>1, <2>1, FS_Union DEF Batch
  <2> QED BY <1>1, <1>2, <1>31, <2>2 DEF Batch
<1>5. /\ QueueOK'
      /\ pending' \in [Groups -> Seq(Windows)]
      /\ page' = [h \in Groups |-> page'[h]] /\ \A h \in Groups \ {g} : page'[h] = page[h]
      /\ page'[g] # None => PageOK(page'[g]) /\ page'[g].got \ page'[g].left = {}
      /\ step' = [h \in Groups |-> step'[h]] /\ \A h \in Groups \ {g} : step'[h] = step[h]
      /\ step'[g] \in {"scan", "flush"}
      /\ step'[g] = "flush" => queued' = {} /\ barrier'[g] = Len(running') /\ page'[g] = None
      /\ \A h \in Groups \ {g} : barrier'[h] = barrier[h]
      /\ queued' \subseteq requests
      /\ \A n \in 1..Len(running') : running'[n] = IF n <= Len(running) THEN running[n] ELSE requests
      /\ \A r : InQueue(r, queued', running') <=> r \in requests \/ \E n \in 1..Len(running) : r \in running[n]
  BY <1>31, <1>4, GoOnOK
<1>6. \A r : InQueue(r, queued', running') => InQueue(r, queued, running) \/ (r = R /\ Complete(page[g]))
  BY <1>31, <1>5 DEF InQueue
<1>7. Types'
  <2>1. DatabaseOK' BY <1>0 DEF Types, DatabaseOK
  <2>2. \A h \in Groups : page'[h] # None => PageOK(page'[h]) BY <1>5 DEF Types, ScanOK
  <2>3. ScanOK' BY <1>0, <1>5, <2>2 DEF Types, ScanOK
  <2> QED BY <1>5, <2>1, <2>3 DEF Types
<1>8. Fences'
  <2>1. ASSUME NEW h \in Groups
        PROVE  /\ page'[h] # None \/ jobs'[h] # {} => records'[h] # None
               /\ step'[h] \in {"job", "flush"} => page'[h] = None
    <3>1. CASE h = g BY <3>1, <1>0, <1>5 DEF Fences
    <3>2. CASE h # g BY <3>2, <1>0, <1>5 DEF Fences
    <3> QED BY <3>1, <3>2
  <2>2. \A r \in Checkpoints : InQueue(r, queued', running') => Given(r.generation, generation, faults)
    BY <1>2, <1>6 DEF Fences
  <2> QED BY <1>0, <2>1, <2>2 DEF Fences
<1>9. Honest'
  <2>1. \A k \in Kinds : Covered(k)' = Covered(k) BY <1>0 DEF Covered
  <2>2. ASSUME NEW h \in Groups, page'[h] # None, records[h] = generation PROVE page'[h].got \ page'[h].left \subseteq stored
    <3>1. CASE h = g BY <3>1, <2>2, <1>5
    <3>2. CASE h # g BY <3>2, <2>2, <1>5 DEF Honest
    <3> QED BY <3>1, <3>2
  <2>3. ASSUME NEW r \in Checkpoints, InQueue(r, queued', running'), r.generation = generation
        PROVE  Told(stored, r.kinds, r.lo..r.hi)
    <3>1. CASE InQueue(r, queued, running) BY <3>1, <2>3 DEF Honest
    <3>2. CASE r = R /\ Complete(page[g])
      <4>1. page[g].got \subseteq stored BY <3>2, <2>3, <1>0, <1>2 DEF Honest
      <4>2. Told(stored, page[g].window.kinds, page[g].window.lo..page[g].window.hi) BY <3>2, <4>1, <1>1, CompleteTold
      <4> QED BY <3>2, <4>2, <1>2
    <3> QED BY <3>1, <3>2, <2>3, <1>6
  <2> QED BY <1>0, <2>1, <2>2, <2>3 DEF Honest
<1>10. Barriers'
  <2>0. Len(running) \in Nat /\ Len(running') \in Nat BY <1>1, <1>5, LenProperties DEF QueueOK
  <2>1. stage[g] # "begin" BY <1>0 DEF Barriers, Fences
  <2>2. \A r \in requests : r \in queued \/ r.group = g BY <1>2, <1>31
  <2>3. ASSUME NEW h \in Groups \ {g}
        PROVE  /\ stage'[h] = "begin" => step'[h] = "job" /\ jobs'[h] = {}
               /\ step'[h] \in {"job", "feed"} => \A r \in Checkpoints : InQueue(r, queued', running') => r.group # h
               /\ step'[h] = "flush" =>
                    /\ \A r \in queued' : r.group # h
                    /\ \A n \in 1..Len(running') : \A r \in running'[n] : r.group = h => n <= barrier'[h]
    <3>1. step'[h] = step[h] /\ barrier'[h] = barrier[h] /\ stage'[h] = stage[h] /\ jobs'[h] = jobs[h] BY <1>0, <1>5
    <3>2. step[h] \in {"job", "feed"} => \A r \in Checkpoints : InQueue(r, queued', running') => r.group # h
      BY <1>2, <1>6 DEF Barriers
    <3>3. ASSUME step[h] = "flush", NEW n \in 1..Len(running'), NEW r \in running'[n], r.group = h PROVE n <= barrier[h]
      <4>1. n <= Len(running) BY <1>5, <2>2, <3>3 DEF Barriers
      <4>2. n \in 1..Len(running) BY <2>0, <4>1
      <4> QED BY <1>5, <3>3, <4>1, <4>2 DEF Barriers
    <3>4. step[h] = "flush" => \A r \in queued' : r.group # h BY <1>5, <2>2 DEF Barriers
    <3>5. stage[h] = "begin" => step[h] = "job" /\ jobs[h] = {} BY DEF Barriers
    <3> QED BY <3>1, <3>2, <3>3, <3>4, <3>5
  <2>4. /\ stage'[g] # "begin" /\ step'[g] \notin {"job", "feed"}
        /\ step'[g] = "flush" => queued' = {} /\ \A n \in 1..Len(running') : n <= barrier'[g]
    BY <1>0, <1>5, <2>0, <2>1
  <2> QED BY <2>3, <2>4 DEF Barriers
<1> QED BY <1>7, <1>8, <1>9, <1>10

\* The database is new and the first session begins.
LEMMA InitHolds == Init => IInv
<1> SUFFICES ASSUME Init PROVE IInv OBVIOUS
<1>0. /\ generation = None /\ coverage = [k \in Kinds |-> None] /\ stored = {} /\ session = 1 /\ faults \in Nat
      /\ records = [g \in Groups |-> None] /\ jobs = [g \in Groups |-> {}]
      /\ pending = [g \in Groups |-> <<>>] /\ page = [g \in Groups |-> None]
      /\ stage = [g \in Groups |-> "begin"] /\ step = [g \in Groups |-> "job"]
      /\ queued = {} /\ running = <<>> /\ barrier = [g \in Groups |-> 0]
  BY DEF Init
<1>1. Types
  <2>1. session \in DOMAIN Clock
    <3>1. Clock \in Seq(Nat) /\ Clock # <<>> BY CoverageConstants
    <3>2. Len(Clock) \in Nat /\ Len(Clock) >= 1 BY <3>1, EmptySeq, LenProperties
    <3> QED BY <1>0, <3>1, <3>2
  <2>2. DatabaseOK BY <1>0, <2>1 DEF DatabaseOK
  <2>3. ScanOK BY <1>0, EmptySeq DEF ScanOK
  <2>4. Batch({}) BY FS_EmptySet DEF Batch
  <2>5. QueueOK BY <1>0, <2>4, EmptySeq DEF QueueOK
  <2> QED BY <2>2, <2>3, <2>5 DEF Types
<1>2. \A r : ~InQueue(r, queued, running) BY <1>0 DEF InQueue
<1>3. Fences BY <1>0, <1>2 DEF Fences
<1>4. Honest BY <1>0, <1>2 DEF Honest, Covered, Told
<1>5. Barriers BY <1>0, <1>2 DEF Barriers
<1> QED BY <1>1, <1>3, <1>4, <1>5 DEF IInv

\* Every step of the specification keeps the invariant.
LEMMA NextKeeps == IInv /\ [Next]_vars => IInv'
<1> SUFFICES ASSUME IInv, [Next]_vars PROVE IInv' OBVIOUS
<1>1. CASE Work
  BY <1>1, BeginKeeps, NextJobKeeps, BackfillKeeps, PersistKeeps, PageReadKeeps, FlushAgainKeeps, FlushEndsKeeps,
     TimerFiresKeeps, BatchCommitsKeeps, BatchRejectedKeeps DEF Work
<1>2. CASE \E g \in Groups : PageFails(g) \/ OtherTabReads(g) BY <1>2, PageFailsKeeps, OtherTabReadsKeeps
<1>3. CASE Reset \/ Restart BY <1>3, ResetKeeps, RestartKeeps
<1>4. CASE UNCHANGED vars
  <2>1. UNCHANGED <<generation, coverage, stored, faults, session, stage, step, records, jobs, pending, page, queued,
                    running, barrier>>
    BY <1>4 DEF vars, database, limits, scanning, queue
  <2>2. \A k \in Kinds : Covered(k)' = Covered(k) BY <2>1 DEF Covered
  <2>3. Types' BY <2>1 DEF IInv, Types, DatabaseOK, ScanOK, QueueOK
  <2>4. Fences' BY <2>1 DEF IInv, Fences
  <2>5. Honest' BY <2>1, <2>2 DEF IInv, Honest
  <2>6. Barriers' BY <2>1 DEF IInv, Barriers
  <2> QED BY <2>3, <2>4, <2>5, <2>6 DEF IInv
<1> QED BY <1>1, <1>2, <1>3, <1>4 DEF Next

-----------------------------------------------------------------------------
\* The theorems.

\* Rows stay normal, generations are never given out twice, and checkpoints are
\* where a flush awaits them, in every session whatever failed before.
THEOREM CoverageInOrder == Spec => []IInv
<1> QED BY InitHolds, NextKeeps, PTL DEF Spec

\* Coverage never speaks of what the database does not hold: every event the
\* relay has for a covered second and kind is stored, whatever crashed, failed
\* or was erased meanwhile - unless one second has more than a page of them.
THEOREM CoverageAlwaysHonest == Spec => []CoverageHonest
<1>1. IInv => CoverageHonest BY DEF IInv, Honest, Told, CoverageHonest
<1> QED BY <1>1, CoverageInOrder, PTL

\* Between its scans a group has no request in the queue or in a batch, whoever
\* took it: the end of a scan awaits its checkpoints.
THEOREM ScanAlwaysAwaits == Spec => []ScanAwaitsQueue
<1>1. ASSUME IInv, NEW g \in Groups, step[g] = "job" PROVE Requests(g) = {}
  <2>1. queued \in SUBSET Checkpoints /\ \A n \in 1..Len(running) : running[n] \in SUBSET Checkpoints
    BY <1>1 DEF IInv, Types, QueueOK, Batch
  <2>2. ToSet(running) = {running[n] : n \in 1..Len(running)} BY <1>1 DEF ToSet, IInv, Types, QueueOK
  <2>3. \A r \in queued \cup UNION ToSet(running) : r \in Checkpoints /\ InQueue(r, queued, running)
    BY <2>1, <2>2 DEF InQueue
  <2>4. \A r \in Checkpoints : InQueue(r, queued, running) => r.group # g BY <1>1 DEF IInv, Barriers
  <2> QED BY <2>3, <2>4 DEF Requests
<1>2. IInv => ScanAwaitsQueue BY <1>1 DEF ScanAwaitsQueue
<1> QED BY <1>2, CoverageInOrder, PTL

\* What a backfill asks the relay for is exactly what the rows it has read do
\* not cover of the past, kind by kind: no second is left out and none asked for
\* that a row covers.
THEOREM BacklogIsExact ==
  Spec => [][\A g \in Groups : Backfill(g) =>
               \A k \in KindsOf[g] :
                 UNION {w.lo..w.hi : w \in {x \in jobs'[g] : k \in x.kinds}} = (0..(Since - 1)) \ Covered(k)']_vars
<1> DEFINE Exact(g) == \A k \in KindsOf[g] :
              UNION {w.lo..w.hi : w \in {x \in jobs'[g] : k \in x.kinds}} = (0..(Since - 1)) \ Covered(k)'
<1>1. ASSUME IInv, NEW g \in Groups, Backfill(g) PROVE Exact(g)
  <2>0. KindsOf[g] \subseteq Kinds BY CoverageConstants
  <2>1. DatabaseOK /\ Fences /\ jobs \in [Groups -> SUBSET Windows] BY <1>1 DEF IInv, Types, ScanOK
  <2>2. Creates(g) /\ jobs' = [jobs EXCEPT ![g] = Backlog(g)] BY <1>1 DEF Backfill, ReadRecords, Creates, limits
  <2>3. jobs'[g] = Backlog(g) BY <2>1, <2>2
  <2>4. \A k \in Kinds : Covered(k)' = Covered(k) BY <2>1, <2>2, CreatesOK
  <2>5. \A k \in KindsOf[g] :
          UNION {w.lo..w.hi : w \in {x \in Backlog(g) : k \in x.kinds}} = (0..(Since - 1)) \ Covered(k)
    BY <2>1, BacklogOK
  <2> QED BY <2>0, <2>3, <2>4, <2>5
<1>2. IInv /\ [Next]_vars => [\A g \in Groups : Backfill(g) => Exact(g)]_vars BY <1>1
<1> QED BY <1>2, CoverageInOrder, PTL DEF Spec
=============================================================================
