------------------------- MODULE FileDownloadProofs -------------------------
(***************************************************************************)
(* The download's books, for every plan and any number of relays: what is  *)
(* counted once, what is given up only when every relay has answered, why  *)
(* the download never stalls, and what it has when it ends.                *)
(***************************************************************************)
EXTENDS FileDownload, DataLemmas, TLAPS

-----------------------------------------------------------------------------
\* What the values are.

BatchSet ==
  [range : Int, relay : RelaySet, indexes : SUBSET Int, any : BOOLEAN, got : SUBSET Int, half : BOOLEAN]
Flights == UNION {[S -> Nat] : S \in SUBSET Int}
RangeSet ==
  [start : Int, end : Int, max : Int, loading : BOOLEAN, covered : SUBSET Int, missing : SUBSET Int, any : SUBSET Int,
   tried : [RelaySet -> [BOOLEAN -> SUBSET Int]], told : SUBSET Int, flying : Flights]
Partitions == UNION {[K -> RangeSet] : K \in SUBSET Int}
Queues == [RelaySet -> Seq(BatchSet)]
Downs ==
  [running : BOOLEAN, total : Nat, next : Int, begun : BOOLEAN, count : Int, told : SUBSET Int, ranges : Partitions,
   queue : Queues, active : SUBSET BatchSet, cancelled : BOOLEAN]

\* A partition is a function on integers.
LEMMA PartitionOK ==
  ASSUME NEW f
  PROVE  f \in Partitions <=> /\ f = [k \in DOMAIN f |-> f[k]] /\ DOMAIN f \subseteq Int
                              /\ \A k \in DOMAIN f : f[k] \in RangeSet
<1>1. ASSUME f \in Partitions
      PROVE  f = [k \in DOMAIN f |-> f[k]] /\ DOMAIN f \subseteq Int /\ \A k \in DOMAIN f : f[k] \in RangeSet
  <2>1. PICK K \in SUBSET Int : f \in [K -> RangeSet] BY <1>1 DEF Partitions
  <2> QED BY <2>1
<1>2. ASSUME f = [k \in DOMAIN f |-> f[k]], DOMAIN f \subseteq Int, \A k \in DOMAIN f : f[k] \in RangeSet
      PROVE  f \in Partitions
  <2> DEFINE K == DOMAIN f
  <2>1. K \in SUBSET Int /\ f = [k \in K |-> f[k]] /\ \A k \in K : f[k] \in RangeSet BY <1>2
  <2> HIDE DEF K
  <2>2. f \in [K -> RangeSet] BY <2>1
  <2> QED BY <2>1, <2>2 DEF Partitions
<1> QED BY <1>1, <1>2

\* So are the counters of chunks in flight.
LEMMA FlightsOK ==
  ASSUME NEW f
  PROVE  f \in Flights <=> /\ f = [i \in DOMAIN f |-> f[i]] /\ DOMAIN f \subseteq Int
                           /\ \A i \in DOMAIN f : f[i] \in Nat
<1>1. ASSUME f \in Flights
      PROVE  f = [k \in DOMAIN f |-> f[k]] /\ DOMAIN f \subseteq Int /\ \A k \in DOMAIN f : f[k] \in Nat
  <2>1. PICK K \in SUBSET Int : f \in [K -> Nat] BY <1>1 DEF Flights
  <2> QED BY <2>1
<1>2. ASSUME f = [k \in DOMAIN f |-> f[k]], DOMAIN f \subseteq Int, \A k \in DOMAIN f : f[k] \in Nat
      PROVE  f \in Flights
  <2> DEFINE K == DOMAIN f
  <2>1. K \in SUBSET Int /\ f = [k \in K |-> f[k]] /\ \A k \in K : f[k] \in Nat BY <1>2
  <2> HIDE DEF K
  <2>2. f \in [K -> Nat] BY <2>1
  <2> QED BY <2>1, <2>2 DEF Flights
<1> QED BY <1>1, <1>2

\* The smaller of two numbers.
LEMMA MinOfTwo == ASSUME NEW x \in Nat, NEW y \in Nat PROVE Min({x, y}) = IF x <= y THEN x ELSE y
<1> DEFINE T == {x, y}
<1>1. T # {} /\ T \subseteq Nat /\ x \in T /\ y \in T /\ \A z \in T : z = x \/ z = y OBVIOUS
<1> HIDE DEF T
<1>2. Min(T) \in T /\ \A z \in T : Min(T) <= z BY <1>1, MinOf
<1> DEFINE m == Min(T)
<1>4. (m = x \/ m = y) /\ m <= x /\ m <= y BY <1>1, <1>2
<1> HIDE DEF m
<1>5. m = IF x <= y THEN x ELSE y BY <1>4
<1>3. Min(T) = IF x <= y THEN x ELSE y BY <1>5 DEF m
<1> QED BY <1>3 DEF T

\* Relays, and their places in the order.
LEMMA RelaysOK ==
  /\ Relays \in Seq(RelaySet) /\ Len(Relays) \in Nat \ {0}
  /\ \A r \in RelaySet : Place(r) \in 1..Len(Relays)
  /\ \A n \in 1..Len(Relays) : Relays[n] \in RelaySet
  /\ \A r \in RelaySet : \E n \in 1..Len(Relays) : Relays[n] = r
  /\ RelaySet # {}
<1>1. Relays \in Seq(RelaySet) /\ Relays # <<>> BY DownloadConstants DEF RelaySet
<1>2. Len(Relays) \in Nat \ {0} /\ DOMAIN Relays = 1..Len(Relays) BY <1>1, LenProperties, EmptySeq
<1>3. RelaySet = {Relays[n] : n \in 1..Len(Relays)} BY <1>2 DEF RelaySet, Range
<1>4. \A r \in RelaySet : Place(r) \in 1..Len(Relays) BY <1>2, <1>3 DEF Place
<1>5. 1 \in 1..Len(Relays) BY <1>2
<1> QED BY <1>1, <1>2, <1>3, <1>4, <1>5

-----------------------------------------------------------------------------
\* What a relay is asked for.

Standings == Int \X Int \X Int \X Int

\* Standings are compared place by place.
LEMMA BeforeFour ==
  ASSUME NEW x \in Standings, NEW y \in Standings
  PROVE  Before(x, y) <=> \/ x[1] < y[1]
                          \/ x[1] = y[1] /\ x[2] < y[2]
                          \/ x[1] = y[1] /\ x[2] = y[2] /\ x[3] < y[3]
                          \/ x[1] = y[1] /\ x[2] = y[2] /\ x[3] = y[3] /\ x[4] < y[4]
<1>1. 1..4 = {1, 2, 3, 4} OBVIOUS
<1>2. 1..0 = {} /\ 1..1 = {1} /\ 1..2 = {1, 2} /\ 1..3 = {1, 2, 3} OBVIOUS
<1>3. 1 - 1 = 0 /\ 2 - 1 = 1 /\ 3 - 1 = 2 /\ 4 - 1 = 3 OBVIOUS
<1> DEFINE At(n) == x[n] < y[n] /\ \A m \in 1 .. n - 1 : x[m] = y[m]
<1>4. Before(x, y) <=> At(1) \/ At(2) \/ At(3) \/ At(4) BY <1>1 DEF Before
<1>5. At(1) <=> x[1] < y[1] BY <1>2, <1>3
<1>6. At(2) <=> x[2] < y[2] /\ x[1] = y[1] BY <1>2, <1>3
<1>7. At(3) <=> x[3] < y[3] /\ x[1] = y[1] /\ x[2] = y[2] BY <1>2, <1>3
<1>8. At(4) <=> x[4] < y[4] /\ x[1] = y[1] /\ x[2] = y[2] /\ x[3] = y[3] BY <1>2, <1>3
<1> HIDE DEF At
<1> QED BY <1>4, <1>5, <1>6, <1>7, <1>8

\* The order of standings is strict.
LEMMA BeforeIsStrict ==
  ASSUME NEW x \in Standings, NEW y \in Standings, NEW z \in Standings
  PROVE  ~Before(x, x) /\ (Before(x, y) /\ Before(y, z) => Before(x, z))
<1>1. /\ x[1] \in Int /\ x[2] \in Int /\ x[3] \in Int /\ x[4] \in Int
      /\ y[1] \in Int /\ y[2] \in Int /\ y[3] \in Int /\ y[4] \in Int
      /\ z[1] \in Int /\ z[2] \in Int /\ z[3] \in Int /\ z[4] \in Int
  BY DEF Standings
<1>2. ~Before(x, x) BY <1>1, BeforeFour
<1>3. Before(x, y) /\ Before(y, z) => Before(x, z) BY <1>1, BeforeFour
<1> QED BY <1>2, <1>3

\* Whoever is asked gets something while there is anything to ask for.
LEMMA SelectedOK ==
  ASSUME plan \in Plans, NEW g \in RangeSet, IsFiniteSet(g.missing), \A i \in g.missing : g.flying[i] \in Nat,
         NEW r \in RelaySet, NEW any \in BOOLEAN
  PROVE  /\ Selected(g, r, any) \subseteq Open(g, r, any) /\ Open(g, r, any) \subseteq g.missing
         /\ Open(g, r, any) # {} => Selected(g, r, any) # {}
<1> DEFINE O == Open(g, r, any)
           At(i) == Standing(g, O, r, i)
           Earlier(i) == {j \in O : Before(At(j), At(i))}
<1>1. Selected(g, r, any) = {i \in O : Cardinality(Earlier(i)) < plan.batch} BY DEF Selected
<1>2. O \subseteq g.missing /\ IsFiniteSet(O) /\ g.missing \subseteq Int
  <2>1. O \subseteq g.missing BY DEF Open
  <2> QED BY <2>1, FS_Subset DEF RangeSet
<1>3. ASSUME NEW i \in O PROVE At(i) \in Standings
  <2> DEFINE fresh == {j \in O : g.flying[j] = 0}
             position == Cardinality({j \in fresh : j < i})
             turn == (position - Place(r) + 1) % Len(Relays)
  <2>1. position \in Nat
    <3>1. IsFiniteSet({j \in fresh : j < i}) BY <1>2, FS_Subset
    <3> QED BY <3>1, FS_CardinalityType
  <2>2. Place(r) \in Int /\ Len(Relays) \in Nat \ {0} BY RelaysOK
  <2>3. turn \in Int BY <2>1, <2>2
  <2>4. g.flying[i] \in Int /\ i \in Int BY <1>2
  <2>5. At(i) = IF i \in fresh THEN <<0, turn, IF position < Place(r) - 1 + turn THEN 1 ELSE 0, position>>
                ELSE <<1, g.flying[i], 0, i>>
    BY DEF Standing
  <2> HIDE DEF turn, position, fresh
  <2> QED BY <2>1, <2>3, <2>4, <2>5 DEF Standings
<1> HIDE DEF At, O
<1>4. ASSUME O # {} PROVE \E i \in O : Earlier(i) = {}
  <2> DEFINE C == {Earlier(i) : i \in O}
  <2>1. C # {} BY <1>4
  <2>2. ASSUME NEW T \in C PROVE IsFiniteSet(T)
    <3>1. PICK i \in O : T = Earlier(i) OBVIOUS
    <3>2. T \subseteq O BY <3>1
    <3> QED BY <3>2, <1>2, FS_Subset
  <2>3. PICK T \in C : \A U \in C : U \subseteq T => U = T
    <3> HIDE DEF C
    <3> QED BY <2>1, <2>2, MinimalSet
  <2>4. PICK i \in O : T = Earlier(i) OBVIOUS
  <2>5. ASSUME NEW j \in Earlier(i) PROVE FALSE
    <3>1. j \in O /\ Before(At(j), At(i)) OBVIOUS
    <3>2. Earlier(j) \subseteq Earlier(i) BY <1>3, <3>1, BeforeIsStrict
    <3>3. j \notin Earlier(j) BY <1>3, <3>1, BeforeIsStrict
    <3>4. Earlier(j) \in C BY <3>1
    <3> HIDE DEF Earlier, C
    <3> QED BY <2>3, <2>4, <2>5, <3>2, <3>3, <3>4
  <2> QED BY <2>5
<1>5. plan.batch \in Nat \ {0} BY DownloadConstants
<1>6. Cardinality({}) = 0 BY FS_EmptySet
<1>7. O # {} => Selected(g, r, any) # {} BY <1>1, <1>4, <1>5, <1>6
<1> QED BY <1>1, <1>2, <1>7 DEF O

-----------------------------------------------------------------------------
(***************************************************************************)
(* One range g, named by its start k, in a download whose total is total   *)
(* and whose ranges to come begin at next; hv are the chunks handed on.    *)
(***************************************************************************)
RangeOK(p, total, next, k, g, hv) ==
  /\ g \in RangeSet /\ g.flying \in [k .. g.max -> Nat]
  /\ g.start = k /\ 0 <= k /\ k <= g.end /\ g.end <= g.max /\ g.max < next
  /\ total # Unknown => g.end = g.max \/ (g.end = p.total - 1 /\ ~g.loading)
  /\ total = Unknown => k = 0
  /\ g.loading => /\ g.missing = {} /\ hv \cap (k .. g.max) \subseteq p.cached
                  /\ \A r \in RelaySet, a \in BOOLEAN : g.tried[r][a] = {}
                  /\ \A i \in k .. g.max : g.flying[i] = 0
  /\ ~g.loading => /\ g.missing = (k .. g.end) \ g.covered
                   /\ g.covered \subseteq hv /\ hv \cap (k .. g.max) \subseteq g.covered
  /\ \A r \in RelaySet, a \in BOOLEAN : g.tried[r][a] \subseteq IF total = Unknown THEN k .. g.end ELSE k .. g.max
  /\ \A r \in RelaySet : g.tried[r][TRUE] \subseteq g.any
  /\ ~p.fallback => g.any = {}

\* Its batches R, queued or under way, with the answers ms that lacked a chunk.
\* The counters of an unknown total are kept for the chunks it may still add.
Countable(total, g) == IF total = Unknown THEN g.start .. g.max ELSE g.missing
Asking(R, i) == {b \in R : i \in b.indexes}

Flown(total, g, R, ms) ==
  /\ IsFiniteSet(R) /\ R \subseteq BatchSet
  /\ \A b \in R : b.indexes # {} /\ b.indexes \subseteq g.tried[b.relay][b.any]
  /\ \A b, c \in R : b # c /\ b.relay = c.relay /\ b.any = c.any => b.indexes \cap c.indexes = {}
  /\ \A i \in Countable(total, g) : g.flying[i] = Cardinality(Asking(R, i))
  /\ \A i \in g.missing : \A r \in RelaySet, a \in BOOLEAN : i \in g.tried[r][a] =>
       <<r, i, a>> \in ms \/ \E b \in R : b.relay = r /\ b.any = a /\ i \in b.indexes

\* What is missing lies in the range, and is counted.
LEMMA MissingInside ==
  ASSUME NEW total, NEW next, NEW k \in Int, NEW g, NEW hv, RangeOK(plan, total, next, k, g, hv)
  PROVE  /\ g.missing \subseteq k .. g.end /\ k .. g.end \subseteq k .. g.max /\ IsFiniteSet(g.missing)
         /\ g.missing \subseteq Countable(total, g) /\ Countable(total, g) \subseteq k .. g.max
         /\ \A i \in k .. g.max : g.flying[i] \in Nat
         /\ g.start \in Int /\ g.end \in Int /\ g.max \in Int
<1>1. g.start \in Int /\ g.end \in Int /\ g.max \in Int BY DEF RangeOK, RangeSet
<1>2. g.missing \subseteq k .. g.end
  <2>1. CASE g.loading BY <2>1 DEF RangeOK
  <2>2. CASE ~g.loading BY <2>2 DEF RangeOK
  <2> QED BY <2>1, <2>2
<1>3. k .. g.end \subseteq k .. g.max
  <2>1. g.end <= g.max BY DEF RangeOK
  <2> QED BY <1>1, <2>1
<1>4. IsFiniteSet(g.missing)
  <2>1. IsFiniteSet(k .. g.end) BY <1>1, FS_Interval
  <2> QED BY <1>2, <2>1, FS_Subset
<1>5. g.start = k BY DEF RangeOK
<1>6. g.missing \subseteq Countable(total, g) /\ Countable(total, g) \subseteq k .. g.max
  BY <1>2, <1>3, <1>5 DEF Countable
<1>7. \A i \in k .. g.max : g.flying[i] \in Nat BY DEF RangeOK
<1> QED BY <1>1, <1>2, <1>3, <1>4, <1>6, <1>7

\* Counters of the seconds of an interval are counters of chunks.
LEMMA FlightsFrom == ASSUME NEW a \in Int, NEW b \in Int, NEW f \in [a .. b -> Nat] PROVE f \in Flights
<1> DEFINE S == a .. b
<1>1. S \in SUBSET Int /\ f \in [S -> Nat] OBVIOUS
<1> HIDE DEF S
<1> QED BY <1>1 DEF Flights

\* Only time passes: more was handed on elsewhere, more relays have answered, and
\* ranges to come begin later.
LEMMA RangeGoesOn ==
  ASSUME NEW total, NEW next \in Int, NEW later \in Int, next <= later, NEW k \in Int, NEW g, NEW hv, NEW hv2,
         RangeOK(plan, total, next, k, g, hv), hv \subseteq hv2, hv2 \cap (k .. g.max) \subseteq hv
  PROVE  RangeOK(plan, total, later, k, g, hv2)
<1>1. g.max \in Int BY DEF RangeOK, RangeSet
<1>2. g.max < later BY <1>1 DEF RangeOK
<1>3. hv2 \cap (k .. g.max) = hv \cap (k .. g.max) OBVIOUS
<1> QED BY <1>2, <1>3 DEF RangeOK

\* More answers keep the books.
LEMMA FlownGoesOn ==
  ASSUME NEW total, NEW g, NEW R, NEW ms, NEW ms2, ms \subseteq ms2, Flown(total, g, R, ms)
  PROVE  Flown(total, g, R, ms2)
BY DEF Flown

\* What asking a relay changes in a range: what is chosen is tried, and in flight once more.
Asks(g, g2, k, r, any, chosen) ==
  /\ g2.missing = g.missing /\ g2.told = g.told /\ g2.any = g.any /\ g2.start = g.start /\ g2.max = g.max
  /\ g2.loading = g.loading /\ g2.end = g.end /\ g2.covered = g.covered
  /\ \A i \in k .. g.max : g2.flying[i] = IF i \in chosen THEN g.flying[i] + 1 ELSE g.flying[i]
  /\ \A q \in RelaySet, a \in BOOLEAN :
       g2.tried[q][a] = IF q = r /\ a = any THEN g.tried[q][a] \cup chosen ELSE g.tried[q][a]

\* A range stays in order when it asks a relay.
LEMMA TryingRange ==
  ASSUME NEW total, NEW next \in Int, NEW k \in Int, NEW g, NEW hv, RangeOK(plan, total, next, k, g, hv),
         NEW r \in RelaySet, NEW any \in BOOLEAN, NEW chosen \in SUBSET Open(g, r, any), chosen # {}
  PROVE  RangeOK(plan, total, next, k, Trying(g, r, any, chosen), hv) /\ Asks(g, Trying(g, r, any, chosen), k, r, any, chosen)
<1> DEFINE tried == [g.tried EXCEPT ![r][any] = @ \cup chosen]
           flying == [i \in DOMAIN g.flying |-> IF i \in chosen THEN g.flying[i] + 1 ELSE g.flying[i]]
           g2 == Trying(g, r, any, chosen)
<1>0. g \in RangeSet /\ g.flying \in [k .. g.max -> Nat] /\ g.max \in Int BY DEF RangeOK, RangeSet
<1>1. chosen \subseteq g.missing /\ (any = TRUE => chosen \subseteq g.any) /\ chosen \subseteq Int
  <2>1. chosen \subseteq g.missing /\ (any = TRUE => chosen \subseteq g.any) BY DEF Open
  <2> QED BY <2>1, <1>0 DEF RangeSet
<1>2. tried \in [RelaySet -> [BOOLEAN -> SUBSET Int]]
  <2>1. g.tried \in [RelaySet -> [BOOLEAN -> SUBSET Int]] BY <1>0 DEF RangeSet
  <2> QED BY <1>1, <2>1, ZenonT(60)
<1>3. \A q \in RelaySet, a \in BOOLEAN :
        tried[q][a] = IF q = r /\ a = any THEN g.tried[q][a] \cup chosen ELSE g.tried[q][a]
  BY <1>0 DEF RangeSet
<1>4. flying \in [k .. g.max -> Nat] /\ \A i \in k .. g.max : flying[i] = IF i \in chosen THEN g.flying[i] + 1 ELSE g.flying[i]
  BY <1>0
<1>5. flying \in Flights BY <1>0, <1>4, FlightsFrom
<1>6. g2 = [g EXCEPT !.tried = tried, !.flying = flying] BY <1>0 DEF Trying, RangeSet
<1> HIDE DEF tried, flying, g2
<1>7. /\ g2 \in RangeSet /\ g2.tried = tried /\ g2.flying = flying
      /\ g2.missing = g.missing /\ g2.told = g.told /\ g2.any = g.any /\ g2.start = g.start /\ g2.max = g.max
      /\ g2.loading = g.loading /\ g2.end = g.end /\ g2.covered = g.covered
  BY <1>0, <1>2, <1>5, <1>6 DEF RangeSet
<1>8. ~g.loading BY <1>1 DEF RangeOK
<1>9. \A q \in RelaySet, a \in BOOLEAN : g2.tried[q][a] \subseteq IF total = Unknown THEN k .. g.end ELSE k .. g.max
  <2>1. chosen \subseteq k .. g.end /\ chosen \subseteq k .. g.max BY <1>1, MissingInside
  <2>2. \A q \in RelaySet, a \in BOOLEAN : g.tried[q][a] \subseteq IF total = Unknown THEN k .. g.end ELSE k .. g.max
    BY DEF RangeOK
  <2> QED BY <1>3, <1>7, <2>1, <2>2
<1>10. \A q \in RelaySet : g2.tried[q][TRUE] \subseteq g2.any
  <2>1. \A q \in RelaySet : g.tried[q][TRUE] \subseteq g.any BY DEF RangeOK
  <2> QED BY <1>1, <1>3, <1>7, <2>1
<1>11. RangeOK(plan, total, next, k, g2, hv) BY <1>4, <1>7, <1>8, <1>9, <1>10 DEF RangeOK
<1> QED BY <1>3, <1>4, <1>7, <1>11 DEF g2, Asks

\* One batch more for a chunk makes one more that asks for it.
LEMMA AskingOneMore ==
  ASSUME NEW R, IsFiniteSet(R), NEW b, b \notin R, NEW i
  PROVE  Cardinality(Asking(R \cup {b}, i)) = IF i \in b.indexes THEN Cardinality(Asking(R, i)) + 1 ELSE Cardinality(Asking(R, i))
<1>1. IsFiniteSet(Asking(R, i)) /\ b \notin Asking(R, i)
  <2>1. Asking(R, i) \subseteq R BY DEF Asking
  <2> QED BY <2>1, FS_Subset
<1>2. CASE i \in b.indexes
  <2>1. Asking(R \cup {b}, i) = Asking(R, i) \cup {b} BY <1>2 DEF Asking
  <2> QED BY <1>1, <1>2, <2>1, FS_AddElement
<1>3. CASE i \notin b.indexes
  <2>1. Asking(R \cup {b}, i) = Asking(R, i) BY <1>3 DEF Asking
  <2> QED BY <1>3, <2>1
<1> QED BY <1>2, <1>3

\* A batch for chunks its relay was not asked for: it is new, and the books are right again.
LEMMA TryingFlown ==
  ASSUME NEW total, NEW next \in Int, NEW k \in Int, NEW g, NEW hv, RangeOK(plan, total, next, k, g, hv),
         NEW R, NEW ms, Flown(total, g, R, ms),
         NEW b \in BatchSet, b.indexes # {}, b.indexes \subseteq Open(g, b.relay, b.any)
  PROVE  b \notin R /\ Flown(total, Trying(g, b.relay, b.any, b.indexes), R \cup {b}, ms)
<1> DEFINE r == b.relay
           any == b.any
           chosen == b.indexes
           g2 == Trying(g, r, any, chosen)
           S == R \cup {b}
<1>0. r \in RelaySet /\ any \in BOOLEAN /\ chosen \in SUBSET Open(g, r, any) /\ chosen # {} /\ b.relay = r /\ b.any = any
      /\ b.indexes = chosen
  BY DEF BatchSet
<1>1. \A i \in chosen : i \in g.missing /\ i \notin g.tried[r][any] BY DEF Open
<1>2. b \notin R BY <1>1 DEF Flown
<1> HIDE DEF r, any, chosen
<1>3. /\ RangeOK(plan, total, next, k, g2, hv)
      /\ g2.missing = g.missing /\ g2.start = g.start /\ g2.max = g.max
      /\ \A i \in k .. g.max : g2.flying[i] = IF i \in chosen THEN g.flying[i] + 1 ELSE g.flying[i]
      /\ \A q \in RelaySet, a \in BOOLEAN :
           g2.tried[q][a] = IF q = r /\ a = any THEN g.tried[q][a] \cup chosen ELSE g.tried[q][a]
  <2>1. RangeOK(plan, total, next, k, g2, hv) /\ Asks(g, g2, k, r, any, chosen) BY <1>0, TryingRange
  <2> QED BY <2>1 DEF Asks
<1> HIDE DEF g2
<1>4. IsFiniteSet(S) /\ S \subseteq BatchSet BY FS_AddElement DEF Flown
<1>5. \A c \in R : c.indexes # {} /\ c.indexes \subseteq g.tried[c.relay][c.any] /\ c.relay \in RelaySet /\ c.any \in BOOLEAN
  BY DEF Flown, BatchSet
<1>6. \A c \in S : c.indexes # {} /\ c.indexes \subseteq g2.tried[c.relay][c.any]
  <2>1. \A c \in R : c.indexes \subseteq g2.tried[c.relay][c.any] BY <1>3, <1>5
  <2>2. g2.tried[r][any] = g.tried[r][any] \cup chosen BY <1>0, <1>3
  <2> QED BY <1>0, <1>5, <2>1, <2>2
<1>7. \A c, e \in S : c # e /\ c.relay = e.relay /\ c.any = e.any => c.indexes \cap e.indexes = {}
  <2>1. \A c \in R : c.relay = b.relay /\ c.any = b.any => c.indexes \cap b.indexes = {} BY <1>0, <1>1, <1>5
  <2>2. \A c, e \in R : c # e /\ c.relay = e.relay /\ c.any = e.any => c.indexes \cap e.indexes = {} BY DEF Flown
  <2> QED BY <2>1, <2>2
<1>8. Countable(total, g2) = Countable(total, g) BY <1>3 DEF Countable
<1>9. ASSUME NEW i \in Countable(total, g2) PROVE g2.flying[i] = Cardinality(Asking(S, i))
  <2>1. i \in k .. g.max BY <1>8, MissingInside
  <2>2. g.flying[i] = Cardinality(Asking(R, i)) BY <1>8 DEF Flown
  <2>3. IsFiniteSet(R) BY DEF Flown
  <2>4. Cardinality(Asking(S, i)) = IF i \in b.indexes THEN Cardinality(Asking(R, i)) + 1 ELSE Cardinality(Asking(R, i))
    BY <2>3, <1>2, AskingOneMore
  <2> QED BY <2>1, <2>2, <2>4, <1>3, <1>0
<1>10. ASSUME NEW i \in g2.missing, NEW q \in RelaySet, NEW a \in BOOLEAN, i \in g2.tried[q][a]
       PROVE  <<q, i, a>> \in ms \/ \E c \in S : c.relay = q /\ c.any = a /\ i \in c.indexes
  <2>1. CASE i \in g.tried[q][a] BY <2>1, <1>3 DEF Flown
  <2>2. CASE i \notin g.tried[q][a]
    <3>1. q = r /\ a = any /\ i \in chosen BY <2>2, <1>3, <1>10
    <3> QED BY <3>1, <1>0
  <2> QED BY <2>1, <2>2
<1> HIDE DEF S
<1>11. Flown(total, g2, S, ms) BY <1>4, <1>6, <1>7, <1>9, <1>10 DEF Flown
<1> QED BY <1>2, <1>11 DEF g2, S, r, any, chosen

\* What may be told lost, of a batch more: nothing new.
LEMMA TryingExhausts ==
  ASSUME NEW total, NEW next \in Int, NEW k \in Int, NEW g, NEW hv, RangeOK(plan, total, next, k, g, hv),
         NEW r \in RelaySet, NEW any \in BOOLEAN, NEW chosen \in SUBSET Open(g, r, any), chosen # {},
         NEW s, NEW t, t.total = s.total, NEW i, Exhausted(t, Trying(g, r, any, chosen), i)
  PROVE  Exhausted(s, g, i)
<1> DEFINE g2 == Trying(g, r, any, chosen)
<1>1. /\ g2.missing = g.missing /\ g2.told = g.told /\ g2.any = g.any
      /\ \A j \in k .. g.max : g2.flying[j] = IF j \in chosen THEN g.flying[j] + 1 ELSE g.flying[j]
      /\ \A q \in RelaySet, a \in BOOLEAN :
           g2.tried[q][a] = IF q = r /\ a = any THEN g.tried[q][a] \cup chosen ELSE g.tried[q][a]
  <2>1. Asks(g, g2, k, r, any, chosen) BY TryingRange
  <2> QED BY <2>1 DEF Asks
<1> HIDE DEF g2
<1>2. /\ i \in g.missing \ g.told /\ g2.flying[i] = 0 /\ (t.total # Unknown \/ i = 0)
      /\ \A q \in RelaySet : i \in g2.tried[q][(i \in g.any)]
  BY <1>1 DEF Exhausted, g2
<1>3. i \in k .. g.max /\ g.flying[i] \in Nat BY <1>2, MissingInside
<1>4. i \notin chosen /\ g.flying[i] = 0 BY <1>1, <1>2, <1>3
<1>5. \A q \in RelaySet : i \in g.tried[q][(i \in g.any)]
  <2> DEFINE a == i \in g.any
  <2>1. a \in BOOLEAN
    <3>1. CASE i \in g.any BY <3>1
    <3>2. CASE i \notin g.any BY <3>2
    <3> QED BY <3>1, <3>2
  <2>2. \A q \in RelaySet : i \in g2.tried[q][a] BY <1>2, Zenon
  <2> HIDE DEF a
  <2>3. \A q \in RelaySet : i \in g.tried[q][a] BY <1>1, <1>4, <2>1, <2>2
  <2> QED BY <2>3, Zenon DEF a
<1> QED BY <1>2, <1>4, <1>5 DEF Exhausted

\* A chunk is asked for by one batch less.
LEMMA AskingOneLess ==
  ASSUME NEW R, IsFiniteSet(R), NEW b \in R, NEW i
  PROVE  /\ Cardinality(Asking(R, i)) \in Nat
         /\ i \in b.indexes => Cardinality(Asking(R, i)) > 0
         /\ Cardinality(Asking(R \ {b}, i)) = IF i \in b.indexes THEN Cardinality(Asking(R, i)) - 1 ELSE Cardinality(Asking(R, i))
<1>1. IsFiniteSet(R \ {b}) /\ b \notin R \ {b} /\ (R \ {b}) \cup {b} = R BY FS_RemoveElement
<1>2. Cardinality(Asking(R, i)) = IF i \in b.indexes THEN Cardinality(Asking(R \ {b}, i)) + 1 ELSE Cardinality(Asking(R \ {b}, i))
  <2> DEFINE T == R \ {b}
  <2>1. IsFiniteSet(T) /\ b \notin T /\ T \cup {b} = R BY <1>1
  <2> HIDE DEF T
  <2>2. Cardinality(Asking(T \cup {b}, i)) = IF i \in b.indexes THEN Cardinality(Asking(T, i)) + 1 ELSE Cardinality(Asking(T, i))
    BY <2>1, AskingOneMore
  <2> QED BY <2>1, <2>2 DEF T
<1>3. Cardinality(Asking(R \ {b}, i)) \in Nat
  <2>1. Asking(R \ {b}, i) \subseteq R \ {b} BY DEF Asking
  <2>2. IsFiniteSet(Asking(R \ {b}, i)) BY <1>1, <2>1, FS_Subset
  <2> QED BY <2>2, FS_CardinalityType
<1> QED BY <1>2, <1>3

\* What the end of an answer changes in a range.
Lands(g, g2, k, left) ==
  /\ g2.missing = g.missing /\ g2.told = g.told /\ g2.any = g.any /\ g2.start = g.start /\ g2.max = g.max
  /\ g2.loading = g.loading /\ g2.end = g.end /\ g2.covered = g.covered /\ g2.tried = g.tried
  /\ \A i \in k .. g.max : g2.flying[i] = IF i \in left THEN Less(g.flying[i]) ELSE g.flying[i]

\* A range stays in order when an answer ends.
LEMMA LandedRange ==
  ASSUME NEW total, NEW next \in Int, NEW k \in Int, NEW g, NEW hv, RangeOK(plan, total, next, k, g, hv), NEW left
  PROVE  RangeOK(plan, total, next, k, Landed(g, left), hv) /\ Lands(g, Landed(g, left), k, left)
<1> DEFINE flying == [i \in DOMAIN g.flying |-> IF i \in left THEN Less(g.flying[i]) ELSE g.flying[i]]
           g2 == Landed(g, left)
<1>0. g \in RangeSet /\ g.flying \in [k .. g.max -> Nat] /\ g.max \in Int BY DEF RangeOK, RangeSet
<1>1. \A n \in Nat : Less(n) \in Nat /\ (n = 0 => Less(n) = 0)
  <2> SUFFICES ASSUME NEW n \in Nat PROVE Less(n) \in Nat /\ (n = 0 => Less(n) = 0) OBVIOUS
  <2>1. Max({0, n - 1}) = IF 0 >= n - 1 THEN 0 ELSE n - 1 BY MaxOfTwo
  <2> QED BY <2>1 DEF Less
<1>2. flying \in [k .. g.max -> Nat] /\ \A i \in k .. g.max : flying[i] = IF i \in left THEN Less(g.flying[i]) ELSE g.flying[i]
  BY <1>0, <1>1
<1>3. flying \in Flights BY <1>0, <1>2, FlightsFrom
<1>4. g2 = [g EXCEPT !.flying = flying] BY <1>0 DEF Landed, RangeSet
<1> HIDE DEF flying, g2
<1>5. /\ g2 \in RangeSet /\ g2.flying = flying
      /\ g2.missing = g.missing /\ g2.told = g.told /\ g2.any = g.any /\ g2.start = g.start /\ g2.max = g.max /\ g2.tried = g.tried
      /\ g2.loading = g.loading /\ g2.end = g.end /\ g2.covered = g.covered
  BY <1>0, <1>3, <1>4 DEF RangeSet
<1>7. g2.loading => \A i \in k .. g.max : g2.flying[i] = 0
  <2>1. g.loading => \A i \in k .. g.max : g.flying[i] = 0 BY DEF RangeOK
  <2> QED BY <2>1, <1>0, <1>1, <1>2, <1>5
<1>6. RangeOK(plan, total, next, k, g2, hv) BY <1>2, <1>5, <1>7 DEF RangeOK
<1> QED BY <1>2, <1>5, <1>6 DEF g2, Lands

\* The end of an answer takes its batch off the books; its relay lacked what is missing still.
LEMMA LandedFlown ==
  ASSUME NEW total, NEW next \in Int, NEW k \in Int, NEW g, NEW hv, RangeOK(plan, total, next, k, g, hv),
         total = Unknown => hv = {},
         NEW R, NEW ms, Flown(total, g, R, ms), NEW b \in R, NEW ms2, ms \subseteq ms2,
         \A i \in b.indexes \cap g.missing : <<b.relay, i, b.any>> \in ms2
  PROVE  Flown(total, Landed(g, b.indexes \cap g.missing), R \ {b}, ms2)
<1> DEFINE left == b.indexes \cap g.missing
           g2 == Landed(g, left)
           S == R \ {b}
<1>0. g \in RangeSet BY DEF RangeOK
<1>1. Lands(g, g2, k, left)
  <2> HIDE DEF left
  <2> QED BY LandedRange
<1>2. \A i \in Countable(total, g) : i \in b.indexes => i \in left
  <2>1. CASE total = Unknown
    <3>1. ~g.loading
      <4>1. b.indexes # {} /\ b.indexes \subseteq g.tried[b.relay][b.any] /\ b.relay \in RelaySet /\ b.any \in BOOLEAN
        BY DEF Flown, BatchSet
      <4> QED BY <4>1 DEF RangeOK
    <3>2. g.missing = k .. g.end BY <2>1, <3>1 DEF RangeOK
    <3>3. b.indexes \subseteq k .. g.end
      <4>1. b.indexes \subseteq g.tried[b.relay][b.any] /\ b.relay \in RelaySet /\ b.any \in BOOLEAN
        BY DEF Flown, BatchSet
      <4> QED BY <4>1, <2>1 DEF RangeOK
    <3> QED BY <3>2, <3>3
  <2>2. CASE total # Unknown BY <2>2 DEF Countable
  <2> QED BY <2>1, <2>2
<1> HIDE DEF g2
<1>3. /\ g2.missing = g.missing /\ g2.start = g.start /\ g2.max = g.max /\ g2.tried = g.tried
  BY <1>1 DEF Lands
<1>4. IsFiniteSet(S) /\ S \subseteq BatchSet BY FS_RemoveElement DEF Flown
<1>5. /\ \A c \in S : c.indexes # {} /\ c.indexes \subseteq g2.tried[c.relay][c.any]
      /\ \A c, e \in S : c # e /\ c.relay = e.relay /\ c.any = e.any => c.indexes \cap e.indexes = {}
  BY <1>3 DEF Flown
<1>6. Countable(total, g2) = Countable(total, g) BY <1>3 DEF Countable
<1>7. ASSUME NEW i \in Countable(total, g2) PROVE g2.flying[i] = Cardinality(Asking(S, i))
  <2>1. i \in k .. g.max /\ g.flying[i] = Cardinality(Asking(R, i)) BY <1>6, MissingInside DEF Flown
  <2>2. i \in b.indexes <=> i \in left BY <1>2, <1>6
  <2>3. IsFiniteSet(R) BY DEF Flown
  <2>4. /\ Cardinality(Asking(R, i)) \in Nat
        /\ i \in b.indexes => Cardinality(Asking(R, i)) > 0
        /\ Cardinality(Asking(S, i)) = IF i \in b.indexes THEN Cardinality(Asking(R, i)) - 1 ELSE Cardinality(Asking(R, i))
    BY <2>3, AskingOneLess
  <2> DEFINE n == Cardinality(Asking(R, i))
  <2>5. n \in Nat /\ n > 0 => Less(n) = n - 1
    <3> HIDE DEF n
    <3> SUFFICES ASSUME n \in Nat, n > 0 PROVE Less(n) = n - 1 OBVIOUS
    <3>1. Max({0, n - 1}) = IF 0 >= n - 1 THEN 0 ELSE n - 1 BY MaxOfTwo
    <3> QED BY <3>1 DEF Less
  <2> HIDE DEF left, n
  <2>6. g2.flying[i] = IF i \in left THEN Less(g.flying[i]) ELSE g.flying[i] BY <1>1, <2>1 DEF Lands
  <2> QED BY <2>6, <2>1, <2>2, <2>4, <2>5 DEF n
<1>8. ASSUME NEW i \in g2.missing, NEW q \in RelaySet, NEW a \in BOOLEAN, i \in g2.tried[q][a]
      PROVE  <<q, i, a>> \in ms2 \/ \E c \in S : c.relay = q /\ c.any = a /\ i \in c.indexes
  <2>1. <<q, i, a>> \in ms \/ \E c \in R : c.relay = q /\ c.any = a /\ i \in c.indexes BY <1>3, <1>8 DEF Flown
  <2>2. CASE <<q, i, a>> \in ms BY <2>2
  <2>3. CASE \E c \in R : c.relay = q /\ c.any = a /\ i \in c.indexes
    <3>1. PICK c \in R : c.relay = q /\ c.any = a /\ i \in c.indexes BY <2>3
    <3>2. CASE c = b
      <4>1. <<b.relay, i, b.any>> \in ms2 BY <3>1, <3>2, <1>3
      <4> QED BY <3>1, <3>2, <4>1
    <3>3. CASE c # b BY <3>1, <3>3
    <3> QED BY <3>2, <3>3
  <2> QED BY <2>1, <2>2, <2>3
<1> HIDE DEF S
<1> QED BY <1>4, <1>5, <1>7, <1>8 DEF Flown, g2, S

\* A batch that received an event asks for what it asked for.
LEMMA HeardFlown ==
  ASSUME NEW total, NEW g, NEW R, NEW ms, Flown(total, g, R, ms), NEW b \in R,
         NEW c \in BatchSet, c.relay = b.relay, c.any = b.any, c.indexes = b.indexes
  PROVE  (c = b \/ c \notin R) /\ Flown(total, g, (R \ {b}) \cup {c}, ms)
<1> DEFINE S == (R \ {b}) \cup {c}
<1>0. b.indexes # {} /\ IsFiniteSet(R) /\ R \subseteq BatchSet BY DEF Flown
<1>1. c = b \/ c \notin R
  <2>1. \A e \in R : e # b /\ e.relay = b.relay /\ e.any = b.any => e.indexes \cap b.indexes = {} BY DEF Flown
  <2> QED BY <2>1, <1>0
<1>2. IsFiniteSet(R \ {b}) /\ IsFiniteSet(S) /\ S \subseteq BatchSet BY <1>0, FS_RemoveElement, FS_AddElement
<1>3. ASSUME NEW i PROVE Cardinality(Asking(S, i)) = Cardinality(Asking(R, i))
  <2>1. CASE c = b
    <3>1. S = R BY <2>1
    <3> QED BY <3>1
  <2>2. CASE c \notin R
    <3> DEFINE T == R \ {b}
    <3>1. IsFiniteSet(T) /\ c \notin T /\ b \notin T BY <1>2, <2>2
    <3>2. R = T \cup {b} /\ S = T \cup {c} OBVIOUS
    <3> HIDE DEF T, S
    <3>3. Cardinality(Asking(T \cup {b}, i)) = IF i \in b.indexes THEN Cardinality(Asking(T, i)) + 1 ELSE Cardinality(Asking(T, i))
      BY <3>1, AskingOneMore
    <3>4. Cardinality(Asking(T \cup {c}, i)) = IF i \in c.indexes THEN Cardinality(Asking(T, i)) + 1 ELSE Cardinality(Asking(T, i))
      BY <3>1, AskingOneMore
    <3> QED BY <3>2, <3>3, <3>4
  <2> QED BY <1>1, <2>1, <2>2
<1>4. /\ \A e \in S : e.indexes # {} /\ e.indexes \subseteq g.tried[e.relay][e.any]
      /\ \A d1, e \in S : d1 # e /\ d1.relay = e.relay /\ d1.any = e.any => d1.indexes \cap e.indexes = {}
  BY DEF Flown
<1>5. ASSUME NEW i \in g.missing, NEW q \in RelaySet, NEW a \in BOOLEAN, i \in g.tried[q][a]
      PROVE  <<q, i, a>> \in ms \/ \E e \in S : e.relay = q /\ e.any = a /\ i \in e.indexes
  <2>0. \A j \in g.missing : \A r \in RelaySet, v \in BOOLEAN : j \in g.tried[r][v] =>
          <<r, j, v>> \in ms \/ \E e \in R : e.relay = r /\ e.any = v /\ j \in e.indexes
    BY Zenon DEF Flown
  <2>1. <<q, i, a>> \in ms \/ \E e \in R : e.relay = q /\ e.any = a /\ i \in e.indexes BY <1>5, <2>0
  <2> QED BY <2>1
<1>6. ASSUME NEW i \in Countable(total, g) PROVE g.flying[i] = Cardinality(Asking(S, i))
  <2>1. g.flying[i] = Cardinality(Asking(R, i)) BY DEF Flown
  <2> HIDE DEF S
  <2> QED BY <1>3, <2>1
<1> HIDE DEF S
<1>7. Flown(total, g, S, ms) BY <1>2, <1>4, <1>5, <1>6 DEF Flown
<1> QED BY <1>1, <1>7 DEF S

\* A range stays in order when a missing chunk of it comes, and it was not handed on before.
LEMMA TakenRange ==
  ASSUME NEW total, total # Unknown, NEW next \in Int, NEW k \in Int, NEW g, NEW hv, RangeOK(plan, total, next, k, g, hv),
         NEW R, NEW ms, Flown(total, g, R, ms), NEW i \in g.missing
  PROVE  /\ RangeOK(plan, total, next, k, Taken(g, i), hv \cup {i}) /\ Flown(total, Taken(g, i), R, ms)
         /\ Taken(g, i).told = g.told /\ Taken(g, i).loading = g.loading /\ Taken(g, i).max = g.max
         /\ i \notin hv /\ i \in k .. g.end
<1> DEFINE flying == [g.flying EXCEPT ![i] = 0]
           missing == g.missing \ {i}
           covered == g.covered \cup {i}
           g2 == Taken(g, i)
<1>0. g \in RangeSet /\ g.flying \in [k .. g.max -> Nat] /\ g.max \in Int /\ g.end \in Int BY DEF RangeOK, RangeSet
<1>1. i \in k .. g.end /\ i \in k .. g.max /\ i \in Int
  <2>1. g.missing \subseteq k .. g.end /\ k .. g.end \subseteq k .. g.max BY MissingInside
  <2> QED BY <2>1
<1>2. flying \in [k .. g.max -> Nat] /\ \A j \in k .. g.max : flying[j] = IF j = i THEN 0 ELSE g.flying[j] BY <1>0
<1>3. flying \in Flights BY <1>0, <1>2, FlightsFrom
<1>4. missing \in SUBSET Int /\ covered \in SUBSET Int BY <1>0, <1>1 DEF RangeSet
<1>5. g2 = [g EXCEPT !.missing = missing, !.covered = covered, !.flying = flying] BY <1>0 DEF Taken, RangeSet
<1> HIDE DEF flying, missing, covered, g2
<1>6. /\ g2 \in RangeSet /\ g2.flying = flying /\ g2.missing = missing /\ g2.covered = covered
      /\ g2.told = g.told /\ g2.any = g.any /\ g2.start = g.start /\ g2.max = g.max /\ g2.tried = g.tried
      /\ g2.loading = g.loading /\ g2.end = g.end
  BY <1>0, <1>3, <1>4, <1>5 DEF RangeSet
<1>7. ~g.loading BY DEF RangeOK
<1>8. g.missing = (k .. g.end) \ g.covered /\ g.covered \subseteq hv /\ hv \cap (k .. g.max) \subseteq g.covered
  BY <1>7 DEF RangeOK
<1>9. i \notin hv BY <1>1, <1>8
<1>10. missing = (k .. g.end) \ covered /\ covered \subseteq hv \cup {i} /\ (hv \cup {i}) \cap (k .. g.max) \subseteq covered
  BY <1>8 DEF missing, covered
<1>11. RangeOK(plan, total, next, k, g2, hv \cup {i}) BY <1>2, <1>6, <1>7, <1>10 DEF RangeOK
<1>12. Flown(total, g2, R, ms)
  <2>1. Countable(total, g2) = missing /\ Countable(total, g) = g.missing BY <1>6 DEF Countable
  <2>2. \A j \in missing : j \in g.missing /\ j # i BY DEF missing
  <2>3. ASSUME NEW j \in missing PROVE g2.flying[j] = Cardinality(Asking(R, j))
    <3>1. j \in k .. g.max BY <2>2, MissingInside
    <3>2. g.flying[j] = Cardinality(Asking(R, j)) BY <2>1, <2>2 DEF Flown
    <3> QED BY <3>1, <3>2, <2>2, <1>2, <1>6
  <2> QED BY <2>1, <2>2, <2>3, <1>6 DEF Flown
<1> QED BY <1>1, <1>6, <1>9, <1>11, <1>12 DEF g2

\* The first range stays in order when the total becomes known: all of it is
\* missing, as nothing has come yet.
LEMMA TotalledRange ==
  ASSUME plan \in Plans, NEW next \in Int, NEW k \in Int, NEW g, ~g.loading, RangeOK(plan, Unknown, next, k, g, {}),
         NEW R, NEW ms, Flown(Unknown, g, R, ms)
  PROVE  /\ RangeOK(plan, plan.total, next, k, Totalled(g, plan.total), {})
         /\ Flown(plan.total, Totalled(g, plan.total), R, ms)
         /\ Totalled(g, plan.total).told = g.told /\ Totalled(g, plan.total).max = g.max
         /\ ~Totalled(g, plan.total).loading
<1> DEFINE end == Min({g.max, plan.total - 1})
           g2 == Totalled(g, plan.total)
<1>0. g \in RangeSet /\ g.flying \in [k .. g.max -> Nat] /\ g.max \in Int /\ g.end \in Int BY DEF RangeOK, RangeSet
<1>1. k = 0 /\ g.covered = {} /\ g.missing = 0 .. g.end /\ g.start = 0 /\ 0 <= g.end /\ g.end <= g.max
  BY DEF RangeOK
<1>2. plan.total \in Nat \ {0} BY DownloadConstants
<1>3. end \in Int /\ 0 <= end /\ end <= g.max /\ (end = g.max \/ end = plan.total - 1)
  <2> DEFINE x == g.max
             y == plan.total - 1
  <2>1. x \in Nat /\ y \in Nat BY <1>0, <1>1, <1>2
  <2> HIDE DEF x, y
  <2>2. Min({x, y}) = IF x <= y THEN x ELSE y BY <2>1, MinOfTwo
  <2> QED BY <2>1, <2>2 DEF x, y
<1>4. g2 = Rebuilt([g EXCEPT !.end = end, !.covered = @ \cap (0 .. end)]) BY DEF Totalled
<1> HIDE DEF end, g2
<1> DEFINE g1 == [g EXCEPT !.end = end, !.covered = @ \cap (0 .. end)]
<1>5. /\ g1 \in RangeSet /\ g1.flying = g.flying /\ g1.covered = {} /\ g1.end = end /\ g1.start = 0
      /\ g1.told = g.told /\ g1.any = g.any /\ g1.max = g.max /\ g1.tried = g.tried /\ ~g1.loading
  <2> DEFINE covered == g.covered \cap (0 .. end)
  <2>1. covered = {} /\ covered \in SUBSET Int BY <1>1
  <2> HIDE DEF covered
  <2>2. g1 = [g EXCEPT !.end = end, !.covered = covered] BY <1>0 DEF covered, RangeSet
  <2> HIDE DEF g1
  <2> QED BY <1>0, <1>1, <1>3, <2>1, <2>2 DEF RangeSet
<1> HIDE DEF g1
<1>6. g2 = [g1 EXCEPT !.missing = (g1.start .. g1.end) \ g1.covered] BY <1>4 DEF Rebuilt, g1
<1>7. /\ g2 \in RangeSet /\ g2.flying = g.flying /\ g2.covered = {} /\ g2.end = end /\ g2.start = 0 /\ g2.missing = 0 .. end
      /\ g2.told = g.told /\ g2.any = g.any /\ g2.max = g.max /\ g2.tried = g.tried /\ ~g2.loading
  <2> DEFINE missing == (g1.start .. g1.end) \ g1.covered
  <2>1. missing = 0 .. end /\ missing \in SUBSET Int BY <1>5
  <2> HIDE DEF missing
  <2>2. g2 = [g1 EXCEPT !.missing = missing] BY <1>6 DEF missing
  <2> QED BY <1>5, <2>1, <2>2 DEF RangeSet
<1>8. \A r \in RelaySet, a \in BOOLEAN : g.tried[r][a] \subseteq 0 .. g.end BY <1>1 DEF RangeOK
<1>9. 0 .. g.end \subseteq 0 .. g.max BY <1>0, <1>1
<1>10. plan.total # Unknown BY <1>2 DEF Unknown
<1>11. RangeOK(plan, plan.total, next, k, g2, {})
  <2>1. \A r \in RelaySet, a \in BOOLEAN : g2.tried[r][a] \subseteq k .. g2.max BY <1>1, <1>7, <1>8, <1>9
  <2>2. /\ g2.max < next /\ \A r \in RelaySet : g2.tried[r][TRUE] \subseteq g2.any
        /\ (~plan.fallback => g2.any = {})
    BY <1>7 DEF RangeOK
  <2>3. g2.flying \in [k .. g2.max -> Nat] BY <1>0, <1>7
  <2> QED BY <1>1, <1>3, <1>7, <1>10, <2>1, <2>2, <2>3 DEF RangeOK
<1>12. Flown(plan.total, g2, R, ms)
  <2>1. Countable(plan.total, g2) = 0 .. end BY <1>7, <1>10 DEF Countable
  <2>2. Countable(Unknown, g) = 0 .. g.max BY <1>1 DEF Countable
  <2>3. \A i \in 0 .. end : i \in 0 .. g.max BY <1>0, <1>3
  <2>4. \A i \in Countable(plan.total, g2) : g2.flying[i] = Cardinality(Asking(R, i))
    BY <2>1, <2>2, <2>3, <1>7 DEF Flown
  <2>5. ASSUME NEW i \in g2.missing, NEW q \in RelaySet, NEW a \in BOOLEAN, i \in g2.tried[q][a]
        PROVE  <<q, i, a>> \in ms \/ \E e \in R : e.relay = q /\ e.any = a /\ i \in e.indexes
    <3>1. i \in g.tried[q][a] /\ i \in g.missing BY <1>1, <1>7, <1>8, <2>5
    <3> QED BY <3>1 DEF Flown
  <2>6. \A b \in R : b.indexes # {} /\ b.indexes \subseteq g2.tried[b.relay][b.any] BY <1>7 DEF Flown
  <2> QED BY <2>4, <2>5, <2>6 DEF Flown
<1> QED BY <1>7, <1>11, <1>12 DEF g2

\* A range stays in order when its first look into the store ends; it has asked nobody yet.
LEMMA FilledRange ==
  ASSUME plan \in Plans, NEW total, NEW next \in Int, NEW k \in Int, NEW g, g.loading, NEW hv,
         plan.cached \subseteq hv, total = Unknown => hv = {},
         RangeOK(plan, total, next, k, g, hv), NEW R, NEW ms, Flown(total, g, R, ms)
  PROVE  /\ RangeOK(plan, total, next, k, Filled(g), hv) /\ Flown(total, Filled(g), R, ms)
         /\ Filled(g).told = g.told /\ Filled(g).max = g.max /\ ~Filled(g).loading
         /\ \A r \in RelaySet, a \in BOOLEAN : Filled(g).tried[r][a] = {}
<1> DEFINE covered == plan.cached \cap (k .. g.end)
           missing == (k .. g.end) \ covered
           g2 == Filled(g)
<1>0. g \in RangeSet /\ g.flying \in [k .. g.max -> Nat] /\ g.max \in Int /\ g.end \in Int /\ g.start = k
  BY DEF RangeOK, RangeSet
<1>1. covered \in SUBSET Int /\ missing \in SUBSET Int BY <1>0
<1>2. g2 = Rebuilt([g EXCEPT !.loading = FALSE, !.covered = covered]) BY <1>0 DEF Filled
<1> DEFINE g1 == [g EXCEPT !.loading = FALSE, !.covered = covered]
<1>3. g2 = [g1 EXCEPT !.missing = (g1.start .. g1.end) \ g1.covered] BY <1>2 DEF Rebuilt
<1> HIDE DEF covered, g2
<1>4. /\ g1 \in RangeSet /\ g1.flying = g.flying /\ g1.covered = covered /\ g1.end = g.end /\ g1.start = k
      /\ g1.told = g.told /\ g1.any = g.any /\ g1.max = g.max /\ g1.tried = g.tried /\ g1.loading = FALSE
  BY <1>0, <1>1 DEF RangeSet
<1> HIDE DEF g1
<1>5. missing = (g1.start .. g1.end) \ g1.covered BY <1>4
<1> HIDE DEF missing
<1>6. g2 = [g1 EXCEPT !.missing = missing] BY <1>3, <1>5
<1>7. /\ g2 \in RangeSet /\ g2.flying = g.flying /\ g2.covered = covered /\ g2.end = g.end /\ g2.start = k
      /\ g2.missing = missing /\ g2.told = g.told /\ g2.any = g.any /\ g2.max = g.max /\ g2.tried = g.tried /\ ~g2.loading
  BY <1>1, <1>4, <1>6 DEF RangeSet
<1>8. \A r \in RelaySet, a \in BOOLEAN : g2.tried[r][a] = {} BY <1>7 DEF RangeOK
<1>9. \A i \in k .. g.max : g2.flying[i] = 0 BY <1>7 DEF RangeOK
<1>10. R = {}
  <2>1. \A b \in R : b.relay \in RelaySet /\ b.any \in BOOLEAN /\ b.indexes # {} /\ b.indexes \subseteq g.tried[b.relay][b.any]
    BY DEF Flown, BatchSet
  <2> QED BY <2>1, <1>7, <1>8
<1>11. covered \subseteq hv /\ hv \cap (k .. g.max) \subseteq covered
  <2>1. CASE total = Unknown BY <2>1 DEF covered
  <2>2. CASE total # Unknown
    <3>1. g.end = g.max BY <2>2 DEF RangeOK
    <3>2. hv \cap (k .. g.max) \subseteq plan.cached BY DEF RangeOK
    <3> QED BY <3>1, <3>2 DEF covered
  <2> QED BY <2>1, <2>2
<1>12. RangeOK(plan, total, next, k, g2, hv)
  <2>1. missing = (k .. g.end) \ covered BY DEF missing
  <2>2. g2.flying \in [k .. g2.max -> Nat] /\ g2.max < next /\ 0 <= k /\ k <= g2.end /\ g2.end <= g2.max
    BY <1>0, <1>7 DEF RangeOK
  <2>3. /\ total # Unknown => g2.end = g2.max
        /\ total = Unknown => k = 0
        /\ ~plan.fallback => g2.any = {}
    BY <1>7 DEF RangeOK
  <2>4. g2.missing = (k .. g2.end) \ g2.covered /\ g2.covered \subseteq hv /\ hv \cap (k .. g2.max) \subseteq g2.covered
    BY <2>1, <1>7, <1>11
  <2> QED BY <1>7, <1>8, <2>2, <2>3, <2>4 DEF RangeOK
<1>13. Flown(total, g2, R, ms)
  <2>1. Countable(total, g2) \subseteq k .. g.max /\ g2.missing \subseteq k .. g.max
    <3>1. Countable(total, g2) \subseteq k .. g2.max /\ g2.missing \subseteq Countable(total, g2) BY <1>12, MissingInside
    <3> QED BY <3>1, <1>7
  <2>2. \A i : Cardinality(Asking(R, i)) = 0 BY <1>10, FS_EmptySet DEF Asking
  <2>3. IsFiniteSet(R) BY <1>10, FS_EmptySet
  <2> QED BY <1>8, <1>9, <1>10, <2>1, <2>2, <2>3 DEF Flown
<1> QED BY <1>7, <1>8, <1>12, <1>13 DEF g2

\* A range stays in order when chunks are given up.
LEMMA MarkedRange ==
  ASSUME NEW total, NEW next \in Int, NEW k \in Int, NEW g, NEW hv, RangeOK(plan, total, next, k, g, hv),
         NEW R, NEW ms, Flown(total, g, R, ms), NEW again \in SUBSET Int, NEW told \in SUBSET Int, plan.fallback \/ again = {}
  PROVE  /\ RangeOK(plan, total, next, k, Marked(g, again, told), hv) /\ Flown(total, Marked(g, again, told), R, ms)
         /\ Marked(g, again, told).told = g.told \cup told /\ Marked(g, again, told).any = g.any \cup again
         /\ Marked(g, again, told).missing = g.missing /\ Marked(g, again, told).tried = g.tried
         /\ Marked(g, again, told).flying = g.flying /\ Marked(g, again, told).loading = g.loading
         /\ Marked(g, again, told).max = g.max /\ Marked(g, again, told).end = g.end /\ Marked(g, again, told).covered = g.covered
<1> DEFINE any == g.any \cup again
           lost == g.told \cup told
           g2 == Marked(g, again, told)
<1>0. g \in RangeSet BY DEF RangeOK
<1>1. any \in SUBSET Int /\ lost \in SUBSET Int BY <1>0 DEF RangeSet
<1>2. g2 = [g EXCEPT !.any = any, !.told = lost] BY <1>0 DEF Marked, RangeSet
<1> HIDE DEF any, lost, g2
<1>3. /\ g2 \in RangeSet /\ g2.flying = g.flying /\ g2.covered = g.covered /\ g2.end = g.end /\ g2.start = g.start
      /\ g2.missing = g.missing /\ g2.told = lost /\ g2.any = any /\ g2.max = g.max /\ g2.tried = g.tried
      /\ g2.loading = g.loading
  BY <1>0, <1>1, <1>2 DEF RangeSet
<1>4. \A r \in RelaySet : g2.tried[r][TRUE] \subseteq g2.any
  <2>1. \A r \in RelaySet : g.tried[r][TRUE] \subseteq g.any BY DEF RangeOK
  <2> QED BY <2>1, <1>3 DEF any
<1>5. ~plan.fallback => g2.any = {}
  <2>1. ~plan.fallback => g.any = {} BY DEF RangeOK
  <2> QED BY <2>1, <1>3 DEF any
<1>6. RangeOK(plan, total, next, k, g2, hv) BY <1>3, <1>4, <1>5 DEF RangeOK
<1>7. Flown(total, g2, R, ms)
  <2>1. Countable(total, g2) = Countable(total, g) BY <1>3 DEF Countable
  <2> QED BY <1>3, <2>1 DEF Flown
<1> QED BY <1>3, <1>6, <1>7 DEF g2, any, lost

\* A range from a to m that may begin, b the last chunk of it that is sought.
Room(total, next, a, b, m, hv) ==
  /\ next \in Int /\ a \in Int /\ b \in Int /\ m \in Int /\ 0 <= a /\ a <= b /\ b <= m /\ m < next
  /\ total # Unknown => b = m
  /\ total = Unknown => a = 0
  /\ hv \cap (a .. m) \subseteq plan.cached

\* It begins in order.
LEMMA NewRangeOK ==
  ASSUME NEW total, NEW next, NEW a, NEW b, NEW m, NEW hv, NEW ms, Room(total, next, a, b, m, hv)
  PROVE  /\ RangeOK(plan, total, next, a, NewRange(a, b, m), hv) /\ Flown(total, NewRange(a, b, m), {}, ms)
         /\ NewRange(a, b, m).told = {} /\ NewRange(a, b, m).max = m /\ NewRange(a, b, m).loading
         /\ NewRange(a, b, m).start = a /\ NewRange(a, b, m).missing = {}
<1> USE DEF Room
<1> DEFINE flying == [i \in a .. m |-> 0]
           tried == [r \in RelaySet |-> [c \in BOOLEAN |-> {}]]
           g == NewRange(a, b, m)
<1>1. flying \in [a .. m -> Nat] OBVIOUS
<1>2. flying \in Flights BY <1>1, FlightsFrom
<1>3. tried \in [RelaySet -> [BOOLEAN -> SUBSET Int]] /\ \A r \in RelaySet, c \in BOOLEAN : tried[r][c] = {} OBVIOUS
<1>4. g = [start |-> a, end |-> b, max |-> m, loading |-> TRUE, covered |-> {}, missing |-> {},
           any |-> {}, tried |-> tried, told |-> {}, flying |-> flying]
  BY DEF NewRange
<1>5. \A i \in a .. m : flying[i] = 0 OBVIOUS
<1> HIDE DEF flying, tried, g
<1>6. /\ g \in RangeSet /\ g.flying = flying /\ g.tried = tried /\ g.end = b /\ g.start = a /\ g.max = m
      /\ g.missing = {} /\ g.told = {} /\ g.any = {} /\ g.loading /\ g.covered = {}
  BY <1>2, <1>3, <1>4 DEF RangeSet
<1>7. RangeOK(plan, total, next, a, g, hv) BY <1>1, <1>3, <1>5, <1>6 DEF RangeOK
<1>8. Flown(total, g, {}, ms)
  <2>1. Countable(total, g) \subseteq a .. m BY <1>6 DEF Countable
  <2>2. \A i : Cardinality(Asking({}, i)) = 0 BY FS_EmptySet DEF Asking
  <2> QED BY <1>5, <1>6, <2>1, <2>2, FS_EmptySet DEF Flown
<1> QED BY <1>6, <1>7, <1>8 DEF g

\* What is given up was answered by every relay, in the last phase there is.
LEMMA ExhaustedAnswered ==
  ASSUME NEW s, NEW next \in Int, NEW k \in Int, NEW g, NEW hv, RangeOK(plan, s.total, next, k, g, hv),
         NEW R, NEW ms, Flown(s.total, g, R, ms), NEW i, Exhausted(s, g, i), ~plan.fallback \/ i \in g.any,
         plan.fallback \in BOOLEAN
  PROVE  \A r \in RelaySet : <<r, i, plan.fallback>> \in ms
<1> DEFINE total == s.total
<1>1. i \in g.missing /\ g.flying[i] = 0 BY DEF Exhausted
<1>2. \A r \in RelaySet : i \in g.tried[r][plan.fallback]
  <2>1. CASE plan.fallback = TRUE
    <3>1. i \in g.any BY <2>1
    <3>2. (i \in g.any) = plan.fallback BY <2>1, <3>1
    <3> QED BY <3>2 DEF Exhausted
  <2>2. CASE plan.fallback = FALSE
    <3>1. i \notin g.any BY <2>2 DEF RangeOK
    <3>2. (i \in g.any) = plan.fallback BY <2>2, <3>1
    <3> QED BY <3>2 DEF Exhausted
  <2> QED BY <2>1, <2>2
<1>3. Asking(R, i) = {}
  <2>1. i \in Countable(total, g) BY <1>1, MissingInside
  <2>2. Cardinality(Asking(R, i)) = 0 BY <1>1, <2>1 DEF Flown
  <2>3. IsFiniteSet(Asking(R, i))
    <3>1. Asking(R, i) \subseteq R /\ IsFiniteSet(R) BY DEF Asking, Flown
    <3> QED BY <3>1, FS_Subset
  <2> QED BY <2>2, <2>3, FS_EmptySet
<1>4. \A b \in R : i \notin b.indexes BY <1>3 DEF Asking
<1> QED BY <1>1, <1>2, <1>4 DEF Flown

-----------------------------------------------------------------------------
(***************************************************************************)
(* The limiter: who waits for a relay, and who is under way.               *)
(***************************************************************************)
AllOf(q, act) == act \cup UNION {Range(q[r]) : r \in RelaySet}
Under(act, r) == {b \in act : b.relay = r}

\* A batch is in one place, once, and a relay has no more under way than it may.
Line(q, act, r) ==
  /\ \A n \in DOMAIN q[r] : q[r][n].relay = r /\ q[r][n] \notin act
  /\ \A m, n \in DOMAIN q[r] : m # n => q[r][m] # q[r][n]
  /\ Cardinality(Under(act, r)) <= MaxBatches

\* Whoever waits waits behind another batch of its relay.
Attended(q, act, r) == q[r] # <<>> => Under(act, r) # {}
Limiter(q, act) ==
  /\ q \in Queues /\ act \in SUBSET BatchSet /\ IsFiniteSet(act)
  /\ \A r \in RelaySet : Line(q, act, r)
Attentive(q, act) == \A r \in RelaySet : Attended(q, act, r)

\* What a queue of batches is.
LEMMA QueueOf ==
  ASSUME NEW q \in Queues, NEW r \in RelaySet
  PROVE  /\ q[r] \in Seq(BatchSet) /\ Len(q[r]) \in Nat /\ DOMAIN q[r] = 1 .. Len(q[r])
         /\ Range(q[r]) = {q[r][n] : n \in 1 .. Len(q[r])} /\ \A n \in 1 .. Len(q[r]) : q[r][n] \in BatchSet
         /\ q[r] = <<>> <=> Len(q[r]) = 0
<1>1. q[r] \in Seq(BatchSet) BY DEF Queues
<1>2. Len(q[r]) \in Nat /\ DOMAIN q[r] = 1 .. Len(q[r]) BY <1>1, LenProperties
<1>3. Range(q[r]) = {q[r][n] : n \in 1 .. Len(q[r])} BY <1>2 DEF Range
<1>4. \A n \in 1 .. Len(q[r]) : q[r][n] \in BatchSet BY <1>1, ElementOfSeq
<1>5. q[r] = <<>> <=> Len(q[r]) = 0 BY <1>1, EmptySeq
<1> QED BY <1>1, <1>2, <1>3, <1>4, <1>5

\* What Under counts is finite.
LEMMA UnderFinite ==
  ASSUME NEW act, IsFiniteSet(act), NEW r
  PROVE  IsFiniteSet(Under(act, r)) /\ Cardinality(Under(act, r)) \in Nat
<1>1. Under(act, r) \subseteq act BY DEF Under
<1> QED BY <1>1, FS_Subset, FS_CardinalityType

\* A batch that joins a queue.
Joined(q, r, b) == [q EXCEPT ![r] = Append(q[r], b)]

\* It waits there, behind the others.
LEMMA QueueMore ==
  ASSUME NEW q, NEW act, Limiter(q, act), NEW r \in RelaySet, NEW b \in BatchSet, b.relay = r, b \notin AllOf(q, act)
  PROVE  /\ Limiter(Joined(q, r, b), act) /\ AllOf(Joined(q, r, b), act) = AllOf(q, act) \cup {b}
         /\ \A x \in RelaySet \ {r} : Joined(q, r, b)[x] = q[x]
<1> DEFINE s == q[r]
           t == Append(s, b)
           q2 == [q EXCEPT ![r] = t]
<1>0. q \in Queues /\ act \in SUBSET BatchSet /\ IsFiniteSet(act) /\ \A x \in RelaySet : Line(q, act, x) BY DEF Limiter
<1>1. /\ s \in Seq(BatchSet) /\ Len(s) \in Nat /\ DOMAIN s = 1 .. Len(s)
      /\ Range(s) = {s[n] : n \in 1 .. Len(s)}
  BY <1>0, QueueOf
<1>2. /\ t \in Seq(BatchSet) /\ Len(t) = Len(s) + 1 /\ DOMAIN t = 1 .. (Len(s) + 1)
      /\ \A n \in 1 .. Len(s) : t[n] = s[n]
      /\ t[Len(s) + 1] = b
  BY <1>1, AppendProperties, LenProperties
<1>3. Range(t) = Range(s) \cup {b}
  <2>1. Range(t) = {t[n] : n \in 1 .. (Len(s) + 1)} BY <1>2 DEF Range
  <2>2. \A n \in 1 .. (Len(s) + 1) : n \in 1 .. Len(s) \/ n = Len(s) + 1 BY <1>1
  <2>3. \A n \in 1 .. Len(s) : n \in 1 .. (Len(s) + 1) BY <1>1
  <2>4. Len(s) + 1 \in 1 .. (Len(s) + 1) BY <1>1
  <2> HIDE DEF t, s
  <2> QED BY <2>1, <2>2, <2>3, <2>4, <1>1, <1>2
<1> HIDE DEF t
<1>4. q2 \in Queues /\ q2[r] = t /\ \A x \in RelaySet \ {r} : q2[x] = q[x] BY <1>0, <1>2 DEF Queues
<1> HIDE DEF q2
<1>5. AllOf(q2, act) = AllOf(q, act) \cup {b}
  <2>1. ASSUME NEW y, y \in AllOf(q2, act) PROVE y \in AllOf(q, act) \cup {b}
    <3>1. CASE y \in act BY <3>1 DEF AllOf
    <3>2. CASE y \notin act
      <4>1. PICK x \in RelaySet : y \in Range(q2[x]) BY <2>1, <3>2 DEF AllOf
      <4>2. y \in Range(q[x]) \cup {b} BY <4>1, <1>3, <1>4
      <4> QED BY <4>1, <4>2 DEF AllOf
    <3> QED BY <3>1, <3>2
  <2>2. ASSUME NEW y, y \in AllOf(q, act) \cup {b} PROVE y \in AllOf(q2, act)
    <3>1. CASE y \in act BY <3>1 DEF AllOf
    <3>2. CASE y = b
      <4>1. y \in Range(q2[r]) BY <3>2, <1>3, <1>4
      <4> QED BY <4>1 DEF AllOf
    <3>3. CASE y \notin act /\ y # b
      <4>1. PICK x \in RelaySet : y \in Range(q[x]) BY <2>2, <3>3 DEF AllOf
      <4>2. y \in Range(q2[x]) BY <4>1, <1>3, <1>4
      <4> QED BY <4>1, <4>2 DEF AllOf
    <3> QED BY <3>1, <3>2, <3>3
  <2> QED BY <2>1, <2>2
<1>6. b \notin act /\ b \notin Range(s) BY DEF AllOf
<1>7. ASSUME NEW x \in RelaySet PROVE Line(q2, act, x)
  <2>1. CASE x # r
    <3>1. q2[x] = q[x] BY <2>1, <1>4
    <3> QED BY <3>1, <1>0 DEF Line
  <2>2. CASE x = r
    <3>1. \A n \in 1 .. Len(s) : s[n].relay = r /\ s[n] \notin act /\ s[n] # b BY <1>0, <1>1, <1>6 DEF Line
    <3>2. \A m, n \in 1 .. Len(s) : m # n => s[m] # s[n] BY <1>0, <1>1 DEF Line
    <3> HIDE DEF s
    <3>3. ASSUME NEW n \in 1 .. (Len(s) + 1) PROVE t[n].relay = r /\ t[n] \notin act
      <4>1. CASE n = Len(s) + 1 BY <4>1, <1>2, <1>6
      <4>2. CASE n # Len(s) + 1
        <5>1. n \in 1 .. Len(s) BY <4>2, <1>1
        <5> QED BY <5>1, <3>1, <1>2
      <4> QED BY <4>1, <4>2
    <3>4. ASSUME NEW m \in 1 .. (Len(s) + 1), NEW n \in 1 .. (Len(s) + 1), m # n PROVE t[m] # t[n]
      <4>1. (m \in 1 .. Len(s) \/ m = Len(s) + 1) /\ (n \in 1 .. Len(s) \/ n = Len(s) + 1) BY <1>1
      <4> QED BY <4>1, <3>1, <3>2, <3>4, <1>2
    <3>5. Cardinality(Under(act, r)) <= MaxBatches BY <1>0 DEF Line
    <3> QED BY <2>2, <3>3, <3>4, <3>5, <1>2, <1>4 DEF Line
  <2> QED BY <2>1, <2>2
<1>8. Limiter(q2, act) BY <1>0, <1>4, <1>7 DEF Limiter
<1> QED BY <1>4, <1>5, <1>8 DEF q2, t, s, Joined

\* A batch under way that ends.
LEMMA ActiveLess ==
  ASSUME NEW q, NEW act, Limiter(q, act), Attentive(q, act), NEW b \in act
  PROVE  /\ Limiter(q, act \ {b}) /\ AllOf(q, act \ {b}) = AllOf(q, act) \ {b}
         /\ \A r \in RelaySet \ {b.relay} : Attended(q, act \ {b}, r)
<1>0. q \in Queues /\ act \in SUBSET BatchSet /\ IsFiniteSet(act) /\ \A x \in RelaySet : Line(q, act, x) BY DEF Limiter
<1>1. IsFiniteSet(act \ {b}) BY <1>0, FS_RemoveElement
<1>2. ASSUME NEW r \in RelaySet PROVE b \notin Range(q[r])
  <2> SUFFICES ASSUME b \in Range(q[r]) PROVE FALSE OBVIOUS
  <2>1. PICK n \in DOMAIN q[r] : q[r][n] = b BY DEF Range
  <2>2. Line(q, act, r) BY <1>0
  <2> QED BY <2>1, <2>2 DEF Line
<1>3. AllOf(q, act \ {b}) = AllOf(q, act) \ {b} BY <1>2 DEF AllOf
<1>4. ASSUME NEW r \in RelaySet PROVE Line(q, act \ {b}, r)
  <2>1. Under(act \ {b}, r) \subseteq Under(act, r) BY DEF Under
  <2>2. Cardinality(Under(act \ {b}, r)) <= Cardinality(Under(act, r)) /\ Cardinality(Under(act, r)) \in Nat
        /\ Cardinality(Under(act \ {b}, r)) \in Nat
    BY <2>1, <1>0, <1>1, UnderFinite, FS_Subset
  <2>3. Cardinality(Under(act, r)) <= MaxBatches /\ MaxBatches \in Nat BY <1>0, DownloadConstants DEF Line
  <2>4. Cardinality(Under(act \ {b}, r)) <= MaxBatches BY <2>2, <2>3
  <2> QED BY <2>4, <1>0 DEF Line
<1>5. ASSUME NEW r \in RelaySet \ {b.relay} PROVE Attended(q, act \ {b}, r)
  <2>1. Under(act \ {b}, r) = Under(act, r) BY DEF Under
  <2> QED BY <2>1 DEF Attentive, Attended
<1>6. Limiter(q, act \ {b}) BY <1>0, <1>1, <1>4 DEF Limiter
<1> QED BY <1>3, <1>5, <1>6

\* A batch under way that has received an event.
LEMMA ActiveChanged ==
  ASSUME NEW q, NEW act, Limiter(q, act), Attentive(q, act), NEW b \in act, NEW c \in BatchSet, c.relay = b.relay,
         c = b \/ c \notin AllOf(q, act)
  PROVE  /\ Limiter(q, (act \ {b}) \cup {c}) /\ AllOf(q, (act \ {b}) \cup {c}) = (AllOf(q, act) \ {b}) \cup {c}
         /\ Attentive(q, (act \ {b}) \cup {c})
<1> DEFINE a == act \ {b}
           e == a \cup {c}
<1>0. q \in Queues /\ act \in SUBSET BatchSet /\ IsFiniteSet(act) BY DEF Limiter
<1>1. /\ Limiter(q, a) /\ AllOf(q, a) = AllOf(q, act) \ {b}
      /\ \A r \in RelaySet \ {b.relay} : Attended(q, a, r)
  BY ActiveLess
<1>2. AllOf(q, e) = AllOf(q, a) \cup {c} BY DEF AllOf
<1>3. c \notin AllOf(q, a) BY <1>1
<1>4. IsFiniteSet(a) /\ IsFiniteSet(e) /\ e \in SUBSET BatchSet BY <1>0, FS_RemoveElement, FS_AddElement
<1>5. \A r \in RelaySet : r # b.relay => Under(e, r) = Under(a, r) BY DEF Under
<1>6. /\ Under(e, b.relay) = Under(a, b.relay) \cup {c} /\ c \notin Under(a, b.relay)
      /\ Under(act, b.relay) = Under(a, b.relay) \cup {b} /\ b \notin Under(a, b.relay)
  <2>1. c \notin a BY <1>3 DEF AllOf
  <2> QED BY <2>1 DEF Under
<1>7. Cardinality(Under(e, b.relay)) = Cardinality(Under(act, b.relay))
  <2>1. IsFiniteSet(Under(a, b.relay)) BY <1>4, UnderFinite
  <2> HIDE DEF a, e
  <2>2. Cardinality(Under(a, b.relay) \cup {c}) = Cardinality(Under(a, b.relay)) + 1 BY <2>1, <1>6, FS_AddElement
  <2>3. Cardinality(Under(a, b.relay) \cup {b}) = Cardinality(Under(a, b.relay)) + 1 BY <2>1, <1>6, FS_AddElement
  <2> QED BY <2>2, <2>3, <1>6
<1>8. ASSUME NEW r \in RelaySet PROVE Line(q, e, r) /\ Attended(q, e, r)
  <2>1. Line(q, a, r) /\ Line(q, act, r) /\ Attended(q, act, r) BY <1>1 DEF Limiter, Attentive
  <2>2. \A n \in DOMAIN q[r] : q[r][n] \notin e
    <3>1. c \notin Range(q[r]) BY <1>3 DEF AllOf
    <3>2. \A n \in DOMAIN q[r] : q[r][n] # c BY <3>1 DEF Range
    <3> QED BY <3>2, <2>1 DEF Line
  <2>3. CASE r # b.relay BY <2>1, <2>2, <2>3, <1>1, <1>5 DEF Line, Attended
  <2>4. CASE r = b.relay BY <2>1, <2>2, <2>4, <1>6, <1>7 DEF Line, Attended
  <2> QED BY <2>3, <2>4
<1> HIDE DEF e
<1>9. Limiter(q, e) /\ Attentive(q, e) BY <1>0, <1>4, <1>8 DEF Limiter, Attentive
<1> QED BY <1>1, <1>2, <1>9 DEF e

\* What the limiter starts for a relay.
Free(act, r) == MaxBatches - Cardinality(Under(act, r))
Starts(q, act, r) == Min({Free(act, r), Len(q[r])})
StartedOf(q, act, r) == {q[r][i] : i \in 1 .. Starts(q, act, r)}
LeftOf(q, act, r) == SubSeq(q[r], Starts(q, act, r) + 1, Len(q[r]))

\* What a queue has left without its first elements.
LEMMA Dropped ==
  ASSUME NEW S, NEW s \in Seq(S), NEW n \in Nat, NEW z \in Nat, z = Len(s), n <= z
  PROVE  /\ SubSeq(s, n + 1, z) \in Seq(S) /\ Len(SubSeq(s, n + 1, z)) = z - n
         /\ DOMAIN SubSeq(s, n + 1, z) = 1 .. (z - n)
         /\ \A i \in 1 .. (z - n) : SubSeq(s, n + 1, z)[i] = s[n + i]
         /\ SubSeq(s, n + 1, z) # <<>> => n < z
<1> DEFINE m == n + 1
           t == SubSeq(s, m, z)
<1>1. m \in Int /\ z \in Int /\ \A i \in m .. z : s[i] \in S
  <2>1. \A i \in m .. z : i \in 1 .. Len(s) OBVIOUS
  <2> QED BY <2>1, ElementOfSeq
<1> HIDE DEF t
<1>2. /\ t \in Seq(S) /\ Len(t) = IF m <= z THEN z - m + 1 ELSE 0
      /\ \A i \in 1 .. z - m + 1 : t[i] = s[m + i - 1]
  <2> HIDE DEF m
  <2> QED BY <1>1, SubSeqProperties DEF t
<1>3. Len(t) = z - n BY <1>2
<1>4. \A i \in 1 .. (z - n) : t[i] = s[n + i]
  <2> SUFFICES ASSUME NEW i \in 1 .. (z - n) PROVE t[i] = s[n + i] OBVIOUS
  <2>1. i \in 1 .. z - m + 1 /\ m + i - 1 = n + i OBVIOUS
  <2>2. t[i] = s[m + i - 1] BY <1>2, <2>1
  <2> QED BY <2>1, <2>2
<1>5. DOMAIN t = 1 .. (z - n) BY <1>2, <1>3, LenProperties
<1>6. t # <<>> => n < z
  <2>1. t # <<>> => Len(t) # 0 BY <1>2, EmptySeq
  <2> QED BY <2>1, <1>3
<1> QED BY <1>2, <1>3, <1>4, <1>5, <1>6 DEF t

\* Draining moves the first batches of a queue to those under way; nobody waits
\* for a relay that has nothing under way.
LEMMA DrainLimiter ==
  ASSUME NEW q, NEW act, Limiter(q, act), NEW r \in RelaySet, \A x \in RelaySet \ {r} : Attended(q, act, x)
  PROVE  /\ Limiter([q EXCEPT ![r] = LeftOf(q, act, r)], act \cup StartedOf(q, act, r))
         /\ Attentive([q EXCEPT ![r] = LeftOf(q, act, r)], act \cup StartedOf(q, act, r))
         /\ AllOf([q EXCEPT ![r] = LeftOf(q, act, r)], act \cup StartedOf(q, act, r)) = AllOf(q, act)
<1> DEFINE s == q[r]
           n == Starts(q, act, r)
           new == StartedOf(q, act, r)
           t == LeftOf(q, act, r)
           q2 == [q EXCEPT ![r] = t]
           a2 == act \cup new
           free == Free(act, r)
<1>0. q \in Queues /\ act \in SUBSET BatchSet /\ IsFiniteSet(act) /\ \A x \in RelaySet : Line(q, act, x) BY DEF Limiter
<1>1. /\ s \in Seq(BatchSet) /\ Len(s) \in Nat /\ DOMAIN s = 1 .. Len(s)
      /\ Range(s) = {s[i] : i \in 1 .. Len(s)} /\ \A i \in 1 .. Len(s) : s[i] \in BatchSet
      /\ s = <<>> <=> Len(s) = 0
  BY <1>0, QueueOf
<1>2. free \in Nat /\ free = MaxBatches - Cardinality(Under(act, r)) /\ Cardinality(Under(act, r)) \in Nat /\ MaxBatches \in Nat \ {0}
  <2>1. Cardinality(Under(act, r)) \in Nat BY <1>0, UnderFinite
  <2>2. Cardinality(Under(act, r)) <= MaxBatches BY <1>0 DEF Line
  <2>3. MaxBatches \in Nat \ {0} BY DownloadConstants
  <2> QED BY <2>1, <2>2, <2>3 DEF Free
<1>3. n \in Nat /\ n <= free /\ n <= Len(s) /\ (n < Len(s) => n = free)
  <2> DEFINE x == Len(s)
  <2>1. x \in Nat /\ free \in Nat BY <1>1, <1>2
  <2>2. n = Min({free, x}) BY DEF Starts
  <2> HIDE DEF x, free, n
  <2>3. Min({free, x}) = IF free <= x THEN free ELSE x BY <2>1, MinOfTwo
  <2>4. n \in Nat /\ n <= free /\ n <= x /\ (n < x => n = free) BY <2>1, <2>2, <2>3
  <2> QED BY <2>4 DEF x
<1>4. new = {s[i] : i \in 1 .. n} BY DEF StartedOf
<1>5. t = SubSeq(s, n + 1, Len(s)) BY DEF LeftOf
<1> HIDE DEF s, n, new, t, free
<1>6. /\ t \in Seq(BatchSet) /\ Len(t) = Len(s) - n /\ DOMAIN t = 1 .. (Len(s) - n)
      /\ \A i \in 1 .. (Len(s) - n) : t[i] = s[n + i]
      /\ t # <<>> => n < Len(s)
  <2> DEFINE z == Len(s)
  <2>1. z \in Nat /\ n \in Nat /\ n <= z /\ s \in Seq(BatchSet) /\ t = SubSeq(s, n + 1, z) BY <1>1, <1>3, <1>5
  <2> HIDE DEF z
  <2>2. z = Len(s) BY DEF z
  <2>3. /\ SubSeq(s, n + 1, z) \in Seq(BatchSet) /\ Len(SubSeq(s, n + 1, z)) = z - n
        /\ DOMAIN SubSeq(s, n + 1, z) = 1 .. (z - n)
        /\ \A i \in 1 .. (z - n) : SubSeq(s, n + 1, z)[i] = s[n + i]
        /\ SubSeq(s, n + 1, z) # <<>> => n < z
    BY <2>1, <2>2, Dropped
  <2> QED BY <2>1, <2>2, <2>3
<1>7. /\ \A i \in 1 .. Len(s) : s[i].relay = r /\ s[i] \notin act
      /\ \A i, j \in 1 .. Len(s) : i # j => s[i] # s[j]
  BY <1>0, <1>1 DEF Line, s
<1>8. new \subseteq BatchSet /\ IsFiniteSet(new) /\ Cardinality(new) <= n /\ Cardinality(new) \in Nat
  <2> DEFINE f == [i \in 1 .. n |-> s[i]]
  <2>1. IsFiniteSet(1 .. n) /\ Cardinality(1 .. n) = n
    <3>1. 1 \in Int /\ n \in Int /\ (IF 1 > n THEN 0 ELSE n - 1 + 1) = n BY <1>3
    <3> QED BY <3>1, FS_Interval
  <2>2. f \in Surjection(1 .. n, new) BY <1>4 DEF Surjection
  <2>3. IsFiniteSet(new) /\ Cardinality(new) <= n BY <2>1, <2>2, FS_Surjection
  <2>4. \A i \in 1 .. n : i \in 1 .. Len(s) BY <1>1, <1>3
  <2> QED BY <2>3, <2>4, <1>1, <1>4, FS_CardinalityType
<1>9. q2 \in Queues /\ q2[r] = t /\ \A x \in RelaySet \ {r} : q2[x] = q[x] BY <1>0, <1>6 DEF Queues
<1>10. a2 \in SUBSET BatchSet /\ IsFiniteSet(a2) BY <1>0, <1>8, FS_Union
<1>11. \A b \in new : b.relay = r /\ \E i \in 1 .. n : b = s[i] BY <1>4, <1>7, <1>3, <1>1
<1>12. \A x \in RelaySet \ {r} : Under(a2, x) = Under(act, x) BY <1>11 DEF Under
<1>13. Under(a2, r) = Under(act, r) \cup new BY <1>11 DEF Under
<1>14. Range(s) = Range(t) \cup new
  <2>1. Range(t) = {t[i] : i \in 1 .. (Len(s) - n)} BY <1>6 DEF Range
  <2>2. \A i \in 1 .. (Len(s) - n) : n + i \in 1 .. Len(s) BY <1>1, <1>3
  <2>3. \A i \in 1 .. Len(s) : i \in 1 .. n \/ (i - n \in 1 .. (Len(s) - n) /\ n + (i - n) = i) BY <1>1, <1>3
  <2>4. \A i \in 1 .. n : i \in 1 .. Len(s) BY <1>1, <1>3
  <2>5. ASSUME NEW y \in Range(s) PROVE y \in Range(t) \cup new
    <3>1. PICK i \in 1 .. Len(s) : y = s[i] BY <1>1
    <3>2. CASE i \in 1 .. n BY <3>1, <3>2, <1>4
    <3>3. CASE i - n \in 1 .. (Len(s) - n) /\ n + (i - n) = i BY <3>1, <3>3, <1>6, <2>1
    <3> QED BY <2>3, <3>2, <3>3
  <2>6. ASSUME NEW y \in Range(t) \cup new PROVE y \in Range(s)
    <3>1. CASE y \in new BY <3>1, <1>1, <1>4, <2>4
    <3>2. CASE y \in Range(t)
      <4>1. PICK i \in 1 .. (Len(s) - n) : y = t[i] BY <2>1, <3>2
      <4> QED BY <4>1, <1>1, <1>6, <2>2
    <3> QED BY <2>6, <3>1, <3>2
  <2> QED BY <2>5, <2>6
<1> HIDE DEF q2, a2
<1>15. AllOf(q2, a2) = AllOf(q, act)
  <2>1. \A y : y \in a2 <=> y \in act \/ y \in new BY DEF a2
  <2>2. \A x \in RelaySet : Range(q2[x]) \cup (IF x = r THEN new ELSE {}) = Range(q[x]) BY <1>9, <1>14 DEF s
  <2>3. ASSUME NEW y, y \in AllOf(q2, a2) PROVE y \in AllOf(q, act)
    <3>1. CASE y \in act BY <3>1 DEF AllOf
    <3>2. CASE y \in new BY <3>2, <2>2 DEF AllOf
    <3>3. CASE \E x \in RelaySet : y \in Range(q2[x]) BY <3>3, <2>2 DEF AllOf
    <3> QED BY <2>1, <2>3, <3>1, <3>2, <3>3 DEF AllOf
  <2>4. ASSUME NEW y, y \in AllOf(q, act) PROVE y \in AllOf(q2, a2)
    <3>1. CASE y \in act BY <3>1, <2>1 DEF AllOf
    <3>2. CASE \E x \in RelaySet : y \in Range(q[x])
      <4>1. PICK x \in RelaySet : y \in Range(q[x]) BY <3>2
      <4>2. y \in Range(q2[x]) \/ y \in new BY <4>1, <2>2
      <4> QED BY <4>2, <2>1 DEF AllOf
    <3> QED BY <2>4, <3>1, <3>2 DEF AllOf
  <2> QED BY <2>3, <2>4
<1>16. ASSUME NEW x \in RelaySet PROVE Line(q2, a2, x) /\ Attended(q2, a2, x)
  <2>1. CASE x # r
    <3>1. q2[x] = q[x] /\ Under(a2, x) = Under(act, x) /\ Line(q, act, x) /\ Attended(q, act, x) BY <2>1, <1>0, <1>9, <1>12
    <3>2. \A i \in DOMAIN q[x] : q[x][i] \notin a2
      <4>1. \A i \in DOMAIN q[x] : q[x][i].relay = x /\ q[x][i] \notin act BY <3>1 DEF Line
      <4> QED BY <4>1, <1>11, <2>1 DEF a2
    <3> QED BY <3>1, <3>2 DEF Line, Attended
  <2>2. CASE x = r
    <3>1. \A i \in 1 .. (Len(s) - n) : n + i \in 1 .. Len(s) /\ ~(n + i \in 1 .. n) BY <1>1, <1>3
    <3>2. \A i \in DOMAIN t : t[i].relay = r /\ t[i] \notin a2
      <4> SUFFICES ASSUME NEW i \in 1 .. (Len(s) - n) PROVE t[i].relay = r /\ t[i] \notin a2 BY <1>6
      <4>1. t[i] = s[n + i] /\ n + i \in 1 .. Len(s) /\ n + i \notin 1 .. n BY <3>1, <1>6
      <4>2. \A j \in 1 .. n : j \in 1 .. Len(s) /\ j # n + i BY <1>1, <1>3, <4>1
      <4>3. s[n + i] \notin new BY <4>1, <4>2, <1>4, <1>7
      <4> QED BY <4>1, <4>3, <1>7 DEF a2
    <3>3. \A i, j \in DOMAIN t : i # j => t[i] # t[j]
      <4> SUFFICES ASSUME NEW i \in 1 .. (Len(s) - n), NEW j \in 1 .. (Len(s) - n), i # j PROVE t[i] # t[j] BY <1>6
      <4>1. n + i # n + j BY <1>3
      <4> QED BY <4>1, <3>1, <1>6, <1>7
    <3>4. Cardinality(Under(a2, r)) <= MaxBatches
      <4>1. IsFiniteSet(Under(act, r)) BY <1>0, UnderFinite
      <4>2. Cardinality(Under(act, r) \cup new) = Cardinality(Under(act, r)) + Cardinality(new) - Cardinality(Under(act, r) \cap new)
            /\ Cardinality(Under(act, r) \cap new) \in Nat
        <5>1. IsFiniteSet(Under(act, r) \cap new) BY <4>1, FS_Intersection
        <5> QED BY <4>1, <5>1, <1>8, FS_Union, FS_CardinalityType
      <4> QED BY <4>2, <1>2, <1>3, <1>8, <1>13
    <3>5. ASSUME t # <<>> PROVE Under(a2, r) # {}
      <4>2. n < Len(s) BY <3>5, <1>6
      <4>3. n = free BY <4>2, <1>3
      <4>4. CASE free = 0
        <5>1. Cardinality(Under(act, r)) # 0 BY <4>4, <1>2
        <5>2. Under(act, r) # {} BY <5>1, FS_EmptySet
        <5> QED BY <5>2, <1>13
      <4>5. CASE free # 0
        <5>1. 1 \in 1 .. n BY <4>3, <4>5, <1>2
        <5>2. s[1] \in new BY <5>1, <1>4
        <5> QED BY <5>2, <1>13
      <4> QED BY <4>4, <4>5
    <3> QED BY <2>2, <3>2, <3>3, <3>4, <3>5, <1>9 DEF Line, Attended
  <2> QED BY <2>1, <2>2
<1>17. Limiter(q2, a2) /\ Attentive(q2, a2) BY <1>9, <1>10, <1>16 DEF Limiter, Attentive, a2
<1> QED BY <1>15, <1>17 DEF q2, a2, t, new

-----------------------------------------------------------------------------
(***************************************************************************)
(* A download s under a plan p, with the chunks hv handed on and the       *)
(* answers ms that lacked one.  Kept holds at every point of a task,       *)
(* between any two calls.                                                  *)
(***************************************************************************)
Book(p, s, k, hv, ms) ==
  /\ RangeOK(p, s.total, s.next, k, s.ranges[k], hv)
  /\ Flown(s.total, s.ranges[k], Running(s, k), ms)
  /\ s.ranges[k].told \subseteq s.told

\* Ranges lie apart, each of them one interval of indexes before the next one.
Apart(s) == \A j, k \in DOMAIN s.ranges : j < k => s.ranges[j].max < k
Books(p, s, hv, ms) ==
  /\ \A k \in DOMAIN s.ranges : Book(p, s, k, hv, ms)
  /\ Apart(s) /\ \A b \in Batches(s) : b.range \in DOMAIN s.ranges

\* What was handed on is counted; what lies ahead is in store or still to come.
Progress(p, s, hv) ==
  /\ IsFiniteSet(hv) /\ hv \subseteq Int /\ s.count = Cardinality(hv) /\ p.cached \subseteq hv
  /\ s.total \in {Unknown, p.total} /\ (p.known => s.total = p.total) /\ (s.total = Unknown => hv = {} /\ s.begun)
  /\ 0 <= s.next /\ \A i \in hv : i >= s.next => i \in p.cached

\* What is told lost was answered by every relay, in the last phase there is.
Told(p, s, ms) == \A i \in s.told : \A r \in RelaySet : <<r, i, p.fallback>> \in ms

\* Every chunk asked for is handed on, given up, in a range, or of one to come.
\* A total learnt late ends the second phase before it began.
Faithful(p) == p.known \/ ~p.fallback
Accounted(p, s, hv) ==
  s.running /\ Faithful(p) =>
    \A i \in p.from .. p.to :
      \/ i \in hv \cup s.told \/ i >= s.next
      \/ \E k \in DOMAIN s.ranges : k <= i /\ i <= s.ranges[k].max

Over(s) == ~s.running => DOMAIN s.ranges = {} /\ Batches(s) = {}

Kept(p, s, hv, ms) ==
  /\ s \in Downs /\ Books(p, s, hv, ms) /\ Limiter(s.queue, s.active) /\ Attentive(s.queue, s.active)
  /\ Progress(p, s, hv) /\ Told(p, s, ms) /\ Accounted(p, s, hv) /\ Over(s)

\* Batches are those under way and those that wait.
LEMMA BatchesAre ==
  ASSUME NEW s
  PROVE  Batches(s) = AllOf(s.queue, s.active) /\ \A k : Running(s, k) = {b \in AllOf(s.queue, s.active) : b.range = k}
BY DEF Batches, AllOf, Running

\* What a download is made of.
LEMMA DownParts ==
  ASSUME NEW s \in Downs
  PROVE  /\ s.running \in BOOLEAN /\ s.total \in Nat /\ s.next \in Int /\ s.begun \in BOOLEAN /\ s.count \in Int
         /\ s.told \in SUBSET Int /\ s.ranges \in Partitions /\ s.queue \in Queues /\ s.active \in SUBSET BatchSet
         /\ s.cancelled \in BOOLEAN /\ DOMAIN s.ranges \subseteq Int /\ \A k \in DOMAIN s.ranges : s.ranges[k] \in RangeSet
<1>1. /\ s.running \in BOOLEAN /\ s.total \in Nat /\ s.next \in Int /\ s.begun \in BOOLEAN /\ s.count \in Int
      /\ s.told \in SUBSET Int /\ s.ranges \in Partitions /\ s.queue \in Queues /\ s.active \in SUBSET BatchSet
      /\ s.cancelled \in BOOLEAN
  BY DEF Downs
<1>2. DOMAIN s.ranges \subseteq Int /\ \A k \in DOMAIN s.ranges : s.ranges[k] \in RangeSet BY <1>1, PartitionOK
<1> QED BY <1>1, <1>2

\* One range of a partition changes.
LEMMA PartitionChanged ==
  ASSUME NEW f \in Partitions, NEW k \in DOMAIN f, NEW g \in RangeSet
  PROVE  /\ [f EXCEPT ![k] = g] \in Partitions /\ DOMAIN [f EXCEPT ![k] = g] = DOMAIN f
         /\ [f EXCEPT ![k] = g][k] = g /\ \A j \in DOMAIN f \ {k} : [f EXCEPT ![k] = g][j] = f[j]
<1> DEFINE h == [f EXCEPT ![k] = g]
<1>1. f = [j \in DOMAIN f |-> f[j]] /\ DOMAIN f \subseteq Int /\ \A j \in DOMAIN f : f[j] \in RangeSet BY PartitionOK
<1>2. h = [j \in DOMAIN f |-> h[j]] /\ DOMAIN h = DOMAIN f /\ h[k] = g /\ \A j \in DOMAIN f \ {k} : h[j] = f[j] BY <1>1
<1> HIDE DEF h
<1>3. h \in Partitions BY <1>1, <1>2, PartitionOK
<1> QED BY <1>2, <1>3 DEF h

\* A range joins a partition.
LEMMA PartitionMore ==
  ASSUME NEW f \in Partitions, NEW g \in RangeSet
  PROVE  /\ Starting(f, g) \in Partitions /\ DOMAIN Starting(f, g) = DOMAIN f \cup {g.start}
         /\ Starting(f, g)[g.start] = g /\ \A j \in DOMAIN f \ {g.start} : Starting(f, g)[j] = f[j]
<1> DEFINE h == Starting(f, g)
           k == g.start
<1>1. DOMAIN f \subseteq Int /\ \A j \in DOMAIN f : f[j] \in RangeSet BY PartitionOK
<1>2. k \in Int BY DEF RangeSet
<1>3. h = [j \in DOMAIN h |-> h[j]] /\ DOMAIN h = DOMAIN f \cup {k} /\ h[k] = g /\ \A j \in DOMAIN f \ {k} : h[j] = f[j]
  BY DEF Starting
<1> HIDE DEF h, k
<1>4. h \in Partitions BY <1>1, <1>2, <1>3, PartitionOK
<1> QED BY <1>3, <1>4 DEF h, k

\* A range leaves a partition; none is left at the end.
LEMMA PartitionLess ==
  ASSUME NEW s, s.ranges \in Partitions, NEW k
  PROVE  /\ Without(s, k) \in Partitions /\ DOMAIN Without(s, k) = DOMAIN s.ranges \ {k}
         /\ \A j \in DOMAIN s.ranges \ {k} : Without(s, k)[j] = s.ranges[j]
<1> DEFINE f == s.ranges
           h == Without(s, k)
<1>1. DOMAIN f \subseteq Int /\ \A j \in DOMAIN f : f[j] \in RangeSet BY PartitionOK
<1>2. h = [j \in DOMAIN h |-> h[j]] /\ DOMAIN h = DOMAIN f \ {k} /\ \A j \in DOMAIN f \ {k} : h[j] = f[j]
  BY DEF Without
<1> HIDE DEF h, f
<1>3. h \in Partitions BY <1>1, <1>2, PartitionOK
<1> QED BY <1>2, <1>3 DEF h, f

\* No range at all is a partition too.
LEMMA PartitionNone == <<>> \in Partitions /\ DOMAIN <<>> = {}
<1>1. DOMAIN <<>> = {} /\ <<>> \in [{} -> RangeSet] OBVIOUS
<1> QED BY <1>1 DEF Partitions

\* One range of s and its batches have become others in order, with chunks
\* handed on that are of this range.
Swapped(p, s, t, k, g, hv, hv2, ms, ms2) ==
  /\ k \in DOMAIN s.ranges /\ t.ranges = [s.ranges EXCEPT ![k] = g] /\ t.next = s.next
  /\ t.total = s.total \/ DOMAIN s.ranges = {k}
  /\ s.told \subseteq t.told /\ g.told \subseteq t.told /\ g.max = s.ranges[k].max
  /\ hv \subseteq hv2 /\ hv2 \ hv \subseteq k .. g.max /\ ms \subseteq ms2
  /\ RangeOK(p, t.total, t.next, k, g, hv2) /\ Flown(t.total, g, Running(t, k), ms2)
  /\ \A j \in DOMAIN s.ranges \ {k} : Running(t, j) = Running(s, j)
  /\ \A b \in Batches(t) : b \in Batches(s) \/ b.range = k

\* The books are kept then.
LEMMA OneRange ==
  ASSUME NEW s \in Downs, NEW t, NEW hv, NEW hv2, NEW ms, NEW ms2, Books(plan, s, hv, ms), NEW k, NEW g,
         Swapped(plan, s, t, k, g, hv, hv2, ms, ms2)
  PROVE  /\ Books(plan, t, hv2, ms2) /\ t.ranges \in Partitions /\ DOMAIN t.ranges = DOMAIN s.ranges
         /\ t.ranges[k] = g /\ \A j \in DOMAIN s.ranges \ {k} : t.ranges[j] = s.ranges[j]
<1> USE DEF Swapped
<1>0. s.ranges \in Partitions /\ DOMAIN s.ranges \subseteq Int /\ s.next \in Int /\ \A j \in DOMAIN s.ranges : s.ranges[j] \in RangeSet
  BY DownParts
<1>1. g \in RangeSet BY DEF RangeOK
<1>2. /\ t.ranges \in Partitions /\ DOMAIN t.ranges = DOMAIN s.ranges
      /\ t.ranges[k] = g /\ \A j \in DOMAIN s.ranges \ {k} : t.ranges[j] = s.ranges[j]
  BY <1>0, <1>1, PartitionChanged
<1>3. ASSUME NEW j \in DOMAIN s.ranges, j # k PROVE Book(plan, t, j, hv2, ms2)
  <2> DEFINE h == s.ranges[j]
  <2>1. t.total = s.total BY <1>3
  <2>2. RangeOK(plan, s.total, s.next, j, h, hv) /\ Flown(s.total, h, Running(s, j), ms) /\ h.told \subseteq s.told
    BY DEF Books, Book
  <2>3. hv2 \cap (j .. h.max) \subseteq hv
    <3>1. j \in Int /\ k \in Int /\ h.max \in Int /\ g.max \in Int BY <1>0, <1>1 DEF RangeSet
    <3>2. CASE j < k
      <4>1. h.max < k BY <3>2 DEF Books, Apart
      <4> QED BY <3>1, <4>1
    <3>3. CASE k < j
      <4>1. g.max < j BY <3>3 DEF Books, Apart
      <4> QED BY <3>1, <4>1
    <3> QED BY <3>1, <3>2, <3>3, <1>3
  <2> HIDE DEF h
  <2>4. RangeOK(plan, s.total, s.next, j, h, hv2)
    <3>1. s.next <= s.next /\ hv \subseteq hv2 BY <1>0
    <3> QED BY <3>1, <1>0, <2>2, <2>3, RangeGoesOn
  <2>5. Flown(s.total, h, Running(s, j), ms2) BY <2>2, FlownGoesOn
  <2>6. t.ranges[j] = h /\ Running(t, j) = Running(s, j) BY <1>2, <1>3 DEF h
  <2> QED BY <2>1, <2>2, <2>4, <2>5, <2>6 DEF Book
<1>4. Book(plan, t, k, hv2, ms2) BY <1>2 DEF Book
<1>5. Apart(t)
  <2>1. \A j \in DOMAIN s.ranges : t.ranges[j].max = s.ranges[j].max BY <1>2
  <2> QED BY <1>2, <2>1 DEF Books, Apart
<1>6. \A b \in Batches(t) : b.range \in DOMAIN t.ranges BY <1>2 DEF Books
<1>7. Books(plan, t, hv2, ms2) BY <1>2, <1>3, <1>4, <1>5, <1>6 DEF Books
<1> QED BY <1>2, <1>7

\* The limiter moves batches, and changes nothing else.
LEMMA DrainKeeps ==
  ASSUME NEW s \in Downs, Limiter(s.queue, s.active), NEW r \in RelaySet,
         \A x \in RelaySet \ {r} : Attended(s.queue, s.active, x)
  PROVE  /\ Drain(s, r) \in Downs
         /\ Limiter(Drain(s, r).queue, Drain(s, r).active) /\ Attentive(Drain(s, r).queue, Drain(s, r).active)
         /\ Batches(Drain(s, r)) = Batches(s) /\ \A k : Running(Drain(s, r), k) = Running(s, k)
         /\ Drain(s, r).running = s.running /\ Drain(s, r).total = s.total /\ Drain(s, r).next = s.next
         /\ Drain(s, r).begun = s.begun /\ Drain(s, r).count = s.count /\ Drain(s, r).told = s.told
         /\ Drain(s, r).ranges = s.ranges /\ Drain(s, r).cancelled = s.cancelled
<1> DEFINE q == s.queue
           act == s.active
           q2 == [q EXCEPT ![r] = LeftOf(q, act, r)]
           a2 == act \cup StartedOf(q, act, r)
           t == Drain(s, r)
<1>1. t = [s EXCEPT !.active = a2, !.queue = q2]
  <2>1. Free(act, r) = MaxBatches - Cardinality({b \in s.active : b.relay = r}) BY DEF Free, Under
  <2>2. Starts(q, act, r) = Min({MaxBatches - Cardinality({b \in s.active : b.relay = r}), Len(s.queue[r])}) BY <2>1 DEF Starts
  <2> DEFINE n == Starts(q, act, r)
  <2>3. t = [s EXCEPT !.active = s.active \cup {s.queue[r][i] : i \in 1 .. n},
                      !.queue = [s.queue EXCEPT ![r] = SubSeq(s.queue[r], n + 1, Len(s.queue[r]))]]
    <3>1. n = Min({MaxBatches - Cardinality({b \in s.active : b.relay = r}), Len(s.queue[r])}) BY <2>2
    <3> HIDE DEF n
    <3>2. s.queue \in Queues BY DownParts
    <3> QED BY <3>1, <3>2 DEF Drain, Downs, Queues
  <2> QED BY <2>3 DEF StartedOf, LeftOf
<1>2. /\ Limiter(q2, a2) /\ Attentive(q2, a2) /\ AllOf(q2, a2) = AllOf(q, act) BY DrainLimiter
<1> HIDE DEF q2, a2, t
<1>3. q2 \in Queues /\ a2 \in SUBSET BatchSet BY <1>2 DEF Limiter
<1>4. /\ t \in Downs /\ t.queue = q2 /\ t.active = a2
      /\ t.running = s.running /\ t.total = s.total /\ t.next = s.next
      /\ t.begun = s.begun /\ t.count = s.count /\ t.told = s.told
      /\ t.ranges = s.ranges /\ t.cancelled = s.cancelled
  BY <1>1, <1>3 DEF Downs
<1>5. Batches(t) = Batches(s) /\ \A k : Running(t, k) = Running(s, k)
  <2>1. Batches(t) = AllOf(q2, a2) BY <1>4, BatchesAre
  <2>2. Batches(s) = AllOf(q2, a2) BY <1>2, BatchesAre
  <2> QED BY <2>1, <2>2 DEF Running
<1> QED BY <1>2, <1>4, <1>5 DEF t

\* From s to t only batches were added, and what they ask for is in flight.
Grows(s, t) ==
  /\ t.running = s.running /\ t.total = s.total /\ t.next = s.next /\ t.begun = s.begun /\ t.count = s.count
  /\ t.told = s.told /\ t.cancelled = s.cancelled /\ DOMAIN t.ranges = DOMAIN s.ranges
  /\ \A k \in DOMAIN s.ranges :
       /\ t.ranges[k].loading = s.ranges[k].loading /\ t.ranges[k].missing = s.ranges[k].missing
       /\ t.ranges[k].max = s.ranges[k].max /\ t.ranges[k].told = s.ranges[k].told /\ t.ranges[k].any = s.ranges[k].any
       /\ \A i : Exhausted(t, t.ranges[k], i) => Exhausted(s, s.ranges[k], i)
  /\ \A k : Running(s, k) \subseteq Running(t, k)

\* Growth goes on.
LEMMA GrowsOn == ASSUME NEW s, NEW t, NEW u, Grows(s, t), Grows(t, u) PROVE Grows(s, u)
BY DEF Grows

\* Nothing done is growth.
LEMMA GrowsNone == ASSUME NEW s PROVE Grows(s, s)
BY DEF Grows

\* What growth leaves alone.
LEMMA GrowsRest ==
  ASSUME NEW s, NEW t, NEW hv, NEW ms, Grows(s, t), Progress(plan, s, hv), Told(plan, s, ms), Accounted(plan, s, hv)
  PROVE  Progress(plan, t, hv) /\ Told(plan, t, ms) /\ Accounted(plan, t, hv)
<1>1. /\ t.running = s.running /\ t.total = s.total /\ t.next = s.next /\ t.begun = s.begun /\ t.count = s.count
      /\ t.told = s.told /\ DOMAIN t.ranges = DOMAIN s.ranges
      /\ \A k \in DOMAIN s.ranges : t.ranges[k].max = s.ranges[k].max
  BY DEF Grows
<1>2. Progress(plan, t, hv) BY <1>1 DEF Progress
<1>3. Told(plan, t, ms) BY <1>1 DEF Told
<1>4. Accounted(plan, t, hv)
  <2> SUFFICES ASSUME s.running, Faithful(plan), NEW i \in plan.from .. plan.to
               PROVE  \/ i \in hv \cup t.told \/ i >= t.next
                      \/ \E k \in DOMAIN t.ranges : k <= i /\ i <= t.ranges[k].max
    BY <1>1 DEF Accounted
  <2>1. \/ i \in hv \cup s.told \/ i >= s.next
        \/ \E k \in DOMAIN s.ranges : k <= i /\ i <= s.ranges[k].max
    BY DEF Accounted
  <2> QED BY <1>1, <2>1
<1> QED BY <1>2, <1>3, <1>4

\* A request that finds nothing under way for the range has nothing left to ask for.
Exhausts(s, k, r) == s.running /\ k \in DOMAIN s.ranges => \A a \in BOOLEAN : Open(s.ranges[k], r, a) = {}

\* A relay is asked, or has nothing to be asked for, or is busy.
LEMMA RequestKeeps ==
  ASSUME plan \in Plans, NEW s, NEW hv, NEW ms, Kept(plan, s, hv, ms), NEW k, NEW r \in RelaySet
  PROVE  /\ Kept(plan, Request(s, k, r), hv, ms) /\ Grows(s, Request(s, k, r))
         /\ Request(s, k, r) = s \/ Running(Request(s, k, r), k) # {}
         /\ Running(s, k) = {} /\ Request(s, k, r) = s => Exhausts(s, k, r)
<1> DEFINE g == Of(s, k)
           any == Selected(g, r, FALSE) = {}
           chosen == Selected(g, r, any)
           batch == [range |-> k, relay |-> r, indexes |-> chosen, any |-> any, got |-> {}, half |-> FALSE]
           Idles == \/ ~s.running \/ k \notin DOMAIN s.ranges
                    \/ \E b \in Range(s.queue[r]) : b.range = k
                    \/ Cardinality({b \in Running(s, k) : b.relay = r}) >= MaxBatches
                    \/ chosen = {}
           g2 == Trying(g, r, any, chosen)
           s1 == [s EXCEPT !.ranges[k] = g2, !.queue[r] = Append(@, batch)]
           t == Request(s, k, r)
<1>0. /\ s \in Downs /\ Books(plan, s, hv, ms) /\ Limiter(s.queue, s.active) /\ Attentive(s.queue, s.active)
      /\ Progress(plan, s, hv) /\ Told(plan, s, ms) /\ Accounted(plan, s, hv) /\ Over(s)
  BY DEF Kept
<1>1. t = IF Idles THEN s ELSE Drain(s1, r) BY DEF Request
<1>2. any \in BOOLEAN
  <2>1. CASE Selected(g, r, FALSE) = {} BY <2>1
  <2>2. CASE Selected(g, r, FALSE) # {} BY <2>2
  <2> QED BY <2>1, <2>2
<1>3. ASSUME k \in DOMAIN s.ranges
      PROVE  /\ k \in Int /\ g = s.ranges[k] /\ RangeOK(plan, s.total, s.next, k, g, hv)
             /\ Flown(s.total, g, Running(s, k), ms) /\ g.told \subseteq s.told /\ IsFiniteSet(g.missing)
             /\ \A a \in BOOLEAN : /\ Selected(g, r, a) \subseteq Open(g, r, a) /\ Open(g, r, a) \subseteq g.missing
                                   /\ Open(g, r, a) # {} => Selected(g, r, a) # {}
  <2>1. g = s.ranges[k] /\ k \in Int BY <1>0, <1>3, DownParts DEF Of
  <2> HIDE DEF g
  <2>2. RangeOK(plan, s.total, s.next, k, g, hv) /\ Flown(s.total, g, Running(s, k), ms) /\ g.told \subseteq s.told
    BY <1>0, <1>3, <2>1 DEF Books, Book
  <2>3. IsFiniteSet(g.missing) /\ \A i \in g.missing : g.flying[i] \in Nat /\ g \in RangeSet
    <3>1. g.missing \subseteq k .. g.end /\ k .. g.end \subseteq k .. g.max /\ IsFiniteSet(g.missing)
          /\ \A i \in k .. g.max : g.flying[i] \in Nat
      BY <2>1, <2>2, MissingInside
    <3>2. g \in RangeSet BY <2>2 DEF RangeOK
    <3> QED BY <3>1, <3>2
  <2>4. g \in RangeSet BY <2>2 DEF RangeOK
  <2>5. \A a \in BOOLEAN : /\ Selected(g, r, a) \subseteq Open(g, r, a) /\ Open(g, r, a) \subseteq g.missing
                           /\ Open(g, r, a) # {} => Selected(g, r, a) # {}
    BY <2>3, <2>4, SelectedOK
  <2> QED BY <2>1, <2>2, <2>3, <2>5
<1>4. CASE Idles
  <2>1. t = s BY <1>1, <1>4
  <2>2. ASSUME Running(s, k) = {}, s.running, k \in DOMAIN s.ranges, NEW a \in BOOLEAN PROVE Open(s.ranges[k], r, a) = {}
    <3>1. ~ \E b \in Range(s.queue[r]) : b.range = k BY <2>2 DEF Running, Batches
    <3>2. {b \in Running(s, k) : b.relay = r} = {} BY <2>2
    <3>3. Cardinality({b \in Running(s, k) : b.relay = r}) = 0 BY <3>2, FS_EmptySet
    <3>4. ~(Cardinality({b \in Running(s, k) : b.relay = r}) >= MaxBatches) BY <3>3, DownloadConstants
    <3>5. chosen = {} BY <1>4, <2>2, <3>1, <3>4
    <3>6. Selected(g, r, FALSE) = {} /\ Selected(g, r, TRUE) = {}
      <4>1. CASE Selected(g, r, FALSE) = {}
        <5>1. any = TRUE BY <4>1
        <5> QED BY <3>5, <4>1, <5>1
      <4>2. CASE Selected(g, r, FALSE) # {}
        <5>1. any = FALSE BY <4>2
        <5> QED BY <3>5, <4>2, <5>1
      <4> QED BY <4>1, <4>2
    <3> HIDE DEF g
    <3>7. Open(g, r, FALSE) = {} /\ Open(g, r, TRUE) = {} BY <1>3, <2>2, <3>6
    <3> QED BY <1>3, <2>2, <3>7
  <2>3. Grows(s, s) BY GrowsNone
  <2> HIDE DEF t
  <2> QED BY <2>1, <2>2, <2>3 DEF Exhausts, t
<1>5. CASE ~Idles
  <2>1. t = Drain(s1, r) /\ s.running /\ k \in DOMAIN s.ranges /\ chosen # {} BY <1>1, <1>5
  <2>2. /\ k \in Int /\ g = s.ranges[k] /\ RangeOK(plan, s.total, s.next, k, g, hv)
        /\ Flown(s.total, g, Running(s, k), ms) /\ g.told \subseteq s.told
        /\ chosen \in SUBSET Open(g, r, any) /\ Open(g, r, any) \subseteq g.missing
    BY <1>2, <1>3, <2>1
  <2>3. chosen \in SUBSET Int
    <3>1. g \in RangeSet BY <2>2 DEF RangeOK
    <3>2. g.missing \subseteq Int BY <3>1 DEF RangeSet
    <3> QED BY <2>2, <3>2
  <2> HIDE DEF g, any, chosen
  <2>4. batch \in BatchSet /\ batch.range = k /\ batch.relay = r /\ batch.any = any /\ batch.indexes = chosen
    BY <1>2, <2>2, <2>3 DEF BatchSet
  <2> HIDE DEF batch
  <2>5. batch \notin Running(s, k) /\ Flown(s.total, g2, Running(s, k) \cup {batch}, ms)
    <3>1. batch.indexes # {} /\ batch.indexes \subseteq Open(g, batch.relay, batch.any) BY <2>1, <2>2, <2>4
    <3>2. s.next \in Int BY <1>0, DownParts
    <3> DEFINE R == Running(s, k)
               total == s.total
               next == s.next
    <3>4. /\ next \in Int /\ k \in Int /\ RangeOK(plan, total, next, k, g, hv) /\ Flown(total, g, R, ms)
          /\ batch \in BatchSet /\ batch.indexes # {} /\ batch.indexes \subseteq Open(g, batch.relay, batch.any)
      BY <2>2, <2>4, <3>1, <3>2
    <3> HIDE DEF R, total, next
    <3>3. batch \notin R /\ Flown(total, Trying(g, batch.relay, batch.any, batch.indexes), R \cup {batch}, ms)
      BY <3>4, TryingFlown
    <3> USE DEF R, total, next
    <3> QED BY <2>4, <3>3
  <2>6. RangeOK(plan, s.total, s.next, k, g2, hv) /\ Asks(g, g2, k, r, any, chosen)
    <3>1. s.next \in Int BY <1>0, DownParts
    <3> QED BY <1>2, <2>1, <2>2, <3>1, TryingRange
  <2>7. g2.missing = g.missing /\ g2.told = g.told /\ g2.any = g.any /\ g2.max = g.max /\ g2.loading = g.loading
    BY <2>6 DEF Asks
  <2>8. \A u, i : u.total = s.total /\ Exhausted(u, g2, i) => Exhausted(s, g, i)
    <3> SUFFICES ASSUME NEW u, NEW i, u.total = s.total, Exhausted(u, g2, i) PROVE Exhausted(s, g, i) OBVIOUS
    <3>1. s.next \in Int BY <1>0, DownParts
    <3> QED BY <1>2, <2>1, <2>2, <3>1, TryingExhausts
  <2> DEFINE q == s.queue
             q1 == [q EXCEPT ![r] = Append(q[r], batch)]
  <2>9. /\ Limiter(q1, s.active) /\ AllOf(q1, s.active) = AllOf(q, s.active) \cup {batch}
        /\ \A x \in RelaySet \ {r} : q1[x] = q[x]
    <3> DEFINE act == s.active
    <3>1. batch \notin AllOf(q, act) BY <2>4, <2>5, BatchesAre
    <3>2. Limiter(q, act) BY <1>0
    <3> HIDE DEF q, act
    <3>3. /\ Limiter(Joined(q, r, batch), act) /\ AllOf(Joined(q, r, batch), act) = AllOf(q, act) \cup {batch}
          /\ \A x \in RelaySet \ {r} : Joined(q, r, batch)[x] = q[x]
      BY <2>4, <3>1, <3>2, QueueMore
    <3> QED BY <3>3 DEF act, Joined
  <2>10. /\ s1 \in Downs /\ s1.queue = q1 /\ s1.active = s.active /\ s1.ranges = [s.ranges EXCEPT ![k] = g2]
         /\ s1.running = s.running /\ s1.total = s.total /\ s1.next = s.next /\ s1.begun = s.begun
         /\ s1.count = s.count /\ s1.told = s.told /\ s1.cancelled = s.cancelled
    <3> DEFINE f1 == [s.ranges EXCEPT ![k] = g2]
    <3>1. s1 = [s EXCEPT !.ranges = f1, !.queue = q1] BY <1>0 DEF Downs
    <3>2. f1 \in Partitions
      <4>1. s.ranges \in Partitions BY <1>0, DownParts
      <4>2. g2 \in RangeSet BY <2>6 DEF RangeOK
      <4> QED BY <2>1, <4>1, <4>2, PartitionChanged
    <3>3. q1 \in Queues BY <2>9 DEF Limiter
    <3> HIDE DEF f1, q1, s1
    <3>4. /\ s1 \in Downs /\ s1.queue = q1 /\ s1.active = s.active /\ s1.ranges = f1
          /\ s1.running = s.running /\ s1.total = s.total /\ s1.next = s.next /\ s1.begun = s.begun
          /\ s1.count = s.count /\ s1.told = s.told /\ s1.cancelled = s.cancelled
      BY <1>0, <3>1, <3>2, <3>3 DEF Downs
    <3> QED BY <3>4 DEF f1
  <2> HIDE DEF s1, q1, t, g2
  <2>11. \A x \in RelaySet \ {r} : Attended(s1.queue, s1.active, x)
    BY <1>0, <2>9, <2>10 DEF Attentive, Attended, q
  <2>12. /\ t \in Downs /\ Limiter(t.queue, t.active) /\ Attentive(t.queue, t.active)
         /\ Batches(t) = Batches(s1) /\ \A j : Running(t, j) = Running(s1, j)
         /\ t.running = s1.running /\ t.total = s1.total /\ t.next = s1.next
         /\ t.begun = s1.begun /\ t.count = s1.count /\ t.told = s1.told
         /\ t.ranges = s1.ranges /\ t.cancelled = s1.cancelled
    BY <2>1, <2>9, <2>10, <2>11, DrainKeeps
  <2>13. Batches(t) = Batches(s) \cup {batch} BY <2>9, <2>10, <2>12, BatchesAre
  <2>14. Running(t, k) = Running(s, k) \cup {batch} /\ \A j : j # k => Running(t, j) = Running(s, j)
    BY <2>4, <2>13 DEF Running
  <2>15. /\ Books(plan, t, hv, ms) /\ DOMAIN t.ranges = DOMAIN s.ranges
         /\ t.ranges[k] = g2 /\ \A j \in DOMAIN s.ranges \ {k} : t.ranges[j] = s.ranges[j]
    <3>1. t.ranges = [s.ranges EXCEPT ![k] = g2] /\ t.next = s.next /\ t.total = s.total /\ t.told = s.told
      BY <2>10, <2>12
    <3>2. hv \ hv \subseteq k .. g2.max OBVIOUS
    <3>3. RangeOK(plan, t.total, t.next, k, g2, hv) /\ Flown(t.total, g2, Running(t, k), ms) BY <2>5, <2>6, <2>14, <3>1
    <3>4. \A b \in Batches(t) : b \in Batches(s) \/ b.range = k BY <2>4, <2>13
    <3>5. g2.max = s.ranges[k].max /\ g2.told \subseteq t.told BY <2>2, <2>7, <3>1
    <3>6. \A j \in DOMAIN s.ranges \ {k} : Running(t, j) = Running(s, j) BY <2>14
    <3>7. s.told \subseteq t.told /\ (t.total = s.total \/ DOMAIN s.ranges = {k}) BY <3>1
    <3>8. s \in Downs /\ Books(plan, s, hv, ms) /\ k \in DOMAIN s.ranges BY <1>0, <2>1
    <3>9. Swapped(plan, s, t, k, g2, hv, hv, ms, ms) BY <3>1, <3>2, <3>3, <3>4, <3>5, <3>6, <3>7, <3>8 DEF Swapped
    <3> QED BY <3>8, <3>9, OneRange
  <2>16. Grows(s, t)
    <3>1. \A j \in DOMAIN s.ranges \ {k} : \A i : Exhausted(t, t.ranges[j], i) => Exhausted(s, s.ranges[j], i)
      BY <2>10, <2>12, <2>15 DEF Exhausted
    <3>2. \A i : Exhausted(t, t.ranges[k], i) => Exhausted(s, s.ranges[k], i) BY <2>2, <2>8, <2>10, <2>12, <2>15
    <3>3. \A j : Running(s, j) \subseteq Running(t, j) BY <2>14
    <3> QED BY <2>2, <2>7, <2>10, <2>12, <2>15, <3>1, <3>2, <3>3 DEF Grows
  <2>17. Progress(plan, t, hv) /\ Told(plan, t, ms) /\ Accounted(plan, t, hv) BY <1>0, <2>16, GrowsRest
  <2>18. Over(t) BY <2>1, <2>10, <2>12 DEF Over
  <2>19. Kept(plan, t, hv, ms) BY <2>12, <2>15, <2>17, <2>18 DEF Kept
  <2>20. t # s
    <3>1. Running(t, k) # Running(s, k) BY <2>5, <2>14
    <3> QED BY <3>1
  <2>21. Running(t, k) # {} BY <2>14
  <2> QED BY <2>16, <2>19, <2>20, <2>21 DEF t
<1> QED BY <1>4, <1>5

\* All relays are asked, in their order: nothing under way then means that no
\* relay had anything to be asked for.
LEMMA ScheduleKeeps ==
  ASSUME plan \in Plans, NEW s, NEW hv, NEW ms, Kept(plan, s, hv, ms), NEW k
  PROVE  /\ Kept(plan, ScheduleRelays(s, k), hv, ms) /\ Grows(s, ScheduleRelays(s, k))
         /\ Running(ScheduleRelays(s, k), k) = {} => ScheduleRelays(s, k) = s /\ \A r \in RelaySet : Exhausts(s, k, r)
<1> DEFINE N == Len(Relays)
           V == {v \in Downs : Kept(plan, v, hv, ms)}
           F == [n \in 1..N |-> [v \in V |-> Request(v, k, Relays[n])]]
           Rec(g) == g = [n \in 0..N |-> IF n = 0 THEN s ELSE Request(g[n - 1], k, Relays[n])]
<1>1. N \in Nat /\ \A n \in 1..N : Relays[n] \in RelaySet BY RelaysOK
<1>2. ASSUME NEW n \in 1..N, NEW v \in V PROVE F[n][v] = Request(v, k, Relays[n]) /\ F[n][v] \in V
  <2>1. F[n][v] = Request(v, k, Relays[n]) OBVIOUS
  <2>2. Kept(plan, v, hv, ms) /\ Relays[n] \in RelaySet BY <1>1
  <2> HIDE DEF F, V
  <2>3. Kept(plan, Request(v, k, Relays[n]), hv, ms) BY <2>2, RequestKeeps
  <2>4. Request(v, k, Relays[n]) \in V BY <2>3 DEF V, Kept
  <2> QED BY <2>1, <2>4
<1>3. s \in V BY DEF Kept
<1>4. \A v \in V : Kept(plan, v, hv, ms) OBVIOUS
<1> HIDE DEF N, V, F
<1>5. \E g : Rec(g)
  <2>1. Advances(F, N, V) BY <1>2 DEF Advances
  <2>2. PICK g : Recursion(g, N, V, s, F) BY <1>1, <1>3, <2>1, RecursionExists
  <2>3. \A n \in 0..N : g[n] = IF n = 0 THEN s ELSE Request(g[n - 1], k, Relays[n])
    <3> SUFFICES ASSUME NEW n \in 0..N, n # 0 PROVE g[n] = Request(g[n - 1], k, Relays[n]) BY <2>2 DEF Recursion
    <3>1. n \in 1..N /\ n - 1 \in 0..N BY <1>1
    <3> QED BY <1>2, <2>2, <3>1 DEF Recursion
  <2> QED BY <2>2, <2>3 DEF Recursion
<1>6. PICK g : Rec(g) /\ ScheduleRelays(s, k) = g[N] BY <1>5 DEF ScheduleRelays, N
<1>7. \A n \in 0..N : g[n] = IF n = 0 THEN s ELSE Request(g[n - 1], k, Relays[n]) BY <1>6
<1> DEFINE Quiet(n) == g[n] = s /\ \A m \in 1..n : Exhausts(s, k, Relays[m])
           Done(n) == /\ Kept(plan, g[n], hv, ms) /\ Grows(s, g[n])
                      /\ Running(g[n], k) = {} => Quiet(n)
           D == {n \in 0..N : Done(n)}
<1>8. 0 \in D
  <2>1. 0 \in 0..N BY <1>1
  <2>2. g[0] = s BY <1>7, <2>1
  <2>3. \A m \in 1..0 : Exhausts(s, k, Relays[m]) OBVIOUS
  <2>4. Done(0) BY <2>2, <2>3, GrowsNone
  <2> QED BY <2>1, <2>4
<1>9. ASSUME NEW n \in 0..(N - 1), n \in D PROVE n + 1 \in D
  <2>1. n + 1 \in 0..N /\ n + 1 \in 1..N /\ n + 1 # 0 /\ (n + 1) - 1 = n BY <1>1
  <2>2. Kept(plan, g[n], hv, ms) /\ Grows(s, g[n]) /\ (Running(g[n], k) = {} => Quiet(n)) BY <1>9
  <2> DEFINE v == g[n]
             r == Relays[n + 1]
             t == Request(v, k, r)
  <2>3. g[n + 1] = t BY <1>7, <2>1
  <2>4. r \in RelaySet BY <1>1, <2>1
  <2>5. /\ Kept(plan, t, hv, ms) /\ Grows(v, t) /\ (t = v \/ Running(t, k) # {})
        /\ (Running(v, k) = {} /\ t = v => Exhausts(v, k, r))
    <3> HIDE DEF v, r
    <3>1. Kept(plan, v, hv, ms) BY <2>2 DEF v
    <3> QED BY <2>4, <3>1, RequestKeeps
  <2>6. Grows(s, t) BY <2>2, <2>5, GrowsOn
  <2>7. ASSUME Running(t, k) = {} PROVE Quiet(n + 1)
    <3>1. t = v BY <2>5, <2>7
    <3>2. Running(v, k) = {} BY <2>7, <3>1
    <3>3. Exhausts(v, k, r) BY <2>5, <3>1, <3>2
    <3>4. v = s /\ \A m \in 1..n : Exhausts(s, k, Relays[m]) BY <2>2, <3>2
    <3>5. g[n + 1] = s BY <2>3, <3>1, <3>4
    <3>6. Exhausts(s, k, Relays[n + 1]) BY <3>3, <3>4
    <3>7. \A m \in 1..(n + 1) : m \in 1..n \/ m = n + 1 OBVIOUS
    <3> QED BY <3>4, <3>5, <3>6, <3>7
  <2> HIDE DEF Quiet, t
  <2>8. Done(n + 1) BY <2>3, <2>5, <2>6, <2>7
  <2> HIDE DEF Done
  <2> QED BY <2>1, <2>8
<1>10. Done(N)
  <2>1. N \in 0..N BY <1>1
  <2> HIDE DEF D
  <2>2. N \in D BY <1>1, <1>8, <1>9, <2>1, UpTo
  <2> HIDE DEF Done
  <2> QED BY <2>2 DEF D
<1>11. ASSUME Quiet(N) PROVE ScheduleRelays(s, k) = s /\ \A r \in RelaySet : Exhausts(s, k, r)
  <2>1. \A r \in RelaySet : \E n \in 1..N : Relays[n] = r BY RelaysOK DEF N
  <2> QED BY <1>6, <1>11, <2>1
<1> HIDE DEF Quiet
<1> QED BY <1>6, <1>10, <1>11

\* A range that has nothing under way and no relay to ask has been asked for of
\* every relay, in the phase each missing chunk is in.
LEMMA AllTried ==
  ASSUME plan \in Plans, NEW s, NEW hv, NEW ms, Kept(plan, s, hv, ms), NEW k \in DOMAIN s.ranges, s.running,
         Running(s, k) = {}, \A r \in RelaySet : Exhausts(s, k, r), NEW i \in s.ranges[k].missing,
         i \notin s.ranges[k].told, s.total # Unknown \/ i = 0
  PROVE  Exhausted(s, s.ranges[k], i)
<1> DEFINE g == s.ranges[k]
<1>1. RangeOK(plan, s.total, s.next, k, g, hv) /\ Flown(s.total, g, Running(s, k), ms) BY DEF Kept, Books, Book
<1>2. k \in Int BY DownParts DEF Kept
<1>3. i \in Countable(s.total, g) BY <1>1, <1>2, MissingInside
<1>4. g.flying[i] = Cardinality(Asking(Running(s, k), i)) BY <1>1, <1>3 DEF Flown
<1>5. Asking(Running(s, k), i) = {} BY DEF Asking
<1>6. g.flying[i] = 0 BY <1>4, <1>5, FS_EmptySet
<1>7. \A r \in RelaySet : i \in g.tried[r][(i \in g.any)]
  <2> DEFINE a == i \in g.any
  <2>1. a \in BOOLEAN
    <3>1. CASE i \in g.any BY <3>1
    <3>2. CASE i \notin g.any BY <3>2
    <3> QED BY <3>1, <3>2
  <2>2. \A r \in RelaySet : Open(g, r, a) = {} BY <2>1 DEF Exhausts
  <2>3. \A r \in RelaySet : i \notin Open(g, r, a) => i \in g.tried[r][a]
    <3> SUFFICES ASSUME NEW r \in RelaySet, i \notin g.tried[r][a] PROVE i \in Open(g, r, a) OBVIOUS
    <3>1. (i \in g.any) = a OBVIOUS
    <3> HIDE DEF a
    <3> QED BY <3>1, Zenon DEF Open
  <2> HIDE DEF a
  <2>4. \A r \in RelaySet : i \in g.tried[r][a] BY <2>2, <2>3
  <2> QED BY <2>4, Zenon DEF a
<1> QED BY <1>6, <1>7 DEF Exhausted

\* The books are kept when a range begins beyond the others.
LEMMA OneMore ==
  ASSUME NEW s \in Downs, NEW t, NEW hv, NEW ms, Books(plan, s, hv, ms), NEW a, NEW b, NEW m,
         Room(s.total, t.next, a, b, m, hv), \A j \in DOMAIN s.ranges : s.ranges[j].max < a,
         s.next <= t.next, t.total = s.total, t.told = s.told, Batches(t) = Batches(s),
         t.ranges = Starting(s.ranges, NewRange(a, b, m))
  PROVE  /\ Books(plan, t, hv, ms) /\ t.ranges \in Partitions /\ DOMAIN t.ranges = DOMAIN s.ranges \cup {a}
         /\ a \notin DOMAIN s.ranges /\ \A j \in DOMAIN s.ranges : t.ranges[j] = s.ranges[j]
         /\ t.ranges[a].loading /\ t.ranges[a].missing = {} /\ t.ranges[a].max = m
<1> DEFINE g == NewRange(a, b, m)
           next == t.next
<1>0. s.ranges \in Partitions /\ DOMAIN s.ranges \subseteq Int /\ s.next \in Int /\ \A j \in DOMAIN s.ranges : s.ranges[j] \in RangeSet
  BY DownParts
<1>r. a \in Int /\ next \in Int BY DEF Room
<1>1. /\ RangeOK(plan, s.total, next, a, g, hv) /\ Flown(s.total, g, {}, ms)
      /\ g.told = {} /\ g.max = m /\ g.loading /\ g.start = a /\ g.missing = {}
  <2> DEFINE total == s.total
  <2>1. Room(total, next, a, b, m, hv) OBVIOUS
  <2> HIDE DEF total, next, g
  <2>2. RangeOK(plan, total, next, a, NewRange(a, b, m), hv) BY <2>1, NewRangeOK
  <2>3. Flown(total, NewRange(a, b, m), {}, ms) BY <2>1, NewRangeOK
  <2>4. /\ NewRange(a, b, m).told = {} /\ NewRange(a, b, m).max = m /\ NewRange(a, b, m).loading
        /\ NewRange(a, b, m).start = a /\ NewRange(a, b, m).missing = {}
    BY <2>1, NewRangeOK
  <2> QED BY <2>2, <2>3, <2>4 DEF g, total
<1>2. g \in RangeSet BY <1>1 DEF RangeOK
<1>3. \A j \in DOMAIN s.ranges : j <= s.ranges[j].max /\ j < a /\ s.ranges[j].max \in Int
  <2> SUFFICES ASSUME NEW j \in DOMAIN s.ranges PROVE j <= s.ranges[j].max /\ j < a /\ s.ranges[j].max \in Int OBVIOUS
  <2>1. j \in Int /\ s.ranges[j].max \in Int /\ s.ranges[j].end \in Int /\ a \in Int BY <1>0, <1>r DEF RangeSet
  <2>2. j <= s.ranges[j].end /\ s.ranges[j].end <= s.ranges[j].max BY DEF Books, Book, RangeOK
  <2>3. s.ranges[j].max < a OBVIOUS
  <2> QED BY <2>1, <2>2, <2>3
<1>4. a \notin DOMAIN s.ranges
  <2>1. ~(a < a) BY <1>r
  <2> QED BY <1>3, <2>1
<1>5. /\ t.ranges \in Partitions /\ DOMAIN t.ranges = DOMAIN s.ranges \cup {a}
      /\ t.ranges[a] = g /\ \A j \in DOMAIN s.ranges : t.ranges[j] = s.ranges[j]
  <2> DEFINE f == s.ranges
  <2>1. f \in Partitions /\ a \notin DOMAIN f /\ t.ranges = Starting(f, g) BY <1>0, <1>4
  <2> HIDE DEF f, g
  <2>2. /\ Starting(f, g) \in Partitions /\ DOMAIN Starting(f, g) = DOMAIN f \cup {g.start}
        /\ Starting(f, g)[g.start] = g /\ \A j \in DOMAIN f \ {g.start} : Starting(f, g)[j] = f[j]
    BY <1>2, <2>1, PartitionMore
  <2> QED BY <1>1, <2>1, <2>2 DEF f
<1> HIDE DEF g
<1>6. \A j : Running(t, j) = Running(s, j) BY DEF Running
<1>7. Running(t, a) = {}
  <2>1. \A c \in Batches(s) : c.range # a BY <1>4 DEF Books
  <2> QED BY <1>6, <2>1 DEF Running
<1>8. Book(plan, t, a, hv, ms) BY <1>1, <1>5, <1>7 DEF Book
<1>9. ASSUME NEW j \in DOMAIN s.ranges PROVE Book(plan, t, j, hv, ms)
  <2> DEFINE h == s.ranges[j]
             total == s.total
             before == s.next
  <2>1. RangeOK(plan, total, before, j, h, hv) /\ Flown(total, h, Running(s, j), ms) /\ h.told \subseteq s.told
    BY DEF Books, Book
  <2>2. before \in Int /\ next \in Int /\ before <= next /\ j \in Int /\ hv \cap (j .. h.max) \subseteq hv BY <1>0, <1>r
  <2> HIDE DEF h, total, before, next
  <2>3. RangeOK(plan, total, next, j, h, hv) BY <2>1, <2>2, RangeGoesOn
  <2>4. t.ranges[j] = h BY <1>5 DEF h
  <2> QED BY <1>6, <2>1, <2>3, <2>4 DEF Book, next, total
<1>10. Apart(t)
  <2> SUFFICES ASSUME NEW j \in DOMAIN t.ranges, NEW i \in DOMAIN t.ranges, j < i PROVE t.ranges[j].max < i BY DEF Apart
  <2>1. CASE j \in DOMAIN s.ranges /\ i \in DOMAIN s.ranges BY <2>1, <1>5 DEF Books, Apart
  <2> HIDE DEF Room
  <2>2. CASE j \in DOMAIN s.ranges /\ i = a BY <2>2, <1>5
  <2>3. CASE j = a
    <3>1. a < i BY <2>3
    <3>2. i \in DOMAIN s.ranges => i \in Int /\ i < a BY <1>0, <1>3
    <3>3. i = a \/ i \in DOMAIN s.ranges BY <1>5
    <3>4. ~(a < a) BY <1>r
    <3>5. i \in Int => ~(a < i /\ i < a) BY <1>r
    <3> QED BY <3>1, <3>2, <3>3, <3>4, <3>5
  <2> QED BY <1>5, <2>1, <2>2, <2>3
<1>11. \A c \in Batches(t) : c.range \in DOMAIN t.ranges BY <1>5 DEF Books
<1>12. Books(plan, t, hv, ms) BY <1>5, <1>8, <1>9, <1>10, <1>11 DEF Books
<1> QED BY <1>1, <1>4, <1>5, <1>12

\* From s to t ranges may have begun, and nothing else has changed.
Extends(s, t) ==
  /\ t.running = s.running /\ t.total = s.total /\ t.count = s.count /\ t.told = s.told /\ t.cancelled = s.cancelled
  /\ t.queue = s.queue /\ t.active = s.active /\ DOMAIN s.ranges \subseteq DOMAIN t.ranges
  /\ \A k \in DOMAIN s.ranges : t.ranges[k] = s.ranges[k]
  /\ \A k \in DOMAIN t.ranges \ DOMAIN s.ranges : t.ranges[k].loading /\ t.ranges[k].missing = {}

\* The same batches run then.
LEMMA ExtendsRunning == ASSUME NEW s, NEW t, Extends(s, t) PROVE Batches(t) = Batches(s) /\ \A k : Running(t, k) = Running(s, k)
BY DEF Extends, Batches, Running

\* The next range begins where the one before it ends, when there is room for one.
LEMMA StartKeeps ==
  ASSUME plan \in Plans, NEW s, NEW hv, NEW ms, Kept(plan, s, hv, ms)
  PROVE  /\ Kept(plan, StartNextRange(s), hv, ms) /\ Extends(s, StartNextRange(s))
         /\ s.running /\ DOMAIN StartNextRange(s).ranges = {} =>
              StartNextRange(s) = s /\ (s.total = Unknown \/ s.next > plan.to)
<1> DEFINE end == Min({s.next + plan.window - 1, plan.to})
           t == StartNextRange(s)
           Idles == \/ ~s.running \/ Cardinality(DOMAIN s.ranges) >= 2 \/ s.total = Unknown \/ s.next > plan.to
           f == Starting(s.ranges, NewRange(s.next, end, end))
<1>0. /\ s \in Downs /\ Books(plan, s, hv, ms) /\ Limiter(s.queue, s.active) /\ Attentive(s.queue, s.active)
      /\ Progress(plan, s, hv) /\ Told(plan, s, ms) /\ Accounted(plan, s, hv) /\ Over(s)
  BY DEF Kept
<1>1. s.total = Unknown => s.begun BY <1>0 DEF Progress
<1>2. t = IF Idles THEN s ELSE [s EXCEPT !.begun = TRUE, !.next = end + 1, !.ranges = f]
  BY <1>0, <1>1 DEF StartNextRange, Downs
<1>3. CASE Idles
  <2>1. t = s BY <1>2, <1>3
  <2>2. Extends(s, s) BY DEF Extends
  <2>3. ASSUME s.running, DOMAIN s.ranges = {} PROVE s.total = Unknown \/ s.next > plan.to
    <3>1. Cardinality(DOMAIN s.ranges) = 0 BY <2>3, FS_EmptySet
    <3> QED BY <1>3, <2>3, <3>1
  <2> HIDE DEF t, Idles
  <2> QED BY <2>1, <2>2, <2>3 DEF t
<1>4. CASE ~Idles
  <2>0. s.next \in Int /\ 0 <= s.next BY <1>0, DownParts DEF Progress
  <2>1. plan.window \in Nat \ {0} /\ plan.to \in Int /\ 0 <= plan.to
    <3>1. /\ plan.window \in Nat \ {0} /\ plan.total \in Nat
          /\ plan.to \in Nat
      BY DownloadConstants
    <3> QED BY <3>1, <2>0, <1>4
  <2>2. s.next <= plan.to BY <2>0, <2>1, <1>4
  <2>3. end \in Int /\ s.next <= end /\ end <= plan.to
    <3> DEFINE x == s.next + plan.window - 1
               y == plan.to
    <3>1. x \in Nat /\ y \in Nat /\ s.next <= x /\ s.next <= y BY <2>0, <2>1, <2>2
    <3>2. end = Min({x, y}) OBVIOUS
    <3> HIDE DEF x, y, end
    <3>3. Min({x, y}) = IF x <= y THEN x ELSE y BY <3>1, MinOfTwo
    <3> QED BY <2>0, <3>1, <3>2, <3>3 DEF y
  <2> HIDE DEF end
  <2>4. t = [s EXCEPT !.begun = TRUE, !.next = end + 1, !.ranges = f] BY <1>2, <1>4
  <2> HIDE DEF f, t
  <2>5. /\ t.running = s.running /\ t.total = s.total /\ t.next = end + 1 /\ t.begun = TRUE /\ t.count = s.count
        /\ t.told = s.told /\ t.ranges = f /\ t.queue = s.queue /\ t.active = s.active /\ t.cancelled = s.cancelled
    BY <1>0, <2>4 DEF Downs
  <2>6. Batches(t) = Batches(s) /\ \A k : Running(t, k) = Running(s, k) BY <2>5 DEF Batches, Running
  <2>7. \A j \in DOMAIN s.ranges : s.ranges[j].max < s.next BY <1>0 DEF Books, Book, RangeOK
  <2>8. /\ Books(plan, t, hv, ms) /\ t.ranges \in Partitions /\ DOMAIN t.ranges = DOMAIN s.ranges \cup {s.next}
        /\ s.next \notin DOMAIN s.ranges /\ \A j \in DOMAIN s.ranges : t.ranges[j] = s.ranges[j]
        /\ t.ranges[s.next].loading /\ t.ranges[s.next].missing = {} /\ t.ranges[s.next].max = end
    <3> DEFINE a == s.next
    <3>1. a \in Int /\ 0 <= a /\ a <= end /\ end <= end BY <2>0, <2>3
    <3>2. t.next \in Int /\ end < t.next /\ a <= t.next BY <2>3, <2>5, <3>1
    <3>3. hv \cap (a .. end) \subseteq plan.cached BY <1>0, <3>1, <2>3 DEF Progress
    <3>4. s.total # Unknown BY <1>4
    <3>5. t.ranges = Starting(s.ranges, NewRange(a, end, end)) /\ t.total = s.total /\ t.told = s.told
      BY <2>5 DEF f
    <3>6. s.next <= t.next /\ \A j \in DOMAIN s.ranges : s.ranges[j].max < a BY <2>7, <3>2
    <3> HIDE DEF a
    <3>8. Room(s.total, t.next, a, end, end, hv) BY <2>3, <3>1, <3>2, <3>3, <3>4 DEF Room
    <3>7. /\ Books(plan, t, hv, ms) /\ t.ranges \in Partitions /\ DOMAIN t.ranges = DOMAIN s.ranges \cup {a}
          /\ a \notin DOMAIN s.ranges /\ \A j \in DOMAIN s.ranges : t.ranges[j] = s.ranges[j]
          /\ t.ranges[a].loading /\ t.ranges[a].missing = {} /\ t.ranges[a].max = end
      BY <1>0, <2>6, <3>5, <3>6, <3>8, OneMore, ZenonT(60)
    <3> QED BY <3>7 DEF a
  <2>9. t \in Downs
    <3>1. f \in Partitions /\ end + 1 \in Int BY <2>3, <2>5, <2>8
    <3> DEFINE e == end + 1
    <3>2. e \in Int /\ t = [s EXCEPT !.begun = TRUE, !.next = e, !.ranges = f] BY <2>4, <3>1
    <3> HIDE DEF e
    <3> QED BY <1>0, <3>1, <3>2 DEF Downs
  <2>10. Extends(s, t) BY <2>5, <2>8 DEF Extends
  <2>11. Progress(plan, t, hv)
    <3>1. \A i \in hv : i \in Int /\ (i >= end + 1 => i >= s.next) BY <1>0, <2>0, <2>3 DEF Progress
    <3>2. 0 <= end + 1 BY <2>0, <2>3
    <3> QED BY <1>0, <2>5, <3>1, <3>2 DEF Progress
  <2>12. Told(plan, t, ms) BY <1>0, <2>5 DEF Told
  <2>13. Accounted(plan, t, hv)
    <3> SUFFICES ASSUME s.running, Faithful(plan), NEW i \in plan.from .. plan.to
                 PROVE  \/ i \in hv \cup t.told \/ i >= t.next
                        \/ \E k \in DOMAIN t.ranges : k <= i /\ i <= t.ranges[k].max
      BY <2>5 DEF Accounted
    <3>1. \/ i \in hv \cup s.told \/ i >= s.next
          \/ \E k \in DOMAIN s.ranges : k <= i /\ i <= s.ranges[k].max
      BY <1>0 DEF Accounted
    <3>2. i \in Int OBVIOUS
    <3>3. i >= s.next => i >= end + 1 \/ (s.next <= i /\ i <= end) BY <2>0, <2>3, <3>2
    <3> QED BY <2>5, <2>8, <3>1, <3>3
  <2>14. Over(t) BY <1>4, <2>5 DEF Over
  <2>15. Kept(plan, t, hv, ms) BY <1>0, <2>5, <2>8, <2>9, <2>11, <2>12, <2>13, <2>14 DEF Kept
  <2> QED BY <2>8, <2>10, <2>15 DEF t
<1> QED BY <1>3, <1>4

\* When enough of a range is there the next one may begin.
LEMMA CoverageKeeps ==
  ASSUME plan \in Plans, NEW s, NEW hv, NEW ms, Kept(plan, s, hv, ms), NEW k
  PROVE  Kept(plan, Coverage(s, k), hv, ms) /\ Extends(s, Coverage(s, k))
<1>1. Extends(s, s) BY DEF Extends
<1>2. Kept(plan, StartNextRange(s), hv, ms) /\ Extends(s, StartNextRange(s)) BY StartKeeps
<1> QED BY <1>1, <1>2 DEF Coverage

-----------------------------------------------------------------------------
\* At rest nothing is left to be given up, every range that runs waits for an
\* answer, and an end is one that accounts for what was asked.
NoneExhausted(s) == \A k \in DOMAIN s.ranges : \A i \in s.ranges[k].missing : ~Exhausted(s, s.ranges[k], i)
BusyBut(s, k) == s.running => \A j \in DOMAIN s.ranges \ {k} : ~s.ranges[j].loading => Running(s, j) # {}
Busy(s) ==
  s.running => DOMAIN s.ranges # {} /\ \A j \in DOMAIN s.ranges : ~s.ranges[j].loading => Running(s, j) # {}
Ended(p, s, hv) ==
  ~s.running /\ ~s.cancelled /\ Faithful(p) =>
    \/ p.from .. p.to \subseteq hv \cup s.told
    \/ p.strict /\ s.told # {}
    \/ s.total = Unknown /\ 0 \in s.told

\* A download that is over keeps its books, empty as they are.
LEMMA FinishKeeps ==
  ASSUME NEW s \in Downs, NEW hv, NEW ms, Progress(plan, s, hv), Told(plan, s, ms)
  PROVE  /\ Kept(plan, Finish(s), hv, ms) /\ NoneExhausted(Finish(s)) /\ ~Finish(s).running
         /\ Finish(s).told = s.told /\ Finish(s).total = s.total /\ Finish(s).cancelled = s.cancelled
<1> DEFINE t == Finish(s)
           q == [r \in RelaySet |-> <<>>]
<1>1. q \in Queues /\ \A r \in RelaySet : q[r] = <<>>
  <2>1. <<>> \in Seq(BatchSet) BY EmptySeq
  <2> QED BY <2>1 DEF Queues
<1>2. t = [s EXCEPT !.running = FALSE, !.ranges = <<>>, !.active = {}, !.queue = q] BY DEF Finish
<1> HIDE DEF q, t
<1>3. /\ t \in Downs /\ t.running = FALSE /\ t.total = s.total /\ t.next = s.next /\ t.begun = s.begun /\ t.count = s.count
      /\ t.told = s.told /\ t.ranges = <<>> /\ t.queue = q /\ t.active = {} /\ t.cancelled = s.cancelled
  BY <1>1, <1>2, PartitionNone DEF Downs
<1>4. Limiter(q, {}) /\ Attentive(q, {})
  <2>1. ASSUME NEW r \in RelaySet PROVE Line(q, {}, r)
    <3>1. DOMAIN q[r] = {} BY <1>1
    <3>2. Under({}, r) = {} BY DEF Under
    <3>3. Cardinality(Under({}, r)) = 0 BY <3>2, FS_EmptySet
    <3>4. MaxBatches \in Nat BY DownloadConstants
    <3> QED BY <3>1, <3>3, <3>4 DEF Line
  <2> QED BY <1>1, <2>1, FS_EmptySet DEF Limiter, Attentive, Attended
<1>5. AllOf(q, {}) = {}
  <2>1. \A r \in RelaySet : Range(q[r]) = {} BY <1>1 DEF Range
  <2> QED BY <2>1 DEF AllOf
<1>6. Batches(t) = {} BY <1>3, <1>5, BatchesAre
<1>7. DOMAIN t.ranges = {} BY <1>3, PartitionNone
<1>8. Books(plan, t, hv, ms) BY <1>6, <1>7 DEF Books, Apart
<1>9. Progress(plan, t, hv) /\ Told(plan, t, ms) BY <1>3 DEF Progress, Told
<1>10. Accounted(plan, t, hv) /\ Over(t) BY <1>3, <1>6, <1>7 DEF Accounted, Over
<1>11. Kept(plan, t, hv, ms) BY <1>3, <1>4, <1>8, <1>9, <1>10 DEF Kept
<1>12. NoneExhausted(t) BY <1>7 DEF NoneExhausted
<1> QED BY <1>3, <1>11, <1>12 DEF t

\* What giving chunks of a range up changes, as long as the download goes on.
Checks(s, c, k, indexes) ==
  /\ c.running = s.running /\ c.total = s.total /\ c.next = s.next /\ c.begun = s.begun /\ c.count = s.count
  /\ c.cancelled = s.cancelled /\ c.queue = s.queue /\ c.active = s.active /\ s.told \subseteq c.told
  /\ DOMAIN c.ranges = DOMAIN s.ranges /\ \A j \in DOMAIN s.ranges \ {k} : c.ranges[j] = s.ranges[j]
  /\ c.ranges[k].missing = s.ranges[k].missing /\ c.ranges[k].loading = s.ranges[k].loading
  /\ c.ranges[k].max = s.ranges[k].max /\ c.ranges[k].covered = s.ranges[k].covered
  /\ c.ranges[k].end = s.ranges[k].end /\ s.ranges[k].told \subseteq c.ranges[k].told
  /\ \A i \in indexes : Exhausted(s, s.ranges[k], i) => i \in c.ranges[k].told \/ (plan.fallback /\ i \notin s.ranges[k].any)
  /\ \A i : Exhausted(c, c.ranges[k], i) => Exhausted(s, s.ranges[k], i) /\ i \notin indexes

\* Chunks are given up, or go into the second phase.
LEMMA CheckKeeps ==
  ASSUME plan \in Plans, NEW s, NEW hv, NEW ms, Kept(plan, s, hv, ms), s.running, NEW k \in DOMAIN s.ranges, NEW indexes,
         NEW told \in Reports(Lost(s, k, indexes))
  PROVE  /\ Kept(plan, CheckExhausted(s, k, indexes, told), hv, ms)
         /\ CheckExhausted(s, k, indexes, told).running => Checks(s, CheckExhausted(s, k, indexes, told), k, indexes)
         /\ ~CheckExhausted(s, k, indexes, told).running =>
              Ended(plan, CheckExhausted(s, k, indexes, told), hv) /\ NoneExhausted(CheckExhausted(s, k, indexes, told))
<1> DEFINE g == Of(s, k)
           exhausted == {i \in indexes : Exhausted(s, g, i)}
           again == IF plan.fallback THEN {i \in exhausted : i \notin g.any} ELSE {}
           lost == exhausted \ again
           m == [s EXCEPT !.ranges[k] = Marked(@, again, told), !.told = @ \cup told]
           c == CheckExhausted(s, k, indexes, told)
<1>0. /\ s \in Downs /\ Books(plan, s, hv, ms) /\ Limiter(s.queue, s.active) /\ Attentive(s.queue, s.active)
      /\ Progress(plan, s, hv) /\ Told(plan, s, ms) /\ Accounted(plan, s, hv) /\ Over(s)
  BY DEF Kept
<1>1. c = IF plan.strict /\ told # {} THEN Finish(m) ELSE m BY DEF CheckExhausted, Again, Of
<1>2. /\ g = s.ranges[k] /\ k \in Int /\ RangeOK(plan, s.total, s.next, k, g, hv)
      /\ Flown(s.total, g, Running(s, k), ms) /\ g.told \subseteq s.told
  BY <1>0, DownParts DEF Of, Books, Book
<1>3. plan.fallback \in BOOLEAN BY DownloadConstants
<1>a. told \subseteq lost /\ (told = lost \/ (plan.strict /\ told # {}))
  <2>1. Lost(s, k, indexes) = lost BY <1>3 DEF Lost, Again
  <2> HIDE DEF lost
  <2> QED BY <2>1 DEF Reports
<1> HIDE DEF g, c
<1>4. \A i \in exhausted : i \in g.missing /\ i \in Nat
  <2>1. \A i \in exhausted : i \in g.missing BY DEF Exhausted
  <2>2. g.missing \subseteq k .. g.end BY <1>2, MissingInside
  <2>3. 0 <= k BY <1>2 DEF RangeOK
  <2> QED BY <1>2, <2>1, <2>2, <2>3
<1>5. /\ again \subseteq exhausted /\ lost \subseteq exhausted /\ told \subseteq lost /\ (plan.fallback \/ again = {})
      /\ \A i \in again : i \notin g.any
      /\ \A i \in lost : ~plan.fallback \/ i \in g.any
      /\ \A i \in exhausted : i \in again \/ i \in lost
  BY <1>a
<1>6. ~(plan.strict /\ told # {}) => told = lost BY <1>a
<1>7. \A i : i \in exhausted <=> i \in indexes /\ Exhausted(s, g, i) OBVIOUS
<1> HIDE DEF exhausted, again, lost
<1> DEFINE g2 == Marked(g, again, told)
<1>8. again \in SUBSET Int /\ told \in SUBSET Int BY <1>4, <1>5
<1>9. /\ RangeOK(plan, s.total, s.next, k, g2, hv) /\ Flown(s.total, g2, Running(s, k), ms)
      /\ g2.told = g.told \cup told /\ g2.any = g.any \cup again
      /\ g2.missing = g.missing /\ g2.tried = g.tried
      /\ g2.flying = g.flying /\ g2.loading = g.loading
      /\ g2.max = g.max /\ g2.end = g.end /\ g2.covered = g.covered
  <2> DEFINE total == s.total
             next == s.next
             R == Running(s, k)
  <2>1. RangeOK(plan, total, next, k, g, hv) /\ Flown(total, g, R, ms) /\ next \in Int /\ k \in Int BY <1>0, <1>2, DownParts
  <2> HIDE DEF total, next, R
  <2>2. /\ RangeOK(plan, total, next, k, g2, hv) /\ Flown(total, g2, R, ms)
        /\ g2.told = g.told \cup told /\ g2.any = g.any \cup again
        /\ g2.missing = g.missing /\ g2.tried = g.tried
        /\ g2.flying = g.flying /\ g2.loading = g.loading
        /\ g2.max = g.max /\ g2.end = g.end /\ g2.covered = g.covered
    BY <1>5, <1>8, <2>1, MarkedRange
  <2> QED BY <2>2 DEF total, next, R
<1>10. /\ m \in Downs /\ m.ranges = [s.ranges EXCEPT ![k] = g2] /\ m.told = s.told \cup told
       /\ m.running = s.running /\ m.total = s.total /\ m.next = s.next /\ m.begun = s.begun
       /\ m.count = s.count /\ m.cancelled = s.cancelled /\ m.queue = s.queue /\ m.active = s.active
  <2> DEFINE f2 == [s.ranges EXCEPT ![k] = g2]
             all == s.told \cup told
  <2>2. m = [s EXCEPT !.ranges = f2, !.told = all] BY <1>2
  <2>3. f2 \in Partitions
    <3>1. s.ranges \in Partitions BY <1>0, DownParts
    <3>2. g2 \in RangeSet BY <1>9 DEF RangeOK
    <3> HIDE DEF g2
    <3> QED BY <3>1, <3>2, PartitionChanged
  <2>4. all \in SUBSET Int BY <1>0, <1>8, DownParts
  <2> HIDE DEF f2, all, m
  <2>5. /\ m \in Downs /\ m.ranges = f2 /\ m.told = all
        /\ m.running = s.running /\ m.total = s.total /\ m.next = s.next /\ m.begun = s.begun
        /\ m.count = s.count /\ m.cancelled = s.cancelled /\ m.queue = s.queue /\ m.active = s.active
    BY <1>0, <2>2, <2>3, <2>4 DEF Downs
  <2> QED BY <2>5 DEF f2, all
<1> HIDE DEF g2, m
<1>11. Batches(m) = Batches(s) /\ \A j : Running(m, j) = Running(s, j) BY <1>10 DEF Batches, Running
<1>12. /\ Books(plan, m, hv, ms) /\ DOMAIN m.ranges = DOMAIN s.ranges
       /\ m.ranges[k] = g2 /\ \A j \in DOMAIN s.ranges \ {k} : m.ranges[j] = s.ranges[j]
  <2>1. m.ranges = [s.ranges EXCEPT ![k] = g2] /\ m.next = s.next /\ m.total = s.total /\ s.told \subseteq m.told
    BY <1>10
  <2>2. hv \ hv \subseteq k .. g2.max OBVIOUS
  <2>3. RangeOK(plan, m.total, m.next, k, g2, hv) /\ Flown(m.total, g2, Running(m, k), ms) BY <1>9, <1>11, <2>1
  <2>4. \A b \in Batches(m) : b \in Batches(s) \/ b.range = k BY <1>11
  <2>5. g2.max = s.ranges[k].max /\ g2.told \subseteq m.told BY <1>2, <1>9, <1>10
  <2>6. \A j \in DOMAIN s.ranges \ {k} : Running(m, j) = Running(s, j) BY <1>11
  <2>7. m.total = s.total \/ DOMAIN s.ranges = {k} BY <2>1
  <2>8. Swapped(plan, s, m, k, g2, hv, hv, ms, ms) BY <2>1, <2>2, <2>3, <2>4, <2>5, <2>6, <2>7 DEF Swapped
  <2> QED BY <1>0, <2>8, OneRange
<1>13. Progress(plan, m, hv) BY <1>0, <1>10 DEF Progress
<1>14. Told(plan, m, ms)
  <2>1. ASSUME NEW i \in told PROVE \A r \in RelaySet : <<r, i, plan.fallback>> \in ms
    <3>1. Exhausted(s, g, i) /\ (~plan.fallback \/ i \in g.any) BY <1>5, <1>7, <2>1
    <3>2. s.next \in Int BY <1>0, DownParts
    <3> QED BY <1>2, <1>3, <3>1, <3>2, ExhaustedAnswered
  <2> QED BY <1>0, <1>10, <2>1 DEF Told
<1>15. Accounted(plan, m, hv)
  <2> SUFFICES ASSUME s.running, Faithful(plan), NEW i \in plan.from .. plan.to
               PROVE  \/ i \in hv \cup m.told \/ i >= m.next
                      \/ \E j \in DOMAIN m.ranges : j <= i /\ i <= m.ranges[j].max
    BY <1>10 DEF Accounted
  <2>1. \/ i \in hv \cup s.told \/ i >= s.next
        \/ \E j \in DOMAIN s.ranges : j <= i /\ i <= s.ranges[j].max
    BY <1>0 DEF Accounted
  <2>2. \A j \in DOMAIN s.ranges : m.ranges[j].max = s.ranges[j].max BY <1>2, <1>9, <1>12
  <2> QED BY <1>10, <1>12, <2>1, <2>2
<1>16. Over(m) BY <1>10 DEF Over
<1>17. Kept(plan, m, hv, ms) BY <1>0, <1>10, <1>12, <1>13, <1>14, <1>15, <1>16 DEF Kept
<1>18. CASE plan.strict /\ told # {}
  <2>1. c = Finish(m) BY <1>1, <1>18
  <2>2. /\ Kept(plan, Finish(m), hv, ms) /\ NoneExhausted(Finish(m)) /\ ~Finish(m).running
        /\ Finish(m).told = m.told
    BY <1>10, <1>13, <1>14, FinishKeeps
  <2>3. Ended(plan, Finish(m), hv) BY <1>10, <1>18, <2>2 DEF Ended
  <2> QED BY <2>1, <2>2, <2>3 DEF c
<1>19. CASE ~(plan.strict /\ told # {})
  <2>1. c = m /\ told = lost BY <1>1, <1>6, <1>19
  <2>2. \A i \in indexes : Exhausted(s, g, i) => i \in g2.told \/ (plan.fallback /\ i \notin g.any)
    BY <1>5, <1>7, <1>9, <2>1
  <2>3. ASSUME NEW i, Exhausted(m, g2, i) PROVE Exhausted(s, g, i) /\ i \notin indexes
    <3>1. /\ i \in g.missing \ g2.told /\ g.flying[i] = 0 /\ (s.total # Unknown \/ i = 0)
          /\ \A r \in RelaySet : i \in g.tried[r][(i \in g2.any)]
      BY <1>9, <1>10, <2>3 DEF Exhausted
    <3>2. i \in g2.any => i \in g.any
      <4> SUFFICES ASSUME i \in g2.any PROVE i \in g.any OBVIOUS
      <4>1. (i \in g2.any) = TRUE OBVIOUS
      <4>2. \A r \in RelaySet : i \in g.tried[r][TRUE] BY <3>1, <4>1
      <4>3. \A r \in RelaySet : g.tried[r][TRUE] \subseteq g.any BY <1>2 DEF RangeOK
      <4> QED BY <4>2, <4>3, RelaysOK
    <3>3. i \in g.any => i \in g2.any BY <1>9
    <3>4. (i \in g2.any) = (i \in g.any)
      <4>1. CASE i \in g.any BY <3>3, <4>1
      <4>2. CASE i \notin g.any BY <3>2, <4>2
      <4> QED BY <4>1, <4>2
    <3>5. \A r \in RelaySet : i \in g.tried[r][(i \in g.any)] BY <3>1, <3>4
    <3>6. Exhausted(s, g, i) BY <1>9, <3>1, <3>5 DEF Exhausted
    <3>7. i \notin indexes
      <4> SUFFICES ASSUME i \in indexes PROVE FALSE OBVIOUS
      <4>1. i \in exhausted BY <1>7, <3>6
      <4>2. i \in again \/ i \in told BY <1>5, <2>1, <4>1
      <4>3. i \notin told BY <1>9, <3>1
      <4>4. i \in g2.any /\ i \notin g.any BY <1>5, <1>9, <4>2, <4>3
      <4> QED BY <3>2, <4>4
    <3> QED BY <3>6, <3>7
  <2>4. Checks(s, m, k, indexes) BY <1>2, <1>9, <1>10, <1>12, <2>2, <2>3 DEF Checks
  <2> QED BY <1>10, <1>17, <2>1, <2>4 DEF c
<1> QED BY <1>18, <1>19

-----------------------------------------------------------------------------
\* The end of a task: what Kept says, and that the download goes on or has ended well.
AtRest(p, s, hv, ms) ==
  Kept(p, s, hv, ms) /\ (p.known => NoneExhausted(s)) /\ Busy(s) /\ Ended(p, s, hv)

\* A range leaves the books when it has nothing under way.
LEMMA OneLess ==
  ASSUME NEW s \in Downs, NEW t, NEW hv, NEW ms, Books(plan, s, hv, ms), NEW k, Running(s, k) = {},
         t.ranges = Without(s, k), t.next = s.next, t.total = s.total, t.told = s.told, Batches(t) = Batches(s)
  PROVE  /\ Books(plan, t, hv, ms) /\ t.ranges \in Partitions /\ DOMAIN t.ranges = DOMAIN s.ranges \ {k}
         /\ \A j \in DOMAIN s.ranges \ {k} : t.ranges[j] = s.ranges[j]
         /\ \A j : Running(t, j) = Running(s, j)
<1>1. /\ t.ranges \in Partitions /\ DOMAIN t.ranges = DOMAIN s.ranges \ {k}
      /\ \A j \in DOMAIN s.ranges \ {k} : t.ranges[j] = s.ranges[j]
  <2>1. s.ranges \in Partitions BY DownParts
  <2>2. /\ Without(s, k) \in Partitions /\ DOMAIN Without(s, k) = DOMAIN s.ranges \ {k}
        /\ \A j \in DOMAIN s.ranges \ {k} : Without(s, k)[j] = s.ranges[j]
    BY <2>1, PartitionLess
  <2> QED BY <2>2
<1>2. \A j : Running(t, j) = Running(s, j) BY DEF Running
<1>3. \A j \in DOMAIN t.ranges : Book(plan, t, j, hv, ms) BY <1>1, <1>2 DEF Books, Book
<1>4. Apart(t) BY <1>1 DEF Books, Apart
<1>5. \A b \in Batches(t) : b.range \in DOMAIN t.ranges BY <1>1 DEF Books, Running
<1> QED BY <1>1, <1>2, <1>3, <1>4, <1>5 DEF Books

\* A range has ended with nothing left that is neither there nor told lost: the
\* download goes on with what is left of it, or it has ended.
LEMMA RangeFinishedKeeps ==
  ASSUME plan \in Plans, NEW s, NEW hv, NEW ms, Kept(plan, s, hv, ms), s.running, NEW k \in DOMAIN s.ranges,
         Running(s, k) = {}, ~s.ranges[k].loading, plan.known => NoneExhausted(s), BusyBut(s, k),
         Faithful(plan) /\ s.total # Unknown => s.ranges[k].missing \subseteq s.told,
         Faithful(plan) /\ s.total = Unknown => 0 \in s.told
  PROVE  AtRest(plan, RangeFinished(s, k), hv, ms)
<1> DEFINE rest == [s EXCEPT !.ranges = Without(s, k)]
           o == CHOOSE o \in DOMAIN rest.ranges : TRUE
           more == IF DOMAIN rest.ranges = {} THEN StartNextRange(rest)
                   ELSE IF rest.ranges[o].loading THEN rest ELSE Coverage(rest, o)
           t == RangeFinished(s, k)
<1>0. /\ s \in Downs /\ Books(plan, s, hv, ms) /\ Limiter(s.queue, s.active) /\ Attentive(s.queue, s.active)
      /\ Progress(plan, s, hv) /\ Told(plan, s, ms) /\ Accounted(plan, s, hv) /\ Over(s)
  BY DEF Kept
<1>1. t = IF DOMAIN more.ranges = {} /\ (more.total = Unknown \/ more.next > plan.to) THEN Finish(more) ELSE more
  BY DEF RangeFinished
<1> HIDE DEF t
<1>2. /\ rest \in Downs /\ rest.ranges = Without(s, k) /\ rest.running = s.running /\ rest.total = s.total
      /\ rest.next = s.next /\ rest.begun = s.begun /\ rest.count = s.count /\ rest.told = s.told
      /\ rest.queue = s.queue /\ rest.active = s.active /\ rest.cancelled = s.cancelled
  <2> DEFINE f == Without(s, k)
  <2>1. f \in Partitions BY <1>0, DownParts, PartitionLess
  <2>2. rest = [s EXCEPT !.ranges = f] OBVIOUS
  <2> HIDE DEF f, rest
  <2>3. /\ rest \in Downs /\ rest.ranges = f /\ rest.running = s.running /\ rest.total = s.total
        /\ rest.next = s.next /\ rest.begun = s.begun /\ rest.count = s.count /\ rest.told = s.told
        /\ rest.queue = s.queue /\ rest.active = s.active /\ rest.cancelled = s.cancelled
    BY <1>0, <2>1, <2>2 DEF Downs
  <2> QED BY <2>3 DEF f
<1> HIDE DEF rest
<1>3. Batches(rest) = Batches(s) BY <1>2 DEF Batches
<1>4. /\ Books(plan, rest, hv, ms) /\ DOMAIN rest.ranges = DOMAIN s.ranges \ {k}
      /\ \A j \in DOMAIN s.ranges \ {k} : rest.ranges[j] = s.ranges[j]
      /\ \A j : Running(rest, j) = Running(s, j)
  <2>1. /\ s \in Downs /\ Books(plan, s, hv, ms) /\ Running(s, k) = {}
        /\ rest.ranges = Without(s, k) /\ rest.next = s.next /\ rest.total = s.total /\ rest.told = s.told
        /\ Batches(rest) = Batches(s)
    BY <1>0, <1>2, <1>3
  <2>2. /\ Books(plan, rest, hv, ms) /\ rest.ranges \in Partitions /\ DOMAIN rest.ranges = DOMAIN s.ranges \ {k}
        /\ \A j \in DOMAIN s.ranges \ {k} : rest.ranges[j] = s.ranges[j]
        /\ \A j : Running(rest, j) = Running(s, j)
    BY ONLY <2>1, OneLess
  <2> QED BY <2>2
<1>5. Progress(plan, rest, hv) /\ Told(plan, rest, ms) BY <1>0, <1>2 DEF Progress, Told
<1>6. plan.known => NoneExhausted(rest)
  <2>1. \A j \in DOMAIN rest.ranges : \A i : Exhausted(rest, rest.ranges[j], i) => Exhausted(s, s.ranges[j], i)
    BY <1>2, <1>4 DEF Exhausted
  <2> QED BY <1>4, <2>1 DEF NoneExhausted
<1>7. k \in Int /\ RangeOK(plan, s.total, s.next, k, s.ranges[k], hv) BY <1>0, DownParts DEF Books, Book
<1>8. CASE s.total = Unknown
  <2>1. DOMAIN s.ranges = {k}
    <3>1. \A j \in DOMAIN s.ranges : RangeOK(plan, s.total, s.next, j, s.ranges[j], hv) BY <1>0 DEF Books, Book
    <3>2. \A j \in DOMAIN s.ranges : j = 0 BY <1>8, <3>1 DEF RangeOK
    <3> QED BY <3>2
  <2>2. DOMAIN rest.ranges = {} BY <1>4, <2>1
  <2>3. more = rest
    <3>1. s.begun BY <1>0, <1>8 DEF Progress
    <3> QED BY <1>2, <1>8, <2>2, <3>1 DEF StartNextRange
  <2>4. t = Finish(rest) BY <1>1, <1>2, <1>8, <2>2, <2>3
  <2>5. /\ Kept(plan, Finish(rest), hv, ms) /\ NoneExhausted(Finish(rest)) /\ ~Finish(rest).running
        /\ Finish(rest).told = rest.told /\ Finish(rest).total = rest.total
    BY <1>2, <1>5, FinishKeeps
  <2>6. Ended(plan, Finish(rest), hv) BY <1>2, <1>8, <2>5 DEF Ended
  <2>7. Busy(Finish(rest)) BY <2>5 DEF Busy
  <2> QED BY <2>4, <2>5, <2>6, <2>7 DEF AtRest, t
<1>9. CASE s.total # Unknown
  <2>1. Accounted(plan, rest, hv)
    <3> SUFFICES ASSUME s.running, Faithful(plan), NEW i \in plan.from .. plan.to
                 PROVE  \/ i \in hv \cup rest.told \/ i >= rest.next
                        \/ \E j \in DOMAIN rest.ranges : j <= i /\ i <= rest.ranges[j].max
      BY <1>2 DEF Accounted
    <3>1. \/ i \in hv \cup s.told \/ i >= s.next
          \/ \E j \in DOMAIN s.ranges : j <= i /\ i <= s.ranges[j].max
      BY <1>0 DEF Accounted
    <3>2. ASSUME k <= i, i <= s.ranges[k].max PROVE i \in hv \cup s.told
      <4> DEFINE g == s.ranges[k]
      <4>1. /\ g.end = g.max \/ g.end = plan.total - 1
            /\ g.missing = (k .. g.end) \ g.covered /\ g.covered \subseteq hv
        BY <1>7, <1>9 DEF RangeOK
      <4>2. g.max \in Int /\ g.end \in Int /\ i \in Int /\ plan.to \in Int /\ plan.total \in Int /\ plan.to < plan.total /\ i <= plan.to
        <5>1. g \in RangeSet BY <1>7 DEF RangeOK
        <5>2. plan.total \in Nat /\ plan.to \in Nat /\ plan.to < plan.total BY DownloadConstants
        <5>3. g.max \in Int /\ g.end \in Int BY <5>1 DEF RangeSet
        <5> HIDE DEF g
        <5> QED BY <5>2, <5>3
      <4>3. g.missing \subseteq s.told BY <1>9
      <4> HIDE DEF g
      <4>4. i <= g.end BY <3>2, <4>1, <4>2 DEF g
      <4>5. i \in k .. g.end BY <1>7, <3>2, <4>2, <4>4
      <4> QED BY <4>1, <4>3, <4>5
    <3> QED BY <1>2, <1>4, <3>1, <3>2
  <2>2. Over(rest) BY <1>2 DEF Over
  <2>3. Kept(plan, rest, hv, ms) BY <1>0, <1>2, <1>4, <1>5, <2>1, <2>2 DEF Kept
  <2>4. /\ Kept(plan, more, hv, ms) /\ Extends(rest, more)
        /\ DOMAIN more.ranges = {} => more.next > plan.to
    <3>1. CASE DOMAIN rest.ranges = {}
      <4>1. more = StartNextRange(rest) BY <3>1
      <4> HIDE DEF more
      <4>2. /\ Kept(plan, StartNextRange(rest), hv, ms) /\ Extends(rest, StartNextRange(rest))
            /\ (rest.running /\ DOMAIN StartNextRange(rest).ranges = {} =>
                 StartNextRange(rest) = rest /\ (rest.total = Unknown \/ rest.next > plan.to))
        BY <2>3, StartKeeps
      <4>3. DOMAIN more.ranges = {} => more = rest /\ rest.next > plan.to BY <1>2, <1>9, <4>1, <4>2
      <4> QED BY <4>1, <4>2, <4>3
    <3>2. CASE DOMAIN rest.ranges # {}
      <4>1. more = rest \/ more = Coverage(rest, o) BY <3>2
      <4> HIDE DEF more, o
      <4>2. Kept(plan, Coverage(rest, o), hv, ms) /\ Extends(rest, Coverage(rest, o)) BY <2>3, CoverageKeeps
      <4>3. Extends(rest, rest) BY DEF Extends
      <4>4. Kept(plan, more, hv, ms) /\ Extends(rest, more) BY <2>3, <4>1, <4>2, <4>3
      <4>5. DOMAIN more.ranges # {} BY <3>2, <4>4 DEF Extends
      <4> QED BY <4>4, <4>5
    <3> QED BY <3>1, <3>2
  <2> HIDE DEF more
  <2>5. /\ more.running = s.running /\ more.total = s.total /\ more.told = s.told
        /\ DOMAIN rest.ranges \subseteq DOMAIN more.ranges
        /\ \A j \in DOMAIN rest.ranges : more.ranges[j] = rest.ranges[j]
        /\ \A j \in DOMAIN more.ranges \ DOMAIN rest.ranges : more.ranges[j].loading /\ more.ranges[j].missing = {}
        /\ \A j : Running(more, j) = Running(rest, j)
    <3>1. \A j : Running(more, j) = Running(rest, j) BY <2>4, ExtendsRunning
    <3> QED BY <1>2, <2>4, <3>1 DEF Extends
  <2>6. CASE DOMAIN more.ranges = {}
    <3>1. t = Finish(more) BY <1>1, <2>4, <2>6
    <3>2. more \in Downs /\ Progress(plan, more, hv) /\ Told(plan, more, ms) /\ Accounted(plan, more, hv) BY <2>4 DEF Kept
    <3>3. /\ Kept(plan, Finish(more), hv, ms) /\ NoneExhausted(Finish(more)) /\ ~Finish(more).running
          /\ Finish(more).told = more.told
      BY <3>2, FinishKeeps
    <3>4. ASSUME Faithful(plan), NEW i \in plan.from .. plan.to PROVE i \in hv \cup more.told
      <4>1. i \in hv \cup more.told \/ i >= more.next BY <2>5, <2>6, <3>2, <3>4 DEF Accounted
      <4>2. more.next \in Int /\ i \in Int /\ i <= plan.to /\ plan.to \in Int
        <5>1. more.next \in Int BY <3>2, DownParts
        <5>2. plan.to \in Nat BY DownloadConstants
        <5> QED BY <5>1, <5>2
      <4>3. more.next > plan.to BY <2>4, <2>6
      <4> QED BY <4>1, <4>2, <4>3
    <3>5. Ended(plan, Finish(more), hv) BY <3>3, <3>4 DEF Ended
    <3>6. Busy(Finish(more)) BY <3>3 DEF Busy
    <3> QED BY <3>1, <3>3, <3>5, <3>6 DEF AtRest, t
  <2>7. CASE DOMAIN more.ranges # {}
    <3>1. t = more BY <1>1, <2>7
    <3>2. Busy(more) BY <1>4, <2>5, <2>7 DEF Busy, BusyBut
    <3>3. Ended(plan, more, hv) BY <2>5 DEF Ended
    <3>4. plan.known => NoneExhausted(more)
      <4>1. \A j \in DOMAIN rest.ranges : \A i : Exhausted(more, more.ranges[j], i) => Exhausted(rest, rest.ranges[j], i)
        BY <1>2, <2>5 DEF Exhausted
      <4> QED BY <1>6, <2>5, <4>1 DEF NoneExhausted
    <3> QED BY <2>4, <3>1, <3>2, <3>3, <3>4 DEF AtRest, t
  <2> QED BY <2>6, <2>7
<1> QED BY <1>8, <1>9

\* A range that runs is asked for again when nothing of it is under way; when no
\* relay has anything left to be asked for, it has ended.
LEMMA MaybeFinishKeeps ==
  ASSUME plan \in Plans, NEW s, NEW hv, NEW ms, Kept(plan, s, hv, ms), s.running, NEW k \in DOMAIN s.ranges,
         ~s.ranges[k].loading, plan.known => NoneExhausted(s), BusyBut(s, k)
  PROVE  AtRest(plan, MaybeFinish(s, k), hv, ms)
<1> DEFINE g == s.ranges[k]
           asked == IF g.missing = {} THEN s ELSE ScheduleRelays(s, k)
           gone(u) == Lost(u, k, Of(u, k).missing)
           reported(u) == IF plan.strict THEN {i \in gone(u) : \A j \in gone(u) : i <= j} ELSE gone(u)
           checked == CheckExhausted(asked, k, Of(asked, k).missing, reported(asked))
           t == MaybeFinish(s, k)
<1>0. /\ s \in Downs /\ Books(plan, s, hv, ms) /\ Progress(plan, s, hv) BY DEF Kept
<1>1. t = IF Running(s, k) # {} THEN s
          ELSE IF Running(asked, k) # {} THEN asked
          ELSE IF checked.running THEN RangeFinished(checked, k) ELSE checked
  BY DEF MaybeFinish, Of
<1> HIDE DEF t, g, checked, gone, reported
<1>2. CASE Running(s, k) # {}
  <2>1. t = s BY <1>1, <1>2
  <2>2. Busy(s) BY <1>2 DEF Busy, BusyBut
  <2>3. Ended(plan, s, hv) BY DEF Ended
  <2> QED BY <2>1, <2>2, <2>3 DEF AtRest, t
<1>3. CASE Running(s, k) = {}
  <2>1. /\ Kept(plan, asked, hv, ms) /\ Grows(s, asked)
        /\ Running(asked, k) = {} => asked = s /\ (g.missing = {} \/ \A r \in RelaySet : Exhausts(s, k, r))
    <3>1. /\ Kept(plan, ScheduleRelays(s, k), hv, ms) /\ Grows(s, ScheduleRelays(s, k))
          /\ Running(ScheduleRelays(s, k), k) = {} => ScheduleRelays(s, k) = s /\ \A r \in RelaySet : Exhausts(s, k, r)
      BY ScheduleKeeps
    <3>2. Grows(s, s) BY GrowsNone
    <3> QED BY <3>1, <3>2
  <2> HIDE DEF asked
  <2>2. CASE Running(asked, k) # {}
    <3>1. t = asked BY <1>1, <1>3, <2>2
    <3>2. Busy(asked) BY <2>1, <2>2 DEF Busy, BusyBut, Grows
    <3>3. Ended(plan, asked, hv) BY <2>1 DEF Ended, Grows
    <3>4. plan.known => NoneExhausted(asked) BY <2>1 DEF NoneExhausted, Grows
    <3> QED BY <2>1, <3>1, <3>2, <3>3, <3>4 DEF AtRest, t
  <2>3. CASE Running(asked, k) = {}
    <3>1. asked = s /\ (g.missing = {} \/ \A r \in RelaySet : Exhausts(s, k, r)) BY <2>1, <2>3
    <3>2. checked = CheckExhausted(s, k, g.missing, reported(s)) BY <3>1 DEF checked, g, Of
    <3>3. t = IF checked.running THEN RangeFinished(checked, k) ELSE checked BY <1>1, <1>3, <2>3
    <3> DEFINE X == g.missing
    <3>4. /\ Kept(plan, checked, hv, ms)
          /\ checked.running => Checks(s, checked, k, X)
          /\ ~checked.running => Ended(plan, checked, hv) /\ NoneExhausted(checked)
      <4>1. checked = CheckExhausted(s, k, X, reported(s)) BY <3>2
      <4>a. reported(s) \in Reports(Lost(s, k, X))
        <5>1. gone(s) = Lost(s, k, X) BY DEF gone, g, Of
        <5>2. Lost(s, k, X) \subseteq Nat
          <6>1. RangeOK(plan, s.total, s.next, k, g, hv) BY <1>0 DEF Books, Book, g
          <6>2. 0 <= k /\ k \in Int BY <1>0, <6>1, DownParts DEF RangeOK
          <6>3. g.missing \subseteq k .. g.end BY <6>1, <6>2, MissingInside
          <6>4. Lost(s, k, X) \subseteq g.missing BY DEF Lost
          <6> QED BY <6>2, <6>3, <6>4
        <5> DEFINE lost == Lost(s, k, X)
        <5>3. lost # {} => Min(lost) \in lost /\ \A j \in lost : Min(lost) <= j
          <6> HIDE DEF lost
          <6> QED BY <5>2, MinOf DEF lost
        <5>4. reported(s) = IF plan.strict THEN {i \in lost : \A j \in lost : i <= j} ELSE lost
          BY <5>1 DEF reported
        <5>5. lost \subseteq Nat BY <5>2
        <5> HIDE DEF lost
        <5>6. CASE plan.strict /\ lost # {}
          <6>1. PICK x \in lost : x = Min(lost) /\ \A j \in lost : x <= j BY <5>3, <5>6
          <6>2. \A i \in lost : i <= x => i = x BY <5>5, <6>1
          <6>3. {i \in lost : \A j \in lost : i <= j} = {Min(lost)} BY <6>1, <6>2
          <6> QED BY <5>3, <5>4, <5>6, <6>3 DEF Reports, lost
        <5>7. CASE ~(plan.strict /\ lost # {}) BY <5>4, <5>7 DEF Reports, lost
        <5> QED BY <5>6, <5>7
      <4> HIDE DEF X
      <4>2. /\ Kept(plan, CheckExhausted(s, k, X, reported(s)), hv, ms)
            /\ CheckExhausted(s, k, X, reported(s)).running => Checks(s, CheckExhausted(s, k, X, reported(s)), k, X)
            /\ ~CheckExhausted(s, k, X, reported(s)).running =>
                  Ended(plan, CheckExhausted(s, k, X, reported(s)), hv) /\ NoneExhausted(CheckExhausted(s, k, X, reported(s)))
        BY <4>a, CheckKeeps
      <4> QED BY <4>1, <4>2
    <3>5. CASE ~checked.running
      <4>1. Busy(checked) BY <3>5 DEF Busy
      <4> QED BY <3>3, <3>4, <3>5, <4>1 DEF AtRest, t
    <3>6. CASE checked.running
      <4>0. Checks(s, checked, k, X) BY <3>4, <3>6
      <4> DEFINE c == checked
                 h == c.ranges[k]
      <4>1. /\ c.running = s.running /\ c.total = s.total /\ c.queue = s.queue /\ c.active = s.active
            /\ DOMAIN c.ranges = DOMAIN s.ranges /\ \A j \in DOMAIN s.ranges \ {k} : c.ranges[j] = s.ranges[j]
            /\ h.missing = g.missing /\ h.loading = g.loading /\ g.told \subseteq h.told
            /\ \A i \in g.missing : Exhausted(s, g, i) => i \in h.told \/ (plan.fallback /\ i \notin g.any)
            /\ \A i : Exhausted(c, h, i) => Exhausted(s, g, i)
        BY <4>0 DEF Checks, g
      <4>2. h.told \subseteq c.told /\ RangeOK(plan, s.total, s.next, k, g, hv)
        BY <1>0, <3>4, <4>1 DEF Kept, Books, Book, g
      <4>3. \A j : Running(c, j) = Running(s, j) BY <4>1 DEF Running, Batches
      <4> HIDE DEF h, X
      <4>4. plan.known => NoneExhausted(c)
        <5>1. \A j \in DOMAIN s.ranges \ {k} : \A i : Exhausted(c, c.ranges[j], i) => Exhausted(s, s.ranges[j], i)
          BY <4>1 DEF Exhausted
        <5> QED BY <4>1, <5>1 DEF NoneExhausted, h, g
      <4>5. BusyBut(c, k) BY <4>1, <4>3 DEF BusyBut
      <4>6. ASSUME Faithful(plan), NEW i \in g.missing, s.total # Unknown \/ i = 0 PROVE i \in c.told
        <5>1. CASE i \in g.told BY <4>1, <4>2, <5>1
        <5>2. CASE i \notin g.told
          <6>1. \A r \in RelaySet : Exhausts(s, k, r) BY <3>1, <4>6
          <6>2. Exhausted(s, g, i) BY <1>3, <4>6, <5>2, <6>1, AllTried DEF g
          <6>3. ~plan.known BY <4>6, <6>2 DEF NoneExhausted, g
          <6>4. ~plan.fallback BY <4>6, <6>3 DEF Faithful
          <6> QED BY <4>1, <4>2, <4>6, <6>2, <6>4
        <5> QED BY <5>1, <5>2
      <4>7. Faithful(plan) /\ c.total # Unknown => h.missing \subseteq c.told BY <4>1, <4>6
      <4>8. Faithful(plan) /\ c.total = Unknown => 0 \in c.told
        <5> SUFFICES ASSUME Faithful(plan), s.total = Unknown PROVE 0 \in c.told BY <4>1
        <5>1. hv = {} BY <1>0 DEF Progress
        <5>2. k = 0 /\ g.missing = (k .. g.end) \ g.covered /\ g.covered \subseteq hv /\ k <= g.end
          BY <4>2 DEF RangeOK, g
        <5>3. g.end \in Int
          <6>1. g \in RangeSet BY <4>2 DEF RangeOK
          <6> QED BY <6>1 DEF RangeSet
        <5>4. 0 \in g.missing BY <5>1, <5>2, <5>3
        <5> QED BY <4>6, <5>4
      <4> HIDE DEF c
      <4>9. AtRest(plan, RangeFinished(c, k), hv, ms)
        <5>1. /\ Kept(plan, c, hv, ms) /\ c.running /\ k \in DOMAIN c.ranges /\ Running(c, k) = {} /\ ~c.ranges[k].loading
          BY <1>3, <3>4, <3>6, <4>1, <4>3 DEF c, h, g
        <5>2. Faithful(plan) /\ c.total # Unknown => c.ranges[k].missing \subseteq c.told BY <4>7 DEF h
        <5> QED BY <4>4, <4>5, <4>8, <5>1, <5>2, RangeFinishedKeeps
      <4> QED BY <3>3, <3>6, <4>9 DEF c, t
    <3> QED BY <3>5, <3>6
  <2> QED BY <2>2, <2>3
<1> QED BY <1>2, <1>3

\* A download whose total becomes known, in one range.
Learnt(s, k, total, g) == [s EXCEPT !.total = total, !.ranges = [s.ranges EXCEPT ![k] = g]]

\* The total becomes known: the first range learns its end, and others may begin.
LEMMA SetTotalKeeps ==
  ASSUME plan \in Plans, NEW s, NEW hv, NEW ms, Kept(plan, s, hv, ms), s.total = Unknown, NEW k \in DOMAIN s.ranges,
         ~s.ranges[k].loading
  PROVE  /\ Kept(plan, SetTotal(s, k, plan.total), hv, ms) /\ SetTotal(s, k, plan.total).running
         /\ SetTotal(s, k, plan.total).total # Unknown /\ k \in DOMAIN SetTotal(s, k, plan.total).ranges
         /\ ~SetTotal(s, k, plan.total).ranges[k].loading
         /\ \A j \in DOMAIN SetTotal(s, k, plan.total).ranges \ {k} : SetTotal(s, k, plan.total).ranges[j].loading
         /\ Running(s, k) \subseteq Running(SetTotal(s, k, plan.total), k)
<1> DEFINE g == s.ranges[k]
           g2 == Totalled(g, plan.total)
           known == [s EXCEPT !.total = plan.total, !.ranges[k] = Totalled(@, plan.total)]
           c == Coverage(known, k)
           t == ScheduleRelays(c, k)
<1>0. /\ s \in Downs /\ Books(plan, s, hv, ms) /\ Limiter(s.queue, s.active) /\ Attentive(s.queue, s.active)
      /\ Progress(plan, s, hv) /\ Told(plan, s, ms) /\ Accounted(plan, s, hv) /\ Over(s)
  BY DEF Kept
<1>1. SetTotal(s, k, plan.total) = t BY DEF SetTotal
<1>2. s.running /\ hv = {} BY <1>0 DEF Over, Progress
<1>3. plan.total \in Nat \ {0} /\ plan.total # Unknown
  <2>1. plan.total \in Nat \ {0} BY DownloadConstants
  <2> QED BY <2>1 DEF Unknown
<1>4. k \in Int /\ RangeOK(plan, Unknown, s.next, k, g, {}) /\ Flown(Unknown, g, Running(s, k), ms) /\ g.told \subseteq s.told
  BY <1>0, <1>2, DownParts DEF Books, Book
<1>5. DOMAIN s.ranges = {k}
  <2>1. \A j \in DOMAIN s.ranges : RangeOK(plan, s.total, s.next, j, s.ranges[j], hv) BY <1>0 DEF Books, Book
  <2>2. \A j \in DOMAIN s.ranges : j = 0 BY <2>1 DEF RangeOK
  <2> QED BY <2>2
<1>6. s.ranges \in Partitions /\ s.next \in Int BY <1>0, DownParts
<1>7. known = Learnt(s, k, plan.total, g2) BY <1>0 DEF Learnt, Downs
<1> HIDE DEF g2, known
<1>8. /\ RangeOK(plan, plan.total, s.next, k, g2, {}) /\ Flown(plan.total, g2, Running(s, k), ms)
      /\ g2.told = g.told /\ g2.max = g.max /\ ~g2.loading
  <2> DEFINE R == Running(s, k)
             next == s.next
  <2>1. next \in Int /\ k \in Int /\ ~g.loading /\ RangeOK(plan, Unknown, next, k, g, {}) /\ Flown(Unknown, g, R, ms)
    BY <1>4, <1>6
  <2> HIDE DEF R, g, next
  <2>2. /\ RangeOK(plan, plan.total, next, k, Totalled(g, plan.total), {})
        /\ Flown(plan.total, Totalled(g, plan.total), R, ms)
        /\ Totalled(g, plan.total).told = g.told /\ Totalled(g, plan.total).max = g.max
        /\ ~Totalled(g, plan.total).loading
    BY <2>1, TotalledRange
  <2> QED BY <2>2 DEF R, g2, next
<1>9. /\ known \in Downs /\ known.ranges = [s.ranges EXCEPT ![k] = g2] /\ known.total = plan.total
      /\ known.running = s.running /\ known.next = s.next /\ known.begun = s.begun /\ known.count = s.count
      /\ known.told = s.told /\ known.queue = s.queue /\ known.active = s.active /\ known.cancelled = s.cancelled
  <2> DEFINE f == [s.ranges EXCEPT ![k] = g2]
  <2>1. g2 \in RangeSet BY <1>8 DEF RangeOK
  <2>2. f \in Partitions BY <1>6, <2>1, PartitionChanged
  <2>3. known = [s EXCEPT !.total = plan.total, !.ranges = f] BY <1>7 DEF Learnt
  <2> HIDE DEF f
  <2>4. /\ known \in Downs /\ known.ranges = f /\ known.total = plan.total
        /\ known.running = s.running /\ known.next = s.next /\ known.begun = s.begun /\ known.count = s.count
        /\ known.told = s.told /\ known.queue = s.queue /\ known.active = s.active /\ known.cancelled = s.cancelled
    BY <1>0, <1>3, <2>2, <2>3 DEF Downs
  <2> QED BY <2>4 DEF f
<1>10. Batches(known) = Batches(s) /\ \A j : Running(known, j) = Running(s, j) BY <1>9 DEF Batches, Running
<1>11. Books(plan, known, hv, ms) /\ DOMAIN known.ranges = DOMAIN s.ranges /\ known.ranges[k] = g2
  <2>1. known.ranges = [s.ranges EXCEPT ![k] = g2] /\ known.next = s.next /\ s.told \subseteq known.told BY <1>9
  <2>2. hv \ hv \subseteq k .. g2.max OBVIOUS
  <2>3. RangeOK(plan, known.total, known.next, k, g2, hv) /\ Flown(known.total, g2, Running(known, k), ms)
    BY <1>2, <1>8, <1>9, <1>10
  <2>4. \A b \in Batches(known) : b \in Batches(s) \/ b.range = k BY <1>10
  <2>5. g2.max = s.ranges[k].max /\ g2.told \subseteq known.told BY <1>4, <1>8, <1>9
  <2>6. \A j \in DOMAIN s.ranges \ {k} : Running(known, j) = Running(s, j) BY <1>10
  <2>7. known.total = s.total \/ DOMAIN s.ranges = {k} BY <1>5
  <2>9. Swapped(plan, s, known, k, g2, hv, hv, ms, ms) BY <2>1, <2>2, <2>3, <2>4, <2>5, <2>6, <2>7 DEF Swapped
  <2>8. /\ Books(plan, known, hv, ms) /\ known.ranges \in Partitions /\ DOMAIN known.ranges = DOMAIN s.ranges
        /\ known.ranges[k] = g2 /\ \A j \in DOMAIN s.ranges \ {k} : known.ranges[j] = s.ranges[j]
    BY <1>0, <2>9, OneRange
  <2> QED BY <2>8
<1>12. Progress(plan, known, hv) BY <1>0, <1>3, <1>9 DEF Progress
<1>13. Told(plan, known, ms) BY <1>0, <1>9 DEF Told
<1>14. Accounted(plan, known, hv)
  <2> SUFFICES ASSUME s.running, Faithful(plan), NEW i \in plan.from .. plan.to
               PROVE  \/ i \in hv \cup known.told \/ i >= known.next
                      \/ \E j \in DOMAIN known.ranges : j <= i /\ i <= known.ranges[j].max
    BY <1>9 DEF Accounted
  <2>1. \/ i \in hv \cup s.told \/ i >= s.next
        \/ \E j \in DOMAIN s.ranges : j <= i /\ i <= s.ranges[j].max
    BY <1>0 DEF Accounted
  <2>2. known.ranges[k].max = g.max BY <1>8, <1>11
  <2> QED BY <1>5, <1>9, <1>11, <2>1, <2>2
<1>15. Over(known) BY <1>2, <1>9 DEF Over
<1>16. Kept(plan, known, hv, ms) BY <1>0, <1>9, <1>11, <1>12, <1>13, <1>14, <1>15 DEF Kept
<1> HIDE DEF c
<1>17. Kept(plan, c, hv, ms) /\ Extends(known, c) BY <1>16, CoverageKeeps DEF c
<1> HIDE DEF t
<1>18. Kept(plan, t, hv, ms) /\ Grows(c, t) BY <1>17, ScheduleKeeps DEF t
<1>19. /\ c.running = known.running /\ c.total = known.total /\ {k} \subseteq DOMAIN c.ranges
       /\ c.ranges[k] = g2 /\ \A j \in DOMAIN c.ranges \ {k} : c.ranges[j].loading
       /\ Running(c, k) = Running(s, k)
  <2>1. Running(c, k) = Running(known, k) BY <1>17, ExtendsRunning
  <2> QED BY <1>5, <1>10, <1>11, <1>17, <2>1 DEF Extends
<1>20. /\ t.running = c.running /\ t.total = c.total /\ DOMAIN t.ranges = DOMAIN c.ranges
       /\ \A j \in DOMAIN c.ranges : t.ranges[j].loading = c.ranges[j].loading
       /\ Running(c, k) \subseteq Running(t, k)
  BY <1>18 DEF Grows
<1> QED BY <1>1, <1>2, <1>3, <1>8, <1>9, <1>18, <1>19, <1>20

-----------------------------------------------------------------------------
\* A download in which batch b, under way, has received an event and is c now.
Heard(s, b, c) == [s EXCEPT !.active = (@ \ {b}) \cup {c}]

\* The same batch in all that it asks for.
Alike(b, c) == c.range = b.range /\ c.relay = b.relay /\ c.any = b.any /\ c.indexes = b.indexes

\* Hearing an event keeps the books; the range of the batch runs.
LEMMA HeardKeeps ==
  ASSUME NEW s, NEW hv, NEW ms, Kept(plan, s, hv, ms), NEW b \in s.active, NEW c \in BatchSet, Alike(b, c)
  PROVE  /\ Kept(plan, Heard(s, b, c), hv, ms) /\ Heard(s, b, c).running = s.running /\ Heard(s, b, c).total = s.total
         /\ Heard(s, b, c).ranges = s.ranges /\ s.running /\ b.range \in DOMAIN s.ranges /\ ~s.ranges[b.range].loading
         /\ Running(Heard(s, b, c), b.range) # {}
         /\ \A j : j # b.range => Running(Heard(s, b, c), j) = Running(s, j)
<1> DEFINE k == b.range
           act == (s.active \ {b}) \cup {c}
           t == Heard(s, b, c)
<1>0. /\ s \in Downs /\ Books(plan, s, hv, ms) /\ Limiter(s.queue, s.active) /\ Attentive(s.queue, s.active)
      /\ Progress(plan, s, hv) /\ Told(plan, s, ms) /\ Accounted(plan, s, hv) /\ Over(s)
  BY DEF Kept
<1>1. c.range = k /\ c.relay = b.relay /\ c.any = b.any /\ c.indexes = b.indexes BY DEF Alike
<1>2. b \in Batches(s) /\ b \in Running(s, k) BY DEF Batches, Running
<1>3. k \in DOMAIN s.ranges /\ s.running BY <1>0, <1>2 DEF Books, Over
<1>4. Book(plan, s, k, hv, ms) /\ Flown(s.total, s.ranges[k], Running(s, k), ms) BY <1>0, <1>3 DEF Books, Book
<1>5. (c = b \/ c \notin Running(s, k)) /\ Flown(s.total, s.ranges[k], (Running(s, k) \ {b}) \cup {c}, ms)
  <2> DEFINE total == s.total
             g == s.ranges[k]
             R == Running(s, k)
  <2>1. Flown(total, g, R, ms) /\ b \in R BY <1>2, <1>4
  <2> HIDE DEF total, g, R
  <2>2. (c = b \/ c \notin R) /\ Flown(total, g, (R \ {b}) \cup {c}, ms) BY <1>1, <2>1, HeardFlown
  <2> QED BY <2>2 DEF total, g, R
<1>6. c = b \/ c \notin AllOf(s.queue, s.active) BY <1>1, <1>5, BatchesAre
<1>7. /\ Limiter(s.queue, act) /\ AllOf(s.queue, act) = (AllOf(s.queue, s.active) \ {b}) \cup {c}
      /\ Attentive(s.queue, act)
  BY <1>0, <1>1, <1>6, ActiveChanged
<1> HIDE DEF act, t, k
<1>8. t = [s EXCEPT !.active = act] BY <1>0 DEF t, act, Heard, Downs
<1>9. act \in SUBSET BatchSet BY <1>7 DEF Limiter
<1>10. /\ t \in Downs /\ t.running = s.running /\ t.total = s.total /\ t.next = s.next /\ t.begun = s.begun
       /\ t.count = s.count /\ t.told = s.told /\ t.ranges = s.ranges /\ t.queue = s.queue /\ t.active = act
       /\ t.cancelled = s.cancelled
  BY <1>0, <1>8, <1>9 DEF Downs
<1>11. Batches(t) = (Batches(s) \ {b}) \cup {c} BY <1>7, <1>10, BatchesAre
<1>12. Running(t, k) = (Running(s, k) \ {b}) \cup {c} BY <1>1, <1>11 DEF Running
<1>13. \A j : j # k => Running(t, j) = Running(s, j) BY <1>1, <1>11 DEF Running, k
<1>14. ASSUME NEW j \in DOMAIN s.ranges PROVE Book(plan, t, j, hv, ms)
  <2>1. Book(plan, s, j, hv, ms) BY <1>0 DEF Books
  <2>2. CASE j = k BY <1>5, <1>10, <1>12, <2>1, <2>2 DEF Book
  <2>3. CASE j # k BY <1>10, <1>13, <2>1, <2>3 DEF Book
  <2> QED BY <2>2, <2>3
<1>15. Books(plan, t, hv, ms)
  <2>1. Apart(t) BY <1>0, <1>10 DEF Books, Apart
  <2>2. \A e \in Batches(t) : e.range \in DOMAIN t.ranges BY <1>0, <1>1, <1>3, <1>10, <1>11 DEF Books
  <2> QED BY <1>10, <1>14, <2>1, <2>2 DEF Books
<1>16. Progress(plan, t, hv) /\ Told(plan, t, ms) /\ Accounted(plan, t, hv) /\ Over(t)
  BY <1>0, <1>3, <1>10 DEF Progress, Told, Accounted, Over
<1>17. Kept(plan, t, hv, ms) BY <1>7, <1>10, <1>15, <1>16 DEF Kept
<1>18. ~s.ranges[k].loading
  <2>1. /\ b.indexes # {} /\ b.indexes \subseteq s.ranges[k].tried[b.relay][b.any] /\ b.relay \in RelaySet /\ b.any \in BOOLEAN
    BY <1>2, <1>4 DEF Flown, BatchSet
  <2>2. RangeOK(plan, s.total, s.next, k, s.ranges[k], hv) BY <1>4 DEF Book
  <2> QED BY <2>1, <2>2 DEF RangeOK
<1>19. Running(t, k) # {} BY <1>12
<1> QED BY <1>3, <1>10, <1>13, <1>17, <1>18, <1>19 DEF t, k

\* What a batch that hears an event goes on with: it may ask for more, and the
\* total may be news.
Rushed(s, b, c, again) == IF again THEN Request(Heard(s, b, c), b.range, b.relay) ELSE Heard(s, b, c)
Knowing(s, k) == IF s.total = Unknown THEN SetTotal(s, k, plan.total) ELSE s

\* A range that runs in a download whose total is known, the others busy as well.
Going(s, k) ==
  /\ s.running /\ s.total # Unknown /\ k \in DOMAIN s.ranges /\ ~s.ranges[k].loading /\ Running(s, k) # {}
  /\ BusyBut(s, k) /\ (plan.known => NoneExhausted(s))

\* All that keeps the books, and leaves the range running.
LEMMA KnowingKeeps ==
  ASSUME plan \in Plans, NEW s, NEW hv, NEW ms, AtRest(plan, s, hv, ms), NEW b \in s.active, NEW c \in BatchSet, Alike(b, c),
         NEW again
  PROVE  /\ Kept(plan, Knowing(Rushed(s, b, c, again), b.range), hv, ms)
         /\ Going(Knowing(Rushed(s, b, c, again), b.range), b.range)
<1> DEFINE k == b.range
           h == Heard(s, b, c)
           a == Rushed(s, b, c, again)
           t == Knowing(a, k)
<1>0. Kept(plan, s, hv, ms) /\ (plan.known => NoneExhausted(s)) /\ Busy(s) BY DEF AtRest
<1>1. /\ Kept(plan, h, hv, ms) /\ h.running = s.running /\ h.total = s.total
      /\ h.ranges = s.ranges /\ s.running /\ k \in DOMAIN s.ranges /\ ~s.ranges[k].loading
      /\ Running(h, k) # {}
      /\ \A j : j # k => Running(h, j) = Running(s, j)
  BY <1>0, HeardKeeps
<1>2. b.relay \in RelaySet
  <2>1. b \in BatchSet BY <1>0, DownParts DEF Kept
  <2> QED BY <2>1 DEF BatchSet
<1> HIDE DEF h, k
<1>3. Kept(plan, a, hv, ms) /\ Grows(h, a)
  <2>1. a = Request(h, k, b.relay) \/ a = h BY DEF Rushed, h, k
  <2>2. Kept(plan, Request(h, k, b.relay), hv, ms) /\ Grows(h, Request(h, k, b.relay)) BY <1>1, <1>2, RequestKeeps
  <2>3. Grows(h, h) BY GrowsNone
  <2> QED BY <1>1, <2>1, <2>2, <2>3
<1> HIDE DEF a
<1>4. /\ a.running /\ a.total = s.total /\ DOMAIN a.ranges = DOMAIN s.ranges /\ ~a.ranges[k].loading
      /\ Running(a, k) # {}
  BY <1>1, <1>3 DEF Grows
<1>5. BusyBut(a, k) BY <1>0, <1>1, <1>3 DEF Busy, BusyBut, Grows
<1>6. plan.known => NoneExhausted(a)
  <2>1. \A j \in DOMAIN s.ranges : \A i : Exhausted(h, h.ranges[j], i) => Exhausted(s, s.ranges[j], i)
    <3>1. h.ranges = s.ranges /\ h.total = s.total BY <1>1
    <3> QED BY <3>1, Zenon DEF Exhausted
  <2>2. plan.known => NoneExhausted(h)
    <3>1. h.ranges = s.ranges BY <1>1
    <3> QED BY <1>0, <2>1, <3>1 DEF NoneExhausted
  <2> QED BY <1>3, <2>2 DEF NoneExhausted, Grows
<1>7. CASE a.total = Unknown
  <2>1. t = SetTotal(a, k, plan.total) BY <1>7 DEF Knowing
  <2> DEFINE u == SetTotal(a, k, plan.total)
  <2>2. /\ Kept(plan, u, hv, ms) /\ u.running
        /\ u.total # Unknown /\ k \in DOMAIN u.ranges
        /\ ~u.ranges[k].loading
        /\ \A j \in DOMAIN u.ranges \ {k} : u.ranges[j].loading
        /\ Running(a, k) \subseteq Running(u, k)
    BY <1>1, <1>3, <1>4, <1>7, SetTotalKeeps
  <2>3. ~plan.known
    <3>1. Progress(plan, a, hv) BY <1>3 DEF Kept
    <3>2. plan.known => plan.total = Unknown BY <1>7, <3>1 DEF Progress
    <3>3. plan.total \in Nat \ {0} BY DownloadConstants
    <3> QED BY <3>2, <3>3 DEF Unknown
  <2> HIDE DEF u
  <2>4. BusyBut(u, k) BY <2>2 DEF BusyBut
  <2>5. Going(u, k) BY <1>4, <2>2, <2>3, <2>4 DEF Going
  <2> QED BY <2>1, <2>2, <2>5 DEF u, a, k
<1>8. CASE a.total # Unknown
  <2>1. t = a BY <1>8 DEF Knowing
  <2>2. Going(a, k) BY <1>1, <1>4, <1>5, <1>6, <1>8 DEF Going
  <2> QED BY <1>3, <2>1, <2>2 DEF a, k
<1> QED BY <1>7, <1>8

\* A chunk that comes gives no other one up.
LEMMA TakenExhausts ==
  ASSUME NEW total, NEW next \in Int, NEW k \in Int, NEW g, NEW hv, RangeOK(plan, total, next, k, g, hv), NEW i \in g.missing,
         NEW s, NEW t, t.total = s.total
  PROVE  Taken(g, i).missing = g.missing \ {i} /\ \A j : Exhausted(t, Taken(g, i), j) => Exhausted(s, g, j)
<1> DEFINE g2 == Taken(g, i)
<1>0. g \in RangeSet /\ g.flying \in [k .. g.max -> Nat] BY DEF RangeOK
<1>1. g2.missing = g.missing \ {i} /\ g2.told = g.told /\ g2.any = g.any /\ g2.tried = g.tried /\ g2.flying = [g.flying EXCEPT ![i] = 0]
  BY <1>0 DEF Taken, RangeSet
<1>2. g.missing \subseteq k .. g.max
  <2>1. g.missing \subseteq k .. g.end /\ k .. g.end \subseteq k .. g.max BY MissingInside
  <2> QED BY <2>1
<1>3. \A j \in g.missing \ {i} : g2.flying[j] = g.flying[j] BY <1>0, <1>1, <1>2
<1> HIDE DEF g2
<1>4. \A j : Exhausted(t, g2, j) => Exhausted(s, g, j)
  <2> SUFFICES ASSUME NEW j, Exhausted(t, g2, j) PROVE Exhausted(s, g, j) OBVIOUS
  <2>1. /\ j \in g.missing \ {i} /\ j \notin g.told /\ g2.flying[j] = 0 /\ (s.total # Unknown \/ j = 0)
        /\ \A r \in RelaySet : j \in g.tried[r][(j \in g.any)]
    BY <1>1 DEF Exhausted
  <2>2. g.flying[j] = 0 BY <1>3, <2>1
  <2> QED BY <2>1, <2>2 DEF Exhausted
<1> QED BY <1>1, <1>4 DEF g2

\* A download to which chunk i of a range came.
TakenIn(s, k, i) == [s EXCEPT !.ranges[k] = Taken(@, i), !.count = @ + 1]

\* A chunk that comes for the first time is counted.
LEMMA TakenKeeps ==
  ASSUME plan \in Plans, NEW s, NEW hv, NEW ms, Kept(plan, s, hv, ms), NEW k, Going(s, k), NEW i \in s.ranges[k].missing
  PROVE  AtRest(plan, Coverage(TakenIn(s, k, i), k), hv \cup {i}, ms)
<1> DEFINE g == s.ranges[k]
           g2 == Taken(g, i)
           hv2 == hv \cup {i}
           t == TakenIn(s, k, i)
           c == Coverage(t, k)
<1>0. /\ s \in Downs /\ Books(plan, s, hv, ms) /\ Limiter(s.queue, s.active) /\ Attentive(s.queue, s.active)
      /\ Progress(plan, s, hv) /\ Told(plan, s, ms) /\ Accounted(plan, s, hv) /\ Over(s)
  BY DEF Kept
<1>1. /\ s.running /\ s.total # Unknown /\ k \in DOMAIN s.ranges /\ ~g.loading /\ Running(s, k) # {}
      /\ BusyBut(s, k) /\ (plan.known => NoneExhausted(s))
  BY DEF Going
<1>2. k \in Int /\ RangeOK(plan, s.total, s.next, k, g, hv) /\ Flown(s.total, g, Running(s, k), ms) /\ g.told \subseteq s.told
      /\ s.next \in Int /\ s.ranges \in Partitions /\ g.max \in Int /\ g.end \in Int /\ s.count \in Int
  <2>1. Book(plan, s, k, hv, ms) /\ s.ranges[k] \in RangeSet BY <1>0, <1>1, DownParts DEF Books
  <2> QED BY <1>0, <1>1, <2>1, DownParts DEF Book, RangeSet
<1>3. /\ RangeOK(plan, s.total, s.next, k, g2, hv2) /\ Flown(s.total, g2, Running(s, k), ms)
      /\ g2.told = g.told /\ g2.loading = g.loading /\ g2.max = g.max
      /\ i \notin hv /\ i \in k .. g.end
  <2> DEFINE total == s.total
             next == s.next
             R == Running(s, k)
  <2>1. total # Unknown /\ next \in Int /\ k \in Int /\ RangeOK(plan, total, next, k, g, hv) /\ Flown(total, g, R, ms) /\ i \in g.missing
    BY <1>1, <1>2
  <2> HIDE DEF total, next, R, g
  <2>2. /\ RangeOK(plan, total, next, k, g2, hv2) /\ Flown(total, g2, R, ms)
        /\ g2.told = g.told /\ g2.loading = g.loading /\ g2.max = g.max
        /\ i \notin hv /\ i \in k .. g.end
    BY <2>1, TakenRange
  <2> QED BY <2>2 DEF total, next, R
<1>4. g2.missing = g.missing \ {i} /\ \A v : v.total = s.total => \A j : Exhausted(v, g2, j) => Exhausted(s, g, j)
  <2> DEFINE total == s.total
             next == s.next
  <2>1. next \in Int /\ k \in Int /\ RangeOK(plan, total, next, k, g, hv) /\ i \in g.missing BY <1>2
  <2> HIDE DEF total, next, g
  <2> QED BY <2>1, TakenExhausts
<1>5. i \in Int /\ i <= g.max /\ i < s.next
  <2>1. g.end <= g.max /\ g.max < s.next BY <1>2 DEF RangeOK
  <2> QED BY <1>2, <1>3, <2>1
<1> DEFINE f == [s.ranges EXCEPT ![k] = g2]
           n == s.count + 1
<1>6. t = [s EXCEPT !.ranges = f, !.count = n] BY <1>0 DEF TakenIn, Downs
<1>7. f \in Partitions /\ n \in Int
  <2>1. g2 \in RangeSet BY <1>3 DEF RangeOK
  <2> HIDE DEF g2
  <2> QED BY <1>1, <1>2, <2>1, PartitionChanged
<1> HIDE DEF f, n, t, g2, hv2, c
<1>8. /\ t \in Downs /\ t.running = s.running /\ t.total = s.total /\ t.next = s.next /\ t.begun = s.begun
      /\ t.count = n /\ t.told = s.told /\ t.ranges = f /\ t.queue = s.queue /\ t.active = s.active
      /\ t.cancelled = s.cancelled
  BY <1>0, <1>6, <1>7 DEF Downs
<1>9. Batches(t) = Batches(s) /\ \A j : Running(t, j) = Running(s, j) BY <1>8 DEF Batches, Running
<1>10. /\ Books(plan, t, hv2, ms) /\ DOMAIN t.ranges = DOMAIN s.ranges
       /\ t.ranges[k] = g2 /\ \A j \in DOMAIN s.ranges \ {k} : t.ranges[j] = s.ranges[j]
  <2>1. t.ranges = [s.ranges EXCEPT ![k] = g2] /\ t.next = s.next /\ s.told \subseteq t.told BY <1>8 DEF f
  <2>2. hv \subseteq hv2 /\ hv2 \ hv \subseteq k .. g2.max BY <1>2, <1>3, <1>5 DEF hv2
  <2>3. RangeOK(plan, t.total, t.next, k, g2, hv2) /\ Flown(t.total, g2, Running(t, k), ms) BY <1>3, <1>8, <1>9
  <2>4. \A b \in Batches(t) : b \in Batches(s) \/ b.range = k BY <1>9
  <2>5. g2.max = s.ranges[k].max /\ g2.told \subseteq t.told BY <1>2, <1>3, <1>8
  <2>6. \A j \in DOMAIN s.ranges \ {k} : Running(t, j) = Running(s, j) BY <1>9
  <2>7. t.total = s.total \/ DOMAIN s.ranges = {k} BY <1>8
  <2>8. Swapped(plan, s, t, k, g2, hv, hv2, ms, ms) BY <1>1, <2>1, <2>2, <2>3, <2>4, <2>5, <2>6, <2>7 DEF Swapped
  <2>9. /\ Books(plan, t, hv2, ms) /\ t.ranges \in Partitions /\ DOMAIN t.ranges = DOMAIN s.ranges
        /\ t.ranges[k] = g2 /\ \A j \in DOMAIN s.ranges \ {k} : t.ranges[j] = s.ranges[j]
    BY <1>0, <2>8, OneRange
  <2> QED BY <2>9
<1>11. Progress(plan, t, hv2)
  <2>1. IsFiniteSet(hv) /\ hv \subseteq Int /\ s.count = Cardinality(hv) /\ plan.cached \subseteq hv BY <1>0 DEF Progress
  <2>2. IsFiniteSet(hv2) /\ Cardinality(hv2) = Cardinality(hv) + 1 BY <1>3, <2>1, FS_AddElement DEF hv2
  <2>3. hv2 \subseteq Int /\ plan.cached \subseteq hv2 BY <1>5, <2>1 DEF hv2
  <2>4. \A j \in hv2 : j >= s.next => j \in plan.cached
    <3>1. ~(i >= s.next) BY <1>2, <1>5
    <3> QED BY <1>0, <3>1 DEF Progress, hv2
  <2> QED BY <1>0, <1>1, <1>8, <2>1, <2>2, <2>3, <2>4 DEF Progress, n
<1>12. Told(plan, t, ms) BY <1>0, <1>8 DEF Told
<1>13. Accounted(plan, t, hv2)
  <2> SUFFICES ASSUME s.running, Faithful(plan), NEW j \in plan.from .. plan.to
               PROVE  \/ j \in hv2 \cup t.told \/ j >= t.next
                      \/ \E x \in DOMAIN t.ranges : x <= j /\ j <= t.ranges[x].max
    BY <1>8 DEF Accounted
  <2>1. \/ j \in hv \cup s.told \/ j >= s.next
        \/ \E x \in DOMAIN s.ranges : x <= j /\ j <= s.ranges[x].max
    BY <1>0 DEF Accounted
  <2>2. \A x \in DOMAIN s.ranges : t.ranges[x].max = s.ranges[x].max BY <1>3, <1>10
  <2> QED BY <1>8, <1>10, <2>1, <2>2 DEF hv2
<1>14. Over(t) BY <1>1, <1>8 DEF Over
<1>15. Kept(plan, t, hv2, ms) BY <1>0, <1>8, <1>10, <1>11, <1>12, <1>13, <1>14 DEF Kept
<1>16. Kept(plan, c, hv2, ms) /\ Extends(t, c) BY <1>15, CoverageKeeps DEF c
<1>17. /\ c.running /\ c.total = s.total /\ DOMAIN s.ranges \subseteq DOMAIN c.ranges /\ c.ranges[k] = g2
       /\ \A j \in DOMAIN s.ranges \ {k} : c.ranges[j] = s.ranges[j]
       /\ \A j \in DOMAIN c.ranges \ DOMAIN s.ranges : c.ranges[j].loading /\ c.ranges[j].missing = {}
       /\ \A j : Running(c, j) = Running(s, j)
  <2>1. \A j : Running(c, j) = Running(s, j) BY <1>9, <1>16, ExtendsRunning
  <2> QED BY <1>1, <1>8, <1>10, <1>16, <2>1 DEF Extends
<1>18. Busy(c) BY <1>1, <1>17 DEF Busy, BusyBut
<1>19. plan.known => NoneExhausted(c)
  <2> SUFFICES ASSUME plan.known, NEW j \in DOMAIN c.ranges, NEW x \in c.ranges[j].missing PROVE ~Exhausted(c, c.ranges[j], x)
    BY DEF NoneExhausted
  <2>1. CASE j \notin DOMAIN s.ranges BY <1>17, <2>1
  <2>2. CASE j = k
    <3>1. x \in g.missing BY <1>4, <1>17, <2>2
    <3>2. ~Exhausted(s, g, x) BY <1>1, <3>1 DEF NoneExhausted
    <3> QED BY <1>4, <1>17, <2>2, <3>2
  <2>3. CASE j \in DOMAIN s.ranges /\ j # k
    <3>1. c.ranges[j] = s.ranges[j] BY <1>17, <2>3
    <3>2. ~Exhausted(s, s.ranges[j], x) BY <1>1, <2>3, <3>1 DEF NoneExhausted
    <3> QED BY <1>17, <3>1, <3>2 DEF Exhausted
  <2> QED BY <2>1, <2>2, <2>3
<1>20. Ended(plan, c, hv2) BY <1>17 DEF Ended
<1> QED BY <1>16, <1>18, <1>19, <1>20 DEF AtRest, c, t, hv2

\* A chunk that came from elsewhere before changes nothing more.
LEMMA GoingRests ==
  ASSUME NEW s, NEW hv, NEW ms, Kept(plan, s, hv, ms), NEW k, Going(s, k)
  PROVE  AtRest(plan, s, hv, ms)
BY DEF Going, AtRest, Busy, BusyBut, Ended

-----------------------------------------------------------------------------
\* What a batch that ends lacked, and a download that has taken it off the books.
Lacked(s, b) == b.indexes \cap s.ranges[b.range].missing
TakenOff(s, b) == [s EXCEPT !.active = @ \ {b}, !.ranges[b.range] = Landed(@, Lacked(s, b))]
Freed(s, b) == Drain(TakenOff(s, b), b.relay)

\* The end of an answer keeps the books; what may be given up now, it asked for.
LEMMA FreedKeeps ==
  ASSUME plan \in Plans, NEW s, NEW hv, NEW ms, AtRest(plan, s, hv, ms), NEW b \in s.active, NEW ms2, ms \subseteq ms2,
         \A i \in Lacked(s, b) : <<b.relay, i, b.any>> \in ms2
  PROVE  /\ Kept(plan, Freed(s, b), hv, ms2) /\ Freed(s, b).running
         /\ b.range \in DOMAIN Freed(s, b).ranges /\ ~Freed(s, b).ranges[b.range].loading /\ BusyBut(Freed(s, b), b.range)
         /\ plan.known => \A j \in DOMAIN Freed(s, b).ranges : \A i \in Freed(s, b).ranges[j].missing :
              Exhausted(Freed(s, b), Freed(s, b).ranges[j], i) => j = b.range /\ i \in b.indexes
<1> DEFINE k == b.range
           r == b.relay
           g == s.ranges[k]
           left == Lacked(s, b)
           g2 == Landed(g, left)
           act == s.active \ {b}
           f == [s.ranges EXCEPT ![k] = g2]
           o == TakenOff(s, b)
           t == Freed(s, b)
<1>0. /\ s \in Downs /\ Books(plan, s, hv, ms) /\ Limiter(s.queue, s.active) /\ Attentive(s.queue, s.active)
      /\ Progress(plan, s, hv) /\ Told(plan, s, ms) /\ Accounted(plan, s, hv) /\ Over(s)
      /\ (plan.known => NoneExhausted(s)) /\ Busy(s)
  BY DEF AtRest, Kept
<1>1. b \in Batches(s) /\ b \in Running(s, k) BY DEF Batches, Running
<1>2. k \in DOMAIN s.ranges /\ s.running /\ r \in RelaySet /\ b.any \in BOOLEAN
  <2>1. k \in DOMAIN s.ranges /\ s.running BY <1>0, <1>1 DEF Books, Over
  <2>2. b \in BatchSet BY <1>0, DownParts
  <2> QED BY <2>1, <2>2 DEF BatchSet
<1>3. k \in Int /\ RangeOK(plan, s.total, s.next, k, g, hv) /\ Flown(s.total, g, Running(s, k), ms) /\ g.told \subseteq s.told
      /\ s.next \in Int /\ s.ranges \in Partitions
  <2>1. Book(plan, s, k, hv, ms) BY <1>0, <1>2 DEF Books
  <2> QED BY <1>0, <1>2, <2>1, DownParts DEF Book
<1>4. ~g.loading
  <2>1. b.indexes # {} /\ b.indexes \subseteq g.tried[r][b.any] BY <1>1, <1>3 DEF Flown
  <2> QED BY <1>2, <1>3, <2>1 DEF RangeOK
<1>5. /\ RangeOK(plan, s.total, s.next, k, g2, hv) /\ Lands(g, g2, k, left)
      /\ Flown(s.total, g2, Running(s, k) \ {b}, ms2)
  <2> DEFINE total == s.total
             next == s.next
             R == Running(s, k)
  <2>1. /\ next \in Int /\ k \in Int /\ RangeOK(plan, total, next, k, g, hv) /\ Flown(total, g, R, ms) /\ b \in R
        /\ (total = Unknown => hv = {})
    BY <1>0, <1>1, <1>3 DEF Progress
  <2>2. left = b.indexes \cap g.missing BY DEF Lacked
  <2> HIDE DEF total, next, R, g, left
  <2>3. RangeOK(plan, total, next, k, g2, hv) /\ Lands(g, g2, k, left) BY <2>1, LandedRange
  <2>4. \A i \in b.indexes \cap g.missing : <<b.relay, i, b.any>> \in ms2 BY <2>2 DEF left
  <2>5. Flown(total, Landed(g, b.indexes \cap g.missing), R \ {b}, ms2) BY <2>1, <2>4, LandedFlown
  <2> QED BY <2>2, <2>3, <2>5 DEF total, next, R
<1>6. /\ g2.missing = g.missing /\ g2.told = g.told /\ g2.any = g.any /\ g2.max = g.max
      /\ g2.loading = g.loading /\ g2.tried = g.tried
      /\ \A i \in k .. g.max : i \notin left => g2.flying[i] = g.flying[i]
  BY <1>5 DEF Lands
<1>7. /\ Limiter(s.queue, act) /\ AllOf(s.queue, act) = AllOf(s.queue, s.active) \ {b}
      /\ \A x \in RelaySet \ {r} : Attended(s.queue, act, x)
  BY <1>0, ActiveLess
<1>8. o = [s EXCEPT !.active = act, !.ranges = f] BY <1>0 DEF TakenOff, Downs
<1>9. f \in Partitions /\ act \in SUBSET BatchSet
  <2>1. g2 \in RangeSet BY <1>5 DEF RangeOK
  <2> HIDE DEF g2
  <2> QED BY <1>2, <1>3, <1>7, <2>1, PartitionChanged DEF Limiter
<1> HIDE DEF g2, act, f, o, t
<1>10. /\ o \in Downs /\ o.running = s.running /\ o.total = s.total /\ o.next = s.next /\ o.begun = s.begun
       /\ o.count = s.count /\ o.told = s.told /\ o.ranges = f /\ o.queue = s.queue /\ o.active = act
       /\ o.cancelled = s.cancelled
  BY <1>0, <1>8, <1>9 DEF Downs
<1>11. /\ t \in Downs /\ Limiter(t.queue, t.active) /\ Attentive(t.queue, t.active)
       /\ Batches(t) = Batches(o)
       /\ t.running = s.running /\ t.total = s.total /\ t.next = s.next
       /\ t.begun = s.begun /\ t.count = s.count /\ t.told = s.told
       /\ t.ranges = f /\ t.cancelled = s.cancelled
  <2>1. t = Drain(o, r) BY DEF t, o, Freed
  <2>2. /\ Drain(o, r) \in Downs
        /\ Limiter(Drain(o, r).queue, Drain(o, r).active) /\ Attentive(Drain(o, r).queue, Drain(o, r).active)
        /\ Batches(Drain(o, r)) = Batches(o)
        /\ Drain(o, r).running = o.running /\ Drain(o, r).total = o.total /\ Drain(o, r).next = o.next
        /\ Drain(o, r).begun = o.begun /\ Drain(o, r).count = o.count /\ Drain(o, r).told = o.told
        /\ Drain(o, r).ranges = o.ranges /\ Drain(o, r).cancelled = o.cancelled
    BY <1>2, <1>7, <1>10, DrainKeeps
  <2> QED BY <1>10, <2>1, <2>2
<1>12. Batches(t) = Batches(s) \ {b} BY <1>7, <1>10, <1>11, BatchesAre
<1>13. Running(t, k) = Running(s, k) \ {b} /\ \A j : j # k => Running(t, j) = Running(s, j) BY <1>12 DEF Running
<1>14. /\ Books(plan, t, hv, ms2) /\ DOMAIN t.ranges = DOMAIN s.ranges
       /\ t.ranges[k] = g2 /\ \A j \in DOMAIN s.ranges \ {k} : t.ranges[j] = s.ranges[j]
  <2>1. t.ranges = [s.ranges EXCEPT ![k] = g2] BY <1>11 DEF f
  <2>2. hv \ hv \subseteq k .. g2.max OBVIOUS
  <2>3. RangeOK(plan, t.total, t.next, k, g2, hv) /\ Flown(t.total, g2, Running(t, k), ms2) BY <1>5, <1>11, <1>13
  <2>4. \A e \in Batches(t) : e \in Batches(s) \/ e.range = k BY <1>12
  <2>5. g2.max = s.ranges[k].max /\ g2.told \subseteq t.told /\ t.told = s.told /\ t.total = s.total /\ t.next = s.next
    BY <1>3, <1>6, <1>11
  <2>6. Swapped(plan, s, t, k, g2, hv, hv, ms, ms2) BY <1>2, <1>13, <2>1, <2>2, <2>3, <2>4, <2>5 DEF Swapped
  <2> QED BY <1>0, <2>6, OneRange
<1>15. Progress(plan, t, hv) /\ Told(plan, t, ms2) /\ Over(t)
  BY <1>0, <1>2, <1>11 DEF Progress, Told, Over
<1>16. Accounted(plan, t, hv)
  <2> SUFFICES ASSUME s.running, Faithful(plan), NEW i \in plan.from .. plan.to
               PROVE  \/ i \in hv \cup t.told \/ i >= t.next
                      \/ \E j \in DOMAIN t.ranges : j <= i /\ i <= t.ranges[j].max
    BY <1>11 DEF Accounted
  <2>1. \/ i \in hv \cup s.told \/ i >= s.next
        \/ \E j \in DOMAIN s.ranges : j <= i /\ i <= s.ranges[j].max
    BY <1>0 DEF Accounted
  <2>2. \A j \in DOMAIN s.ranges : t.ranges[j].max = s.ranges[j].max BY <1>6, <1>14
  <2> QED BY <1>11, <1>14, <2>1, <2>2
<1>17. Kept(plan, t, hv, ms2) BY <1>11, <1>14, <1>15, <1>16 DEF Kept
<1>18. BusyBut(t, k) BY <1>0, <1>2, <1>13, <1>14 DEF BusyBut, Busy
<1>19. ASSUME plan.known, NEW j \in DOMAIN t.ranges, NEW i \in t.ranges[j].missing, Exhausted(t, t.ranges[j], i)
       PROVE  j = k /\ i \in b.indexes
  <2>1. CASE j # k
    <3>1. Exhausted(s, s.ranges[j], i) /\ i \in s.ranges[j].missing BY <1>11, <1>14, <1>19, <2>1 DEF Exhausted
    <3> QED BY <1>0, <1>14, <1>19, <3>1 DEF NoneExhausted
  <2>2. CASE j = k /\ i \notin left
    <3>1. /\ i \in g.missing \ g.told /\ g2.flying[i] = 0 /\ (s.total # Unknown \/ i = 0)
          /\ \A x \in RelaySet : i \in g.tried[x][(i \in g.any)]
      BY <1>6, <1>11, <1>14, <1>19, <2>2 DEF Exhausted
    <3>2. i \in k .. g.max
      <4>1. g.missing \subseteq k .. g.end /\ k .. g.end \subseteq k .. g.max BY <1>3, MissingInside
      <4> QED BY <3>1, <4>1
    <3>3. g.flying[i] = 0 BY <1>6, <2>2, <3>1, <3>2
    <3>4. Exhausted(s, g, i) BY <3>1, <3>3 DEF Exhausted
    <3> QED BY <1>0, <1>2, <1>19, <3>1, <3>4 DEF NoneExhausted
  <2>3. left \subseteq b.indexes BY DEF Lacked
  <2> QED BY <2>1, <2>2, <2>3
<1> QED BY <1>2, <1>4, <1>6, <1>11, <1>14, <1>17, <1>18, <1>19 DEF t, k

\* Asking on and ending a range as it may leaves a download at rest.
LEMMA RunsOn ==
  ASSUME plan \in Plans, NEW s, NEW hv, NEW ms, Kept(plan, s, hv, ms), s.running, NEW k \in DOMAIN s.ranges,
         ~s.ranges[k].loading, plan.known => NoneExhausted(s), BusyBut(s, k)
  PROVE  AtRest(plan, MaybeFinish(ScheduleRelays(s, k), k), hv, ms)
<1> DEFINE t == ScheduleRelays(s, k)
<1>1. Kept(plan, t, hv, ms) /\ Grows(s, t) BY ScheduleKeeps
<1> HIDE DEF t
<1>2. t.running /\ k \in DOMAIN t.ranges /\ ~t.ranges[k].loading BY <1>1 DEF Grows
<1>3. plan.known => NoneExhausted(t) BY <1>1 DEF NoneExhausted, Grows
<1>4. BusyBut(t, k) BY <1>1 DEF BusyBut, Grows
<1>5. AtRest(plan, MaybeFinish(t, k), hv, ms) BY <1>1, <1>2, <1>3, <1>4, MaybeFinishKeeps
<1> QED BY <1>5 DEF t

\* What the end of an answer makes of a download.
Settled(s, k) == IF s.running THEN MaybeFinish(ScheduleRelays(s, k), k) ELSE s

\* It is at rest again.
LEMMA SettledKeeps ==
  ASSUME plan \in Plans, NEW s, NEW hv, NEW ms, AtRest(plan, s, hv, ms), NEW b \in s.active, NEW ms2, ms \subseteq ms2,
         \A i \in Lacked(s, b) : <<b.relay, i, b.any>> \in ms2,
         NEW told \in Reports(Lost(Freed(s, b), b.range, b.indexes))
  PROVE  AtRest(plan, Settled(CheckExhausted(Freed(s, b), b.range, b.indexes, told), b.range), hv, ms2)
<1> DEFINE k == b.range
           X == b.indexes
           t == Freed(s, b)
           c == CheckExhausted(t, k, X, told)
           u == Settled(c, k)
<1>1. /\ Kept(plan, t, hv, ms2) /\ t.running
      /\ k \in DOMAIN t.ranges /\ ~t.ranges[k].loading /\ BusyBut(t, k)
      /\ plan.known => \A j \in DOMAIN t.ranges : \A i \in t.ranges[j].missing :
           Exhausted(t, t.ranges[j], i) => j = k /\ i \in X
  BY FreedKeeps
<1>t. told \in Reports(Lost(t, k, X)) OBVIOUS
<1> HIDE DEF t, k, X
<1>2. /\ Kept(plan, c, hv, ms2) /\ (c.running => Checks(t, c, k, X))
      /\ ~c.running => Ended(plan, c, hv) /\ NoneExhausted(c)
  <2>1. /\ Kept(plan, CheckExhausted(t, k, X, told), hv, ms2)
        /\ CheckExhausted(t, k, X, told).running => Checks(t, CheckExhausted(t, k, X, told), k, X)
        /\ ~CheckExhausted(t, k, X, told).running =>
              Ended(plan, CheckExhausted(t, k, X, told), hv) /\ NoneExhausted(CheckExhausted(t, k, X, told))
    BY <1>1, <1>t, CheckKeeps
  <2> QED BY <2>1
<1> HIDE DEF c
<1>3. CASE ~c.running
  <2>1. u = c BY <1>3 DEF Settled
  <2>2. Busy(c) BY <1>3 DEF Busy
  <2>3. AtRest(plan, u, hv, ms2) BY <1>2, <1>3, <2>1, <2>2 DEF AtRest
  <2> QED BY <2>3 DEF u, c, t, k, X
<1>4. CASE c.running
  <2>1. u = MaybeFinish(ScheduleRelays(c, k), k) BY <1>4 DEF Settled
  <2>2. /\ c.total = t.total /\ c.queue = t.queue /\ c.active = t.active
        /\ DOMAIN c.ranges = DOMAIN t.ranges /\ \A j \in DOMAIN t.ranges \ {k} : c.ranges[j] = t.ranges[j]
        /\ c.ranges[k].missing = t.ranges[k].missing /\ c.ranges[k].loading = t.ranges[k].loading
        /\ \A i : Exhausted(c, c.ranges[k], i) => Exhausted(t, t.ranges[k], i) /\ i \notin X
    BY <1>2, <1>4 DEF Checks
  <2>3. \A j : Running(c, j) = Running(t, j) BY <2>2 DEF Running, Batches
  <2>4. plan.known => NoneExhausted(c)
    <3> SUFFICES ASSUME plan.known, NEW j \in DOMAIN c.ranges, NEW i \in c.ranges[j].missing, Exhausted(c, c.ranges[j], i)
                 PROVE  FALSE
      BY DEF NoneExhausted
    <3>1. CASE j = k BY <1>1, <2>2, <3>1
    <3>2. CASE j # k
      <4>1. Exhausted(t, t.ranges[j], i) BY <2>2, <3>2 DEF Exhausted
      <4> QED BY <1>1, <2>2, <3>2, <4>1
    <3> QED BY <3>1, <3>2
  <2>5. BusyBut(c, k) BY <1>1, <2>2, <2>3 DEF BusyBut
  <2>6. AtRest(plan, MaybeFinish(ScheduleRelays(c, k), k), hv, ms2) BY <1>1, <1>2, <1>4, <2>2, <2>4, <2>5, RunsOn
  <2> QED BY <2>1, <2>6 DEF u, c, t, k, X
<1> QED BY <1>3, <1>4

-----------------------------------------------------------------------------
\* A download in which the store was looked into for a range.
FilledIn(s, k) == [s EXCEPT !.ranges[k] = Filled(@)]

\* The range runs then, and the download is at rest.
LEMMA LoadKeeps ==
  ASSUME plan \in Plans, NEW s, NEW hv, NEW ms, AtRest(plan, s, hv, ms), NEW k \in DOMAIN s.ranges, s.ranges[k].loading
  PROVE  AtRest(plan, MaybeFinish(ScheduleRelays(Coverage(FilledIn(s, k), k), k), k), hv, ms)
<1> DEFINE g == s.ranges[k]
           g2 == Filled(g)
           f == [s.ranges EXCEPT ![k] = g2]
           t == FilledIn(s, k)
           c == Coverage(t, k)
<1>0. /\ s \in Downs /\ Books(plan, s, hv, ms) /\ Limiter(s.queue, s.active) /\ Attentive(s.queue, s.active)
      /\ Progress(plan, s, hv) /\ Told(plan, s, ms) /\ Accounted(plan, s, hv) /\ Over(s)
      /\ (plan.known => NoneExhausted(s)) /\ Busy(s)
  BY DEF AtRest, Kept
<1>1. s.running BY <1>0 DEF Over
<1>2. k \in Int /\ RangeOK(plan, s.total, s.next, k, g, hv) /\ Flown(s.total, g, Running(s, k), ms) /\ g.told \subseteq s.told
      /\ s.next \in Int /\ s.ranges \in Partitions /\ plan.cached \subseteq hv /\ (s.total = Unknown => hv = {})
  <2>1. Book(plan, s, k, hv, ms) BY <1>0 DEF Books
  <2> QED BY <1>0, <2>1, DownParts DEF Book, Progress
<1>3. /\ RangeOK(plan, s.total, s.next, k, g2, hv) /\ Flown(s.total, g2, Running(s, k), ms)
      /\ g2.told = g.told /\ g2.max = g.max /\ ~g2.loading
      /\ \A r \in RelaySet, a \in BOOLEAN : g2.tried[r][a] = {}
  <2> DEFINE total == s.total
             next == s.next
             R == Running(s, k)
  <2>1. /\ next \in Int /\ k \in Int /\ RangeOK(plan, total, next, k, g, hv) /\ Flown(total, g, R, ms)
        /\ g.loading /\ plan.cached \subseteq hv /\ (total = Unknown => hv = {})
    BY <1>2
  <2> HIDE DEF total, next, R, g
  <2>2. /\ RangeOK(plan, total, next, k, Filled(g), hv) /\ Flown(total, Filled(g), R, ms)
        /\ Filled(g).told = g.told /\ Filled(g).max = g.max /\ ~Filled(g).loading
        /\ \A r \in RelaySet, a \in BOOLEAN : Filled(g).tried[r][a] = {}
    BY <2>1, FilledRange
  <2> QED BY <2>2 DEF total, next, R
<1>4. t = [s EXCEPT !.ranges = f] BY <1>0 DEF FilledIn, Downs
<1>5. f \in Partitions
  <2>1. g2 \in RangeSet BY <1>3 DEF RangeOK
  <2> HIDE DEF g2
  <2> QED BY <1>2, <2>1, PartitionChanged
<1> HIDE DEF g2, f, t, c
<1>6. /\ t \in Downs /\ t.running = s.running /\ t.total = s.total /\ t.next = s.next /\ t.begun = s.begun
      /\ t.count = s.count /\ t.told = s.told /\ t.ranges = f /\ t.queue = s.queue /\ t.active = s.active
      /\ t.cancelled = s.cancelled
  BY <1>0, <1>4, <1>5 DEF Downs
<1>7. Batches(t) = Batches(s) /\ \A j : Running(t, j) = Running(s, j) BY <1>6 DEF Batches, Running
<1>8. /\ Books(plan, t, hv, ms) /\ DOMAIN t.ranges = DOMAIN s.ranges
      /\ t.ranges[k] = g2 /\ \A j \in DOMAIN s.ranges \ {k} : t.ranges[j] = s.ranges[j]
  <2>1. t.ranges = [s.ranges EXCEPT ![k] = g2] BY <1>6 DEF f
  <2>2. hv \ hv \subseteq k .. g2.max OBVIOUS
  <2>3. RangeOK(plan, t.total, t.next, k, g2, hv) /\ Flown(t.total, g2, Running(t, k), ms) BY <1>3, <1>6, <1>7
  <2>4. \A e \in Batches(t) : e \in Batches(s) \/ e.range = k BY <1>7
  <2>5. g2.max = s.ranges[k].max /\ g2.told \subseteq t.told /\ t.told = s.told /\ t.total = s.total /\ t.next = s.next
    BY <1>2, <1>3, <1>6
  <2>6. Swapped(plan, s, t, k, g2, hv, hv, ms, ms) BY <1>7, <2>1, <2>2, <2>3, <2>4, <2>5 DEF Swapped
  <2> QED BY <1>0, <2>6, OneRange
<1>9. Progress(plan, t, hv) /\ Told(plan, t, ms) /\ Over(t)
  BY <1>0, <1>1, <1>6 DEF Progress, Told, Over
<1>10. Accounted(plan, t, hv)
  <2> SUFFICES ASSUME s.running, Faithful(plan), NEW i \in plan.from .. plan.to
               PROVE  \/ i \in hv \cup t.told \/ i >= t.next
                      \/ \E j \in DOMAIN t.ranges : j <= i /\ i <= t.ranges[j].max
    BY <1>6 DEF Accounted
  <2>1. \/ i \in hv \cup s.told \/ i >= s.next
        \/ \E j \in DOMAIN s.ranges : j <= i /\ i <= s.ranges[j].max
    BY <1>0 DEF Accounted
  <2>2. \A j \in DOMAIN s.ranges : t.ranges[j].max = s.ranges[j].max BY <1>3, <1>8
  <2> QED BY <1>6, <1>8, <2>1, <2>2
<1>11. Kept(plan, t, hv, ms) BY <1>0, <1>6, <1>8, <1>9, <1>10 DEF Kept
<1>12. Kept(plan, c, hv, ms) /\ Extends(t, c) BY <1>11, CoverageKeeps DEF c
<1>13. /\ c.running /\ c.total = s.total /\ DOMAIN s.ranges \subseteq DOMAIN c.ranges /\ c.ranges[k] = g2
       /\ \A j \in DOMAIN s.ranges \ {k} : c.ranges[j] = s.ranges[j]
       /\ \A j \in DOMAIN c.ranges \ DOMAIN s.ranges : c.ranges[j].loading /\ c.ranges[j].missing = {}
       /\ \A j : Running(c, j) = Running(s, j)
  <2>1. \A j : Running(c, j) = Running(s, j) BY <1>7, <1>12, ExtendsRunning
  <2> QED BY <1>1, <1>6, <1>8, <1>12, <2>1 DEF Extends
<1>14. BusyBut(c, k) BY <1>0, <1>1, <1>13 DEF Busy, BusyBut
<1>15. plan.known => NoneExhausted(c)
  <2> SUFFICES ASSUME plan.known, NEW j \in DOMAIN c.ranges, NEW x \in c.ranges[j].missing PROVE ~Exhausted(c, c.ranges[j], x)
    BY DEF NoneExhausted
  <2>1. CASE j \notin DOMAIN s.ranges BY <1>13, <2>1
  <2>2. CASE j = k
    <3> SUFFICES ASSUME Exhausted(c, g2, x) PROVE FALSE BY <1>13, <2>2
    <3>1. (x \in g2.any) \in BOOLEAN
      <4>1. CASE x \in g2.any BY <4>1
      <4>2. CASE x \notin g2.any BY <4>2
      <4> QED BY <4>1, <4>2
    <3> DEFINE a == x \in g2.any
    <3>2. \A r \in RelaySet : x \in g2.tried[r][a] BY Zenon DEF Exhausted
    <3>3. a \in BOOLEAN BY <3>1
    <3> HIDE DEF a
    <3> QED BY <1>3, <3>2, <3>3, RelaysOK
  <2>3. CASE j \in DOMAIN s.ranges /\ j # k
    <3>1. c.ranges[j] = s.ranges[j] BY <1>13, <2>3
    <3>2. ~Exhausted(s, s.ranges[j], x) BY <1>0, <2>3, <3>1 DEF NoneExhausted
    <3> QED BY <1>13, <3>1, <3>2 DEF Exhausted
  <2> QED BY <2>1, <2>2, <2>3
<1>16. k \in DOMAIN c.ranges /\ ~c.ranges[k].loading BY <1>3, <1>13
<1>17. AtRest(plan, MaybeFinish(ScheduleRelays(c, k), k), hv, ms) BY <1>12, <1>13, <1>14, <1>15, <1>16, RunsOn
<1> QED BY <1>17 DEF c, t

-----------------------------------------------------------------------------
\* A download that has not begun: no range, no batch, and what is in store counted.
LEMMA IdleOK ==
  ASSUME plan \in Plans
  PROVE  /\ Idle \in Downs /\ Books(plan, Idle, plan.cached, {}) /\ Limiter(Idle.queue, Idle.active)
         /\ Attentive(Idle.queue, Idle.active) /\ DOMAIN Idle.ranges = {} /\ Batches(Idle) = {}
         /\ IsFiniteSet(plan.cached) /\ plan.cached \subseteq Int /\ Idle.count = Cardinality(plan.cached)
         /\ Idle.running = TRUE /\ Idle.total = (IF plan.known THEN plan.total ELSE Unknown) /\ Idle.next = plan.from
         /\ Idle.begun = FALSE /\ Idle.told = {} /\ Idle.cancelled = FALSE /\ Idle.ranges = <<>>
         /\ plan.total \in Nat /\ plan.total # Unknown /\ plan.from \in Nat /\ plan.to \in Nat /\ plan.from <= plan.to
<1> DEFINE q == [r \in RelaySet |-> <<>>]
           total == IF plan.known THEN plan.total ELSE Unknown
           n == Cardinality(plan.cached)
<1>1. /\ plan.total \in Nat \ {0} /\ plan.from \in Nat /\ plan.to \in Nat /\ plan.from <= plan.to
      /\ plan.cached \subseteq plan.from .. plan.to
  BY DownloadConstants
<1>2. plan.total # Unknown /\ total \in Nat
  <2>1. plan.total # 0 /\ plan.total \in Nat /\ Unknown = 0 BY <1>1 DEF Unknown
  <2>2. CASE plan.known BY <2>1, <2>2
  <2>3. CASE ~plan.known BY <2>1, <2>3
  <2> QED BY <2>1, <2>2, <2>3
<1>3. IsFiniteSet(plan.cached) /\ plan.cached \subseteq Int /\ n \in Int
  <2>1. IsFiniteSet(plan.from .. plan.to)
    <3>1. plan.from \in Int /\ plan.to \in Int BY <1>1
    <3> QED BY <3>1, FS_Interval
  <2>2. IsFiniteSet(plan.cached) BY <1>1, <2>1, FS_Subset
  <2>3. n \in Nat BY <2>2, FS_CardinalityType
  <2> QED BY <1>1, <2>2, <2>3
<1>4. q \in Queues /\ \A r \in RelaySet : q[r] = <<>>
  <2>1. <<>> \in Seq(BatchSet) BY EmptySeq
  <2> QED BY <2>1 DEF Queues
<1> HIDE DEF q, total, n
<1>5. Idle = [running |-> TRUE, total |-> total, next |-> plan.from, begun |-> FALSE, count |-> n, told |-> {},
              ranges |-> <<>>, queue |-> q, active |-> {}, cancelled |-> FALSE]
  BY DEF Idle, q, total, n
<1>6. /\ Idle \in Downs /\ Idle.running = TRUE /\ Idle.total = total /\ Idle.next = plan.from /\ Idle.begun = FALSE
      /\ Idle.count = n /\ Idle.told = {} /\ Idle.ranges = <<>> /\ Idle.queue = q /\ Idle.active = {}
      /\ Idle.cancelled = FALSE
  BY <1>1, <1>2, <1>3, <1>4, <1>5, PartitionNone DEF Downs
<1>7. Limiter(q, {}) /\ Attentive(q, {})
  <2>1. ASSUME NEW r \in RelaySet PROVE Line(q, {}, r)
    <3>1. DOMAIN q[r] = {} BY <1>4
    <3>2. Under({}, r) = {} BY DEF Under
    <3>3. Cardinality(Under({}, r)) = 0 BY <3>2, FS_EmptySet
    <3>4. MaxBatches \in Nat BY DownloadConstants
    <3> QED BY <3>1, <3>3, <3>4 DEF Line
  <2> QED BY <1>4, <2>1, FS_EmptySet DEF Limiter, Attentive, Attended
<1>8. Batches(Idle) = {}
  <2>1. \A r \in RelaySet : Range(q[r]) = {} BY <1>4 DEF Range
  <2>2. AllOf(q, {}) = {} BY <2>1 DEF AllOf
  <2> QED BY <1>6, <2>2, BatchesAre
<1>9. DOMAIN Idle.ranges = {} BY <1>6, PartitionNone
<1>10. Books(plan, Idle, plan.cached, {}) BY <1>8, <1>9 DEF Books, Apart
<1> QED BY <1>1, <1>2, <1>3, <1>6, <1>7, <1>8, <1>9, <1>10 DEF total, n

\* How many chunks may be sought while the total is unknown.
LEMMA DiscoveryOK == ASSUME plan \in Plans PROVE Discovery \in Nat \ {0} /\ Discovery <= plan.window /\ plan.window \in Nat \ {0}
<1> DEFINE x == plan.batch * Len(Relays)
           y == plan.window
<1>1. plan.batch \in Nat \ {0} /\ y \in Nat \ {0} /\ Len(Relays) \in Nat \ {0} BY DownloadConstants, RelaysOK
<1>2. x \in Nat \ {0}
  <2> SUFFICES ASSUME NEW a \in Nat \ {0}, NEW b \in Nat \ {0} PROVE a * b \in Nat \ {0} BY <1>1
  <2> QED OBVIOUS
<1>3. Discovery = Min({x, y}) BY DEF Discovery
<1> HIDE DEF x, y
<1>4. Min({x, y}) = IF x <= y THEN x ELSE y BY <1>1, <1>2, MinOfTwo
<1>5. Discovery \in Nat \ {0} /\ Discovery <= y BY <1>1, <1>2, <1>3, <1>4
<1> QED BY <1>1, <1>5 DEF y

\* A download begins at rest.
LEMMA BeginKeeps ==
  ASSUME Init
  PROVE  AtRest(plan, d, have, missed)
<1> DEFINE hv == plan.cached
           All == plan.known /\ Cardinality(plan.cached) = plan.to - plan.from + 1
<1>0. /\ plan \in Plans /\ have = hv /\ missed = {}
      /\ d = IF All THEN [Idle EXCEPT !.running = FALSE] ELSE StartNextRange(Idle)
  BY DEF Init
<1>1. /\ Idle \in Downs /\ Books(plan, Idle, hv, {}) /\ Limiter(Idle.queue, Idle.active)
      /\ Attentive(Idle.queue, Idle.active) /\ DOMAIN Idle.ranges = {} /\ Batches(Idle) = {}
      /\ IsFiniteSet(hv) /\ hv \subseteq Int /\ Idle.count = Cardinality(hv)
      /\ Idle.running = TRUE /\ Idle.total = (IF plan.known THEN plan.total ELSE Unknown) /\ Idle.next = plan.from
      /\ Idle.begun = FALSE /\ Idle.told = {} /\ Idle.cancelled = FALSE /\ Idle.ranges = <<>>
      /\ plan.total \in Nat /\ plan.total # Unknown /\ plan.from \in Nat /\ plan.to \in Nat /\ plan.from <= plan.to
  BY <1>0, IdleOK
<1>2. CASE All
  <2> DEFINE t == [Idle EXCEPT !.running = FALSE]
  <2>1. /\ t \in Downs /\ t.running = FALSE /\ t.total = Idle.total /\ t.next = Idle.next /\ t.begun = Idle.begun
        /\ t.count = Idle.count /\ t.told = Idle.told /\ t.ranges = Idle.ranges /\ t.queue = Idle.queue
        /\ t.active = Idle.active /\ t.cancelled = Idle.cancelled
    <3> DEFINE s == Idle
               u == [s EXCEPT !.running = FALSE]
    <3>1. s \in Downs BY <1>1
    <3> HIDE DEF s
    <3>2. /\ u \in Downs /\ u.running = FALSE /\ u.total = s.total /\ u.next = s.next /\ u.begun = s.begun
          /\ u.count = s.count /\ u.told = s.told /\ u.ranges = s.ranges /\ u.queue = s.queue
          /\ u.active = s.active /\ u.cancelled = s.cancelled
      BY <3>1 DEF Downs
    <3> HIDE DEF u
    <3>3. t = u BY DEF s, u
    <3> QED BY <3>2, <3>3 DEF s
  <2> HIDE DEF t
  <2>2. Batches(t) = {}
    <3>1. t.active = Idle.active /\ t.queue = Idle.queue BY <2>1
    <3>2. Batches(t) = Batches(Idle) BY <3>1, Zenon DEF Batches
    <3> QED BY <1>1, <3>2
  <2>3. Books(plan, t, hv, {}) BY <1>1, <2>1, <2>2 DEF Books, Apart
  <2>4. Progress(plan, t, hv) BY <1>1, <1>2, <2>1 DEF Progress
  <2>5. Told(plan, t, {}) /\ Accounted(plan, t, hv) /\ Over(t) BY <1>1, <2>1, <2>2 DEF Told, Accounted, Over
  <2>6. Kept(plan, t, hv, {}) BY <1>1, <2>1, <2>3, <2>4, <2>5 DEF Kept
  <2>7. plan.from .. plan.to \subseteq hv
    <3> DEFINE S == plan.from .. plan.to
               n == plan.to - plan.from + 1
    <3>1. hv \subseteq S BY <1>0, DownloadConstants
    <3>2. IsFiniteSet(S) /\ Cardinality(S) = n
      <4>1. plan.from \in Int /\ plan.to \in Int /\ (IF plan.from > plan.to THEN 0 ELSE plan.to - plan.from + 1) = n BY <1>1
      <4> QED BY <4>1, FS_Interval
    <3>3. Cardinality(hv) = n BY <1>2
    <3> HIDE DEF S, n, hv
    <3>4. hv = S BY <3>1, <3>2, <3>3, FS_Subset
    <3> QED BY <3>4 DEF S
  <2>8. Busy(t) /\ NoneExhausted(t) /\ Ended(plan, t, hv) BY <1>1, <2>1, <2>7 DEF Busy, NoneExhausted, Ended
  <2>9. d = t BY <1>0, <1>2 DEF t
  <2> QED BY <1>0, <2>6, <2>8, <2>9 DEF AtRest
<1>3. CASE ~All
  <2> DEFINE t == StartNextRange(Idle)
  <2>1. d = t BY <1>0, <1>3
  <2> SUFFICES Kept(plan, t, hv, {}) /\ t.running /\ DOMAIN t.ranges # {}
               /\ \A j \in DOMAIN t.ranges : t.ranges[j].loading /\ t.ranges[j].missing = {}
    <3> HIDE DEF t
    <3>1. Busy(t) /\ NoneExhausted(t) /\ Ended(plan, t, hv) BY DEF Busy, NoneExhausted, Ended
    <3> QED BY <1>0, <2>1, <3>1 DEF AtRest
  <2>2. CASE plan.known
    <3>1. Progress(plan, Idle, hv) BY <1>1, <2>2 DEF Progress
    <3>2. Told(plan, Idle, {}) /\ Over(Idle) BY <1>1 DEF Told, Over
    <3>3. Accounted(plan, Idle, hv) BY <1>1 DEF Accounted
    <3>4. Kept(plan, Idle, hv, {}) BY <1>1, <3>1, <3>2, <3>3 DEF Kept
    <3>5. /\ Kept(plan, t, hv, {}) /\ Extends(Idle, t)
          /\ Idle.running /\ DOMAIN t.ranges = {} => t = Idle /\ (Idle.total = Unknown \/ Idle.next > plan.to)
      BY <1>0, <3>4, StartKeeps
    <3> HIDE DEF t
    <3>6. DOMAIN t.ranges # {}
      <4>1. ~(plan.from > plan.to) BY <1>1
      <4> QED BY <1>1, <2>2, <3>5, <4>1
    <3> QED BY <1>1, <3>5, <3>6 DEF Extends
  <2>3. CASE ~plan.known
    <3>1. plan.from = 0 /\ hv = {} BY <1>0, <2>3, DownloadConstants
    <3>2. Discovery \in Nat \ {0} /\ Discovery <= plan.window /\ plan.window \in Nat \ {0} BY <1>0, DiscoveryOK
    <3> DEFINE b == Discovery - 1
               m == plan.window - 1
               w == plan.window
               f == Starting(Idle.ranges, NewRange(0, b, m))
    <3>3. t = [Idle EXCEPT !.begun = TRUE, !.next = w, !.ranges = f]
      <4>1. ~(Cardinality(DOMAIN Idle.ranges) >= 2)
        <5>1. Cardinality(DOMAIN Idle.ranges) = 0 BY <1>1, FS_EmptySet
        <5> QED BY <5>1
      <4> QED BY <1>1, <2>3, <4>1 DEF StartNextRange
    <3>4. b \in Int /\ m \in Int /\ w \in Int /\ 0 <= b /\ b <= m /\ m < w /\ 0 <= w BY <3>2
    <3>5. Room(Unknown, w, 0, b, m, hv)
      <4> HIDE DEF b, m, w
      <4> QED BY <3>1, <3>4 DEF Room
    <3> HIDE DEF b, m, w, f, t, hv
    <3>6. NewRange(0, b, m) \in RangeSet /\ NewRange(0, b, m).start = 0
      <4> DEFINE a == 0
                 total == Unknown
                 ms == {}
      <4>1. Room(total, w, a, b, m, hv) BY <3>5
      <4> HIDE DEF a, total, ms
      <4>2. /\ RangeOK(plan, total, w, a, NewRange(a, b, m), hv) /\ Flown(total, NewRange(a, b, m), {}, ms)
            /\ NewRange(a, b, m).told = {} /\ NewRange(a, b, m).max = m /\ NewRange(a, b, m).loading
            /\ NewRange(a, b, m).start = a /\ NewRange(a, b, m).missing = {}
        BY <4>1, NewRangeOK
      <4>3. NewRange(a, b, m) \in RangeSet /\ NewRange(a, b, m).start = a BY <4>2 DEF RangeOK
      <4> QED BY <4>3 DEF a
    <3>7. f \in Partitions
      <4> DEFINE g == NewRange(0, b, m)
      <4>1. g \in RangeSet /\ Idle.ranges \in Partitions BY <1>1, <3>6, DownParts
      <4> HIDE DEF g
      <4>2. Starting(Idle.ranges, g) \in Partitions BY <4>1, PartitionMore
      <4> QED BY <4>2 DEF f, g
    <3>8. /\ t \in Downs /\ t.running = TRUE /\ t.total = Idle.total /\ t.next = w /\ t.begun = TRUE
          /\ t.count = Idle.count /\ t.told = Idle.told /\ t.ranges = f /\ t.queue = Idle.queue
          /\ t.active = Idle.active /\ t.cancelled = Idle.cancelled
      BY <1>1, <3>3, <3>4, <3>7 DEF Downs
    <3>9. Batches(t) = Batches(Idle) BY <3>8 DEF Batches
    <3>10. /\ Books(plan, t, hv, {}) /\ DOMAIN t.ranges = DOMAIN Idle.ranges \cup {0}
           /\ t.ranges[0].loading /\ t.ranges[0].missing = {} /\ t.ranges[0].max = m
      <4> DEFINE a == 0
                 ms == {}
                 s0 == Idle
      <4>1. /\ s0 \in Downs /\ Books(plan, s0, hv, ms) /\ Room(s0.total, t.next, a, b, m, hv)
            /\ (\A j \in DOMAIN s0.ranges : s0.ranges[j].max < a)
            /\ s0.next <= t.next /\ t.total = s0.total /\ t.told = s0.told /\ Batches(t) = Batches(s0)
            /\ t.ranges = Starting(s0.ranges, NewRange(a, b, m))
        BY <1>1, <2>3, <3>1, <3>4, <3>5, <3>8, <3>9 DEF f
      <4> HIDE DEF a, ms, s0
      <4>2. /\ Books(plan, t, hv, ms) /\ t.ranges \in Partitions /\ DOMAIN t.ranges = DOMAIN s0.ranges \cup {a}
            /\ a \notin DOMAIN s0.ranges /\ \A j \in DOMAIN s0.ranges : t.ranges[j] = s0.ranges[j]
            /\ t.ranges[a].loading /\ t.ranges[a].missing = {} /\ t.ranges[a].max = m
        BY <4>1, OneMore
      <4> QED BY <4>2 DEF a, ms, s0
    <3>11. Progress(plan, t, hv)
      <4>1. plan.cached = hv BY DEF hv
      <4>2. t.total = Unknown /\ t.begun = TRUE /\ t.next = w /\ t.count = Cardinality(hv) BY <1>1, <2>3, <3>8
      <4> QED BY <1>1, <2>3, <3>1, <3>4, <4>1, <4>2 DEF Progress
    <3>12. Told(plan, t, {}) /\ Over(t) BY <1>1, <3>8 DEF Told, Over
    <3>13. Accounted(plan, t, hv)
      <4> SUFFICES ASSUME NEW i \in plan.from .. plan.to
                   PROVE  i >= t.next \/ \E j \in DOMAIN t.ranges : j <= i /\ i <= t.ranges[j].max
        BY DEF Accounted
      <4>1. i \in Int /\ 0 <= i BY <1>1, <3>1
      <4>2. i >= w \/ i <= m BY <3>4, <4>1 DEF w, m
      <4> QED BY <3>8, <3>10, <4>1, <4>2
    <3>14. Kept(plan, t, hv, {}) BY <1>1, <3>8, <3>10, <3>11, <3>12, <3>13 DEF Kept
    <3> QED BY <1>1, <3>8, <3>10, <3>14
  <2> QED BY <2>2, <2>3
<1> QED BY <1>2, <1>3

-----------------------------------------------------------------------------
\* The inductive invariant: between two tasks the download is at rest.
IInv == plan \in Plans /\ AtRest(plan, d, have, missed)

\* What the store tells of a range keeps it.
LEMMA LoadStep ==
  ASSUME IInv, NEW k \in DOMAIN d.ranges, Load(k)
  PROVE  IInv'
<1>1. /\ plan \in Plans /\ AtRest(plan, d, have, missed) /\ d.ranges[k].loading
      /\ plan' = plan /\ have' = have /\ missed' = missed
  BY DEF IInv, Load
<1>2. d' = MaybeFinish(ScheduleRelays(Coverage(FilledIn(d, k), k), k), k) BY DEF Load, FilledIn
<1>3. AtRest(plan, MaybeFinish(ScheduleRelays(Coverage(FilledIn(d, k), k), k), k), have, missed) BY <1>1, LoadKeeps
<1> QED BY <1>1, <1>2, <1>3 DEF IInv

\* The end of an answer keeps it.
LEMMA AnsweredStep ==
  ASSUME IInv, NEW b \in d.active, Answered(b)
  PROVE  IInv'
<1> DEFINE ms2 == missed \cup {<<b.relay, i, b.any>> : i \in Lacked(d, b)}
<1>1. /\ plan \in Plans /\ AtRest(plan, d, have, missed) /\ plan' = plan /\ have' = have
      /\ missed' = ms2
  BY DEF IInv, Answered, Lacked
<1>2. PICK told \in Reports(Lost(Freed(d, b), b.range, b.indexes)) :
        d' = Settled(CheckExhausted(Freed(d, b), b.range, b.indexes, told), b.range)
  BY DEF Answered, Settled, Freed, TakenOff, Lacked
<1>3. missed \subseteq ms2 /\ \A i \in Lacked(d, b) : <<b.relay, i, b.any>> \in ms2 OBVIOUS
<1> HIDE DEF ms2
<1>4. AtRest(plan, Settled(CheckExhausted(Freed(d, b), b.range, b.indexes, told), b.range), have, ms2)
  BY <1>1, <1>3, SettledKeeps
<1> QED BY <1>1, <1>2, <1>4 DEF IInv

\* An event of an answer keeps it: of a chunk that was missing, or of one that came from elsewhere.
LEMMA ReceiveStep ==
  ASSUME IInv, NEW b \in d.active, NEW i \in b.indexes, Receive(b, i)
  PROVE  IInv'
<1> DEFINE k == b.range
           half == 2 * (Cardinality(b.got) + 1) >= Cardinality(b.indexes)
           c == [b EXCEPT !.got = @ \cup {i}, !.half = half]
           again == half /\ ~b.half
           known == Knowing(Rushed(d, b, c, again), k)
<1>1. plan \in Plans /\ AtRest(plan, d, have, missed) /\ plan' = plan /\ missed' = missed BY DEF IInv, Receive
<1>2. b \in BatchSet
  <2>1. d \in Downs BY <1>1 DEF AtRest, Kept
  <2> QED BY <2>1, DownParts
<1>3. half \in BOOLEAN
  <2>1. CASE half BY <2>1
  <2>2. CASE ~half BY <2>2
  <2> QED BY <2>1, <2>2
<1>4. c \in BatchSet /\ Alike(b, c)
  <2> HIDE DEF half
  <2>1. i \in Int BY <1>2 DEF BatchSet
  <2> QED BY <1>2, <1>3, <2>1 DEF BatchSet, Alike
<1>5. IF i \in Of(known, k).missing
      THEN d' = Coverage(TakenIn(known, k, i), k) /\ have' = have \cup {i}
      ELSE d' = known /\ have' = have
  BY Zenon DEF Receive, Knowing, Rushed, Heard, TakenIn
<1> HIDE DEF k, c, again, half
<1>6. Kept(plan, known, have, missed) /\ Going(known, k)
  <2>1. /\ Kept(plan, Knowing(Rushed(d, b, c, again), b.range), have, missed)
        /\ Going(Knowing(Rushed(d, b, c, again), b.range), b.range)
    BY <1>1, <1>4, KnowingKeeps
  <2> QED BY <2>1 DEF k
<1> HIDE DEF known
<1>7. CASE i \in Of(known, k).missing
  <2>1. i \in known.ranges[k].missing BY <1>7 DEF Of
  <2>2. AtRest(plan, Coverage(TakenIn(known, k, i), k), have \cup {i}, missed) BY <1>1, <1>6, <2>1, TakenKeeps
  <2> QED BY <1>1, <1>5, <1>7, <2>2 DEF IInv
<1>8. CASE i \notin Of(known, k).missing
  <2>1. AtRest(plan, known, have, missed) BY <1>6, GoingRests
  <2> QED BY <1>1, <1>5, <1>8, <2>1 DEF IInv
<1> QED BY <1>7, <1>8

\* A cancelled download keeps it, with nothing left.
LEMMA CancelStep ==
  ASSUME IInv, Cancel
  PROVE  IInv'
<1> DEFINE s == Finish(d)
           t == [s EXCEPT !.cancelled = TRUE]
<1>1. plan \in Plans /\ d' = t /\ plan' = plan /\ have' = have /\ missed' = missed BY DEF IInv, Cancel
<1>2. d \in Downs /\ Progress(plan, d, have) /\ Told(plan, d, missed) BY DEF IInv, AtRest, Kept
<1>3. Kept(plan, s, have, missed) /\ NoneExhausted(s) /\ ~s.running BY <1>2, FinishKeeps
<1> HIDE DEF s
<1>4. /\ s \in Downs /\ Books(plan, s, have, missed) /\ Limiter(s.queue, s.active) /\ Attentive(s.queue, s.active)
      /\ Progress(plan, s, have) /\ Told(plan, s, missed) /\ Accounted(plan, s, have) /\ Over(s)
  BY <1>3 DEF Kept
<1>5. /\ t \in Downs /\ t.running = s.running /\ t.total = s.total /\ t.next = s.next /\ t.begun = s.begun
      /\ t.count = s.count /\ t.told = s.told /\ t.ranges = s.ranges /\ t.queue = s.queue /\ t.active = s.active
      /\ t.cancelled = TRUE
  BY <1>4 DEF Downs
<1> HIDE DEF t
<1>6. DOMAIN t.ranges = {} /\ Batches(t) = {}
  <2>1. DOMAIN s.ranges = {} /\ Batches(s) = {} BY <1>3, <1>4 DEF Over
  <2> QED BY <1>5, <2>1 DEF Batches
<1>7. Books(plan, t, have, missed) BY <1>6 DEF Books, Apart
<1>8. Progress(plan, t, have) /\ Told(plan, t, missed) /\ Accounted(plan, t, have) /\ Over(t)
  BY <1>3, <1>4, <1>5, <1>6 DEF Progress, Told, Accounted, Over
<1>9. Kept(plan, t, have, missed) BY <1>4, <1>5, <1>7, <1>8 DEF Kept
<1>10. NoneExhausted(t) /\ Busy(t) /\ Ended(plan, t, have) BY <1>3, <1>5, <1>6 DEF NoneExhausted, Busy, Ended
<1> QED BY <1>1, <1>9, <1>10 DEF IInv, AtRest

\* At every point of every run the download is in order: each range, its batches,
\* the limiter of each relay, what was counted, told and accounted for.
THEOREM DownloadInOrder == Spec => []IInv
<1>1. Init => IInv
  <2> SUFFICES ASSUME Init PROVE IInv OBVIOUS
  <2>1. plan \in Plans BY DEF Init
  <2> QED BY <2>1, BeginKeeps DEF IInv
<1>2. IInv /\ [Next]_vars => IInv'
  <2> SUFFICES ASSUME IInv, [Next]_vars PROVE IInv' OBVIOUS
  <2>1. CASE \E k \in DOMAIN d.ranges : Load(k) BY <2>1, LoadStep
  <2>2. CASE \E b \in d.active : Answered(b) BY <2>2, AnsweredStep
  <2>3. CASE \E b \in d.active : \E i \in b.indexes : Receive(b, i) BY <2>3, ReceiveStep
  <2>4. CASE Cancel BY <2>4, CancelStep
  <2>5. CASE UNCHANGED vars BY <2>5 DEF vars, IInv
  <2> QED BY <2>1, <2>2, <2>3, <2>4, <2>5 DEF Next, Step
<1> QED BY <1>1, <1>2, PTL DEF Spec

\* The counters follow what they count, whatever relays answer, twice and late.
THEOREM CountsAlwaysAgree == Spec => []CountsAgree
<1>1. IInv => CountsAgree
  <2> SUFFICES ASSUME IInv PROVE CountsAgree OBVIOUS
  <2>1. Books(plan, d, have, missed) /\ Progress(plan, d, have) /\ d \in Downs BY DEF IInv, AtRest, Kept
  <2>2. d.count = Cardinality(have) BY <2>1 DEF Progress
  <2>3. ASSUME NEW k \in DOMAIN d.ranges, NEW i \in d.ranges[k].missing
        PROVE  d.ranges[k].flying[i] = Cardinality({b \in Running(d, k) : i \in b.indexes})
    <3> DEFINE g == d.ranges[k]
               R == Running(d, k)
               total == d.total
               next == d.next
    <3>1. RangeOK(plan, total, next, k, g, have) /\ Flown(total, g, R, missed) BY <2>1 DEF Books, Book
    <3>2. k \in Int BY <2>1, DownParts
    <3> HIDE DEF g, R, total, next
    <3>3. g.missing \subseteq Countable(total, g) BY <3>1, <3>2, MissingInside
    <3>4. i \in Countable(total, g) BY <2>3, <3>3 DEF g
    <3>5. g.flying[i] = Cardinality(Asking(R, i)) BY <3>1, <3>4 DEF Flown
    <3> QED BY <3>5 DEF g, R, Asking
  <2> QED BY <2>2, <2>3 DEF CountsAgree
<1> QED BY <1>1, DownloadInOrder, PTL

\* What is reported missing every relay was asked for, and answered without it.
THEOREM MissingAlwaysAsked == Spec => []MissingWasAsked
<1>1. IInv => MissingWasAsked BY DEF IInv, AtRest, Kept, Told, MissingWasAsked
<1> QED BY <1>1, DownloadInOrder, PTL

\* A download that ends by itself has each chunk or has reported it.
THEOREM EndAlwaysAccounted == Spec => []EndIsAccounted
<1>1. IInv => EndIsAccounted BY DEF IInv, AtRest, Ended, Faithful, EndIsAccounted
<1> QED BY <1>1, DownloadInOrder, PTL

\* A download that runs waits for an answer or for the store.
THEOREM NeverStalls == Spec => []NoStall
<1>1. IInv => NoStall
  <2> SUFFICES ASSUME IInv, d.running, \A k \in DOMAIN d.ranges : ~d.ranges[k].loading
               PROVE  d.active # {}
    BY DEF NoStall
  <2>1. Busy(d) /\ Limiter(d.queue, d.active) /\ Attentive(d.queue, d.active) BY DEF IInv, AtRest, Kept
  <2>2. PICK k \in DOMAIN d.ranges : Running(d, k) # {} BY <2>1 DEF Busy
  <2>3. PICK b \in Batches(d) : TRUE BY <2>2 DEF Running
  <2>4. CASE b \in d.active BY <2>4
  <2>5. CASE \E r \in RelaySet : b \in Range(d.queue[r])
    <3>1. PICK r \in RelaySet : b \in Range(d.queue[r]) BY <2>5
    <3>2. d.queue[r] # <<>> BY <3>1 DEF Range
    <3>3. Under(d.active, r) # {} BY <2>1, <3>2 DEF Attentive, Attended
    <3> QED BY <3>3 DEF Under
  <2> QED BY <2>3, <2>4, <2>5 DEF Batches
<1> QED BY <1>1, DownloadInOrder, PTL
=============================================================================
