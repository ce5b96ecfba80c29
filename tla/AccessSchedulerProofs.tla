----------------------- MODULE AccessSchedulerProofs -----------------------
(***************************************************************************)
(* The access to the stores, and the stores of the chunk cache.            *)
(*                                                                         *)
(* For every set of accesses, apps, stores and intents: the variables of   *)
(* the access scheduler keep their types, its lanes are listed once, and   *)
(* no two active accesses share a store; each step of a scheduler object   *)
(* is a step of StoreAccess, the promise to its callers, or leaves what    *)
(* they know as it is; what callers were told, the lanes, the counter and  *)
(* the registry entry tell one story, no wakeup is lost, and planning      *)
(* reads yield.                                                            *)
(*                                                                         *)
(* For every set of owners, files, contents and chunks: each transaction   *)
(* of the chunk cache leaves its counters, links and roots in agreement    *)
(* with the copies there are, and every copy's bytes in place.             *)
(***************************************************************************)
EXTENDS AccessScheduler, ChunkCache, DataLemmas

\* What the step of an action must keep: serialization alone is not inductive,
\* because the job a pump starts is known to be one only if its lane is filled.
IInv == TypeOK /\ LanesListedOnce /\ StoresSerialized

\* Taking element i out of a sequence shifts the ones behind it.
LEMMA WithoutProperties ==
  ASSUME NEW S, NEW s \in Seq(S), NEW i \in 1..Len(s)
  PROVE  /\ Without(s, i) \in Seq(S)
         /\ Len(Without(s, i)) = Len(s) - 1
         /\ \A n \in 1..(Len(s) - 1) : Without(s, i)[n] = IF n < i THEN s[n] ELSE s[n + 1]
<1> DEFINE front == SubSeq(s, 1, i - 1)
           back == SubSeq(s, i + 1, Len(s))
<1>0. Len(s) \in Nat /\ \A n \in 1..Len(s) : s[n] \in S
  BY ElementOfSeq, LenProperties
<1>1. /\ front \in Seq(S) /\ Len(front) = i - 1
      /\ \A n \in 1..(i - 1) : front[n] = s[n]
  <2>1. \A n \in 1..(i - 1) : s[n] \in S
    BY <1>0
  <2> QED
    BY <2>1, <1>0, SubSeqProperties
<1>2. /\ back \in Seq(S) /\ Len(back) = Len(s) - i
      /\ \A n \in 1..(Len(s) - i) : back[n] = s[i + n]
  <2>1. \A n \in (i + 1)..Len(s) : s[n] \in S
    BY <1>0
  <2> QED
    BY <2>1, <1>0, SubSeqProperties
<1> HIDE DEF front, back
<1>3. /\ front \o back \in Seq(S)
      /\ Len(front \o back) = Len(front) + Len(back)
      /\ \A n \in 1..(Len(front) + Len(back)) :
           (front \o back)[n] = IF n <= Len(front) THEN front[n] ELSE back[n - Len(front)]
  BY <1>1, <1>2, ConcatProperties
<1>4. Without(s, i) = front \o back
  BY DEF Without, front, back
<1>l. Len(front) + Len(back) = Len(s) - 1
  BY <1>0, <1>1, <1>2
<1>5. \A n \in 1..(Len(s) - 1) : (front \o back)[n] = IF n < i THEN s[n] ELSE s[n + 1]
  <2> TAKE n \in 1..(Len(s) - 1)
  <2>0. n \in Nat /\ i \in Nat /\ n <= Len(s) - 1
    BY <1>0
  <2>1. CASE n < i
    <3>1. n \in 1..(i - 1) /\ n <= Len(front)
      BY <2>0, <2>1, <1>1
    <3> QED
      BY <3>1, <2>0, <2>1, <1>1, <1>3, <1>l
  <2>2. CASE n >= i
    <3>1. n - (i - 1) \in 1..(Len(s) - i) /\ i + (n - (i - 1)) = n + 1
      BY <2>2, <2>0, <1>0
    <3>2. (front \o back)[n] = back[n - (i - 1)]
      BY <2>0, <2>2, <1>1, <1>3, <1>l
    <3>3. back[n - (i - 1)] = s[n + 1]
      BY <3>1, <1>2
    <3> QED
      BY <3>2, <3>3, <2>2, <2>0
  <2>3. n < i \/ n >= i
    BY <2>0
  <2> QED
    BY <2>1, <2>2, <2>3
<1> QED
  BY <1>3, <1>4, <1>5, <1>l

\* LanesListedOnce with the ranges spelled out.
Once1(c) ==
  /\ \A m, n \in 1..Len(consumers[c]) : m # n => consumers[c][m] # consumers[c][n]
  /\ \A n \in 1..Len(consumers[c]) : queues[c][consumers[c][n]] # <<>>
  /\ \A a \in Apps : queues[c][a] # <<>> => \E n \in 1..Len(consumers[c]) : consumers[c][n] = a

AllOnce1 == \A c \in Classes : Once1(c)

\* On well-typed states LanesListedOnce is the same statement quantified per lane.
LEMMA LanesListedRestated ==
  TypeOK => (LanesListedOnce <=> AllOnce1)
<1> SUFFICES ASSUME TypeOK
             PROVE  LanesListedOnce <=> \A c \in Classes : Once1(c)
  BY DEF AllOnce1
<1>1. ASSUME NEW c \in Classes
      PROVE  /\ DOMAIN consumers[c] = 1..Len(consumers[c])
             /\ \A n \in 1..Len(consumers[c]) : consumers[c][n] \in Apps
  <2>1. consumers[c] \in Seq(Apps)
    BY DEF TypeOK
  <2> QED
    BY <2>1, ElementOfSeq, LenProperties
<1> QED
  BY <1>1 DEF LanesListedOnce, Once1

\* Taking job n out of the i-th lane of class c keeps the lanes in order.
LEMMA ExtractKeepsLanes ==
  ASSUME TypeOK, \A d \in Classes : Once1(d),
         NEW c \in Classes, NEW a \in Apps, NEW i \in 1..Len(consumers[c]),
         consumers[c][i] = a,
         NEW n \in 1..Len(queues[c][a]), NEW advance \in Nat,
         Extract(c, a, i, n, advance)
  PROVE  /\ queues' \in [Classes -> [Apps -> Seq(Jobs)]]
         /\ consumers' \in [Classes -> Seq(Apps)]
         /\ cursors' \in [Classes -> Nat]
         /\ waiting' \in Int
         /\ \A d \in Classes : Once1(d)'
<1> DEFINE q == queues[c][a]
           o == consumers[c]
<1>1. q \in Seq(Jobs) /\ o \in Seq(Apps) /\ cursors[c] \in Nat
  BY DEF TypeOK
<1>2. /\ Len(q) \in Nat /\ Len(o) \in Nat /\ i \in 1..Len(o) /\ n \in 1..Len(q)
      /\ Len(q) >= 1
  BY <1>1, LenProperties
<1>3. /\ Without(q, n) \in Seq(Jobs)
      /\ Len(Without(q, n)) = Len(q) - 1
  BY <1>1, WithoutProperties
<1>4. /\ Without(o, i) \in Seq(Apps)
      /\ Len(Without(o, i)) = Len(o) - 1
      /\ \A k \in 1..(Len(o) - 1) : Without(o, i)[k] = IF k < i THEN o[k] ELSE o[k + 1]
  BY <1>1, WithoutProperties
<1>5. /\ queues' = [queues EXCEPT ![c][a] = Without(q, n)]
      /\ waiting' = waiting - 1
  BY DEF Extract
<1>6. /\ queues' \in [Classes -> [Apps -> Seq(Jobs)]]
      /\ waiting' \in Int
      /\ queues'[c][a] = Without(q, n)
      /\ \A d \in Classes, b \in Apps : d # c \/ b # a => queues'[d][b] = queues[d][b]
  BY <1>3, <1>5 DEF TypeOK
<1>7. Once1(c)
  OBVIOUS
<1> HIDE DEF q, o
<1>8. CASE Len(q) = 1
  <2>1. /\ consumers' = [consumers EXCEPT ![c] = Without(o, i)]
        /\ cursors' = IF i - 1 < cursors[c]
                        THEN [cursors EXCEPT ![c] = cursors[c] - 1] ELSE cursors
    BY <1>8 DEF Extract, DropLane, q, o
  <2>2. consumers' \in [Classes -> Seq(Apps)]
    BY <2>1, <1>4 DEF TypeOK
  <2>3. cursors' \in [Classes -> Nat]
    <3>1. i - 1 < cursors[c] => cursors[c] - 1 \in Nat
      BY <1>1, <1>2
    <3> QED
      BY <2>1, <3>1 DEF TypeOK
  <2>4. Without(q, n) = <<>>
    BY <1>3, <1>8, EmptySeq
  <2>5. /\ \A k, m \in 1..Len(o) : k # m => o[k] # o[m]
        /\ \A k \in 1..Len(o) : o[k] \in Apps /\ queues[c][o[k]] # <<>>
        /\ \A b \in Apps : queues[c][b] # <<>> => \E k \in 1..Len(o) : o[k] = b
    BY <1>1, <1>2, <1>7, ElementOfSeq DEF Once1, o
  <2>6. o[i] = a
    BY DEF o
  <2>7. consumers'[c] = Without(o, i)
    BY <2>1 DEF TypeOK
  <2> DEFINE w == Without(o, i)
             from(k) == IF k < i THEN k ELSE k + 1
  <2>8. \A k \in 1..Len(w) : /\ w[k] = o[from(k)]
                             /\ from(k) \in 1..Len(o)
                             /\ from(k) # i
    BY <1>2, <1>4
  <2>9. \A k, m \in 1..Len(w) : k # m => from(k) # from(m)
    BY <1>2, <1>4
  <2>10. \A k \in 1..Len(o) : k # i => \E m \in 1..Len(w) : from(m) = k
    <3>1. SUFFICES ASSUME NEW k \in 1..Len(o), k # i
                   PROVE  \E m \in 1..Len(w) : from(m) = k
      OBVIOUS
    <3>2. CASE k < i
      BY <3>1, <3>2, <1>2, <1>4
    <3>3. CASE k > i
      <4>1. k - 1 \in 1..Len(w) /\ from(k - 1) = k
        BY <3>1, <3>3, <1>2, <1>4
      <4> QED
        BY <4>1
    <3> QED
      BY <3>1, <3>2, <3>3, <1>2
  <2> HIDE DEF w, from
  <2>11. Once1(c)'
    <3>1. ASSUME NEW k \in 1..Len(w), NEW m \in 1..Len(w), k # m
          PROVE  w[k] # w[m]
      <4>1. from(k) \in 1..Len(o) /\ from(m) \in 1..Len(o) /\ from(k) # from(m)
        BY <3>1, <2>8, <2>9
      <4>2. w[k] = o[from(k)] /\ w[m] = o[from(m)]
        BY <2>8
      <4>3. \A x, y \in 1..Len(o) : x # y => o[x] # o[y]
        BY <2>5
      <4> QED
        BY <4>1, <4>2, <4>3
    <3>2. \A k \in 1..Len(w) : w[k] # a /\ w[k] \in Apps /\ queues[c][w[k]] # <<>>
      BY SMTT(30), <2>5, <2>6, <2>8, <1>2
    <3>3. \A k \in 1..Len(w) : queues'[c][w[k]] # <<>>
      BY <3>2, <1>6
    <3>4. ASSUME NEW b \in Apps, queues'[c][b] # <<>>
          PROVE  \E k \in 1..Len(w) : w[k] = b
      <4>1. b # a /\ queues[c][b] # <<>>
        BY <3>4, <2>4, <1>6
      <4>2. PICK k \in 1..Len(o) : o[k] = b
        BY <4>1, <2>5
      <4>3. k # i
        BY <4>1, <4>2, <2>6
      <4> QED
        BY <4>2, <4>3, <2>8, <2>10
    <3>5. consumers'[c] = w
      BY <2>7 DEF w
    <3> QED
      BY <3>1, <3>3, <3>4, <3>5 DEF Once1
  <2>12. ASSUME NEW d \in Classes, d # c
         PROVE  Once1(d)'
    <3>1. consumers'[d] = consumers[d] /\ \A b \in Apps : queues'[d][b] = queues[d][b]
      BY <2>1, <2>12, <1>6 DEF TypeOK
    <3>2. Once1(d) /\ consumers[d] \in Seq(Apps)
      BY DEF TypeOK
    <3>3. \A k \in 1..Len(consumers[d]) : consumers[d][k] \in Apps
      BY <3>2, ElementOfSeq
    <3> QED
      BY SMTT(30), <3>1, <3>2, <3>3 DEF Once1
  <2> QED
    BY <2>2, <2>3, <2>11, <2>12, <1>6
<1>9. CASE Len(q) # 1
  <2>1. consumers' = consumers /\ cursors' = [cursors EXCEPT ![c] = advance]
    BY <1>9 DEF Extract, q
  <2>2. Without(q, n) # <<>>
    BY <1>2, <1>3, <1>9, EmptySeq
  <2>3. \A d \in Classes, b \in Apps : queues'[d][b] # <<>> <=> queues[d][b] # <<>>
    <3>1. q # <<>>
      BY <1>1, <1>2, EmptySeq
    <3> QED
      BY <2>2, <3>1, <1>6 DEF q
  <2>4. ASSUME NEW d \in Classes
        PROVE  Once1(d)'
    <3>1. Once1(d) /\ consumers[d] \in Seq(Apps)
      BY DEF TypeOK
    <3>2. \A k \in 1..Len(consumers[d]) : consumers[d][k] \in Apps
      BY <3>1, ElementOfSeq
    <3> QED
      BY <2>1, <2>3, <3>1, <3>2 DEF Once1
  <2> QED
    BY <2>1, <2>4, <1>6 DEF TypeOK
<1> QED
  BY <1>8, <1>9

\* Joining a lane, the last step of run().
LEMMA RunKeepsLanes ==
  ASSUME TypeOK, \A d \in Classes : Once1(d), NEW j \in Jobs, Run(j)
  PROVE  /\ queues' \in [Classes -> [Apps -> Seq(Jobs)]]
         /\ consumers' \in [Classes -> Seq(Apps)]
         /\ \A d \in Classes : Once1(d)'
<1> DEFINE c == ClassOf[j]
           a == AppOf[j]
           q == queues[c][a]
           o == consumers[c]
<1>1. c \in Classes /\ a \in Apps
  BY SchedulerConstants
<1>2. q \in Seq(Jobs) /\ o \in Seq(Apps)
  BY <1>1 DEF TypeOK
<1>3. queues' = [queues EXCEPT ![c][a] = Append(q, j)]
  BY DEF Run
<1>4. Append(q, j) \in Seq(Jobs) /\ Append(q, j) # <<>>
  BY <1>2, AppendProperties
<1>5. consumers' = IF q = <<>> THEN [consumers EXCEPT ![c] = Append(o, a)] ELSE consumers
  BY DEF Run, PushLane
<1>6. /\ Append(o, a) \in Seq(Apps) /\ Len(Append(o, a)) = Len(o) + 1
      /\ \A k \in 1..Len(o) : Append(o, a)[k] = o[k]
      /\ Append(o, a)[Len(o) + 1] = a
      /\ Len(o) \in Nat
  BY <1>1, <1>2, AppendProperties, LenProperties
<1>7. Once1(c)
  BY <1>1
<1> HIDE DEF c, a
<1>8. /\ queues' \in [Classes -> [Apps -> Seq(Jobs)]]
      /\ queues'[c][a] # <<>>
      /\ \A d \in Classes, b \in Apps : d # c \/ b # a => queues'[d][b] = queues[d][b]
  BY <1>1, <1>3, <1>4 DEF TypeOK
<1>9. consumers' \in [Classes -> Seq(Apps)]
  BY <1>1, <1>5, <1>6 DEF TypeOK
<1>10. \A k \in 1..Len(o) : o[k] \in Apps
  BY <1>2, ElementOfSeq
<1>11. ASSUME NEW d \in Classes, d # c
       PROVE  Once1(d)'
  <2>1. consumers'[d] = consumers[d] /\ \A b \in Apps : queues'[d][b] = queues[d][b]
    BY <1>1, <1>5, <1>8, <1>11 DEF TypeOK
  <2>2. Once1(d) /\ consumers[d] \in Seq(Apps)
    BY DEF TypeOK
  <2>3. \A k \in 1..Len(consumers[d]) : consumers[d][k] \in Apps
    BY <2>2, ElementOfSeq
  <2> QED
    BY <2>1, <2>2, <2>3 DEF Once1
<1>12. CASE q # <<>>
  <2>1. consumers'[c] = o
    BY <1>5, <1>12
  <2>2. \A b \in Apps : queues'[c][b] # <<>> <=> queues[c][b] # <<>> \/ b = a
    BY <1>1, <1>8
  <2>3. q # <<>> /\ \A b \in Apps : queues'[c][b] # <<>> <=> queues[c][b] # <<>>
    BY <2>2, <1>12
  <2>4. Once1(c)'
    BY <2>1, <2>3, <1>7, <1>10 DEF Once1
  <2> QED
    BY <2>4, <1>8, <1>9, <1>11
<1>13. CASE q = <<>>
  <2> DEFINE p == Append(o, a)
  <2>1. consumers'[c] = p
    BY <1>1, <1>5, <1>13 DEF TypeOK
  <2>2. \A k \in 1..Len(o) : o[k] # a
    BY <1>7, <1>13 DEF Once1
  <2>3. /\ Len(p) = Len(o) + 1
        /\ \A k \in 1..Len(o) : p[k] = o[k]
        /\ p[Len(o) + 1] = a
    BY <1>6
  <2> HIDE DEF p
  <2>4. \A k \in 1..Len(p) : k \in 1..Len(o) \/ k = Len(o) + 1
    BY <2>3, <1>6
  <2>5. ASSUME NEW k \in 1..Len(p), NEW m \in 1..Len(p), k # m
        PROVE  p[k] # p[m]
    BY <2>2, <2>3, <2>4, <2>5, <1>7 DEF Once1
  <2>6. ASSUME NEW k \in 1..Len(p)
        PROVE  queues'[c][p[k]] # <<>>
    <3>1. CASE k = Len(o) + 1
      BY <3>1, <2>3, <1>8
    <3>2. CASE k \in 1..Len(o)
      <4>1. p[k] = o[k] /\ o[k] \in Apps /\ queues[c][o[k]] # <<>> /\ o[k] # a
        BY <3>2, <2>2, <2>3, <1>7, <1>10 DEF Once1
      <4> QED
        BY <4>1, <1>1, <1>8
    <3> QED
      BY <3>1, <3>2, <2>4
  <2>7. ASSUME NEW b \in Apps, queues'[c][b] # <<>>
        PROVE  \E k \in 1..Len(p) : p[k] = b
    <3>1. CASE b = a
      <4>1. Len(o) + 1 \in 1..Len(p)
        BY <2>3, <1>6
      <4> QED
        BY <3>1, <4>1, <2>3
    <3>2. CASE b # a
      <4>1. queues[c][b] # <<>>
        BY <3>2, <2>7, <1>1, <1>8
      <4>2. PICK k \in 1..Len(o) : o[k] = b
        BY <4>1, <1>7 DEF Once1
      <4>3. k \in 1..Len(p)
        BY <2>3, <1>6
      <4> QED
        BY <4>2, <4>3, <2>3
    <3> QED
      BY <3>1, <3>2
  <2>8. Once1(c)'
    BY <2>1, <2>5, <2>6, <2>7 DEF Once1
  <2> QED
    BY <2>8, <1>8, <1>9, <1>11
<1> QED
  BY <1>12, <1>13

\* A fresh scheduler.
LEMMA InitEstablishes == Init => IInv
<1> SUFFICES ASSUME Init PROVE IInv
  OBVIOUS
<1>1. TypeOK
  <2>1. queues \in [Classes -> [Apps -> Seq(Jobs)]] /\ consumers \in [Classes -> Seq(Apps)]
    BY EmptySeq DEF Init
  <2>2. /\ status \in [Jobs -> Phases] /\ cursors \in [Classes -> Nat]
        /\ held \in [Intents -> {"idle", "held"}]
    BY DEF Init, Phases
  <2>3. /\ active \subseteq Jobs /\ foregroundIntents \subseteq Intents /\ preempted \subseteq Jobs
        /\ pumping \in BOOLEAN /\ listed \in BOOLEAN
    BY DEF Init
  <2>4. preferred \in 0..StarvationLimit /\ waiting \in Int
    BY SchedulerConstants DEF Init
  <2> QED
    BY <2>1, <2>2, <2>3, <2>4 DEF TypeOK
<1>2. AllOnce1
  BY EmptySeq DEF Init, Once1, AllOnce1
<1>3. StoresSerialized
  BY DEF Init, StoresSerialized
<1> QED
  BY <1>1, <1>2, <1>3, LanesListedRestated DEF IInv

\* Every call and callback keeps the invariant.
LEMMA StepPreserves == IInv /\ [Next]_vars => IInv'
<1> SUFFICES ASSUME TypeOK, StoresSerialized, \A c \in Classes : Once1(c), [Next]_vars
             PROVE  TypeOK' /\ StoresSerialized' /\ \A c \in Classes : Once1(c)'
  <2>1. TypeOK /\ LanesListedOnce => AllOnce1
    BY LanesListedRestated
  <2>2. TypeOK' /\ AllOnce1' => LanesListedOnce'
    BY LanesListedRestated, PTL
  <2> QED
    BY <2>1, <2>2 DEF IInv, AllOnce1
<1> USE SchedulerConstants
\* Calls that edit neither the lanes nor, but by leaving it, the active set.
<1>1. ASSUME queues' = queues, consumers' = consumers, active' \subseteq active
      PROVE  StoresSerialized' /\ \A c \in Classes : Once1(c)'
  <2>1. StoresSerialized'
    BY <1>1 DEF StoresSerialized
  <2>2. \A c \in Classes : Once1(c)'
    BY <1>1 DEF Once1
  <2> QED
    BY <2>1, <2>2
<1>2. ASSUME NEW j \in Jobs, Run(j)
      PROVE  TypeOK' /\ StoresSerialized' /\ \A c \in Classes : Once1(c)'
  <2>1. /\ queues' \in [Classes -> [Apps -> Seq(Jobs)]]
        /\ consumers' \in [Classes -> Seq(Apps)]
        /\ \A d \in Classes : Once1(d)'
    BY <1>2, RunKeepsLanes
  <2>2. StoresSerialized'
    BY <1>2 DEF Run, StoresSerialized
  <2> QED
    BY <1>2, <2>1, <2>2 DEF Run, TypeOK, Phases
<1>3. ASSUME NEW j \in Jobs, Complete(j)
      PROVE  TypeOK' /\ StoresSerialized' /\ \A c \in Classes : Once1(c)'
  BY <1>1, <1>3 DEF Complete, TypeOK, Phases
<1>4. ASSUME NEW j \in Jobs, Abort(j)
      PROVE  TypeOK' /\ StoresSerialized' /\ \A c \in Classes : Once1(c)'
  <2> DEFINE c == ClassOf[j]
             a == AppOf[j]
  <2>1. c \in Classes /\ a \in Apps
    OBVIOUS
  <2>2. PICK i \in DOMAIN consumers[c], n \in DOMAIN Lane(j) :
           consumers[c][i] = a /\ Extract(c, a, i, n, cursors[c])
    BY <1>4 DEF Abort
  <2>3. i \in 1..Len(consumers[c]) /\ n \in 1..Len(queues[c][a])
    <3>1. consumers[c] \in Seq(Apps) /\ queues[c][a] \in Seq(Jobs)
      BY <2>1 DEF TypeOK
    <3> QED
      BY <3>1, LenProperties DEF Lane
  <2>4. cursors[c] \in Nat
    BY <2>1 DEF TypeOK
  <2> HIDE DEF c, a
  <2>5. /\ queues' \in [Classes -> [Apps -> Seq(Jobs)]]
        /\ consumers' \in [Classes -> Seq(Apps)]
        /\ cursors' \in [Classes -> Nat]
        /\ waiting' \in Int
        /\ \A d \in Classes : Once1(d)'
    BY <2>1, <2>2, <2>3, <2>4, ExtractKeepsLanes
  <2>6. StoresSerialized'
    BY <1>4 DEF Abort, StoresSerialized
  <2> QED
    BY <1>4, <2>5, <2>6 DEF Abort, TypeOK, Phases
<1>5. ASSUME NEW j \in Jobs, AbortRetry(j)
      PROVE  TypeOK' /\ StoresSerialized' /\ \A c \in Classes : Once1(c)'
  BY <1>1, <1>5 DEF AbortRetry, TypeOK, Phases
<1>6. ASSUME NEW j \in Jobs, SettleRejected(j)
      PROVE  TypeOK' /\ StoresSerialized' /\ \A c \in Classes : Once1(c)'
  BY <1>1, <1>6 DEF SettleRejected, TypeOK, Phases
<1>7. ASSUME NEW i \in Intents, BeginIntent(i)
      PROVE  TypeOK' /\ StoresSerialized' /\ \A c \in Classes : Once1(c)'
  BY <1>1, <1>7 DEF BeginIntent, Preempt, TypeOK, Phases
<1>8. ASSUME NEW i \in Intents, ReleaseIntent(i)
      PROVE  TypeOK' /\ StoresSerialized' /\ \A c \in Classes : Once1(c)'
  BY <1>1, <1>8 DEF ReleaseIntent, TypeOK, Phases
<1>9. ASSUME PumpStep
      PROVE  TypeOK' /\ StoresSerialized' /\ \A c \in Classes : Once1(c)'
  <2>c. PICK c \in Classes : \E k \in Offers(c) : Serve(c, k)
    BY <1>9 DEF PumpStep
  <2>1. PICK k \in Offers(c) : Serve(c, k)
    BY <2>c
  <2> DEFINE i == LaneAt(c, k)
             a == consumers[c][i]
             j == HeadAt(c, k)
             advance == i % Len(consumers[c])
  <2>2. consumers[c] \in Seq(Apps) /\ cursors[c] \in Nat /\ k \in 0..(Len(consumers[c]) - 1)
    BY <2>1 DEF Offers, TypeOK
  <2>3. Len(consumers[c]) \in Nat \ {0} /\ k \in Nat
    BY <2>2, LenProperties
  <2>4. i \in 1..Len(consumers[c]) /\ advance \in Nat
    <3>1. \A x \in Nat, y \in Nat \ {0} : x % y \in 0..(y - 1)
      OBVIOUS
    <3>2. cursors[c] + k \in Nat
      BY <2>2, <2>3
    <3> DEFINE l == Len(consumers[c])
               x == cursors[c] + k
    <3>3. i = (x % l) + 1 /\ advance = i % l
      BY DEF LaneAt
    <3>4. x \in Nat /\ l \in Nat \ {0}
      BY <2>3, <3>2
    <3> HIDE DEF i, advance, x, l
    <3>5. i \in 1..l /\ i \in Nat
      BY <3>1, <3>3, <3>4
    <3>6. advance \in Nat
      BY <3>1, <3>3, <3>4, <3>5
    <3> QED
      BY <3>5, <3>6 DEF l
  <2>5. a \in Apps
    BY <2>2, <2>4, ElementOfSeq
  <2>6. queues[c][a] \in Seq(Jobs) /\ queues[c][a] # <<>>
    BY <2>4, <2>5 DEF Once1, TypeOK
  <2>7. 1 \in 1..Len(queues[c][a]) /\ j \in Jobs
    BY <2>6, HeadTailProperties, EmptySeq, LenProperties DEF HeadAt
  <2>8. /\ Extract(c, a, i, 1, advance)
        /\ active' = active \cup {j}
        /\ status' = [status EXCEPT ![j] = "active"]
        /\ preferred' = IF c \in Lower THEN 0
                        ELSE IF preferred < StarvationLimit THEN preferred + 1
                        ELSE preferred
    BY <2>1 DEF Serve
  <2>9. Runnable(j)
    BY <2>1 DEF Offers
  <2> HIDE DEF i, a, j, advance
  <2>10. /\ queues' \in [Classes -> [Apps -> Seq(Jobs)]]
         /\ consumers' \in [Classes -> Seq(Apps)]
         /\ cursors' \in [Classes -> Nat]
         /\ waiting' \in Int
         /\ \A d \in Classes : Once1(d)'
    <3>1. consumers[c][i] = a
      BY DEF a
    <3> QED
      BY <3>1, <2>1, <2>4, <2>5, <2>7, <2>8, ExtractKeepsLanes
  <2>11. StoresSerialized'
    <3>1. \A m \in active : StoresOf[j] \cap StoresOf[m] = {}
      BY <2>9 DEF Runnable, Occupied
    <3> QED
      BY <3>1, <2>8 DEF StoresSerialized
  <2>12. preferred' \in 0..StarvationLimit
    BY <2>8 DEF TypeOK
  <2>13. status' \in [Jobs -> Phases] /\ active' \subseteq Jobs
    BY <2>7, <2>8 DEF TypeOK, Phases
  <2> QED
    BY <1>9, <2>10, <2>11, <2>12, <2>13 DEF PumpStep, TypeOK
<1>10. ASSUME PumpEnd
       PROVE  TypeOK' /\ StoresSerialized' /\ \A c \in Classes : Once1(c)'
  BY <1>1, <1>10 DEF PumpEnd, TypeOK, Phases
<1>11. ASSUME Cancel
       PROVE  TypeOK' /\ StoresSerialized' /\ \A c \in Classes : Once1(c)'
  <2>1. TypeOK'
    BY <1>11, EmptySeq DEF Cancel, TypeOK, Phases
  <2>2. \A c \in Classes : Once1(c)'
    BY <1>11, EmptySeq DEF Cancel, Once1
  <2> QED
    BY <2>1, <2>2, <1>11 DEF Cancel, StoresSerialized
<1>12. ASSUME Recreate
       PROVE  TypeOK' /\ StoresSerialized' /\ \A c \in Classes : Once1(c)'
  BY <1>1, <1>12 DEF Recreate, TypeOK, Phases
<1>13. ASSUME UNCHANGED vars
       PROVE  TypeOK' /\ StoresSerialized' /\ \A c \in Classes : Once1(c)'
  BY <1>1, <1>13 DEF vars, TypeOK
<1> QED
  BY <1>2, <1>3, <1>4, <1>5, <1>6, <1>7, <1>8, <1>9, <1>10, <1>11, <1>12, <1>13 DEF Next

\* The invariant holds in every reachable state.
THEOREM Invariant == Spec => []IInv
<1> QED
  BY InitEstablishes, StepPreserves, PTL DEF Spec

\* Queues, orders, cursors and counters never leave their types: in particular
\* no cursor goes below zero when lanes in front of it are dropped.
THEOREM TypeCorrect == Spec => []TypeOK
<1>1. IInv => TypeOK
  BY DEF IInv
<1> QED
  BY <1>1, Invariant, PTL

\* Transactions whose stores intersect are never active together in a scheduler.
THEOREM Serialization == Spec => []StoresSerialized
<1>1. IInv => StoresSerialized
  BY DEF IInv
<1> QED
  BY <1>1, Invariant, PTL

\* Every queued access is in a lane the round robin scans, once.
THEOREM LanesComplete == Spec => []LanesListedOnce
<1>1. IInv => LanesListedOnce
  BY DEF IInv
<1> QED
  BY <1>1, Invariant, PTL

-----------------------------------------------------------------------------
\* The refinement.

\* What the lanes hold is what waits.  The mapping of status alone cannot say
\* that the access a pump starts was waiting, nor that it leaves its lane with
\* the start: a copy left behind would be started a second time.
LaneFiled(c, a) ==
  /\ \A n \in 1..Len(queues[c][a]) :
       LET j == queues[c][a][n] IN status[j] = "waiting" /\ ClassOf[j] = c /\ AppOf[j] = a
  /\ \A m, n \in 1..Len(queues[c][a]) : m # n => queues[c][a][m] # queues[c][a][n]

LanesFiled == \A c \in Classes, a \in Apps : LaneFiled(c, a)
ActiveKnown == \A j \in Jobs : status[j] = "active" <=> j \in active
PInv == IInv /\ LanesFiled /\ ActiveKnown

\* An access that leaves its lane takes its only entry along.
LEMMA ExtractKeepsFiled ==
  ASSUME TypeOK, LanesFiled, NEW c \in Classes, NEW a \in Apps, NEW n \in 1..Len(queues[c][a]),
         NEW j, j = queues[c][a][n],
         queues' = [queues EXCEPT ![c][a] = Without(@, n)],
         NEW x, status' = [status EXCEPT ![j] = x]
  PROVE  LanesFiled'
<1> DEFINE q == queues[c][a]
<1>1. q \in Seq(Jobs) /\ Len(q) \in Nat /\ n \in Nat
  BY LenProperties DEF TypeOK
<1>2. /\ Len(Without(q, n)) = Len(q) - 1
      /\ \A k \in 1..(Len(q) - 1) : Without(q, n)[k] = IF k < n THEN q[k] ELSE q[k + 1]
  BY <1>1, WithoutProperties
<1>3. /\ queues'[c][a] = Without(q, n)
      /\ \A d \in Classes, b \in Apps : d # c \/ b # a => queues'[d][b] = queues[d][b]
  BY DEF TypeOK
<1>4. LaneFiled(c, a) /\ ClassOf[j] = c /\ AppOf[j] = a
  BY DEF LanesFiled, LaneFiled
<1>5. \A k \in Jobs : k # j => status'[k] = status[k]
  BY DEF TypeOK
<1>6. ASSUME NEW d \in Classes, NEW b \in Apps, d # c \/ b # a
      PROVE  LaneFiled(d, b)'
  <2>1. queues'[d][b] = queues[d][b] /\ LaneFiled(d, b) /\ queues[d][b] \in Seq(Jobs)
    BY <1>3, <1>6 DEF LanesFiled, TypeOK
  <2>2. ASSUME NEW m \in 1..Len(queues[d][b])
        PROVE  LET k == queues[d][b][m] IN status'[k] = "waiting" /\ ClassOf[k] = d /\ AppOf[k] = b
    <3>1. /\ queues[d][b][m] \in Jobs /\ status[queues[d][b][m]] = "waiting"
          /\ ClassOf[queues[d][b][m]] = d /\ AppOf[queues[d][b][m]] = b
      BY <2>1, <2>2, ElementOfSeq DEF LaneFiled
    <3> QED
      BY <3>1, <1>4, <1>5, <1>6
  <2> QED
    BY <2>1, <2>2 DEF LaneFiled
<1>7. LaneFiled(c, a)'
  <2> DEFINE w == Without(q, n)
             from(k) == IF k < n THEN k ELSE k + 1
  <2>1. \A k \in 1..Len(w) : w[k] = q[from(k)] /\ from(k) \in 1..Len(q) /\ from(k) # n
    BY <1>1, <1>2
  <2>2. \A k, m \in 1..Len(w) : k # m => from(k) # from(m)
    BY <1>1, <1>2
  <2>3. /\ \A k \in 1..Len(q) : /\ q[k] \in Jobs /\ status[q[k]] = "waiting"
                                /\ ClassOf[q[k]] = c /\ AppOf[q[k]] = a
        /\ \A k, m \in 1..Len(q) : k # m => q[k] # q[m]
    BY <1>1, <1>4, ElementOfSeq DEF LaneFiled
  <2>4. n \in 1..Len(q) /\ j = q[n]
    OBVIOUS
  <2> HIDE DEF w, from, q
  <2>5. \A k \in 1..Len(w) : /\ status'[w[k]] = "waiting"
                             /\ ClassOf[w[k]] = c /\ AppOf[w[k]] = a
    <3> TAKE k \in 1..Len(w)
    <3>1. w[k] = q[from(k)] /\ from(k) \in 1..Len(q) /\ from(k) # n
      BY <2>1
    <3>2. w[k] # j
      BY <3>1, <2>3, <2>4
    <3> QED
      BY <3>1, <3>2, <2>3, <1>5
  <2>6. \A k, m \in 1..Len(w) : k # m => w[k] # w[m]
    BY <2>1, <2>2, <2>3
  <2>7. queues'[c][a] = w
    BY <1>3 DEF w
  <2> QED
    BY <2>5, <2>6, <2>7 DEF LaneFiled
<1> QED
  BY <1>6, <1>7 DEF LanesFiled

\* An access that is submitted waits in no lane yet.
LEMMA RunKeepsFiled ==
  ASSUME TypeOK, LanesFiled, NEW j \in Jobs, Run(j)
  PROVE  LanesFiled'
<1> DEFINE c == ClassOf[j]
           a == AppOf[j]
           q == queues[c][a]
<1>1. c \in Classes /\ a \in Apps
  BY SchedulerConstants
<1>2. q \in Seq(Jobs) /\ Len(q) \in Nat
  BY <1>1, LenProperties DEF TypeOK
<1>3. /\ Len(Append(q, j)) = Len(q) + 1
      /\ \A k \in 1..Len(q) : Append(q, j)[k] = q[k]
      /\ Append(q, j)[Len(q) + 1] = j
  BY <1>2, AppendProperties
<1>4. queues' = [queues EXCEPT ![c][a] = Append(@, j)] /\ status' = [status EXCEPT ![j] = "waiting"]
  BY DEF Run
<1>5. ClassOf[j] = c /\ AppOf[j] = a /\ status[j] # "waiting"
  BY DEF Run
<1> HIDE DEF c, a
<1>6. /\ queues'[c][a] = Append(q, j)
      /\ \A d \in Classes, b \in Apps : d # c \/ b # a => queues'[d][b] = queues[d][b]
  BY <1>1, <1>4 DEF TypeOK
<1>7. status'[j] = "waiting" /\ \A k \in Jobs : k # j => status'[k] = status[k]
  BY <1>4 DEF TypeOK
<1>8. ASSUME NEW d \in Classes, NEW b \in Apps
      PROVE  /\ \A m \in 1..Len(queues[d][b]) :
                  /\ queues[d][b][m] \in Jobs /\ queues[d][b][m] # j
                  /\ status'[queues[d][b][m]] = "waiting"
                  /\ ClassOf[queues[d][b][m]] = d /\ AppOf[queues[d][b][m]] = b
             /\ \A m, n \in 1..Len(queues[d][b]) : m # n => queues[d][b][m] # queues[d][b][n]
  <2>1. LaneFiled(d, b) /\ queues[d][b] \in Seq(Jobs)
    BY DEF LanesFiled, TypeOK
  <2>2. \A m \in 1..Len(queues[d][b]) : queues[d][b][m] \in Jobs
    BY <2>1, ElementOfSeq
  <2> QED
    BY <2>1, <2>2, <1>5, <1>7 DEF LaneFiled
<1>9. ASSUME NEW d \in Classes, NEW b \in Apps, d # c \/ b # a
      PROVE  LaneFiled(d, b)'
  <2>1. queues'[d][b] = queues[d][b]
    BY <1>6, <1>9
  <2> QED
    BY <2>1, <1>8 DEF LaneFiled
<1>10. LaneFiled(c, a)'
  <2> DEFINE p == Append(q, j)
  <2>1. /\ Len(p) = Len(q) + 1
        /\ \A k \in 1..Len(q) : p[k] = q[k]
        /\ p[Len(q) + 1] = j
    BY <1>3
  <2>2. /\ \A k \in 1..Len(q) : /\ q[k] # j /\ status'[q[k]] = "waiting"
                                /\ ClassOf[q[k]] = c /\ AppOf[q[k]] = a
        /\ \A k, m \in 1..Len(q) : k # m => q[k] # q[m]
    BY <1>1, <1>8
  <2>3. queues'[c][a] = p
    BY <1>6
  <2> HIDE DEF p, q
  <2>4. \A k \in 1..Len(p) : k \in 1..Len(q) \/ k = Len(q) + 1
    BY <2>1, <1>2
  <2>5. \A k \in 1..Len(p) : status'[p[k]] = "waiting" /\ ClassOf[p[k]] = c /\ AppOf[p[k]] = a
    BY <2>1, <2>2, <2>4, <1>5, <1>7
  <2>6. \A k, m \in 1..Len(p) : k # m => p[k] # p[m]
    BY <2>1, <2>2, <2>4
  <2> QED
    BY <2>3, <2>5, <2>6 DEF LaneFiled
<1> QED
  BY <1>1, <1>9, <1>10 DEF LanesFiled

\* A fresh scheduler has promised nothing.
LEMMA InitKeepsPromise == Init => PInv /\ Promise!Init
<1> SUFFICES ASSUME Init PROVE PInv /\ Promise!Init
  OBVIOUS
<1>1. IInv
  BY InitEstablishes
<1>2. LanesFiled
  BY EmptySeq DEF Init, LanesFiled, LaneFiled
<1>3. ActiveKnown
  BY DEF Init, ActiveKnown
<1>4. Promise!Init
  BY DEF Init, Promise!Init, phase
<1> QED
  BY <1>1, <1>2, <1>3, <1>4 DEF PInv

\* Calls that leave the lanes alone, and every status but one that does not wait.
LEMMA QuietKeepsFiled ==
  ASSUME TypeOK, LanesFiled, queues' = queues, NEW j \in Jobs, status[j] # "waiting",
         NEW x, status' = [status EXCEPT ![j] = x]
  PROVE  LanesFiled'
<1>1. \A k \in Jobs : status[k] = "waiting" => status'[k] = "waiting"
  BY DEF TypeOK
<1>2. ASSUME NEW c \in Classes, NEW a \in Apps
      PROVE  LaneFiled(c, a)'
  <2>1. LaneFiled(c, a) /\ queues[c][a] \in Seq(Jobs)
    BY DEF LanesFiled, TypeOK
  <2>2. \A n \in 1..Len(queues[c][a]) : queues[c][a][n] \in Jobs
    BY <2>1, ElementOfSeq
  <2> QED
    BY <2>1, <2>2, <1>1 DEF LaneFiled
<1> QED
  BY <1>2 DEF LanesFiled

\* Every call and callback is a step of the promise, or none.
LEMMA StepKeepsPromise == PInv /\ [Next]_vars => PInv' /\ [Promise!Next]_phase
<1> SUFFICES ASSUME PInv, [Next]_vars
             PROVE  LanesFiled' /\ ActiveKnown' /\ [Promise!Next]_phase
  BY StepPreserves DEF PInv
<1>0. TypeOK /\ LanesFiled /\ ActiveKnown /\ \A d \in Classes : Once1(d)
  BY LanesListedRestated DEF PInv, IInv, AllOnce1
<1> USE SchedulerConstants
<1>1. ASSUME queues' = queues, status' = status, active' = active
      PROVE  LanesFiled' /\ ActiveKnown' /\ phase' = phase
  <2>1. \A c \in Classes, a \in Apps : LaneFiled(c, a)' <=> LaneFiled(c, a)
    BY <1>1 DEF LaneFiled
  <2>2. LanesFiled'
    BY <1>0, <2>1 DEF LanesFiled
  <2>3. ActiveKnown'
    BY <1>0, <1>1 DEF ActiveKnown
  <2>4. phase' = phase
    BY <1>1 DEF phase
  <2> QED
    BY <2>2, <2>3, <2>4
<1>2. ASSUME NEW j \in Jobs, Run(j)
      PROVE  LanesFiled' /\ ActiveKnown' /\ [Promise!Next]_phase
  <2>1. LanesFiled'
    BY <1>0, <1>2, RunKeepsFiled
  <2>2. ActiveKnown'
    BY <1>0, <1>2 DEF Run, ActiveKnown, TypeOK
  <2>3. Promise!Submit(j)
    BY <1>0, <1>2 DEF Run, Promise!Submit, phase, TypeOK
  <2> QED
    BY <2>1, <2>2, <2>3 DEF Promise!Next
<1>3. ASSUME NEW j \in Jobs, Complete(j)
      PROVE  LanesFiled' /\ ActiveKnown' /\ [Promise!Next]_phase
  <2>1. /\ queues' = queues /\ j \in active /\ active' = active \ {j} /\ status[j] = "active"
    BY <1>0, <1>3 DEF Complete, ActiveKnown
  <2>2. PICK x \in {"idle", "retrying"} : status' = [status EXCEPT ![j] = x]
    BY <1>3 DEF Complete
  <2>3. LanesFiled'
    BY <1>0, <2>1, <2>2, QuietKeepsFiled
  <2>4. ActiveKnown'
    BY <1>0, <2>1, <2>2 DEF ActiveKnown, TypeOK
  <2>5. Promise!Finish(j)
    BY <1>0, <2>1, <2>2 DEF Promise!Finish, phase, TypeOK
  <2> QED
    BY <2>3, <2>4, <2>5 DEF Promise!Next
<1>4. ASSUME NEW j \in Jobs, Abort(j)
      PROVE  LanesFiled' /\ ActiveKnown' /\ [Promise!Next]_phase
  <2> DEFINE c == ClassOf[j]
             a == AppOf[j]
  <2>1. c \in Classes /\ a \in Apps
    OBVIOUS
  <2>2. PICK n \in DOMAIN Lane(j) :
           Lane(j)[n] = j /\ queues' = [queues EXCEPT ![c][a] = Without(@, n)]
    BY <1>4 DEF Abort, Extract
  <2>3. n \in 1..Len(queues[c][a]) /\ queues[c][a][n] = j
    <3>1. queues[c][a] \in Seq(Jobs)
      BY <1>0, <2>1 DEF TypeOK
    <3> QED
      BY <3>1, <2>2, LenProperties DEF Lane
  <2>4. status[j] = "waiting" /\ status' = [status EXCEPT ![j] = "rejected"] /\ active' = active
    BY <1>4 DEF Abort
  <2> HIDE DEF c, a
  <2>5. LanesFiled'
    BY <1>0, <2>1, <2>2, <2>3, <2>4, ExtractKeepsFiled
  <2>6. ActiveKnown'
    BY <1>0, <2>4 DEF ActiveKnown, TypeOK
  <2>7. Promise!Withdraw({j})
    BY <1>0, <2>4 DEF Promise!Withdraw, phase, TypeOK
  <2> QED
    BY <2>5, <2>6, <2>7 DEF Promise!Next
<1>5. ASSUME NEW j \in Jobs, AbortRetry(j) \/ SettleRejected(j)
      PROVE  LanesFiled' /\ ActiveKnown' /\ [Promise!Next]_phase
  <2>1. /\ queues' = queues /\ active' = active /\ status[j] \in {"retrying", "rejected"}
        /\ status' = [status EXCEPT ![j] = "idle"]
    BY <1>5 DEF AbortRetry, SettleRejected
  <2>2. LanesFiled'
    BY <1>0, <2>1, QuietKeepsFiled
  <2>3. ActiveKnown'
    BY <1>0, <2>1 DEF ActiveKnown, TypeOK
  <2>4. phase' = phase
    BY <1>0, <2>1 DEF phase, TypeOK
  <2> QED
    BY <2>2, <2>3, <2>4
<1>6. ASSUME NEW i \in Intents, BeginIntent(i) \/ ReleaseIntent(i)
      PROVE  LanesFiled' /\ ActiveKnown' /\ [Promise!Next]_phase
  BY <1>1, <1>6 DEF BeginIntent, ReleaseIntent
<1>7. ASSUME PumpStep
      PROVE  LanesFiled' /\ ActiveKnown' /\ [Promise!Next]_phase
  <2>1. PICK c \in Classes : \E k \in Offers(c) : Serve(c, k)
    BY <1>7 DEF PumpStep
  <2>2. PICK k \in Offers(c) : Serve(c, k)
    BY <2>1
  <2> DEFINE i == LaneAt(c, k)
             a == consumers[c][i]
             j == HeadAt(c, k)
  <2>3. /\ i \in 1..Len(consumers[c]) /\ a \in Apps
        /\ queues[c][a] \in Seq(Jobs) /\ queues[c][a] # <<>>
    <3>1. consumers[c] \in Seq(Apps) /\ cursors[c] \in Nat /\ k \in 0..(Len(consumers[c]) - 1)
      BY <1>0, <2>2 DEF Offers, TypeOK
    <3> DEFINE l == Len(consumers[c])
               x == cursors[c] + k
    <3>2. l \in Nat \ {0} /\ x \in Nat
      BY <3>1, LenProperties
    <3>3. i = (x % l) + 1
      BY DEF LaneAt
    <3>4. \A y \in Nat, z \in Nat \ {0} : y % z \in 0..(z - 1)
      OBVIOUS
    <3> HIDE DEF i, x, l
    <3>5. i \in 1..l
      BY <3>2, <3>3, <3>4
    <3>6. i \in 1..Len(consumers[c])
      BY <3>5 DEF l
    <3>7. a \in Apps
      BY <3>1, <3>6, ElementOfSeq
    <3> QED
      BY <1>0, <3>6, <3>7 DEF Once1, TypeOK
  <2>4. 1 \in 1..Len(queues[c][a]) /\ j = queues[c][a][1] /\ j \in Jobs
    BY <2>3, HeadTailProperties, EmptySeq, LenProperties DEF HeadAt
  <2>5. /\ queues' = [queues EXCEPT ![c][a] = Without(@, 1)]
        /\ active' = active \cup {j}
        /\ status' = [status EXCEPT ![j] = "active"]
    BY <2>2 DEF Serve, Extract
  <2>6. \A m \in active : StoresOf[j] \cap StoresOf[m] = {}
    BY <2>2 DEF Offers, Runnable, Occupied
  <2> HIDE DEF i, a, j
  <2>7. LanesFiled'
    BY <1>0, <2>3, <2>4, <2>5, ExtractKeepsFiled
  <2>8. status[j] = "waiting"
    <3>1. LaneFiled(c, a)
      BY <1>0, <2>3 DEF LanesFiled
    <3>2. status[queues[c][a][1]] = "waiting"
      BY <2>4, <3>1 DEF LaneFiled
    <3> QED
      BY <2>4, <3>2
  <2>9. ActiveKnown'
    BY <1>0, <2>4, <2>5 DEF ActiveKnown, TypeOK
  <2>10. Promise!Start(j)
    <3>1. phase[j] = "waiting" /\ phase' = [phase EXCEPT ![j] = "running"]
      BY <1>0, <2>4, <2>5, <2>8 DEF phase, TypeOK
    <3>2. \A m \in Jobs : phase[m] = "running" => m \in active
      BY <1>0 DEF phase, ActiveKnown
    <3> QED
      BY <3>1, <3>2, <2>6 DEF Promise!Start, Promise!Clash
  <2> QED
    BY <2>4, <2>7, <2>9, <2>10 DEF Promise!Next
<1>8. ASSUME PumpEnd \/ Recreate
      PROVE  LanesFiled' /\ ActiveKnown' /\ [Promise!Next]_phase
  BY <1>1, <1>8 DEF PumpEnd, Recreate
<1>9. ASSUME Cancel
      PROVE  LanesFiled' /\ ActiveKnown' /\ [Promise!Next]_phase
  <2>1. LanesFiled'
    BY <1>9, EmptySeq DEF Cancel, LanesFiled, LaneFiled
  <2>2. ActiveKnown'
    BY <1>0, <1>9 DEF Cancel, ActiveKnown, TypeOK
  <2> DEFINE S == {j \in Jobs : status[j] = "waiting"}
  <2>3. Promise!Withdraw(S)
    <3>1. \A j \in S : phase[j] = "waiting"
      BY DEF phase
    <3>2. phase' = [j \in Jobs |-> IF j \in S THEN "out" ELSE phase[j]]
      BY <1>0, <1>9 DEF Cancel, phase, TypeOK
    <3> QED
      BY <3>1, <3>2 DEF Promise!Withdraw
  <2>4. S \in SUBSET Jobs
    OBVIOUS
  <2> QED
    BY <2>1, <2>2, <2>3, <2>4 DEF Promise!Next
<1>10. ASSUME UNCHANGED vars
       PROVE  LanesFiled' /\ ActiveKnown' /\ [Promise!Next]_phase
  BY <1>1, <1>10 DEF vars
<1> QED
  BY <1>2, <1>3, <1>4, <1>5, <1>6, <1>7, <1>8, <1>9, <1>10 DEF Next

\* Whatever the queues, lanes, preemptions and resets do, callers see accesses
\* that wait, run while no running access shares a store with them, and end.
THEOREM PromiseKept == Spec => KeepsPromise
<1> QED
  BY InitKeepsPromise, StepKeepsPromise, PTL DEF Spec, KeepsPromise, Promise!Spec

-----------------------------------------------------------------------------
\* One story, no wakeup lost, and planning reads that yield.

Waiting == {j \in Jobs : status[j] = "waiting"}

\* LanesFiled says that what a lane holds waits; this is the converse.
InLane(j) == \E n \in 1..Len(Lane(j)) : Lane(j)[n] = j
WaitingFiled == \A j \in Jobs : status[j] = "waiting" => InLane(j)

\* Accesses that wait are finitely many, though there may be any number of them.
Counted == IsFiniteSet(Waiting) /\ waiting = Cardinality(Waiting)

WInv == PInv /\ WaitingFiled /\ Counted /\ UnlistedIsIdle /\ NoStall /\ PlanningYields

\* An access that leaves its lane leaves the others where they can be found.
LEMMA ExtractKeepsWaiting ==
  ASSUME TypeOK, WaitingFiled, NEW c \in Classes, NEW a \in Apps, NEW n \in 1..Len(queues[c][a]),
         NEW j, j = queues[c][a][n],
         queues' = [queues EXCEPT ![c][a] = Without(@, n)],
         NEW x, x # "waiting", status' = [status EXCEPT ![j] = x]
  PROVE  WaitingFiled'
<1> USE SchedulerConstants
<1> DEFINE q == queues[c][a]
<1>1. q \in Seq(Jobs) /\ Len(q) \in Nat /\ n \in Nat /\ j \in Jobs
  BY LenProperties, ElementOfSeq DEF TypeOK
<1>2. /\ Len(Without(q, n)) = Len(q) - 1
      /\ \A k \in 1..(Len(q) - 1) : Without(q, n)[k] = IF k < n THEN q[k] ELSE q[k + 1]
  BY <1>1, WithoutProperties, SMTT(20)
<1>3. /\ queues'[c][a] = Without(q, n)
      /\ \A d \in Classes, b \in Apps : d # c \/ b # a => queues'[d][b] = queues[d][b]
  BY DEF TypeOK
<1>4. status'[j] # "waiting" /\ \A k \in Jobs : k # j => status'[k] = status[k]
  BY <1>1 DEF TypeOK
<1>5. SUFFICES ASSUME NEW k \in Jobs, status'[k] = "waiting"
               PROVE  InLane(k)'
  BY DEF WaitingFiled
<1>6. k # j /\ status[k] = "waiting" /\ ClassOf[k] \in Classes /\ AppOf[k] \in Apps
  BY <1>4, <1>5
<1>7. PICK m \in 1..Len(queues[ClassOf[k]][AppOf[k]]) : queues[ClassOf[k]][AppOf[k]][m] = k
  BY <1>6 DEF WaitingFiled, InLane, Lane
<1>8. CASE ClassOf[k] # c \/ AppOf[k] # a
  BY <1>3, <1>6, <1>7, <1>8 DEF InLane, Lane
<1>9. CASE ClassOf[k] = c /\ AppOf[k] = a
  <2>1. m \in 1..Len(q) /\ q[m] = k /\ m # n
    BY <1>6, <1>7, <1>9
  <2> DEFINE w == Without(q, n)
  <2>2. \E p \in 1..Len(w) : w[p] = q[m]
    <3>1. CASE m < n
      <4>1. m \in 1..(Len(q) - 1) /\ w[m] = q[m]
        BY <2>1, <3>1, <1>1, <1>2
      <4> QED
        BY <4>1, <1>2
    <3>2. CASE m > n
      <4>1. m - 1 \in 1..(Len(q) - 1) /\ ~(m - 1 < n) /\ (m - 1) + 1 = m
        BY <2>1, <3>2, <1>1
      <4>2. w[m - 1] = q[m]
        BY <4>1, <1>2
      <4> QED
        BY <4>1, <4>2, <1>2
    <3> QED
      BY <2>1, <3>1, <3>2, <1>1
  <2>3. Lane(k)' = w
    BY <1>3, <1>9 DEF Lane
  <2> QED
    BY <2>1, <2>2, <2>3 DEF InLane
<1> QED
  BY <1>8, <1>9

\* An access that is submitted goes to the end of its lane.
LEMMA RunKeepsWaiting ==
  ASSUME TypeOK, WaitingFiled, NEW j \in Jobs, Run(j)
  PROVE  WaitingFiled'
<1> USE SchedulerConstants
<1> DEFINE q == queues[ClassOf[j]][AppOf[j]]
<1>1. q \in Seq(Jobs) /\ Len(q) \in Nat
  BY LenProperties DEF TypeOK
<1>2. /\ Len(Append(q, j)) = Len(q) + 1
      /\ \A k \in 1..Len(q) : Append(q, j)[k] = q[k]
      /\ Append(q, j)[Len(q) + 1] = j
  BY <1>1, AppendProperties
<1>3. /\ queues'[ClassOf[j]][AppOf[j]] = Append(q, j)
      /\ \A d \in Classes, b \in Apps : d # ClassOf[j] \/ b # AppOf[j] => queues'[d][b] = queues[d][b]
  BY DEF Run, TypeOK
<1>4. \A k \in Jobs : k # j => status'[k] = status[k]
  BY DEF Run, TypeOK
<1>5. InLane(j)'
  <2>1. Lane(j)' = Append(q, j)
    BY <1>3 DEF Lane
  <2>2. Len(q) + 1 \in 1..Len(Append(q, j))
    BY <1>1, <1>2
  <2> QED
    BY <2>1, <2>2, <1>2 DEF InLane
<1>6. ASSUME NEW k \in Jobs, k # j, status'[k] = "waiting"
      PROVE  InLane(k)'
  <2>1. PICK m \in 1..Len(queues[ClassOf[k]][AppOf[k]]) : queues[ClassOf[k]][AppOf[k]][m] = k
    BY <1>4, <1>6 DEF WaitingFiled, InLane, Lane
  <2>2. CASE ClassOf[k] # ClassOf[j] \/ AppOf[k] # AppOf[j]
    BY <1>3, <2>1, <2>2 DEF InLane, Lane
  <2>3. CASE ClassOf[k] = ClassOf[j] /\ AppOf[k] = AppOf[j]
    <3>1. Lane(k)' = Append(q, j)
      BY <1>3, <2>3 DEF Lane
    <3>2. m \in 1..Len(Append(q, j)) /\ Append(q, j)[m] = k
      BY <1>1, <1>2, <2>1, <2>3
    <3> QED
      BY <3>1, <3>2 DEF InLane
  <2> QED
    BY <2>2, <2>3
<1> QED
  BY <1>5, <1>6 DEF WaitingFiled

\* One more and one less that waits.
LEMMA OneMore ==
  ASSUME TypeOK, Counted, NEW j \in Jobs, status[j] # "waiting",
         status' = [status EXCEPT ![j] = "waiting"], waiting' = waiting + 1
  PROVE  Counted'
<1>1. Waiting' = Waiting \cup {j} /\ j \notin Waiting
  BY DEF Waiting, TypeOK
<1> QED
  BY <1>1, FS_AddElement DEF Counted

\* Taking one waiting access away and counting one less keeps the counter right.
LEMMA OneLess ==
  ASSUME TypeOK, Counted, NEW j \in Jobs, status[j] = "waiting",
         NEW x, x # "waiting", status' = [status EXCEPT ![j] = x], waiting' = waiting - 1
  PROVE  Counted'
<1>1. Waiting' = Waiting \ {j} /\ j \in Waiting
  BY DEF Waiting, TypeOK
<1> QED
  BY <1>1, FS_RemoveElement DEF Counted

\* An object with an access that waits is not idle.
LEMMA WaitingIsCounted ==
  ASSUME Counted, NEW j \in Jobs, status[j] = "waiting"
  PROVE  waiting # 0
<1>1. j \in Waiting
  BY DEF Waiting
<1>2. IsFiniteSet(Waiting) /\ waiting = Cardinality(Waiting)
  BY DEF Counted
<1> QED
  BY <1>1, <1>2, FS_EmptySet

\* When nothing is active and no intent is held, a pump that found nothing has
\* seen every lane empty.
LEMMA NothingLeft ==
  ASSUME TypeOK, WaitingFiled, Counted, \A d \in Classes : Once1(d),
         \A d \in Classes : Offers(d) = {}, active = {}, foregroundIntents = {}
  PROVE  waiting = 0
<1> USE SchedulerConstants
<1>1. SUFFICES ASSUME NEW j \in Jobs, status[j] = "waiting"
               PROVE  FALSE
  <2>1. Waiting = {}
    BY <1>1 DEF Waiting
  <2> QED
    BY <2>1, FS_EmptySet DEF Counted
<1> DEFINE c == ClassOf[j]
           o == consumers[c]
<1>2. c \in Classes /\ AppOf[j] \in Apps
  OBVIOUS
<1>3. o \in Seq(Apps) /\ Len(o) \in Nat /\ cursors[c] \in Nat
  BY <1>2, LenProperties DEF TypeOK
<1>4. queues[c][AppOf[j]] # <<>>
  <2>1. PICK n \in 1..Len(queues[c][AppOf[j]]) : queues[c][AppOf[j]][n] = j
    BY <1>1 DEF WaitingFiled, InLane, Lane
  <2> QED
    BY <2>1, EmptySeq
<1>5. Once1(c)
  BY <1>2
<1>6. \E n \in 1..Len(o) : o[n] = AppOf[j]
  BY <1>2, <1>4, <1>5 DEF Once1
<1>7. Len(o) \in Nat \ {0}
  BY <1>3, <1>6
<1>8. \A k \in Jobs : Runnable(k)
  BY DEF Runnable, Occupied, IntentScope
<1> HIDE DEF c
<1>9. LaneAt(c, 0) \in 1..Len(o)
  <2>1. \A x \in Nat, y \in Nat \ {0} : x % y \in 0..(y - 1)
    OBVIOUS
  <2>2. cursors[c] % Len(o) \in 0..(Len(o) - 1)
    BY <2>1, <1>3, <1>7
  <2>3. LaneAt(c, 0) = (cursors[c] % Len(o)) + 1
    BY <1>3 DEF LaneAt
  <2> QED
    BY <2>2, <2>3, <1>7
<1>10. HeadAt(c, 0) \in Jobs
  <2> DEFINE a == o[LaneAt(c, 0)]
  <2>1. a \in Apps
    BY <1>3, <1>9, ElementOfSeq
  <2>2. queues[c][a] \in Seq(Jobs) /\ queues[c][a] # <<>>
    BY <1>2, <1>5, <1>9, <2>1 DEF Once1, TypeOK
  <2>3. Head(queues[c][a]) \in Jobs
    BY <2>2, HeadTailProperties
  <2> QED
    BY <2>3 DEF HeadAt
<1>11. 0 \in Offers(c)
  BY <1>7, <1>8, <1>10 DEF Offers
<1> QED
  BY <1>2, <1>11

\* A fresh scheduler.
LEMMA InitEstablishesWInv == Init => WInv
<1> SUFFICES ASSUME Init PROVE WInv
  OBVIOUS
<1>1. PInv
  BY InitKeepsPromise
<1>2. Waiting = {}
  BY DEF Init, Waiting
<1>3. WaitingFiled
  BY DEF Init, WaitingFiled
<1>4. Counted
  BY <1>2, FS_EmptySet DEF Init, Counted
<1>5. UnlistedIsIdle /\ NoStall /\ PlanningYields
  BY DEF Init, UnlistedIsIdle, NoStall, PlanningYields
<1> QED
  BY <1>1, <1>3, <1>4, <1>5 DEF WInv

Story == WaitingFiled /\ Counted /\ UnlistedIsIdle /\ NoStall /\ PlanningYields

\* Every call and callback keeps the story.
LEMMA StepKeepsWInv == WInv /\ [Next]_vars => WInv'
<1> SUFFICES ASSUME WInv, [Next]_vars
             PROVE  Story'
  BY StepKeepsPromise DEF WInv, Story
<1>0. /\ TypeOK /\ LanesFiled /\ ActiveKnown /\ \A d \in Classes : Once1(d)
      /\ WaitingFiled /\ Counted /\ UnlistedIsIdle /\ NoStall /\ PlanningYields
  BY LanesListedRestated DEF WInv, PInv, IInv, AllOnce1
<1> USE SchedulerConstants
\* Calls that touch neither the lanes nor who waits.
<1>1. ASSUME queues' = queues, waiting' = waiting,
             \A j \in Jobs : status'[j] = "waiting" <=> status[j] = "waiting"
      PROVE  WaitingFiled' /\ Counted'
  <2>1. WaitingFiled'
    BY <1>0, <1>1 DEF WaitingFiled, InLane, Lane
  <2>2. Waiting' = Waiting
    BY <1>1 DEF Waiting
  <2> QED
    BY <1>0, <1>1, <2>1, <2>2 DEF Counted
<1>2. ASSUME NEW j \in Jobs, Run(j)
      PROVE  Story'
  <2>1. WaitingFiled'
    BY <1>0, <1>2, RunKeepsWaiting
  <2>2. Counted'
    BY <1>0, <1>2, OneMore DEF Run
  <2>3. UnlistedIsIdle' /\ NoStall' /\ PlanningYields'
    BY <1>0, <1>2 DEF Run, UnlistedIsIdle, NoStall, PlanningYields
  <2> QED
    BY <2>1, <2>2, <2>3 DEF Story
<1>3. ASSUME NEW j \in Jobs, Complete(j)
      PROVE  Story'
  <2>1. status[j] # "waiting" /\ status'[j] # "waiting" /\ \A k \in Jobs : k # j => status'[k] = status[k]
    BY <1>0, <1>3 DEF Complete, ActiveKnown, TypeOK
  <2>2. WaitingFiled' /\ Counted'
    BY <1>1, <1>3, <2>1 DEF Complete
  <2>3. UnlistedIsIdle' /\ NoStall'
    BY <1>0, <1>3 DEF Complete, UnlistedIsIdle, IsIdle, NoStall
  <2>4. PlanningYields'
    BY <1>0, <1>3 DEF Complete, PlanningYields
  <2> QED
    BY <2>2, <2>3, <2>4 DEF Story
<1>4. ASSUME NEW j \in Jobs, Abort(j)
      PROVE  Story'
  <2> DEFINE c == ClassOf[j]
             a == AppOf[j]
  <2>1. c \in Classes /\ a \in Apps
    OBVIOUS
  <2>2. PICK n \in DOMAIN Lane(j) :
           /\ Lane(j)[n] = j /\ queues' = [queues EXCEPT ![c][a] = Without(@, n)]
           /\ waiting' = waiting - 1
    BY <1>4 DEF Abort, Extract
  <2>3. n \in 1..Len(queues[c][a]) /\ queues[c][a][n] = j
    <3>1. queues[c][a] \in Seq(Jobs)
      BY <1>0, <2>1 DEF TypeOK
    <3> QED
      BY <3>1, <2>2, LenProperties DEF Lane
  <2>4. /\ status[j] = "waiting" /\ status' = [status EXCEPT ![j] = "rejected"]
        /\ active' = active /\ foregroundIntents' = foregroundIntents /\ preempted' = preempted
        /\ pumping' = pumping /\ ~pumping /\ listed' = listed
    BY <1>4 DEF Abort
  <2> HIDE DEF c, a
  <2>5. WaitingFiled'
    <3>1. TypeOK /\ WaitingFiled
      BY <1>0
    <3>2. queues' = [queues EXCEPT ![c][a] = Without(@, n)]
      BY <2>2
    <3>3. status' = [status EXCEPT ![j] = "rejected"] /\ "rejected" # "waiting"
      BY <2>4
    <3> QED
      BY <3>1, <3>2, <3>3, <2>1, <2>3, ExtractKeepsWaiting
  <2>6. Counted'
    BY <1>0, <2>2, <2>4, OneLess
  <2>7. waiting # 0 /\ waiting \in Int
    BY <1>0, <2>4, WaitingIsCounted DEF TypeOK
  <2>8. listed
    BY <1>0, <2>7 DEF UnlistedIsIdle, IsIdle
  <2>9. UnlistedIsIdle' /\ NoStall' /\ PlanningYields'
    BY <1>0, <2>2, <2>4, <2>7, <2>8 DEF UnlistedIsIdle, NoStall, PlanningYields
  <2> QED
    BY <2>5, <2>6, <2>9 DEF Story
<1>5. ASSUME NEW j \in Jobs, AbortRetry(j) \/ SettleRejected(j)
      PROVE  Story'
  <2>1. /\ queues' = queues /\ waiting' = waiting
        /\ active' = active /\ foregroundIntents' = foregroundIntents /\ preempted' = preempted
        /\ pumping' = pumping /\ (listed' = listed \/ listed' = (listed /\ ~IsIdle))
        /\ status[j] \in {"retrying", "rejected"} /\ status' = [status EXCEPT ![j] = "idle"]
    BY <1>5 DEF AbortRetry, SettleRejected
  <2>2. WaitingFiled' /\ Counted'
    BY <1>0, <1>1, <2>1 DEF TypeOK
  <2>3. UnlistedIsIdle'
    <3>1. IsIdle' <=> IsIdle
      BY <2>1 DEF IsIdle
    <3>2. CASE listed' = listed
      BY <1>0, <3>1, <3>2 DEF UnlistedIsIdle
    <3>3. CASE listed' = (listed /\ ~IsIdle)
      BY <1>0, <3>1, <3>3 DEF UnlistedIsIdle
    <3> QED
      BY <2>1, <3>2, <3>3
  <2>4. NoStall' /\ PlanningYields'
    BY <1>0, <2>1 DEF NoStall, PlanningYields
  <2> QED
    BY <2>2, <2>3, <2>4 DEF Story
<1>6. ASSUME NEW i \in Intents, BeginIntent(i)
      PROVE  Story'
  <2>1. WaitingFiled' /\ Counted'
    BY <1>1, <1>6 DEF BeginIntent
  <2>2. UnlistedIsIdle' /\ NoStall'
    BY <1>6 DEF BeginIntent, UnlistedIsIdle, NoStall
  <2>3. PlanningYields'
    BY <1>0, <1>6 DEF BeginIntent, PlanningYields, Preempt
  <2> QED
    BY <2>1, <2>2, <2>3 DEF Story
<1>7. ASSUME NEW i \in Intents, ReleaseIntent(i)
      PROVE  Story'
  <2>1. WaitingFiled' /\ Counted'
    BY <1>1, <1>7 DEF ReleaseIntent
  <2>2. UnlistedIsIdle'
    BY <1>0, <1>7 DEF ReleaseIntent, UnlistedIsIdle, IsIdle
  <2>3. NoStall'
    <3>1. CASE i \in foregroundIntents
      BY <1>7, <3>1 DEF ReleaseIntent, NoStall
    <3>2. CASE i \notin foregroundIntents
      <4>1. foregroundIntents' = foregroundIntents
        BY <1>7, <3>2 DEF ReleaseIntent
      <4> QED
        BY <1>0, <1>7, <4>1 DEF ReleaseIntent, NoStall
    <3> QED
      BY <3>1, <3>2
  <2>4. PlanningYields'
    BY <1>0, <1>7 DEF ReleaseIntent, PlanningYields
  <2> QED
    BY <2>1, <2>2, <2>3, <2>4 DEF Story
<1>8. ASSUME PumpStep
      PROVE  Story'
  <2>1. PICK c \in Classes : \E k \in Offers(c) : Serve(c, k)
    BY <1>8 DEF PumpStep
  <2>2. PICK k \in Offers(c) : Serve(c, k)
    BY <2>1
  <2> DEFINE i == LaneAt(c, k)
             a == consumers[c][i]
             j == HeadAt(c, k)
  <2>3. /\ a \in Apps /\ queues[c][a] \in Seq(Jobs) /\ queues[c][a] # <<>>
    <3>1. consumers[c] \in Seq(Apps) /\ cursors[c] \in Nat /\ k \in 0..(Len(consumers[c]) - 1)
      BY <1>0, <2>2 DEF Offers, TypeOK
    <3> DEFINE l == Len(consumers[c])
               x == cursors[c] + k
    <3>2. l \in Nat \ {0} /\ x \in Nat
      BY <3>1, LenProperties
    <3>3. i = (x % l) + 1
      BY DEF LaneAt
    <3>4. \A y \in Nat, z \in Nat \ {0} : y % z \in 0..(z - 1)
      OBVIOUS
    <3> HIDE DEF i, x, l
    <3>5. i \in 1..l
      BY <3>2, <3>3, <3>4
    <3>6. i \in 1..Len(consumers[c])
      BY <3>5 DEF l
    <3>7. a \in Apps
      BY <3>1, <3>6, ElementOfSeq
    <3> QED
      BY <1>0, <3>6, <3>7 DEF Once1, TypeOK
  <2>4. 1 \in 1..Len(queues[c][a]) /\ j = queues[c][a][1] /\ j \in Jobs
    BY <2>3, HeadTailProperties, EmptySeq, LenProperties DEF HeadAt
  <2>5. /\ queues' = [queues EXCEPT ![c][a] = Without(@, 1)]
        /\ active' = active \cup {j}
        /\ status' = [status EXCEPT ![j] = "active"]
        /\ waiting' = waiting - 1
    BY <2>2 DEF Serve, Extract
  <2>6. Runnable(j)
    BY <2>2 DEF Offers
  <2>7. /\ pumping /\ pumping' = pumping /\ listed' = listed
        /\ foregroundIntents' = foregroundIntents /\ preempted' = preempted
    BY <1>8 DEF PumpStep
  <2> HIDE DEF i, a, j
  <2>8. status[j] = "waiting"
    <3>1. LaneFiled(c, a)
      BY <1>0, <2>3 DEF LanesFiled
    <3> QED
      BY <2>4, <3>1 DEF LaneFiled
  <2>9. WaitingFiled'
    <3>1. TypeOK /\ WaitingFiled
      BY <1>0
    <3>2. /\ queues' = [queues EXCEPT ![c][a] = Without(@, 1)]
          /\ status' = [status EXCEPT ![j] = "active"] /\ "active" # "waiting"
      BY <2>5
    <3> QED
      BY <3>1, <3>2, <2>3, <2>4, ExtractKeepsWaiting
  <2>10. Counted'
    BY <1>0, <2>4, <2>5, <2>8, OneLess
  <2>11. listed
    BY <1>0, <2>4, <2>8, WaitingIsCounted DEF UnlistedIsIdle, IsIdle
  <2>12. UnlistedIsIdle' /\ NoStall'
    BY <2>7, <2>11 DEF UnlistedIsIdle, NoStall
  <2>13. PlanningYields'
    <3>1. j \in Preemptible => \A m \in foregroundIntents : StoresOf[j] \cap IntentStores[m] = {}
      BY <2>6 DEF Runnable, IntentScope
    <3> QED
      BY <1>0, <2>5, <2>7, <3>1 DEF PlanningYields
  <2> QED
    BY <2>9, <2>10, <2>12, <2>13 DEF Story
<1>9. ASSUME PumpEnd
      PROVE  Story'
  <2>1. WaitingFiled' /\ Counted'
    BY <1>1, <1>9 DEF PumpEnd
  <2>2. UnlistedIsIdle' /\ PlanningYields'
    BY <1>0, <1>9 DEF PumpEnd, UnlistedIsIdle, IsIdle, PlanningYields
  <2>3. NoStall'
    <3>1. ASSUME active = {}, foregroundIntents = {}
          PROVE  waiting = 0
      BY <1>0, <1>9, <3>1, NothingLeft DEF PumpEnd
    <3> QED
      BY <1>9, <3>1 DEF PumpEnd, NoStall
  <2> QED
    BY <2>1, <2>2, <2>3 DEF Story
<1>10. ASSUME Cancel
       PROVE  Story'
  <2>1. \A j \in Jobs : status'[j] # "waiting"
    BY <1>0, <1>10 DEF Cancel, TypeOK
  <2>2. Waiting' = {}
    BY <2>1 DEF Waiting
  <2>3. WaitingFiled' /\ Counted'
    BY <1>10, <2>1, <2>2, FS_EmptySet DEF Cancel, WaitingFiled, Counted
  <2>4. /\ active' = active /\ foregroundIntents' = {} /\ waiting' = 0
        /\ listed' = (active # {})
    BY <1>10 DEF Cancel
  <2>5. UnlistedIsIdle'
    BY <2>4 DEF UnlistedIsIdle, IsIdle
  <2>6. NoStall' /\ PlanningYields'
    BY <2>4 DEF NoStall, PlanningYields
  <2> QED
    BY <2>3, <2>5, <2>6 DEF Story
<1>11. ASSUME Recreate
       PROVE  Story'
  <2>1. WaitingFiled' /\ Counted'
    BY <1>1, <1>11 DEF Recreate
  <2>2. UnlistedIsIdle' /\ NoStall' /\ PlanningYields'
    BY <1>0, <1>11 DEF Recreate, UnlistedIsIdle, NoStall, PlanningYields
  <2> QED
    BY <2>1, <2>2 DEF Story
<1>12. ASSUME UNCHANGED vars
       PROVE  Story'
  <2>1. WaitingFiled' /\ Counted'
    BY <1>1, <1>12 DEF vars
  <2>2. UnlistedIsIdle' /\ NoStall' /\ PlanningYields'
    BY <1>0, <1>12 DEF vars, UnlistedIsIdle, IsIdle, NoStall, PlanningYields
  <2> QED
    BY <2>1, <2>2 DEF Story
<1> QED
  BY <1>2, <1>3, <1>4, <1>5, <1>6, <1>7, <1>8, <1>9, <1>10, <1>11, <1>12 DEF Next

\* The strengthened invariant holds in every reachable state.
THEOREM StoryInvariant == Spec => []WInv
<1> QED
  BY InitEstablishesWInv, StepKeepsWInv, PTL DEF Spec

\* Counting positions: an access that waits is in one place of one lane.
LEMMA FiledIsHeldOnce == TypeOK /\ LanesFiled /\ WaitingFiled => LanesHoldTheWaiting
<1> USE SchedulerConstants
<1> SUFFICES ASSUME TypeOK, LanesFiled, WaitingFiled,
                    NEW j \in Jobs, NEW c \in Classes, NEW a \in Apps
             PROVE  Cardinality({n \in DOMAIN queues[c][a] : queues[c][a][n] = j})
                      = IF status[j] = "waiting" /\ c = ClassOf[j] /\ a = AppOf[j] THEN 1 ELSE 0
  BY DEF LanesHoldTheWaiting
<1> DEFINE q == queues[c][a]
           P == {n \in DOMAIN q : q[n] = j}
<1>1. DOMAIN q = 1..Len(q) /\ LaneFiled(c, a)
  <2>1. q \in Seq(Jobs)
    BY DEF TypeOK
  <2> QED
    BY <2>1, LenProperties DEF LanesFiled
<1>2. CASE status[j] = "waiting" /\ c = ClassOf[j] /\ a = AppOf[j]
  <2>1. PICK n \in 1..Len(q) : q[n] = j
    BY <1>2 DEF WaitingFiled, InLane, Lane
  <2>2. P = {n}
    BY <1>1, <2>1 DEF LaneFiled
  <2> QED
    BY <1>2, <2>2, FS_Singleton
<1>3. CASE ~(status[j] = "waiting" /\ c = ClassOf[j] /\ a = AppOf[j])
  <2>1. P = {}
    BY <1>1, <1>3 DEF LaneFiled
  <2> QED
    BY <1>3, <2>1, FS_EmptySet
<1> QED
  BY <1>2, <1>3

\* Taking a job out of a lane leaves the cursor of its class in the order.
LEMMA ExtractKeepsCursors ==
  ASSUME TypeOK, CursorsInOrder,
         NEW c \in Classes, NEW a \in Apps, NEW i \in 1..Len(consumers[c]), NEW n,
         NEW advance \in 0..Len(consumers[c]), Extract(c, a, i, n, advance)
  PROVE  CursorsInOrder'
<1> DEFINE o == consumers[c]
           cur == cursors[c]
<1>1. o \in Seq(Apps) /\ Len(o) \in Nat /\ i \in 1..Len(o) /\ cur \in 0..Len(o) /\ advance \in 0..Len(o)
  BY LenProperties DEF TypeOK, CursorsInOrder
<1>2. consumers \in [Classes -> Seq(Apps)] /\ cursors \in [Classes -> Nat]
  BY DEF TypeOK
<1>3. Len(Without(o, i)) = Len(o) - 1
  BY <1>1, WithoutProperties
<1> HIDE DEF o, cur
<1>4. CASE Len(queues[c][a]) = 1
  <2>1. /\ consumers' = [consumers EXCEPT ![c] = Without(o, i)]
        /\ cursors' = IF i - 1 < cur THEN [cursors EXCEPT ![c] = cur - 1] ELSE cursors
    BY <1>4 DEF Extract, DropLane, o, cur
  <2>2. Len(consumers'[c]) = Len(o) - 1 /\ cursors'[c] = IF i - 1 < cur THEN cur - 1 ELSE cur
    BY <1>2, <1>3, <2>1 DEF cur
  <2>3. cursors'[c] \in 0..Len(consumers'[c])
    BY <1>1, <2>2
  <2>4. \A d \in Classes \ {c} : consumers'[d] = consumers[d] /\ cursors'[d] = cursors[d]
    BY <1>2, <2>1
  <2> QED
    BY <2>3, <2>4 DEF CursorsInOrder
<1>5. CASE Len(queues[c][a]) # 1
  <2>1. consumers' = consumers /\ cursors' = [cursors EXCEPT ![c] = advance]
    BY <1>5 DEF Extract
  <2> QED
    BY <1>1, <1>2, <2>1 DEF CursorsInOrder, o
<1> QED
  BY <1>4, <1>5

\* Lanes come at the end of an order and go from anywhere in it; the cursor
\* stays in the order.
LEMMA StepKeepsCursors == TypeOK /\ CursorsInOrder /\ [Next]_vars => CursorsInOrder'
<1> SUFFICES ASSUME TypeOK, CursorsInOrder, [Next]_vars PROVE CursorsInOrder'
  OBVIOUS
<1>1. \A d \in Classes : consumers[d] \in Seq(Apps) /\ Len(consumers[d]) \in Nat /\ cursors[d] \in 0..Len(consumers[d])
  BY LenProperties DEF TypeOK, CursorsInOrder
<1>2. CASE UNCHANGED <<consumers, cursors>>
  BY <1>2 DEF CursorsInOrder
<1>3. ASSUME NEW j \in Jobs, Run(j) PROVE CursorsInOrder'
  <2> DEFINE c == ClassOf[j]
             a == AppOf[j]
  <2>1. c \in Classes /\ a \in Apps
    BY SchedulerConstants
  <2>2. cursors' = cursors /\ consumers' \in {consumers, [consumers EXCEPT ![c] = Append(consumers[c], a)]}
    BY <1>3 DEF Run, PushLane
  <2> HIDE DEF c, a
  <2>3. Len(Append(consumers[c], a)) = Len(consumers[c]) + 1
    BY <1>1, <2>1, AppendProperties
  <2>4. \A d \in Classes : Len(consumers'[d]) \in {Len(consumers[d]), Len(consumers[d]) + 1}
    BY <2>1, <2>2, <2>3 DEF TypeOK
  <2> QED
    BY <1>1, <2>2, <2>4 DEF CursorsInOrder
<1>4. ASSUME NEW j \in Jobs, Abort(j) PROVE CursorsInOrder'
  <2> DEFINE c == ClassOf[j]
             a == AppOf[j]
  <2>1. c \in Classes /\ a \in Apps
    BY SchedulerConstants
  <2>2. PICK i \in DOMAIN consumers[c], n \in DOMAIN Lane(j) : Extract(c, a, i, n, cursors[c])
    BY <1>4 DEF Abort
  <2> HIDE DEF c, a
  <2>3. i \in 1..Len(consumers[c]) /\ cursors[c] \in 0..Len(consumers[c])
    BY <1>1, <2>1, LenProperties
  <2> QED
    BY <2>1, <2>2, <2>3, ExtractKeepsCursors
<1>5. CASE PumpStep
  <2>1. PICK c \in Classes : \E k \in Offers(c) : Serve(c, k)
    BY <1>5 DEF PumpStep
  <2>2. PICK k \in Offers(c) : Serve(c, k)
    BY <2>1
  <2> DEFINE l == Len(consumers[c])
             x == cursors[c] + k
             i == LaneAt(c, k)
             a == consumers[c][i]
  <2>3. k \in 0..(l - 1) /\ l \in Nat
    BY <1>1, <2>2 DEF Offers
  <2>4. x \in Nat /\ l \in Nat \ {0}
    BY <1>1, <2>3
  <2>5. i = (x % l) + 1 /\ Extract(c, a, i, 1, i % l)
    BY <2>2 DEF LaneAt, Serve
  <2>6. \A y \in Nat, z \in Nat \ {0} : y % z \in 0..(z - 1)
    OBVIOUS
  <2> HIDE DEF i, x, l
  <2>7. i \in 1..l
    BY <2>4, <2>5, <2>6
  <2>8. i % l \in 0..(l - 1)
    BY <2>4, <2>6, <2>7
  <2>9. i % l \in 0..l
    BY <2>4, <2>8
  <2>10. a \in Apps
    BY <1>1, <2>7, ElementOfSeq DEF l
  <2> HIDE DEF a
  <2> QED
    BY <2>5, <2>7, <2>9, <2>10, ExtractKeepsCursors DEF l
<1>6. CASE Cancel
  BY <1>6, EmptySeq DEF Cancel, CursorsInOrder
<1>7. CASE Recreate
  BY <1>1, <1>7 DEF Recreate, CursorsInOrder
<1> QED
  BY <1>2, <1>3, <1>4, <1>5, <1>6, <1>7
     DEF Next, vars, Complete, AbortRetry, SettleRejected, BeginIntent, ReleaseIntent, PumpEnd

\* No cursor ever leaves the order it points into.
LEMMA CursorsHold == Spec => []CursorsInOrder
<1>1. Init => CursorsInOrder
  BY EmptySeq DEF Init, CursorsInOrder
<1>2. WInv => TypeOK
  BY DEF WInv, PInv, IInv
<1> QED
  BY <1>1, <1>2, StepKeepsCursors, StoryInvariant, PTL DEF Spec

\* Callers, lanes, their order, the cursors, the counter and the registry entry
\* tell one story after every call, abort, reset and round of the pump.
THEOREM OneStory == Spec => []QueuesAgree
<1>1. WInv /\ CursorsInOrder => QueuesAgree
  <2> SUFFICES ASSUME WInv, CursorsInOrder PROVE QueuesAgree
    OBVIOUS
  <2>1. LanesHoldTheWaiting /\ LanesListedOnce
    BY FiledIsHeldOnce DEF WInv, PInv, IInv
  <2>2. WaitingCounted /\ UnlistedIsIdle
    BY DEF WInv, Counted, WaitingCounted, Waiting
  <2> QED
    BY <2>1, <2>2 DEF QueuesAgree
<1> QED
  BY <1>1, CursorsHold, StoryInvariant, PTL

\* An access never waits with nothing left to wake it.
THEOREM NothingAsleep == Spec => []NoStall
<1>1. WInv => NoStall
  BY DEF WInv
<1> QED
  BY <1>1, StoryInvariant, PTL

\* No planning read that was not told to stop holds a store of a foreground intent.
THEOREM Yielding == Spec => []PlanningYields
<1>1. WInv => PlanningYields
  BY DEF WInv
<1> QED
  BY <1>1, StoryInvariant, PTL

-----------------------------------------------------------------------------
(***************************************************************************)
(* The chunk cache.  Its stores are functions, and its transactions are    *)
(* functions of them: each lemma is about one transaction, for stores that *)
(* agree before it.                                                        *)
(***************************************************************************)
\* How many copies there are: in all, of a content, of a content under an
\* owner's root, and under an owner's root.
HeldPairs(C) == {p \in Owners \X Chunks : C[p[1]][p[2]] # 0}
HeldOf(C, h) == {p \in Owners \X Chunks : HashOf[p[2]] = h /\ C[p[1]][p[2]] # 0}
HeldUnder(C, o, r, h) == {p \in HeldOf(C, h) : p[1] = o /\ RootOf[p[2]] = r}
HeldIn(C, o, r) == {c \in ChunksOf(r) : C[o][c] # 0}
AllCopies(C) == Cardinality(HeldPairs(C))
CopiesOf(C, h) == Cardinality(HeldOf(C, h))
CopiesUnder(C, o, r, h) == Cardinality(HeldUnder(C, o, r, h))
ChunksHeld(C, o, r) == Cardinality(HeldIn(C, o, r))

CopyTables == [Owners -> [Chunks -> Nat]]
PayloadTables == [Hashes -> Payloads \cup {NoPayload}]
LinkTables == [Owners -> [Roots -> [Hashes -> Nat]]]
RootTables == [Owners -> [Roots -> RootRecords \cup {NoRoot}]]

\* A payload counts n copies; an owner's root counts n chunks, and is in use
\* when its count of references says so.
Backed(p, n) == IF p = NoPayload THEN n = 0 ELSE p.copies = n
RootFits(x, n) == IF x = NoRoot THEN n = 0 ELSE (x.referenced <=> x.count > 0) /\ x.chunks = n

\* The stores agree with the copies, of which a total of n is counted.
StoresAgree(P, C, A, R, n) ==
  /\ P \in PayloadTables /\ C \in CopyTables /\ A \in LinkTables /\ R \in RootTables
  /\ n = AllCopies(C)
  /\ \A h \in Hashes : Backed(P[h], CopiesOf(C, h))
  /\ \A o \in Owners, r \in Roots, h \in Hashes : A[o][r][h] = CopiesUnder(C, o, r, h)
  /\ \A o \in Owners, r \in Roots : RootFits(R[o][r], ChunksHeld(C, o, r))

\* The counters of bytes follow from the payloads.
Weighed(P, t) ==
  /\ t.bytes = Sum(BytesOf(P), Hashes)
  /\ t.unreferenced = Sum(ContributionOf(P), Hashes)

TotalRecords == [bytes : Nat, unreferenced : Nat, copies : Nat]
StoresOK(P, C, A, R, t) == t \in TotalRecords /\ Weighed(P, t) /\ StoresAgree(P, C, A, R, t.copies)
CacheRecords ==
  [payload : PayloadTables, copy : CopyTables, assoc : LinkTables, root : RootTables, totals : TotalRecords]
CacheOK(d) == d \in CacheRecords /\ StoresOK(d.payload, d.copy, d.assoc, d.root, d.totals)

\* One less, down to zero.
LEMMA LessIs ==
  ASSUME NEW n \in Nat
  PROVE  Less(n) \in Nat /\ Less(n) = IF n = 0 THEN 0 ELSE n - 1
<1>1. n - 1 \in Int /\ 0 \in Int
  OBVIOUS
<1>2. Max({0, n - 1}) = IF 0 >= n - 1 THEN 0 ELSE n - 1
  BY <1>1, MaxOfTwo
<1> QED
  BY <1>2 DEF Less

\* What is counted is finite.
LEMMA HeldFinite ==
  ASSUME NEW C, NEW o, NEW r, NEW h
  PROVE  /\ IsFiniteSet(HeldPairs(C)) /\ IsFiniteSet(HeldOf(C, h))
         /\ IsFiniteSet(HeldUnder(C, o, r, h)) /\ IsFiniteSet(HeldIn(C, o, r))
         /\ AllCopies(C) \in Nat /\ CopiesOf(C, h) \in Nat
         /\ CopiesUnder(C, o, r, h) \in Nat /\ ChunksHeld(C, o, r) \in Nat
<1>1. IsFiniteSet(Owners \X Chunks) /\ IsFiniteSet(Chunks)
  BY ChunkConstants, FS_Product
<1>2. /\ HeldPairs(C) \subseteq Owners \X Chunks /\ HeldOf(C, h) \subseteq Owners \X Chunks
      /\ HeldUnder(C, o, r, h) \subseteq Owners \X Chunks /\ HeldIn(C, o, r) \subseteq Chunks
  BY DEF HeldPairs, HeldOf, HeldUnder, HeldIn, ChunksOf
<1>3. /\ IsFiniteSet(HeldPairs(C)) /\ IsFiniteSet(HeldOf(C, h))
      /\ IsFiniteSet(HeldUnder(C, o, r, h)) /\ IsFiniteSet(HeldIn(C, o, r))
  BY <1>1, <1>2, FS_Subset
<1> QED
  BY <1>3, FS_CardinalityType DEF AllCopies, CopiesOf, CopiesUnder, ChunksHeld

\* The counts depend on which copies there are, not on their events.
LEMMA SameHeld ==
  ASSUME NEW C, NEW D, \A o \in Owners, c \in Chunks : D[o][c] # 0 <=> C[o][c] # 0
  PROVE  /\ AllCopies(D) = AllCopies(C)
         /\ \A h \in Hashes : CopiesOf(D, h) = CopiesOf(C, h)
         /\ \A o \in Owners, r \in Roots, h \in Hashes : CopiesUnder(D, o, r, h) = CopiesUnder(C, o, r, h)
         /\ \A o \in Owners, r \in Roots : ChunksHeld(D, o, r) = ChunksHeld(C, o, r)
<1>1. HeldPairs(D) = HeldPairs(C)
  BY DEF HeldPairs
<1>2. ASSUME NEW h \in Hashes PROVE HeldOf(D, h) = HeldOf(C, h)
  BY DEF HeldOf
<1>3. ASSUME NEW o \in Owners, NEW r \in Roots, NEW h \in Hashes PROVE HeldUnder(D, o, r, h) = HeldUnder(C, o, r, h)
  BY <1>2 DEF HeldUnder
<1>4. ASSUME NEW o \in Owners, NEW r \in Roots PROVE HeldIn(D, o, r) = HeldIn(C, o, r)
  BY DEF HeldIn, ChunksOf
<1> QED
  BY <1>1, <1>2, <1>3, <1>4 DEF AllCopies, CopiesOf, CopiesUnder, ChunksHeld

\* In D there are k copies more than in C, of chunk c of owner o.
MoreBy(C, D, o, c, k) ==
  /\ AllCopies(D) = AllCopies(C) + k
  /\ \A h \in Hashes : CopiesOf(D, h) = CopiesOf(C, h) + IF h = HashOf[c] THEN k ELSE 0
  /\ \A p \in Owners, r \in Roots, h \in Hashes :
       CopiesUnder(D, p, r, h) = CopiesUnder(C, p, r, h) + IF p = o /\ r = RootOf[c] /\ h = HashOf[c] THEN k ELSE 0
  /\ \A p \in Owners, r \in Roots :
       ChunksHeld(D, p, r) = ChunksHeld(C, p, r) + IF p = o /\ r = RootOf[c] THEN k ELSE 0
SameElsewhere(C, D, o, c) == \A p \in Owners, x \in Chunks : p # o \/ x # c => D[p][x] = C[p][x]

\* One copy more, of chunk c of owner o.
LEMMA OneCopyMore ==
  ASSUME NEW C, NEW D, NEW o \in Owners, NEW c \in Chunks, C[o][c] = 0, D[o][c] # 0, SameElsewhere(C, D, o, c)
  PROVE  MoreBy(C, D, o, c, 1)
<1> DEFINE e == <<o, c>>
<1>10. \A p \in Owners, x \in Chunks : p # o \/ x # c => D[p][x] = C[p][x]
  BY DEF SameElsewhere
<1>0. \A p \in Owners \X Chunks : p # e => D[p[1]][p[2]] = C[p[1]][p[2]]
  BY <1>10
<1>1. HeldPairs(D) = HeldPairs(C) \cup {e} /\ e \notin HeldPairs(C)
  BY <1>0 DEF HeldPairs
<1>2. ASSUME NEW h \in Hashes
      PROVE  /\ e \notin HeldOf(C, h)
             /\ HeldOf(D, h) = IF h = HashOf[c] THEN HeldOf(C, h) \cup {e} ELSE HeldOf(C, h)
  <2>1. CASE h = HashOf[c]
    BY <1>0, <2>1 DEF HeldOf
  <2>2. CASE h # HashOf[c]
    BY <1>0, <2>2 DEF HeldOf
  <2> QED BY <2>1, <2>2
<1>3. ASSUME NEW p \in Owners, NEW r \in Roots, NEW h \in Hashes
      PROVE  /\ e \notin HeldUnder(C, p, r, h)
             /\ HeldUnder(D, p, r, h) = IF p = o /\ r = RootOf[c] /\ h = HashOf[c]
                                        THEN HeldUnder(C, p, r, h) \cup {e} ELSE HeldUnder(C, p, r, h)
  BY <1>2 DEF HeldUnder
<1>4. ASSUME NEW p \in Owners, NEW r \in Roots
      PROVE  IF p = o /\ r = RootOf[c]
             THEN c \notin HeldIn(C, p, r) /\ HeldIn(D, p, r) = HeldIn(C, p, r) \cup {c}
             ELSE HeldIn(D, p, r) = HeldIn(C, p, r)
  <2>1. CASE p = o /\ r = RootOf[c]
    BY <1>10, <2>1 DEF HeldIn, ChunksOf
  <2>2. CASE ~(p = o /\ r = RootOf[c])
    BY <1>10, <2>2 DEF HeldIn, ChunksOf
  <2> QED BY <2>1, <2>2
<1>5. \A S, x : IsFiniteSet(S) /\ x \notin S => Cardinality(S \cup {x}) = Cardinality(S) + 1
  BY FS_AddElement
<1> HIDE DEF e
<1>6. AllCopies(D) = AllCopies(C) + 1
  BY <1>1, <1>5, HeldFinite DEF AllCopies
<1>7. ASSUME NEW h \in Hashes PROVE CopiesOf(D, h) = CopiesOf(C, h) + IF h = HashOf[c] THEN 1 ELSE 0
  <2>1. CopiesOf(C, h) \in Nat /\ IsFiniteSet(HeldOf(C, h)) BY HeldFinite
  <2> QED BY <2>1, <1>2, <1>5 DEF CopiesOf
<1>8. ASSUME NEW p \in Owners, NEW r \in Roots, NEW h \in Hashes
      PROVE CopiesUnder(D, p, r, h) =
              CopiesUnder(C, p, r, h) + IF p = o /\ r = RootOf[c] /\ h = HashOf[c] THEN 1 ELSE 0
  <2>1. CopiesUnder(C, p, r, h) \in Nat /\ IsFiniteSet(HeldUnder(C, p, r, h)) BY HeldFinite
  <2> QED BY <2>1, <1>3, <1>5 DEF CopiesUnder
<1>9. ASSUME NEW p \in Owners, NEW r \in Roots
      PROVE ChunksHeld(D, p, r) = ChunksHeld(C, p, r) + IF p = o /\ r = RootOf[c] THEN 1 ELSE 0
  <2>1. ChunksHeld(C, p, r) \in Nat /\ IsFiniteSet(HeldIn(C, p, r)) BY HeldFinite
  <2> QED BY <2>1, <1>4, <1>5 DEF ChunksHeld
<1> QED
  BY <1>6, <1>7, <1>8, <1>9 DEF MoreBy

\* A difference over the payloads touched is the difference over all of them.
LEMMA MovedIs ==
  ASSUME NEW f, NEW g, \A h \in Hashes : f[h] \in Nat /\ g[h] \in Nat,
         NEW touched \in SUBSET Hashes, \A h \in Hashes \ touched : g[h] = f[h]
  PROVE  Moved(Sum(f, Hashes), f, g, touched) = Sum(g, Hashes) /\ Sum(g, Hashes) \in Nat
<1> DEFINE rest == Hashes \ touched
<1>1. /\ IsFiniteSet(Hashes) /\ IsFiniteSet(touched) /\ IsFiniteSet(rest)
      /\ touched \cap rest = {} /\ Hashes = touched \cup rest
      /\ \A h \in touched \cup rest : f[h] \in Nat /\ g[h] \in Nat
      /\ \A h \in rest : f[h] \in Nat /\ g[h] = f[h]
  BY ChunkConstants, FS_Subset
<1> HIDE DEF rest
<1>2. Sum(f, touched \cup rest) = Sum(f, touched) + Sum(f, rest)
  BY <1>1, SumUnion
<1>3. Sum(g, touched \cup rest) = Sum(g, touched) + Sum(g, rest)
  BY <1>1, SumUnion
<1>4. Sum(g, rest) = Sum(f, rest)
  BY <1>1, SumSame
<1>5. Sum(f, touched) \in Nat /\ Sum(g, touched) \in Nat /\ Sum(f, rest) \in Nat
  BY <1>1, SumStep
<1> DEFINE n == Sum(f, Hashes) + Sum(g, touched) - Sum(f, touched)
<1>6. n = Sum(g, touched) + Sum(f, rest) /\ n \in Nat /\ Sum(g, Hashes) = n
  BY <1>1, <1>2, <1>3, <1>4, <1>5
<1>7. Moved(Sum(f, Hashes), f, g, touched) = Max({0, n})
  BY DEF Moved, Sum
<1> HIDE DEF n
<1>8. Max({0, n}) = IF 0 >= n THEN 0 ELSE n
  BY <1>6, MaxOfTwo
<1> QED
  BY <1>6, <1>7, <1>8

\* What a payload weighs is a number, and depends on that payload.
LEMMA WeightsAreNumbers ==
  ASSUME NEW P \in PayloadTables
  PROVE  /\ \A h \in Hashes : BytesOf(P)[h] \in Nat /\ ContributionOf(P)[h] \in Nat
         /\ BytesOf(P) \in [Hashes -> Nat] /\ ContributionOf(P) \in [Hashes -> Nat]
<1>1. \A h \in Hashes : Size[h] \in Nat
  BY ChunkConstants
<1> QED
  BY <1>1 DEF BytesOf, ContributionOf, Contribution

\* flushPayloads: stores that agree with the new payloads agree after it, and
\* so do the counters of bytes.
LEMMA FlushAgrees ==
  ASSUME NEW d \in CacheRecords, Weighed(d.payload, d.totals),
         NEW Q, StoresAgree(Q, d.copy, d.assoc, d.root, d.totals.copies),
         NEW touched \in SUBSET Hashes, \A h \in Hashes \ touched : Q[h] = d.payload[h]
  PROVE  CacheOK(Flush(d, Q, touched))
<1> DEFINE P == d.payload
           t == d.totals
           K == Kept(Q, touched)
           u == [bytes |-> Moved(t.bytes, BytesOf(P), BytesOf(K), touched),
                 unreferenced |-> Moved(t.unreferenced, ContributionOf(P), ContributionOf(K), touched),
                 copies |-> Max({0, t.copies})]
           e == Flush(d, Q, touched)
<1>0. P \in PayloadTables /\ t \in TotalRecords
  BY DEF CacheRecords
<1>1. /\ e = [d EXCEPT !.payload = K, !.totals = u]
      /\ e.payload = K /\ e.totals = u /\ e.copy = d.copy /\ e.assoc = d.assoc /\ e.root = d.root
      /\ K \in PayloadTables /\ u \in TotalRecords => e \in CacheRecords
  <2> HIDE DEF K
  <2>1. e = [d EXCEPT !.payload = K,
                      !.totals = [bytes |-> Moved(@.bytes, BytesOf(d.payload), BytesOf(K), touched),
                                  unreferenced |-> Moved(@.unreferenced, ContributionOf(d.payload), ContributionOf(K), touched),
                                  copies |-> Max({0, @.copies})]]
    BY DEF Flush, K
  <2>2. e = [d EXCEPT !.payload = K, !.totals = u]
    BY <2>1
  <2> HIDE DEF u, e
  <2> QED
    BY <2>2 DEF CacheRecords
<1>2. Q \in PayloadTables
  BY DEF StoresAgree
<1>3. /\ K \in PayloadTables
      /\ \A h \in Hashes : K[h] = Q[h] \/ (K[h] = NoPayload /\ Q[h] # NoPayload /\ Q[h].copies = 0)
      /\ \A h \in Hashes \ touched : K[h] = P[h]
  BY <1>2 DEF Kept, PayloadTables
<1> HIDE DEF K, e
<1>4. \A h \in Hashes : Backed(K[h], CopiesOf(d.copy, h))
  BY <1>3 DEF StoresAgree, Backed
<1>5. StoresAgree(K, d.copy, d.assoc, d.root, t.copies)
  BY <1>3, <1>4 DEF StoresAgree
<1> HIDE DEF P, t
<1>6. /\ \A h \in Hashes : BytesOf(P)[h] \in Nat /\ ContributionOf(P)[h] \in Nat
      /\ \A h \in Hashes : BytesOf(K)[h] \in Nat /\ ContributionOf(K)[h] \in Nat
  BY <1>0, <1>3, WeightsAreNumbers
<1>7. \A h \in Hashes \ touched : BytesOf(K)[h] = BytesOf(P)[h] /\ ContributionOf(K)[h] = ContributionOf(P)[h]
  BY <1>3 DEF BytesOf, ContributionOf, Contribution
<1> DEFINE f == BytesOf(P)
           g == BytesOf(K)
           v == ContributionOf(P)
           w == ContributionOf(K)
<1>8. /\ \A h \in Hashes : f[h] \in Nat /\ g[h] \in Nat
      /\ \A h \in Hashes : v[h] \in Nat /\ w[h] \in Nat
      /\ \A h \in Hashes \ touched : g[h] = f[h]
      /\ \A h \in Hashes \ touched : w[h] = v[h]
  BY <1>6, <1>7
<1>9. t.bytes = Sum(f, Hashes) /\ t.unreferenced = Sum(v, Hashes) /\ t.copies \in Nat
  BY <1>0 DEF Weighed, TotalRecords, P, t
<1>10. u = [bytes |-> Moved(Sum(f, Hashes), f, g, touched),
            unreferenced |-> Moved(Sum(v, Hashes), v, w, touched), copies |-> Max({0, t.copies})]
  BY <1>9
<1> HIDE DEF f, g, v, w, u
<1>11. Moved(Sum(f, Hashes), f, g, touched) = Sum(g, Hashes) /\ Sum(g, Hashes) \in Nat
  BY <1>8, MovedIs
<1>12. Moved(Sum(v, Hashes), v, w, touched) = Sum(w, Hashes) /\ Sum(w, Hashes) \in Nat
  BY <1>8, MovedIs
<1>13. Max({0, t.copies}) = t.copies
  <2>1. Max({0, t.copies}) = IF 0 >= t.copies THEN 0 ELSE t.copies
    BY <1>9, MaxOfTwo
  <2> QED BY <1>9, <2>1
<1>14. u = [bytes |-> Sum(g, Hashes), unreferenced |-> Sum(w, Hashes), copies |-> t.copies]
  BY <1>10, <1>11, <1>12, <1>13
<1>15. u \in TotalRecords /\ Weighed(K, u) /\ u.copies = t.copies
  BY <1>9, <1>11, <1>12, <1>14 DEF TotalRecords, Weighed, g, w
<1>16. StoresOK(K, d.copy, d.assoc, d.root, u)
  BY <1>5, <1>15 DEF StoresOK
<1>17. e \in CacheRecords
  BY <1>1, <1>3, <1>15
<1> QED
  BY <1>1, <1>16, <1>17 DEF CacheOK, e

\* The sets of the stores, for a step that needs no more of them.
LEMMA CacheParts ==
  ASSUME NEW d \in CacheRecords
  PROVE  /\ d.payload \in PayloadTables /\ d.copy \in CopyTables /\ d.assoc \in LinkTables
         /\ d.root \in RootTables /\ d.totals \in TotalRecords
  BY DEF CacheRecords

\* Another record of a payload that counts the same copies.
LEMMA PayloadReplaced ==
  ASSUME NEW d, CacheOK(d), NEW h \in Hashes, NEW x \in Payloads,
         x.copies = IF d.payload[h] = NoPayload THEN 0 ELSE d.payload[h].copies
  PROVE  CacheOK(Flush(d, [d.payload EXCEPT ![h] = x], {h}))
<1> DEFINE Q == [d.payload EXCEPT ![h] = x]
<1>1. d \in CacheRecords /\ Weighed(d.payload, d.totals) /\ StoresAgree(d.payload, d.copy, d.assoc, d.root, d.totals.copies)
  BY DEF CacheOK, StoresOK
<1>2. d.payload \in PayloadTables
  BY <1>1, CacheParts
<1>3. Q \in PayloadTables /\ Q[h] = x /\ \A g \in Hashes \ {h} : Q[g] = d.payload[g]
  BY <1>2 DEF PayloadTables
<1> HIDE DEF Q
<1>4. Backed(d.payload[h], CopiesOf(d.copy, h)) => Backed(x, CopiesOf(d.copy, h))
  BY ChunkConstants DEF Backed
<1>5. \A g \in Hashes : Backed(Q[g], CopiesOf(d.copy, g))
  BY <1>1, <1>3, <1>4 DEF StoresAgree
<1>6. StoresAgree(Q, d.copy, d.assoc, d.root, d.totals.copies)
  BY <1>1, <1>3, <1>5 DEF StoresAgree
<1>7. {h} \in SUBSET Hashes
  OBVIOUS
<1>8. CacheOK(Flush(d, Q, {h}))
  BY <1>1, <1>3, <1>6, <1>7, FlushAgrees
<1> QED
  BY <1>8 DEF Q

\* A stage that ends leaves the copies as they are.
LEMMA UnstagedIs ==
  ASSUME NEW p \in Payloads, NEW protect \in BOOLEAN
  PROVE  Unstaged(p, protect) \in Payloads /\ Unstaged(p, protect).copies = p.copies
<1>1. Less(p.pending) \in Nat /\ Less(p.pendingProtected) \in Nat
  BY LessIs DEF Payloads
<1> QED
  BY <1>1 DEF Unstaged, Payloads

\* stageChunkPayload
LEMMA StageAgrees ==
  ASSUME NEW d, CacheOK(d), NEW h \in Hashes, NEW protect \in BOOLEAN
  PROVE  CacheOK(Stage(d, h, protect))
<1> DEFINE p == IF d.payload[h] = NoPayload
                THEN [copies |-> 0, pending |-> 0, protected |-> 0, pendingProtected |-> 0]
                ELSE d.payload[h]
           x == [p EXCEPT !.pending = @ + 1, !.pendingProtected = @ + IF protect THEN 1 ELSE 0]
<1>1. d.payload \in PayloadTables
  BY CacheParts DEF CacheOK
<1>2. p \in Payloads /\ p.copies = IF d.payload[h] = NoPayload THEN 0 ELSE d.payload[h].copies
  BY <1>1 DEF PayloadTables, Payloads
<1>3. Stage(d, h, protect) = Flush(d, [d.payload EXCEPT ![h] = x], {h})
  BY DEF Stage
<1> HIDE DEF p
<1>4. x \in Payloads /\ x.copies = p.copies
  <2> DEFINE k == IF protect THEN 1 ELSE 0
             i == p.pending + 1
             j == p.pendingProtected + k
  <2>1. i \in Nat /\ j \in Nat
    BY <1>2 DEF Payloads
  <2>2. x = [p EXCEPT !.pending = i, !.pendingProtected = j]
    OBVIOUS
  <2> HIDE DEF i, j, x
  <2> QED
    BY <1>2, <2>1, <2>2 DEF Payloads
<1> HIDE DEF x
<1> QED
  BY <1>2, <1>3, <1>4, PayloadReplaced

\* abortChunkPayloadStage, of a payload that may be gone
LEMMA AbortStageAgrees ==
  ASSUME NEW d, CacheOK(d), NEW h \in Hashes, NEW protect \in BOOLEAN
  PROVE  CacheOK(AbortStage(d, h, protect))
<1>1. d.payload \in PayloadTables
  BY CacheParts DEF CacheOK
<1>2. CASE d.payload[h] = NoPayload
  BY <1>2 DEF AbortStage
<1>3. CASE d.payload[h] # NoPayload
  <2> DEFINE x == Unstaged(d.payload[h], protect)
  <2>1. d.payload[h] \in Payloads
    BY <1>1, <1>3 DEF PayloadTables
  <2>2. x \in Payloads /\ x.copies = IF d.payload[h] = NoPayload THEN 0 ELSE d.payload[h].copies
    BY <1>3, <2>1, UnstagedIs
  <2>3. AbortStage(d, h, protect) = Flush(d, [d.payload EXCEPT ![h] = x], {h})
    BY <1>3 DEF AbortStage
  <2> HIDE DEF x
  <2> QED
    BY <2>2, <2>3, PayloadReplaced
<1> QED
  BY <1>2, <1>3

\* reconcileStaleChunkPayloadStages
LEMMA DropStagesAgrees ==
  ASSUME NEW d, CacheOK(d), NEW h \in Hashes, d.payload[h] # NoPayload
  PROVE  CacheOK(DropStages(d, h))
<1> DEFINE x == [d.payload[h] EXCEPT !.pending = 0, !.pendingProtected = 0]
<1>1. d.payload \in PayloadTables
  BY CacheParts DEF CacheOK
<1>2. d.payload[h] \in Payloads
  BY <1>1 DEF PayloadTables
<1>3. x \in Payloads /\ x.copies = d.payload[h].copies
  BY <1>2 DEF Payloads
<1>4. DropStages(d, h) = Flush(d, [d.payload EXCEPT ![h] = x], {h})
  BY DEF DropStages
<1> HIDE DEF x
<1> QED
  BY <1>3, <1>4, PayloadReplaced

\* What stays when the counts of one payload and of its links change.
OnlyOf(d, e, h) ==
  /\ e \in CacheRecords
  /\ e.copy = d.copy /\ e.root = d.root /\ e.totals = d.totals
  /\ \A g \in Hashes : g # h => e.payload[g] = d.payload[g]
  /\ e.payload[h] = NoPayload <=> d.payload[h] = NoPayload

\* A payload's record with another in its place, and the links with others.
PutPayload(d, L, h, x) == [d EXCEPT !.assoc = L, !.payload = [d.payload EXCEPT ![h] = x]]

\* Only that payload and the links are others.
LEMMA PayloadSet ==
  ASSUME NEW d \in CacheRecords, NEW h \in Hashes, NEW x \in Payloads \cup {NoPayload},
         x = NoPayload <=> d.payload[h] = NoPayload,
         NEW L \in LinkTables
  PROVE  /\ OnlyOf(d, PutPayload(d, L, h, x), h)
         /\ PutPayload(d, L, h, x).assoc = L /\ PutPayload(d, L, h, x).payload[h] = x
<1> DEFINE Q == [d.payload EXCEPT ![h] = x]
           e == PutPayload(d, L, h, x)
<1>1. d.payload \in PayloadTables
  BY CacheParts
<1>2. Q \in PayloadTables /\ Q[h] = x /\ \A g \in Hashes : g # h => Q[g] = d.payload[g]
  BY <1>1 DEF PayloadTables
<1>3. e = [d EXCEPT !.assoc = L, !.payload = Q]
  BY DEF PutPayload
<1> HIDE DEF Q, e
<1>4. e \in CacheRecords /\ e.payload = Q /\ e.assoc = L /\ e.copy = d.copy /\ e.root = d.root /\ e.totals = d.totals
  BY <1>2, <1>3 DEF CacheRecords
<1> QED
  BY <1>2, <1>4 DEF OnlyOf, e

\* One copy less of a payload that may be there.
LEMMA FewerCopiesIs ==
  ASSUME NEW d \in CacheRecords, NEW h \in Hashes
  PROVE  /\ OnlyOf(d, FewerCopies(d, h), h)
         /\ FewerCopies(d, h).assoc = d.assoc
         /\ d.payload[h] # NoPayload => FewerCopies(d, h).payload[h].copies = Less(d.payload[h].copies)
<1> DEFINE x == LessCopies(d.payload[h])
           e == FewerCopies(d, h)
<1>1. d.payload \in PayloadTables /\ d.assoc \in LinkTables
  BY CacheParts
<1>2. /\ x \in Payloads \cup {NoPayload}
      /\ x = NoPayload <=> d.payload[h] = NoPayload
      /\ d.payload[h] # NoPayload => x.copies = Less(d.payload[h].copies)
  <2>1. CASE d.payload[h] = NoPayload
    BY <2>1 DEF LessCopies
  <2>2. CASE d.payload[h] # NoPayload
    <3>1. d.payload[h] \in Payloads
      BY <1>1, <2>2 DEF PayloadTables
    <3>2. Less(d.payload[h].copies) \in Nat
      BY <3>1, LessIs DEF Payloads
    <3>3. x \in Payloads /\ x.copies = Less(d.payload[h].copies)
      BY <2>2, <3>1, <3>2 DEF Payloads, LessCopies
    <3> QED
      BY <2>2, <3>3, ChunkConstants
  <2> QED
    BY <2>1, <2>2
<1>3. e = [d EXCEPT !.payload = [d.payload EXCEPT ![h] = x]]
  BY DEF FewerCopies
<1> HIDE DEF x, e
<1>4. e = PutPayload(d, d.assoc, h, x)
  <2> DEFINE Q == [d.payload EXCEPT ![h] = x]
  <2>1. e = [d EXCEPT !.payload = Q] /\ PutPayload(d, d.assoc, h, x) = [d EXCEPT !.assoc = d.assoc, !.payload = Q]
    BY <1>3 DEF PutPayload
  <2> HIDE DEF Q
  <2> QED
    BY <2>1 DEF CacheRecords
<1>5. OnlyOf(d, e, h) /\ e.assoc = d.assoc /\ e.payload[h] = x
  BY <1>1, <1>2, <1>4, PayloadSet
<1> QED
  BY <1>2, <1>5 DEF e

\* One link less, and perhaps the protection of its payload.
LEMMA UnlinkedIs ==
  ASSUME NEW d \in CacheRecords, NEW o \in Owners, NEW r \in Roots, NEW h \in Hashes, NEW referenced \in BOOLEAN,
         d.assoc[o][r][h] > 0
  PROVE  /\ OnlyOf(d, Unlinked(d, o, r, h, referenced), h)
         /\ Unlinked(d, o, r, h, referenced).assoc = [d.assoc EXCEPT ![o][r][h] = d.assoc[o][r][h] - 1]
         /\ d.payload[h] # NoPayload => Unlinked(d, o, r, h, referenced).payload[h].copies = d.payload[h].copies
<1> DEFINE x == IF d.assoc[o][r][h] = 1 /\ referenced THEN LessProtected(d.payload[h]) ELSE d.payload[h]
           L == [d.assoc EXCEPT ![o][r][h] = d.assoc[o][r][h] - 1]
           e == Unlinked(d, o, r, h, referenced)
<1>1. d.payload \in PayloadTables /\ d.assoc \in LinkTables
  BY CacheParts
<1>2. /\ x \in Payloads \cup {NoPayload}
      /\ x = NoPayload <=> d.payload[h] = NoPayload
      /\ d.payload[h] # NoPayload => x.copies = d.payload[h].copies
  <2>1. CASE d.payload[h] = NoPayload
    BY <2>1 DEF LessProtected
  <2>2. CASE d.payload[h] # NoPayload
    <3>1. d.payload[h] \in Payloads
      BY <1>1, <2>2 DEF PayloadTables
    <3>2. Less(d.payload[h].protected) \in Nat
      BY <3>1, LessIs DEF Payloads
    <3>3. LessProtected(d.payload[h]) \in Payloads /\ LessProtected(d.payload[h]).copies = d.payload[h].copies
      BY <2>2, <3>1, <3>2 DEF Payloads, LessProtected
    <3> QED
      BY <2>2, <3>1, <3>3, ChunkConstants
  <2> QED
    BY <2>1, <2>2
<1>3. L \in LinkTables
  BY <1>1 DEF LinkTables
<1>4. e = PutPayload(d, L, h, x)
  BY DEF Unlinked, PutPayload
<1> HIDE DEF x, L, e
<1>5. OnlyOf(d, e, h) /\ e.assoc = L /\ e.payload[h] = x
  BY <1>2, <1>3, <1>4, PayloadSet
<1> QED
  BY <1>2, <1>5 DEF e, L

\* One link more, of a payload that is there.
LEMMA LinkedIs ==
  ASSUME NEW d \in CacheRecords, NEW o \in Owners, NEW r \in Roots, NEW h \in Hashes, NEW referenced \in BOOLEAN,
         d.payload[h] # NoPayload
  PROVE  /\ OnlyOf(d, Linked(d, o, r, h, referenced), h)
         /\ Linked(d, o, r, h, referenced).assoc = [d.assoc EXCEPT ![o][r][h] = d.assoc[o][r][h] + 1]
         /\ Linked(d, o, r, h, referenced).payload[h].copies = d.payload[h].copies
<1> DEFINE k == IF d.assoc[o][r][h] = 0 /\ referenced THEN 1 ELSE 0
           x == [d.payload[h] EXCEPT !.protected = @ + k]
           L == [d.assoc EXCEPT ![o][r][h] = d.assoc[o][r][h] + 1]
           e == Linked(d, o, r, h, referenced)
<1>1. d.payload \in PayloadTables /\ d.assoc \in LinkTables
  BY CacheParts
<1>2. d.payload[h] \in Payloads /\ k \in Nat
  BY <1>1 DEF PayloadTables
<1>3. L \in LinkTables
  BY <1>1 DEF LinkTables
<1>4. e = PutPayload(d, L, h, x)
  BY DEF Linked, PutPayload
<1> HIDE DEF k
<1>5. x \in Payloads /\ x.copies = d.payload[h].copies
  BY <1>2 DEF Payloads
<1> HIDE DEF x, L, e
<1>6. OnlyOf(d, e, h) /\ e.assoc = L /\ e.payload[h] = x
  BY <1>3, <1>4, <1>5, ChunkConstants, PayloadSet
<1> QED
  BY <1>5, <1>6 DEF e, L

\* The stores as a transaction writes them before it flushes the payloads.
PutStores(d, P, C, L, R, n) ==
  [d EXCEPT !.payload = P, !.copy = C, !.assoc = L, !.root = R, !.totals = [d.totals EXCEPT !.copies = n]]

\* Each store is the one put in its place; the counters of bytes stay.
LEMMA StoresPut ==
  ASSUME NEW d \in CacheRecords, NEW P \in PayloadTables, NEW C \in CopyTables, NEW L \in LinkTables,
         NEW R \in RootTables, NEW n \in Nat
  PROVE  /\ PutStores(d, P, C, L, R, n) \in CacheRecords
         /\ PutStores(d, P, C, L, R, n).payload = P /\ PutStores(d, P, C, L, R, n).copy = C
         /\ PutStores(d, P, C, L, R, n).assoc = L /\ PutStores(d, P, C, L, R, n).root = R
         /\ PutStores(d, P, C, L, R, n).totals.copies = n
         /\ PutStores(d, P, C, L, R, n).totals.bytes = d.totals.bytes
         /\ PutStores(d, P, C, L, R, n).totals.unreferenced = d.totals.unreferenced
<1> DEFINE t == [d.totals EXCEPT !.copies = n]
           e == PutStores(d, P, C, L, R, n)
<1>1. d.totals \in TotalRecords
  BY CacheParts
<1>2. t \in TotalRecords /\ t.copies = n /\ t.bytes = d.totals.bytes /\ t.unreferenced = d.totals.unreferenced
  BY <1>1 DEF TotalRecords
<1>3. e = [d EXCEPT !.payload = P, !.copy = C, !.assoc = L, !.root = R, !.totals = t]
  BY DEF PutStores
<1> HIDE DEF t, e
<1>4. e.payload = P /\ e.copy = C /\ e.assoc = L /\ e.root = R /\ e.totals = t
  BY <1>3 DEF CacheRecords
<1>5. e \in CacheRecords
  BY <1>2, <1>3 DEF CacheRecords
<1> QED
  BY <1>2, <1>4, <1>5 DEF e

\* Stores put in place of those that agreed agree after the flush.
LEMMA PutAgrees ==
  ASSUME NEW d, CacheOK(d), NEW e \in CacheRecords, NEW Q, NEW C, NEW L \in LinkTables, NEW R, NEW n,
         StoresAgree(Q, C, L, R, n),
         NEW touched \in SUBSET Hashes, \A h \in Hashes \ touched : Q[h] = d.payload[h],
         e.totals = d.totals
  PROVE  CacheOK(Flush(PutStores(e, d.payload, C, L, R, n), Q, touched))
<1> DEFINE s == PutStores(e, d.payload, C, L, R, n)
<1>1. d \in CacheRecords /\ Weighed(d.payload, d.totals)
  BY DEF CacheOK, StoresOK
<1>2. d.payload \in PayloadTables /\ C \in CopyTables /\ R \in RootTables /\ n \in Nat
  BY <1>1, CacheParts, HeldFinite DEF StoresAgree
<1>3. /\ s \in CacheRecords
      /\ s.payload = d.payload /\ s.copy = C /\ s.assoc = L /\ s.root = R /\ s.totals.copies = n
      /\ s.totals.bytes = e.totals.bytes /\ s.totals.unreferenced = e.totals.unreferenced
  BY <1>2, StoresPut
<1> HIDE DEF s
<1>4. Weighed(s.payload, s.totals)
  BY <1>1, <1>3 DEF Weighed
<1>5. StoresAgree(Q, s.copy, s.assoc, s.root, s.totals.copies)
  BY <1>3
<1>6. \A h \in Hashes \ touched : Q[h] = s.payload[h]
  BY <1>3
<1>7. CacheOK(Flush(s, Q, touched))
  BY <1>3, <1>4, <1>5, <1>6, FlushAgrees
<1> QED
  BY <1>7 DEF s

\* removeChunkCopy
LEMMA RemoveCopyAgrees ==
  ASSUME NEW d, CacheOK(d), NEW o \in Owners, NEW c \in Chunks, NEW id
  PROVE  CacheOK(RemoveCopy(d, o, c, id))
<1> DEFINE r == RootOf[c]
           h == HashOf[c]
           was == d.root[o][r]
           C == d.copy
           D == [d.copy EXCEPT ![o][c] = 0]
           mid == FewerCopies(d, h)
           less == Unlinked(mid, o, r, h, Referenced(d, o, r))
           left == IF was = NoRoot THEN NoRoot
                   ELSE IF was.chunks <= 1 /\ ~was.referenced THEN NoRoot
                   ELSE [was EXCEPT !.chunks = Less(@)]
           R == [d.root EXCEPT ![o][r] = left]
           n == d.totals.copies - 1
<1>1. r \in Roots /\ h \in Hashes
  BY ChunkConstants
<1>2. /\ d \in CacheRecords /\ Weighed(d.payload, d.totals)
      /\ StoresAgree(d.payload, d.copy, d.assoc, d.root, d.totals.copies)
  BY DEF CacheOK, StoresOK
<1>3. /\ d.payload \in PayloadTables /\ d.copy \in CopyTables /\ d.assoc \in LinkTables
      /\ d.root \in RootTables /\ d.totals \in TotalRecords
  BY <1>2, CacheParts
<1>4. CASE C[o][c] = 0 \/ id \notin {0, C[o][c]}
  BY <1>4 DEF RemoveCopy
<1>5. CASE ~(C[o][c] = 0 \/ id \notin {0, C[o][c]})
  <2> HIDE DEF r, h
  <2>1. D \in CopyTables /\ D[o][c] = 0 /\ SameElsewhere(D, C, o, c)
    BY <1>3 DEF CopyTables, SameElsewhere
  <2>2. C[o][c] # 0
    BY <1>5
  <2> HIDE DEF D, C
  <2>3. /\ AllCopies(C) = AllCopies(D) + 1
        /\ \A g \in Hashes : CopiesOf(C, g) = CopiesOf(D, g) + IF g = HashOf[c] THEN 1 ELSE 0
        /\ \A p \in Owners, q \in Roots, g \in Hashes :
              CopiesUnder(C, p, q, g) =
                CopiesUnder(D, p, q, g) + IF p = o /\ q = RootOf[c] /\ g = HashOf[c] THEN 1 ELSE 0
        /\ \A p \in Owners, q \in Roots :
              ChunksHeld(C, p, q) = ChunksHeld(D, p, q) + IF p = o /\ q = RootOf[c] THEN 1 ELSE 0
    <3>1. MoreBy(D, C, o, c, 1)
      BY <2>1, <2>2, OneCopyMore
    <3> QED
      BY <3>1 DEF MoreBy
  <2>4. \A p, q, g : /\ AllCopies(D) \in Nat /\ CopiesOf(D, g) \in Nat
                     /\ CopiesUnder(D, p, q, g) \in Nat /\ ChunksHeld(D, p, q) \in Nat
    BY HeldFinite
  <2>5. /\ d.totals.copies = AllCopies(C)
        /\ \A g \in Hashes : Backed(d.payload[g], CopiesOf(C, g))
        /\ \A p \in Owners, q \in Roots, g \in Hashes : d.assoc[p][q][g] = CopiesUnder(C, p, q, g)
        /\ \A p \in Owners, q \in Roots : RootFits(d.root[p][q], ChunksHeld(C, p, q))
    BY <1>2 DEF StoresAgree, C
  <2>6. d.payload[h] # NoPayload /\ d.payload[h].copies = CopiesOf(D, h) + 1 /\ d.payload[h] \in Payloads
    <3>1. CopiesOf(C, h) = CopiesOf(D, h) + 1 /\ CopiesOf(D, h) \in Nat
      BY <1>1, <2>3, <2>4 DEF h
    <3> QED
      BY <1>1, <1>3, <2>5, <3>1 DEF Backed, PayloadTables
  <2>7. /\ OnlyOf(d, mid, h) /\ mid.assoc = d.assoc
        /\ mid.payload[h].copies = Less(d.payload[h].copies)
    BY <1>1, <1>2, <2>6, FewerCopiesIs
  <2>8. mid.payload[h].copies = CopiesOf(D, h) /\ mid.payload[h] # NoPayload
    <3>1. d.payload[h].copies \in Nat /\ CopiesOf(D, h) \in Nat
      BY <2>4, <2>6
    <3>2. Less(d.payload[h].copies) = IF d.payload[h].copies = 0 THEN 0 ELSE d.payload[h].copies - 1
      BY <3>1, LessIs
    <3> QED
      BY <2>6, <2>7, <3>1, <3>2 DEF OnlyOf
  <2>9. Referenced(d, o, r) \in BOOLEAN
    BY DEF Referenced
  <2>10. mid \in CacheRecords /\ mid.assoc[o][r][h] > 0
    <3>1. CopiesUnder(C, o, r, h) = CopiesUnder(D, o, r, h) + 1 /\ CopiesUnder(D, o, r, h) \in Nat
      BY <1>1, <2>3, <2>4 DEF h, r
    <3>2. d.assoc[o][r][h] = CopiesUnder(C, o, r, h)
      BY <1>1, <2>5
    <3> QED
      BY <2>7, <3>1, <3>2 DEF OnlyOf
  <2> HIDE DEF mid
  <2>11. /\ OnlyOf(mid, less, h)
         /\ less.assoc = [mid.assoc EXCEPT ![o][r][h] = mid.assoc[o][r][h] - 1]
         /\ mid.payload[h] # NoPayload => less.payload[h].copies = mid.payload[h].copies
    BY <1>1, <2>9, <2>10, UnlinkedIs
  <2> HIDE DEF less
  <2>12. /\ less \in CacheRecords /\ less.totals = d.totals /\ less.copy = d.copy /\ less.root = d.root
         /\ \A g \in Hashes \ {h} : less.payload[g] = d.payload[g]
         /\ less.payload[h] # NoPayload /\ less.payload[h].copies = CopiesOf(D, h)
         /\ less.payload \in PayloadTables /\ less.assoc \in LinkTables
    <3>1. less \in CacheRecords
      BY <2>11 DEF OnlyOf
    <3> QED
      BY <2>7, <2>8, <2>11, <3>1, CacheParts DEF OnlyOf
  <2>13. \A g \in Hashes : Backed(less.payload[g], CopiesOf(D, g))
    <3>1. ASSUME NEW g \in Hashes, g # h PROVE Backed(less.payload[g], CopiesOf(D, g))
      <4>1. CopiesOf(C, g) = CopiesOf(D, g)
        BY <2>3, <2>4, <3>1 DEF h
      <4> QED
        BY <2>5, <2>12, <3>1, <4>1
    <3> QED
      BY <2>12, <3>1 DEF Backed
  <2>14. \A p \in Owners, q \in Roots, g \in Hashes : less.assoc[p][q][g] = CopiesUnder(D, p, q, g)
    <3> SUFFICES ASSUME NEW p \in Owners, NEW q \in Roots, NEW g \in Hashes
                 PROVE  less.assoc[p][q][g] = CopiesUnder(D, p, q, g)
      OBVIOUS
    <3>1. less.assoc[p][q][g] = IF p = o /\ q = r /\ g = h THEN d.assoc[p][q][g] - 1 ELSE d.assoc[p][q][g]
      BY <1>1, <1>3, <2>7, <2>11 DEF LinkTables
    <3>2. /\ CopiesUnder(C, p, q, g) = CopiesUnder(D, p, q, g) + IF p = o /\ q = r /\ g = h THEN 1 ELSE 0
          /\ d.assoc[p][q][g] = CopiesUnder(C, p, q, g) /\ CopiesUnder(D, p, q, g) \in Nat
      BY <2>3, <2>4, <2>5 DEF r, h
    <3> QED
      BY <3>1, <3>2
  <2>15. left \in RootRecords \cup {NoRoot} /\ RootFits(left, ChunksHeld(D, o, r))
    <3>1. ChunksHeld(C, o, r) = ChunksHeld(D, o, r) + 1 /\ ChunksHeld(D, o, r) \in Nat
      BY <1>1, <2>3, <2>4 DEF r
    <3>2. RootFits(was, ChunksHeld(C, o, r)) /\ was \in RootRecords \cup {NoRoot}
      BY <1>1, <1>3, <2>5 DEF RootTables
    <3> HIDE DEF was
    <3>3. /\ was # NoRoot /\ was \in RootRecords /\ was.chunks = ChunksHeld(D, o, r) + 1
          /\ was.referenced <=> was.count > 0
      BY <3>1, <3>2 DEF RootFits
    <3>4. Less(was.chunks) = ChunksHeld(D, o, r)
      <4>1. was.chunks \in Nat
        BY <3>1, <3>3
      <4>2. Less(was.chunks) = IF was.chunks = 0 THEN 0 ELSE was.chunks - 1
        BY <4>1, LessIs
      <4> QED
        BY <3>1, <3>3, <4>2
    <3> DEFINE x == [was EXCEPT !.chunks = ChunksHeld(D, o, r)]
    <3>5. x \in RootRecords /\ x.chunks = ChunksHeld(D, o, r) /\ x.referenced = was.referenced /\ x.count = was.count
      BY <3>1, <3>3 DEF RootRecords
    <3>6. left = IF was.chunks <= 1 /\ ~was.referenced THEN NoRoot ELSE x
      BY <3>3, <3>4
    <3> HIDE DEF x, left
    <3>7. CASE was.chunks <= 1 /\ ~was.referenced
      BY <3>1, <3>3, <3>6, <3>7 DEF RootFits
    <3>8. CASE ~(was.chunks <= 1 /\ ~was.referenced)
      BY <3>3, <3>5, <3>6, <3>8, ChunkConstants DEF RootFits
    <3> QED
      BY <3>7, <3>8
  <2> HIDE DEF left
  <2>16. /\ R \in RootTables /\ R[o][r] = left
         /\ \A p \in Owners, q \in Roots : p # o \/ q # r => R[p][q] = d.root[p][q]
    BY <1>1, <1>3, <2>15 DEF RootTables
  <2> HIDE DEF R
  <2>17. \A p \in Owners, q \in Roots : RootFits(R[p][q], ChunksHeld(D, p, q))
    <3> SUFFICES ASSUME NEW p \in Owners, NEW q \in Roots PROVE RootFits(R[p][q], ChunksHeld(D, p, q))
      OBVIOUS
    <3>1. CASE p = o /\ q = r
      BY <2>15, <2>16, <3>1
    <3>2. CASE ~(p = o /\ q = r)
      <4>1. ChunksHeld(C, p, q) = ChunksHeld(D, p, q)
        BY <2>3, <2>4, <3>2 DEF r
      <4> QED
        BY <2>5, <2>16, <3>2, <4>1
    <3> QED
      BY <3>1, <3>2
  <2>18. n = AllCopies(D)
    BY <2>3, <2>4, <2>5
  <2>19. StoresAgree(less.payload, D, less.assoc, R, n)
    BY <2>1, <2>12, <2>13, <2>14, <2>16, <2>17, <2>18 DEF StoresAgree
  <2>20. RemoveCopy(d, o, c, id) = Flush(PutStores(less, d.payload, D, less.assoc, R, n), less.payload, {h})
    <3> DEFINE s == [less EXCEPT !.payload = d.payload, !.copy[o][c] = 0, !.totals.copies = @ - 1, !.root[o][r] = left]
    <3>1. RemoveCopy(d, o, c, id) = Flush(s, less.payload, {h})
      BY <1>5 DEF RemoveCopy, less, mid, left, r, h, C
    <3>2. s = PutStores(less, d.payload, D, less.assoc, R, n)
      <4> DEFINE t == [d.totals EXCEPT !.copies = n]
      <4>1. s = [less EXCEPT !.payload = d.payload, !.copy = D, !.totals = t, !.root = R]
        BY <2>12 DEF D, R
      <4>2. PutStores(less, d.payload, D, less.assoc, R, n)
              = [less EXCEPT !.payload = d.payload, !.copy = D, !.assoc = less.assoc, !.root = R, !.totals = t]
        BY <2>12 DEF PutStores
      <4> HIDE DEF s, t, n
      <4> QED
        BY <2>12, <4>1, <4>2 DEF CacheRecords
    <3> QED
      BY <3>1, <3>2
  <2> DEFINE touched == {h}
  <2>21. touched \in SUBSET Hashes /\ \A g \in Hashes \ touched : less.payload[g] = d.payload[g]
    BY <1>1, <2>12
  <2> HIDE DEF n, touched
  <2>22. CacheOK(Flush(PutStores(less, d.payload, D, less.assoc, R, n), less.payload, touched))
    BY <2>12, <2>19, <2>21, PutAgrees
  <2> QED
    BY <2>20, <2>22 DEF touched
<1> QED
  BY <1>4, <1>5

\* What agreement says, one part at a time.
LEMMA AgreeParts ==
  ASSUME NEW d, CacheOK(d)
  PROVE  /\ d \in CacheRecords /\ d.totals.copies = AllCopies(d.copy)
         /\ \A h \in Hashes : Backed(d.payload[h], CopiesOf(d.copy, h))
         /\ \A o \in Owners, r \in Roots, h \in Hashes : d.assoc[o][r][h] = CopiesUnder(d.copy, o, r, h)
         /\ \A o \in Owners, r \in Roots : RootFits(d.root[o][r], ChunksHeld(d.copy, o, r))
  BY DEF CacheOK, StoresOK, StoresAgree

\* A copy that is written, new or in place of another, adds itself to the
\* counts when it is new.
LEMMA CopyWritten ==
  ASSUME NEW C \in CopyTables, NEW o \in Owners, NEW c \in Chunks,
         NEW D \in CopyTables, D[o][c] # 0, SameElsewhere(C, D, o, c)
  PROVE  /\ C[o][c] = 0 => MoreBy(C, D, o, c, 1)
         /\ C[o][c] # 0 => /\ MoreBy(C, D, o, c, 0)
                           /\ CopiesOf(C, HashOf[c]) > 0
                           /\ CopiesUnder(C, o, RootOf[c], HashOf[c]) > 0
                           /\ ChunksHeld(C, o, RootOf[c]) > 0
<1>1. CASE C[o][c] = 0
  BY <1>1, OneCopyMore
<1>2. CASE C[o][c] # 0
  <2>1. \A p \in Owners, x \in Chunks : D[p][x] # 0 <=> C[p][x] # 0
    BY <1>2 DEF SameElsewhere
  <2>2. /\ AllCopies(D) = AllCopies(C)
        /\ \A h \in Hashes : CopiesOf(D, h) = CopiesOf(C, h)
        /\ \A p \in Owners, r \in Roots, h \in Hashes : CopiesUnder(D, p, r, h) = CopiesUnder(C, p, r, h)
        /\ \A p \in Owners, r \in Roots : ChunksHeld(D, p, r) = ChunksHeld(C, p, r)
    BY <2>1, SameHeld
  <2>3. \A p, q, g : /\ AllCopies(C) \in Nat /\ CopiesOf(C, g) \in Nat
                     /\ CopiesUnder(C, p, q, g) \in Nat /\ ChunksHeld(C, p, q) \in Nat
    BY HeldFinite
  <2>4. MoreBy(C, D, o, c, 0)
    <3>1. AllCopies(D) = AllCopies(C) + 0
      BY <2>2, <2>3
    <3>2. ASSUME NEW h \in Hashes PROVE CopiesOf(D, h) = CopiesOf(C, h) + IF h = HashOf[c] THEN 0 ELSE 0
      <4>1. CopiesOf(D, h) = CopiesOf(C, h) + 0
        BY <2>2, <2>3
      <4> QED BY <4>1
    <3>3. ASSUME NEW p \in Owners, NEW r \in Roots, NEW h \in Hashes
          PROVE CopiesUnder(D, p, r, h) =
                  CopiesUnder(C, p, r, h) + IF p = o /\ r = RootOf[c] /\ h = HashOf[c] THEN 0 ELSE 0
      <4>1. CopiesUnder(D, p, r, h) = CopiesUnder(C, p, r, h) + 0
        BY <2>2, <2>3
      <4> QED BY <4>1
    <3>4. ASSUME NEW p \in Owners, NEW r \in Roots
          PROVE ChunksHeld(D, p, r) = ChunksHeld(C, p, r) + IF p = o /\ r = RootOf[c] THEN 0 ELSE 0
      <4>1. ChunksHeld(D, p, r) = ChunksHeld(C, p, r) + 0
        BY <2>2, <2>3
      <4> QED BY <4>1
    <3> QED
      BY <3>1, <3>2, <3>3, <3>4 DEF MoreBy
  <2>5. CopiesOf(C, HashOf[c]) > 0 /\ CopiesUnder(C, o, RootOf[c], HashOf[c]) > 0 /\ ChunksHeld(C, o, RootOf[c]) > 0
    <3>1. /\ <<o, c>> \in HeldOf(C, HashOf[c]) /\ <<o, c>> \in HeldUnder(C, o, RootOf[c], HashOf[c])
          /\ c \in HeldIn(C, o, RootOf[c])
      BY <1>2 DEF HeldOf, HeldUnder, HeldIn, ChunksOf
    <3>2. /\ HeldOf(C, HashOf[c]) # {} /\ HeldUnder(C, o, RootOf[c], HashOf[c]) # {}
          /\ HeldIn(C, o, RootOf[c]) # {}
      BY <3>1
    <3>3. \A S : IsFiniteSet(S) /\ S # {} => Cardinality(S) \in Nat /\ Cardinality(S) # 0
      BY FS_EmptySet, FS_CardinalityType
    <3> QED
      BY <3>2, <3>3, HeldFinite DEF CopiesOf, CopiesUnder, ChunksHeld
  <2> QED
    BY <1>2, <2>4, <2>5
<1> QED
  BY <1>1, <1>2

\* commitChunkCopy
LEMMA CommitAgrees ==
  ASSUME NEW d, CacheOK(d), NEW o \in Owners, NEW c \in Chunks, d.payload[HashOf[c]] # NoPayload,
         NEW id \in Nat, id # 0, NEW protect \in BOOLEAN
  PROVE  CacheOK(Commit(d, o, c, id, protect))
<1> DEFINE r == RootOf[c]
           h == HashOf[c]
           was == d.root[o][r]
           record == IF was = NoRoot THEN [referenced |-> FALSE, count |-> 0, chunks |-> 0] ELSE was
           referenced == record.referenced \/ protect
           first == d.copy[o][c] = 0
           k == IF first THEN 1 ELSE 0
           freed == IF first THEN d ELSE Unlinked(FewerCopies(d, h), o, r, h, record.referenced)
           linked == Linked(freed, o, r, h, referenced)
           C == d.copy
           D == [d.copy EXCEPT ![o][c] = id]
           x == Committed(linked.payload[h], protect)
           Q == [linked.payload EXCEPT ![h] = x]
           m == IF protect /\ ~record.referenced THEN Max({1, record.count}) ELSE record.count
           y == [referenced |-> referenced, count |-> m, chunks |-> record.chunks + k]
           R == [d.root EXCEPT ![o][r] = y]
           n == d.totals.copies + k
<1>1. r \in Roots /\ h \in Hashes /\ k \in Nat
  BY ChunkConstants
<1>2. /\ d \in CacheRecords /\ d.totals.copies = AllCopies(C)
      /\ \A g \in Hashes : Backed(d.payload[g], CopiesOf(C, g))
      /\ \A p \in Owners, q \in Roots, g \in Hashes : d.assoc[p][q][g] = CopiesUnder(C, p, q, g)
      /\ \A p \in Owners, q \in Roots : RootFits(d.root[p][q], ChunksHeld(C, p, q))
  BY AgreeParts
<1>3. /\ d.payload \in PayloadTables /\ d.copy \in CopyTables /\ d.assoc \in LinkTables
      /\ d.root \in RootTables /\ d.totals \in TotalRecords
  BY <1>2, CacheParts
<1>4. D \in CopyTables /\ D[o][c] # 0 /\ SameElsewhere(C, D, o, c)
  BY <1>3 DEF CopyTables, SameElsewhere
<1>5. d.payload[h] \in Payloads /\ d.payload[h] # NoPayload /\ d.payload[h].copies = CopiesOf(C, h)
  BY <1>1, <1>2, <1>3 DEF PayloadTables, Backed
<1>6. \A p, q, g : /\ AllCopies(C) \in Nat /\ CopiesOf(C, g) \in Nat
                   /\ CopiesUnder(C, p, q, g) \in Nat /\ ChunksHeld(C, p, q) \in Nat
  BY HeldFinite
<1>7. /\ record \in RootRecords /\ record.chunks = ChunksHeld(C, o, r)
      /\ record.referenced <=> record.count > 0
  <2>1. was \in RootRecords \cup {NoRoot} /\ RootFits(was, ChunksHeld(C, o, r))
    BY <1>1, <1>2, <1>3 DEF RootTables
  <2> HIDE DEF was, r
  <2> QED
    BY <2>1 DEF RootFits, RootRecords
<1> HIDE DEF D, C, r, h, record
<1>8. MoreBy(C, D, o, c, k)
  <2>1. CASE first
    <3>1. k = 1 /\ C[o][c] = 0 BY <2>1 DEF C
    <3> QED BY <1>3, <1>4, <3>1, CopyWritten DEF C
  <2>2. CASE ~first
    <3>1. k = 0 /\ C[o][c] # 0 BY <2>2 DEF C
    <3> QED BY <1>3, <1>4, <3>1, CopyWritten DEF C
  <2> QED
    BY <2>1, <2>2
<1>9. /\ AllCopies(D) = AllCopies(C) + k
      /\ \A g \in Hashes : CopiesOf(D, g) = CopiesOf(C, g) + IF g = h THEN k ELSE 0
      /\ \A p \in Owners, q \in Roots, g \in Hashes :
           CopiesUnder(D, p, q, g) = CopiesUnder(C, p, q, g) + IF p = o /\ q = r /\ g = h THEN k ELSE 0
      /\ \A p \in Owners, q \in Roots :
           ChunksHeld(D, p, q) = ChunksHeld(C, p, q) + IF p = o /\ q = r THEN k ELSE 0
  BY <1>8 DEF MoreBy, r, h
\* without the copy that was there
<1>10. /\ OnlyOf(d, freed, h) /\ freed.payload[h] # NoPayload /\ freed.payload[h].copies + 1 = CopiesOf(D, h)
       /\ freed.payload[h].copies \in Nat
       /\ \A p \in Owners, q \in Roots, g \in Hashes :
            freed.assoc[p][q][g] = IF p = o /\ q = r /\ g = h THEN CopiesUnder(D, p, q, g) - 1
                                   ELSE CopiesUnder(D, p, q, g)
  <2>1. CASE first
    <3>1. freed = d /\ k = 1
      BY <2>1
    <3> HIDE DEF freed, first, k
    <3>2. CopiesOf(D, h) = CopiesOf(C, h) + 1
      BY <1>1, <1>9, <3>1
    <3>3. OnlyOf(d, freed, h)
      BY <1>2, <3>1 DEF OnlyOf
    <3>4. ASSUME NEW p \in Owners, NEW q \in Roots, NEW g \in Hashes
          PROVE freed.assoc[p][q][g] = IF p = o /\ q = r /\ g = h THEN CopiesUnder(D, p, q, g) - 1
                                   ELSE CopiesUnder(D, p, q, g)
      <4>1. /\ CopiesUnder(D, p, q, g) = CopiesUnder(C, p, q, g) + IF p = o /\ q = r /\ g = h THEN 1 ELSE 0
            /\ d.assoc[p][q][g] = CopiesUnder(C, p, q, g) /\ CopiesUnder(C, p, q, g) \in Nat
        BY <1>2, <1>6, <1>9, <3>1
      <4> QED
        BY <3>1, <4>1
    <3> QED
      BY <1>5, <1>6, <3>1, <3>2, <3>3, <3>4
  <2>2. CASE ~first
    <3> DEFINE mid == FewerCopies(d, h)
               less == Unlinked(mid, o, r, h, record.referenced)
    <3>1. freed = less /\ k = 0
      BY <2>2
    <3>2. CopiesOf(C, h) > 0 /\ CopiesUnder(C, o, r, h) > 0
      <4>1. C[o][c] # 0 BY <2>2 DEF C
      <4> QED BY <1>3, <1>4, <4>1, CopyWritten DEF C, h, r
    <3> HIDE DEF freed, first, k
    <3>3. OnlyOf(d, mid, h) /\ mid.assoc = d.assoc /\ mid.payload[h].copies = Less(d.payload[h].copies)
      BY <1>1, <1>2, <1>5, FewerCopiesIs
    <3>4. mid.payload[h] # NoPayload /\ mid.payload[h].copies + 1 = CopiesOf(C, h) /\ mid.payload[h].copies \in Nat
      <4>1. d.payload[h].copies \in Nat /\ d.payload[h].copies > 0
        BY <1>5, <1>6, <3>2
      <4>2. Less(d.payload[h].copies) = IF d.payload[h].copies = 0 THEN 0 ELSE d.payload[h].copies - 1
        BY <4>1, LessIs
      <4> QED
        BY <1>5, <3>3, <4>1, <4>2 DEF OnlyOf
    <3>5. mid \in CacheRecords /\ mid.assoc[o][r][h] > 0 /\ record.referenced \in BOOLEAN
      BY <1>1, <1>2, <1>7, <3>2, <3>3 DEF OnlyOf, RootRecords
    <3> HIDE DEF mid
    <3>6. /\ OnlyOf(mid, less, h)
          /\ less.assoc = [mid.assoc EXCEPT ![o][r][h] = mid.assoc[o][r][h] - 1]
          /\ mid.payload[h] # NoPayload => less.payload[h].copies = mid.payload[h].copies
      BY <1>1, <3>5, UnlinkedIs
    <3> HIDE DEF less
    <3>7. OnlyOf(d, less, h) /\ less.payload[h] # NoPayload /\ less.payload[h].copies + 1 = CopiesOf(C, h)
          /\ less.payload[h].copies \in Nat
      BY <3>3, <3>4, <3>6 DEF OnlyOf
    <3>8. CopiesOf(D, h) = CopiesOf(C, h)
      BY <1>1, <1>6, <1>9, <3>1
    <3>9. ASSUME NEW p \in Owners, NEW q \in Roots, NEW g \in Hashes
          PROVE freed.assoc[p][q][g] = IF p = o /\ q = r /\ g = h THEN CopiesUnder(D, p, q, g) - 1
                                   ELSE CopiesUnder(D, p, q, g)
      <4>1. CopiesUnder(D, p, q, g) = CopiesUnder(C, p, q, g)
        <5>1. CopiesUnder(D, p, q, g) = CopiesUnder(C, p, q, g) + IF p = o /\ q = r /\ g = h THEN 0 ELSE 0
          BY <1>9, <3>1
        <5>2. CopiesUnder(C, p, q, g) \in Nat
          BY <1>6
        <5> QED BY <5>1, <5>2
      <4>2. d.assoc[p][q][g] = CopiesUnder(C, p, q, g) /\ d.assoc[p][q][g] \in Nat
        BY <1>2, <1>6
      <4>3. less.assoc[p][q][g] = IF p = o /\ q = r /\ g = h THEN d.assoc[p][q][g] - 1 ELSE d.assoc[p][q][g]
        BY <1>1, <1>3, <3>3, <3>6 DEF LinkTables
      <4> QED
        BY <3>1, <4>1, <4>2, <4>3
    <3> QED
      BY <3>1, <3>7, <3>8, <3>9
  <2> QED
    BY <2>1, <2>2
<1> HIDE DEF freed
\* with its link
<1>11. referenced \in BOOLEAN /\ freed \in CacheRecords
  BY <1>7, <1>10 DEF RootRecords, OnlyOf
<1> HIDE DEF referenced
<1>12. /\ OnlyOf(freed, linked, h)
       /\ linked.assoc = [freed.assoc EXCEPT ![o][r][h] = freed.assoc[o][r][h] + 1]
       /\ linked.payload[h].copies = freed.payload[h].copies
  BY <1>1, <1>10, <1>11, LinkedIs
<1> HIDE DEF linked
<1>13. /\ linked \in CacheRecords /\ linked.totals = d.totals /\ linked.copy = d.copy /\ linked.root = d.root
       /\ \A g \in Hashes \ {h} : linked.payload[g] = d.payload[g]
       /\ linked.payload[h] # NoPayload /\ linked.payload[h].copies + 1 = CopiesOf(D, h)
       /\ linked.payload[h].copies \in Nat
  BY <1>10, <1>12 DEF OnlyOf
<1>14. linked.payload \in PayloadTables /\ linked.assoc \in LinkTables /\ freed.assoc \in LinkTables
  BY <1>11, <1>13, CacheParts
<1>15. ASSUME NEW p \in Owners, NEW q \in Roots, NEW g \in Hashes
       PROVE  linked.assoc[p][q][g] = CopiesUnder(D, p, q, g)
  <2>1. linked.assoc[p][q][g] = IF p = o /\ q = r /\ g = h THEN freed.assoc[p][q][g] + 1 ELSE freed.assoc[p][q][g]
    BY <1>1, <1>12, <1>14 DEF LinkTables
  <2>2. CopiesUnder(D, p, q, g) \in Nat
    BY HeldFinite
  <2> QED
    BY <1>10, <2>1, <2>2
<1>16. x \in Payloads /\ x.copies = CopiesOf(D, h)
  <2>1. linked.payload[h] \in Payloads
    BY <1>1, <1>13, <1>14 DEF PayloadTables
  <2> DEFINE z == Unstaged(linked.payload[h], protect)
  <2>2. z \in Payloads /\ z.copies = linked.payload[h].copies
    BY <2>1, UnstagedIs
  <2> HIDE DEF z
  <2>3. x = [z EXCEPT !.copies = z.copies + 1]
    BY DEF z, Committed
  <2> QED
    BY <1>13, <2>2, <2>3 DEF Payloads
<1> HIDE DEF x
<1>17. /\ Q \in PayloadTables /\ Q[h] = x
       /\ \A g \in Hashes \ {h} : Q[g] = d.payload[g]
  BY <1>1, <1>13, <1>14, <1>16 DEF PayloadTables
<1>18. ASSUME NEW g \in Hashes PROVE Backed(Q[g], CopiesOf(D, g))
  <2>1. CASE g = h
    BY <1>16, <1>17, <2>1, ChunkConstants DEF Backed
  <2>2. CASE g # h
    <3>1. CopiesOf(D, g) = CopiesOf(C, g)
      BY <1>6, <1>9, <2>2
    <3> QED
      BY <1>2, <1>17, <2>2, <3>1
  <2> QED
    BY <2>1, <2>2
<1>19. m \in Nat /\ ((record.referenced \/ protect) <=> m > 0)
  <2>1. record.count \in Nat /\ record.referenced \in BOOLEAN
    BY <1>7 DEF RootRecords
  <2>2. Max({1, record.count}) = IF 1 >= record.count THEN 1 ELSE record.count
    BY <2>1, MaxOfTwo
  <2> QED
    BY <1>7, <2>1, <2>2
<1> HIDE DEF m
<1>20. y \in RootRecords /\ RootFits(y, ChunksHeld(D, o, r))
  <2>1. ChunksHeld(D, o, r) = record.chunks + k /\ record.chunks + k \in Nat
    BY <1>1, <1>6, <1>7, <1>9
  <2>2. y \in RootRecords /\ (y.referenced <=> y.count > 0) /\ y.chunks = record.chunks + k
    BY <1>11, <1>19, <2>1 DEF RootRecords, referenced
  <2> HIDE DEF y, k
  <2> QED
    BY <2>1, <2>2, ChunkConstants DEF RootFits
<1> HIDE DEF y
<1>21. /\ R \in RootTables /\ R[o][r] = y
       /\ \A p \in Owners, q \in Roots : p # o \/ q # r => R[p][q] = d.root[p][q]
  BY <1>1, <1>3, <1>20 DEF RootTables
<1> HIDE DEF R, Q
<1>22. ASSUME NEW p \in Owners, NEW q \in Roots PROVE RootFits(R[p][q], ChunksHeld(D, p, q))
  <2>1. CASE p = o /\ q = r
    BY <1>20, <1>21, <2>1
  <2>2. CASE ~(p = o /\ q = r)
    <3>1. ChunksHeld(D, p, q) = ChunksHeld(C, p, q)
      BY <1>6, <1>9, <2>2
    <3> QED
      BY <1>2, <1>21, <2>2, <3>1
  <2> QED
    BY <2>1, <2>2
<1>23. n = AllCopies(D)
  BY <1>2, <1>9
<1>24. StoresAgree(Q, D, linked.assoc, R, n)
  BY <1>4, <1>14, <1>15, <1>17, <1>18, <1>21, <1>22, <1>23 DEF StoresAgree
<1>25. Commit(d, o, c, id, protect) = Flush(PutStores(linked, d.payload, D, linked.assoc, R, n), Q, {h})
  <2> DEFINE s == [linked EXCEPT !.payload = d.payload, !.copy[o][c] = id,
                                 !.totals.copies = @ + IF first THEN 1 ELSE 0, !.root[o][r] = y]
  <2>1. Commit(d, o, c, id, protect) = Flush(s, Q, {h})
    BY DEF Commit, linked, freed, record, referenced, r, h, Q, x, y, m
  <2>2. s = PutStores(linked, d.payload, D, linked.assoc, R, n)
    <3> DEFINE t == [d.totals EXCEPT !.copies = n]
    <3>1. s = [linked EXCEPT !.payload = d.payload, !.copy = D, !.totals = t, !.root = R]
      BY <1>13 DEF D, R
    <3>2. PutStores(linked, d.payload, D, linked.assoc, R, n)
              = [linked EXCEPT !.payload = d.payload, !.copy = D, !.assoc = linked.assoc, !.root = R, !.totals = t]
      BY <1>13 DEF PutStores
    <3> HIDE DEF s, t, n
    <3> QED
      BY <1>13, <3>1, <3>2 DEF CacheRecords
  <2> QED
    BY <2>1, <2>2
<1> DEFINE touched == {h}
<1>26. touched \in SUBSET Hashes /\ \A g \in Hashes \ touched : Q[g] = d.payload[g]
  BY <1>1, <1>17
<1> HIDE DEF n, touched
<1>27. CacheOK(Flush(PutStores(linked, d.payload, D, linked.assoc, R, n), Q, touched))
  BY <1>13, <1>14, <1>24, <1>26, PutAgrees
<1> QED
  BY <1>25, <1>27 DEF touched

\* setOwnerRootReferenceCount
LEMMA SetCountAgrees ==
  ASSUME NEW d, CacheOK(d), NEW o \in Owners, NEW r \in Roots, NEW n \in Nat
  PROVE  CacheOK(SetCount(d, o, r, n))
<1> DEFINE was == d.root[o][r]
           old == IF was = NoRoot THEN [chunks |-> 0, referenced |-> FALSE, count |-> 0] ELSE was
           y == [old EXCEPT !.count = n, !.referenced = n > 0]
           linked == {h \in Hashes : d.assoc[o][r][h] > 0 /\ d.payload[h] # NoPayload}
           step(p) == [p EXCEPT !.protected = IF n > 0 THEN @ + 1 ELSE Less(@)]
           R == [d.root EXCEPT ![o][r] = y]
           s == [d EXCEPT !.root[o][r] = y]
           Q == [h \in Hashes |-> IF h \in linked THEN step(d.payload[h]) ELSE d.payload[h]]
<1>1. /\ d \in CacheRecords /\ d.totals.copies = AllCopies(d.copy)
      /\ \A h \in Hashes : Backed(d.payload[h], CopiesOf(d.copy, h))
      /\ \A p \in Owners, q \in Roots, h \in Hashes : d.assoc[p][q][h] = CopiesUnder(d.copy, p, q, h)
      /\ \A p \in Owners, q \in Roots : RootFits(d.root[p][q], ChunksHeld(d.copy, p, q))
  BY AgreeParts
<1>2. /\ d.payload \in PayloadTables /\ d.copy \in CopyTables /\ d.assoc \in LinkTables
      /\ d.root \in RootTables /\ d.totals \in TotalRecords
  BY <1>1, CacheParts
<1>3. y \in RootRecords \cup {NoRoot} /\ RootFits(y, ChunksHeld(d.copy, o, r))
  <2>1. was \in RootRecords \cup {NoRoot} /\ RootFits(was, ChunksHeld(d.copy, o, r))
    BY <1>1, <1>2 DEF RootTables
  <2> HIDE DEF was
  <2>2. old \in RootRecords /\ old.chunks = ChunksHeld(d.copy, o, r)
    BY <2>1 DEF RootFits, RootRecords
  <2> HIDE DEF old
  <2>3. y \in RootRecords /\ y.count = n /\ (y.referenced <=> n > 0) /\ y.chunks = old.chunks
    <3> DEFINE b == n > 0
    <3>1. b \in BOOLEAN /\ y = [old EXCEPT !.count = n, !.referenced = b] /\ (b <=> n > 0)
      OBVIOUS
    <3> HIDE DEF b, y
    <3>2. y.referenced = b /\ y \in RootRecords /\ y.count = n /\ y.chunks = old.chunks
      BY <2>2, <3>1 DEF RootRecords
    <3> QED
      BY <3>1, <3>2
  <2> QED
    BY <2>2, <2>3, ChunkConstants DEF RootFits
<1> HIDE DEF y
<1>4. /\ R \in RootTables /\ R[o][r] = y
      /\ \A p \in Owners, q \in Roots : p # o \/ q # r => R[p][q] = d.root[p][q]
  BY <1>2, <1>3 DEF RootTables
<1>5. s = [d EXCEPT !.root = R]
  OBVIOUS
<1> HIDE DEF R, s
<1>6. /\ s \in CacheRecords /\ s.payload = d.payload /\ s.copy = d.copy /\ s.assoc = d.assoc /\ s.root = R
      /\ s.totals = d.totals
  BY <1>1, <1>4, <1>5 DEF CacheRecords
<1>7. \A p \in Owners, q \in Roots : RootFits(R[p][q], ChunksHeld(d.copy, p, q))
  <2> SUFFICES ASSUME NEW p \in Owners, NEW q \in Roots PROVE RootFits(R[p][q], ChunksHeld(d.copy, p, q))
    OBVIOUS
  <2>1. CASE p = o /\ q = r
    BY <1>3, <1>4, <2>1
  <2>2. CASE ~(p = o /\ q = r)
    BY <1>1, <1>4, <2>2
  <2> QED
    BY <2>1, <2>2
<1>8. Weighed(d.payload, d.totals)
  BY DEF CacheOK, StoresOK
<1>9. CASE was = NoRoot /\ n = 0
  BY <1>9 DEF SetCount
<1>10. CASE ~(was = NoRoot /\ n = 0) /\ was # NoRoot /\ was.referenced = (n > 0)
  <2>1. SetCount(d, o, r, n) = s
    BY <1>10 DEF SetCount, s, y
  <2>2. StoresAgree(d.payload, d.copy, d.assoc, R, d.totals.copies)
    BY <1>1, <1>2, <1>4, <1>7 DEF StoresAgree
  <2> QED
    BY <1>2, <1>6, <1>8, <2>1, <2>2 DEF CacheOK, StoresOK
<1>11. CASE ~(was = NoRoot /\ n = 0) /\ ~(was # NoRoot /\ was.referenced = (n > 0))
  <2>1. SetCount(d, o, r, n) = Flush(s, Q, linked)
    BY <1>11 DEF SetCount, s, y
  <2>2. ASSUME NEW h \in linked
        PROVE  step(d.payload[h]) \in Payloads /\ step(d.payload[h]).copies = d.payload[h].copies
    <3>1. d.payload[h] \in Payloads
      BY <1>2 DEF PayloadTables
    <3> DEFINE k == IF n > 0 THEN d.payload[h].protected + 1 ELSE Less(d.payload[h].protected)
    <3>2. k \in Nat
      <4>1. d.payload[h].protected \in Nat
        BY <3>1 DEF Payloads
      <4>2. Less(d.payload[h].protected) \in Nat
        BY <4>1, LessIs
      <4> QED
        BY <4>1, <4>2
    <3>3. step(d.payload[h]) = [d.payload[h] EXCEPT !.protected = k]
      OBVIOUS
    <3> HIDE DEF k, step
    <3> QED
      BY <3>1, <3>2, <3>3 DEF Payloads
  <2> HIDE DEF step
  <2>3. /\ Q \in PayloadTables
        /\ \A h \in Hashes : IF h \in linked THEN Q[h] = step(d.payload[h]) ELSE Q[h] = d.payload[h]
    BY <1>2, <2>2 DEF PayloadTables
  <2>4. /\ \A h \in linked : d.payload[h] # NoPayload
        /\ linked \in SUBSET Hashes
    OBVIOUS
  <2> HIDE DEF Q, linked
  <2>5. \A h \in Hashes : Backed(Q[h], CopiesOf(d.copy, h))
    <3> SUFFICES ASSUME NEW h \in Hashes PROVE Backed(Q[h], CopiesOf(d.copy, h))
      OBVIOUS
    <3>1. CASE h \in linked
      <4>1. Q[h] # NoPayload /\ Q[h].copies = d.payload[h].copies /\ d.payload[h] # NoPayload
        BY <2>2, <2>3, <2>4, <3>1, ChunkConstants
      <4> QED
        BY <1>1, <4>1 DEF Backed
    <3>2. CASE h \notin linked
      BY <1>1, <2>3, <3>2
    <3> QED
      BY <3>1, <3>2
  <2>6. StoresAgree(Q, s.copy, s.assoc, s.root, s.totals.copies)
    BY <1>1, <1>2, <1>4, <1>6, <1>7, <2>3, <2>5 DEF StoresAgree
  <2>7. \A h \in Hashes \ linked : Q[h] = s.payload[h]
    BY <1>6, <2>3
  <2>8. CacheOK(Flush(s, Q, linked))
    BY <1>6, <1>8, <2>4, <2>6, <2>7, FlushAgrees
  <2> QED
    BY <2>1, <2>8
<1> QED
  BY <1>9, <1>10, <1>11

\* Without the copies of one root of one owner.
Emptied(C, D, o, r) ==
  \A p \in Owners, c \in Chunks : D[p][c] = IF p = o /\ RootOf[c] = r THEN 0 ELSE C[p][c]

\* The pairs of an owner with some chunks are as many as the chunks.
LEMMA PairsAreChunks ==
  ASSUME NEW o, NEW S \in SUBSET Chunks
  PROVE  Cardinality({<<o, c>> : c \in S}) = Cardinality(S)
<1> DEFINE T == {<<o, c>> : c \in S}
           f == [c \in S |-> <<o, c>>]
<1>1. IsFiniteSet(S)
  BY ChunkConstants, FS_Subset
<1>2. f \in Bijection(S, T)
  BY DEF Bijection, Injection, Surjection, IsInjective
<1> HIDE DEF f, T
<1>3. ExistsBijection(S, T)
  BY <1>2 DEF ExistsBijection
<1>4. Cardinality(S) = Cardinality(T)
  BY <1>1, <1>3, FS_Bijection
<1> QED
  BY <1>4 DEF T

\* The counts without them: the links of the root are gone, the others stay.
LEMMA RootEmptied ==
  ASSUME NEW C, NEW D, NEW o \in Owners, NEW r \in Roots, Emptied(C, D, o, r)
  PROVE  /\ AllCopies(D) = AllCopies(C) - ChunksHeld(C, o, r)
         /\ \A h \in Hashes : /\ CopiesOf(D, h) = CopiesOf(C, h) - CopiesUnder(C, o, r, h)
                              /\ CopiesUnder(C, o, r, h) = Cardinality({c \in HeldIn(C, o, r) : HashOf[c] = h})
         /\ \A p \in Owners, q \in Roots, h \in Hashes :
              CopiesUnder(D, p, q, h) = IF p = o /\ q = r THEN 0 ELSE CopiesUnder(C, p, q, h)
         /\ \A p \in Owners, q \in Roots : ChunksHeld(D, p, q) = IF p = o /\ q = r THEN 0 ELSE ChunksHeld(C, p, q)
<1>0. \A p \in Owners, c \in Chunks : D[p][c] = IF p = o /\ RootOf[c] = r THEN 0 ELSE C[p][c]
  BY DEF Emptied
<1>1. \A p \in Owners \X Chunks : D[p[1]][p[2]] = IF p[1] = o /\ RootOf[p[2]] = r THEN 0 ELSE C[p[1]][p[2]]
  BY <1>0
<1>2. \A S, T : IsFiniteSet(S) /\ T \subseteq S => /\ IsFiniteSet(T) /\ Cardinality(T) \in Nat
                                                /\ Cardinality(S) \in Nat
                                                /\ Cardinality(S \ T) = Cardinality(S) - Cardinality(T)
  <2> SUFFICES ASSUME NEW S, NEW T, IsFiniteSet(S), T \subseteq S
               PROVE  /\ IsFiniteSet(T) /\ Cardinality(T) \in Nat /\ Cardinality(S) \in Nat
                      /\ Cardinality(S \ T) = Cardinality(S) - Cardinality(T)
    OBVIOUS
  <2>1. IsFiniteSet(T) /\ S \cap T = T
    BY FS_Subset
  <2>2. Cardinality(S \ T) = Cardinality(S) - Cardinality(S \cap T)
    BY FS_Difference, <2>1
  <2> QED
    BY <2>1, <2>2, FS_CardinalityType
<1>3. AllCopies(D) = AllCopies(C) - ChunksHeld(C, o, r)
  <2> DEFINE T == {<<o, c>> : c \in HeldIn(C, o, r)}
  <2>1. T \subseteq HeldPairs(C) /\ HeldPairs(D) = HeldPairs(C) \ T
    BY <1>1 DEF HeldPairs, HeldIn, ChunksOf
  <2>2. Cardinality(T) = ChunksHeld(C, o, r)
    <3>1. HeldIn(C, o, r) \in SUBSET Chunks
      BY DEF HeldIn, ChunksOf
    <3> QED
      BY <3>1, PairsAreChunks DEF ChunksHeld
  <2> HIDE DEF T
  <2> QED
    BY <1>2, <2>1, <2>2, HeldFinite DEF AllCopies
<1>4. ASSUME NEW h \in Hashes
      PROVE  /\ CopiesOf(D, h) = CopiesOf(C, h) - CopiesUnder(C, o, r, h)
             /\ CopiesUnder(C, o, r, h) = Cardinality({c \in HeldIn(C, o, r) : HashOf[c] = h})
  <2>1. HeldUnder(C, o, r, h) \subseteq HeldOf(C, h) /\ HeldOf(D, h) = HeldOf(C, h) \ HeldUnder(C, o, r, h)
    BY <1>1 DEF HeldUnder, HeldOf
  <2>2. CopiesOf(D, h) = CopiesOf(C, h) - CopiesUnder(C, o, r, h)
    BY <1>2, <2>1, HeldFinite DEF CopiesOf, CopiesUnder
  <2> DEFINE S == {c \in HeldIn(C, o, r) : HashOf[c] = h}
             T == {<<o, c>> : c \in S}
  <2>3. S \in SUBSET Chunks /\ T = HeldUnder(C, o, r, h)
    BY DEF HeldIn, ChunksOf, HeldUnder, HeldOf
  <2>4. Cardinality(T) = Cardinality(S)
    <3> HIDE DEF S
    <3> QED
      BY <2>3, PairsAreChunks
  <2> HIDE DEF T
  <2> QED
    BY <2>2, <2>3, <2>4 DEF CopiesUnder
<1>5. Cardinality({}) = 0
  BY FS_EmptySet
<1>6. ASSUME NEW p \in Owners, NEW q \in Roots, NEW h \in Hashes
      PROVE  CopiesUnder(D, p, q, h) = IF p = o /\ q = r THEN 0 ELSE CopiesUnder(C, p, q, h)
  <2>1. CASE p = o /\ q = r
    <3>1. HeldUnder(D, p, q, h) = {}
      BY <1>1, <2>1 DEF HeldUnder, HeldOf
    <3> QED
      BY <1>5, <2>1, <3>1 DEF CopiesUnder
  <2>2. CASE ~(p = o /\ q = r)
    <3>1. HeldUnder(D, p, q, h) = HeldUnder(C, p, q, h)
      BY <1>1, <2>2 DEF HeldUnder, HeldOf
    <3> QED
      BY <2>2, <3>1 DEF CopiesUnder
  <2> QED
    BY <2>1, <2>2
<1>7. ASSUME NEW p \in Owners, NEW q \in Roots
      PROVE  ChunksHeld(D, p, q) = IF p = o /\ q = r THEN 0 ELSE ChunksHeld(C, p, q)
  <2>1. CASE p = o /\ q = r
    <3>1. HeldIn(D, p, q) = {}
      BY <1>0, <2>1 DEF HeldIn, ChunksOf
    <3> QED
      BY <1>5, <2>1, <3>1 DEF ChunksHeld
  <2>2. CASE ~(p = o /\ q = r)
    <3>1. HeldIn(D, p, q) = HeldIn(C, p, q)
      BY <1>0, <2>2 DEF HeldIn, ChunksOf
    <3> QED
      BY <2>2, <3>1 DEF ChunksHeld
  <2> QED
    BY <2>1, <2>2
<1> QED
  BY <1>3, <1>4, <1>6, <1>7

\* removeOwnerRootCopies
LEMMA RemoveRootAgrees ==
  ASSUME NEW d, CacheOK(d), NEW o \in Owners, NEW r \in Roots
  PROVE  CacheOK(RemoveRoot(d, o, r))
<1> DEFINE C == d.copy
           copies == {c \in ChunksOf(r) : d.copy[o][c] # 0}
           number(h) == Cardinality({c \in copies : HashOf[c] = h})
           linked == {h \in Hashes : d.assoc[o][r][h] > 0}
           fewer(p, h) == [p EXCEPT !.copies = Max({0, @ - number(h)}),
                                    !.protected = IF h \in linked /\ Referenced(d, o, r) THEN Less(@) ELSE @]
           Q == [h \in Hashes |-> IF d.payload[h] = NoPayload THEN NoPayload ELSE fewer(d.payload[h], h)]
           D == [d.copy EXCEPT ![o] = [c \in Chunks |-> IF c \in copies THEN 0 ELSE @[c]]]
           L == [d.assoc EXCEPT ![o][r] = [h \in Hashes |-> 0]]
           R == [d.root EXCEPT ![o][r] = NoRoot]
           n == d.totals.copies - Cardinality(copies)
           touched == linked \cup {HashOf[c] : c \in copies}
<1>1. /\ d \in CacheRecords /\ d.totals.copies = AllCopies(C)
      /\ \A h \in Hashes : Backed(d.payload[h], CopiesOf(C, h))
      /\ \A p \in Owners, q \in Roots, h \in Hashes : d.assoc[p][q][h] = CopiesUnder(C, p, q, h)
      /\ \A p \in Owners, q \in Roots : RootFits(d.root[p][q], ChunksHeld(C, p, q))
  BY AgreeParts
<1>2. /\ d.payload \in PayloadTables /\ d.copy \in CopyTables /\ d.assoc \in LinkTables
      /\ d.root \in RootTables /\ d.totals \in TotalRecords
  BY <1>1, CacheParts
<1>3. copies = HeldIn(C, o, r)
  BY DEF HeldIn
<1>4. D \in CopyTables /\ Emptied(C, D, o, r)
  BY <1>2 DEF CopyTables, Emptied, ChunksOf
<1>5. L \in LinkTables /\ \A p \in Owners, q \in Roots, h \in Hashes : L[p][q][h] = IF p = o /\ q = r THEN 0 ELSE d.assoc[p][q][h]
  BY <1>2 DEF LinkTables
<1>6. R \in RootTables /\ \A p \in Owners, q \in Roots : R[p][q] = IF p = o /\ q = r THEN NoRoot ELSE d.root[p][q]
  BY <1>2 DEF RootTables
<1>7. touched \in SUBSET Hashes
  BY ChunkConstants DEF ChunksOf
<1>8. /\ AllCopies(D) = AllCopies(C) - ChunksHeld(C, o, r)
      /\ \A h \in Hashes : /\ CopiesOf(D, h) = CopiesOf(C, h) - CopiesUnder(C, o, r, h)
                           /\ CopiesUnder(C, o, r, h) = Cardinality({c \in HeldIn(C, o, r) : HashOf[c] = h})
      /\ \A p \in Owners, q \in Roots, h \in Hashes :
           CopiesUnder(D, p, q, h) = IF p = o /\ q = r THEN 0 ELSE CopiesUnder(C, p, q, h)
      /\ \A p \in Owners, q \in Roots : ChunksHeld(D, p, q) = IF p = o /\ q = r THEN 0 ELSE ChunksHeld(C, p, q)
  <2> HIDE DEF D, C
  <2> QED
    BY <1>4, RootEmptied
<1>9. \A p, q, h : /\ CopiesOf(C, h) \in Nat /\ CopiesOf(D, h) \in Nat
                   /\ CopiesUnder(C, p, q, h) \in Nat /\ AllCopies(D) \in Nat
  BY HeldFinite
<1>10. \A h \in Hashes : number(h) = CopiesUnder(C, o, r, h)
  BY <1>3, <1>8
<1>11. \A h \in Hashes : h \notin touched => number(h) = 0 /\ h \notin linked
  <2>1. ASSUME NEW h \in Hashes, h \notin touched PROVE {c \in copies : HashOf[c] = h} = {}
    BY <2>1
  <2>2. Cardinality({}) = 0
    BY FS_EmptySet
  <2> QED
    BY <2>1, <2>2
<1> HIDE DEF D, C, L, R, number, linked, touched
<1>12. ASSUME NEW h \in Hashes, d.payload[h] # NoPayload
       PROVE  /\ fewer(d.payload[h], h) \in Payloads
              /\ fewer(d.payload[h], h).copies = CopiesOf(D, h)
              /\ h \notin touched => fewer(d.payload[h], h) = d.payload[h]
  <2> DEFINE p == d.payload[h]
             i == Max({0, p.copies - number(h)})
             j == IF h \in linked /\ Referenced(d, o, r) THEN Less(p.protected) ELSE p.protected
  <2>1. p \in Payloads /\ p.copies = CopiesOf(C, h)
    BY <1>1, <1>2, <1>12 DEF PayloadTables, Backed
  <2>2. p.copies - number(h) = CopiesOf(D, h)
    BY <1>8, <1>10, <2>1
  <2>3. i = CopiesOf(D, h) /\ CopiesOf(D, h) \in Nat
    <3> DEFINE m == p.copies - number(h)
    <3>1. m \in Nat
      BY <1>9, <2>2
    <3> HIDE DEF m
    <3>2. Max({0, m}) = IF 0 >= m THEN 0 ELSE m
      BY <3>1, MaxOfTwo
    <3>3. Max({0, m}) = m
      BY <3>1, <3>2
    <3> QED
      BY <1>9, <2>2, <3>3 DEF m
  <2>4. j \in Nat
    <3>1. p.protected \in Nat
      BY <2>1 DEF Payloads
    <3>2. Less(p.protected) \in Nat
      BY <3>1, LessIs
    <3> QED
      BY <3>1, <3>2
  <2>5. fewer(p, h) = [p EXCEPT !.copies = i, !.protected = j]
    OBVIOUS
  <2>6. h \notin touched => i = p.copies /\ j = p.protected
    <3> SUFFICES ASSUME h \notin touched PROVE i = p.copies /\ j = p.protected
      OBVIOUS
    <3>1. number(h) = 0 /\ h \notin linked
      BY <1>11
    <3>2. p.copies \in Nat
      BY <2>1 DEF Payloads
    <3>3. i = p.copies
      BY <2>2, <2>3, <3>1, <3>2
    <3>4. j = p.protected
      BY <3>1
    <3> QED
      BY <3>3, <3>4
  <2> HIDE DEF i, j, fewer, p
  <2>7. fewer(p, h) \in Payloads /\ fewer(p, h).copies = CopiesOf(D, h)
    BY <2>1, <2>3, <2>4, <2>5 DEF Payloads
  <2>8. h \notin touched => fewer(p, h) = p
    BY <2>1, <2>5, <2>6 DEF Payloads
  <2> QED
    BY <2>7, <2>8 DEF p
<1> HIDE DEF fewer
<1>13. Q \in PayloadTables /\ \A h \in Hashes : Q[h] = IF d.payload[h] = NoPayload THEN NoPayload ELSE fewer(d.payload[h], h)
  BY <1>12 DEF PayloadTables
<1> HIDE DEF Q
<1>14. ASSUME NEW h \in Hashes PROVE Backed(Q[h], CopiesOf(D, h))
  <2>1. CASE d.payload[h] = NoPayload
    <3>1. Q[h] = NoPayload
      BY <1>13, <2>1
    <3>2. CopiesOf(C, h) = 0
      BY <1>1, <2>1 DEF Backed
    <3>3. CopiesOf(D, h) = CopiesOf(C, h) - CopiesUnder(C, o, r, h) /\ CopiesOf(D, h) \in Nat /\ CopiesUnder(C, o, r, h) \in Nat
      BY <1>8, <1>9
    <3>4. CopiesOf(D, h) = 0
      BY <3>2, <3>3
    <3> QED
      BY <3>1, <3>4 DEF Backed
  <2>2. CASE d.payload[h] # NoPayload
    <3>1. Q[h] \in Payloads /\ Q[h].copies = CopiesOf(D, h)
      BY <1>12, <1>13, <2>2
    <3> QED
      BY <3>1, ChunkConstants DEF Backed
  <2> QED
    BY <2>1, <2>2
<1>15. \A p \in Owners, q \in Roots, h \in Hashes : L[p][q][h] = CopiesUnder(D, p, q, h)
  BY <1>1, <1>5, <1>8
<1>16. \A p \in Owners, q \in Roots : RootFits(R[p][q], ChunksHeld(D, p, q))
  <2> SUFFICES ASSUME NEW p \in Owners, NEW q \in Roots PROVE RootFits(R[p][q], ChunksHeld(D, p, q))
    OBVIOUS
  <2>1. CASE p = o /\ q = r
    BY <1>6, <1>8, <2>1 DEF RootFits
  <2>2. CASE ~(p = o /\ q = r)
    BY <1>1, <1>6, <1>8, <2>2
  <2> QED
    BY <2>1, <2>2
<1>17. n = AllCopies(D)
  BY <1>1, <1>3, <1>8 DEF ChunksHeld
<1>18. StoresAgree(Q, D, L, R, n)
  BY <1>4, <1>5, <1>6, <1>13, <1>14, <1>15, <1>16, <1>17 DEF StoresAgree
<1>19. \A h \in Hashes \ touched : Q[h] = d.payload[h]
  BY <1>12, <1>13
<1>20. RemoveRoot(d, o, r) = Flush(PutStores(d, d.payload, D, L, R, n), Q, touched)
  <2> DEFINE s == [d EXCEPT !.copy[o] = [c \in Chunks |-> IF c \in copies THEN 0 ELSE @[c]],
                            !.assoc[o][r] = [h \in Hashes |-> 0],
                            !.root[o][r] = NoRoot,
                            !.totals.copies = @ - Cardinality(copies)]
  <2>1. RemoveRoot(d, o, r) = Flush(s, Q, touched)
    BY DEF RemoveRoot, Q, fewer, number, linked, touched
  <2>2. s = PutStores(d, d.payload, D, L, R, n)
    <3> DEFINE t == [d.totals EXCEPT !.copies = n]
    <3>1. s = [d EXCEPT !.copy = D, !.assoc = L, !.root = R, !.totals = t]
      BY DEF D, L, R
    <3>2. PutStores(d, d.payload, D, L, R, n)
            = [d EXCEPT !.payload = d.payload, !.copy = D, !.assoc = L, !.root = R, !.totals = t]
      BY DEF PutStores
    <3> HIDE DEF s, t, n
    <3> QED
      BY <1>1, <3>1, <3>2 DEF CacheRecords
  <2> QED
    BY <2>1, <2>2
<1> HIDE DEF n
<1>21. CacheOK(Flush(PutStores(d, d.payload, D, L, R, n), Q, touched))
  BY <1>1, <1>5, <1>7, <1>18, <1>19, PutAgrees
<1> QED
  BY <1>20, <1>21

-----------------------------------------------------------------------------
\* What the tasks hold between two transactions: the numbers they counted, and
\* the owners, roots and chunks they are about.
AddPcs == {"new", "counted", "stage", "staged", "pressed", "stored", "refused", "done"}
PurgePcs == {"none", "count", "cited", "uncited", "check", "rows", "copies"}
AddTyped == add \in [Adds -> [pc : AddPcs, n : Nat]]
PurgeTyped ==
  /\ purge \in [Workers -> [pc : PurgePcs, owner : Owners \cup {"none"}, root : Roots \cup {"none"}, force : BOOLEAN]]
  /\ \A w \in Workers : purge[w].pc # "none" => purge[w].owner \in Owners /\ purge[w].root \in Roots
KeepTyped ==
  /\ keep.pc # "idle" => keep.owner \in Owners /\ keep.n \in Nat
  /\ keep.pc = "unlink" => keep.item \in Chunks
  /\ keep.pc = "count" => keep.item \in Roots
  /\ keep.pc \in {"relink", "drop"} => keep.item[1] \in Chunks /\ keep.item[2] \in Nat \ {0}
UnlinkHooks == [op : {"unlink"}, owner : Owners, chunk : Chunks, id : Nat]
RecountHooks == [op : {"recount"}, owner : Owners, root : Roots, n : Nat \cup {-1}]
LaterTyped == later \subseteq UnlinkHooks \cup RecountHooks
TasksTyped == plan \in Plans /\ row \in CopyTables /\ AddTyped /\ PurgeTyped /\ KeepTyped /\ LaterTyped

ChunkInv == CacheOK(cache) /\ TasksTyped

\* The chunk events that arrive, and the references that are counted.
LEMMA AddsTyped ==
  /\ \A a \in Adds : /\ a.owner \in Owners /\ a.chunk \in Chunks /\ a.id \in Nat /\ a.id # 0
                     /\ RootOf[a.chunk] \in Roots /\ HashOf[a.chunk] \in Hashes
  /\ \A o, r : Count(o, r) \in Nat
<1>1. ASSUME NEW a \in Adds PROVE a \in [owner : Owners, chunk : Chunks, id : Nat \ {0}]
  <2>1. PICK p \in Plans : a \in p.adds
    BY DEF Adds
  <2> QED
    BY <2>1, ChunkConstants
<1> QED
  BY <1>1, ChunkConstants DEF Count

\* Every transaction of the shared stores leaves them in agreement.
LEMMA CacheStep == ChunkInv /\ [NextChunks]_chunkVars => CacheOK(cache)'
<1> SUFFICES ASSUME ChunkInv, [NextChunks]_chunkVars PROVE CacheOK(cache')
  OBVIOUS
<1>0. CacheOK(cache) /\ AddTyped /\ PurgeTyped /\ KeepTyped /\ LaterTyped
  BY DEF ChunkInv, TasksTyped
<1>1. CASE UNCHANGED cache
  BY <1>0, <1>1
<1>2. ASSUME NEW a \in Adds, AddSetCount(a) PROVE CacheOK(cache')
  <2>1. add[a].n \in Nat
    BY <1>0 DEF AddTyped
  <2>2. CacheOK(SetCount(cache, a.owner, RootOf[a.chunk], add[a].n))
    BY <1>0, <2>1, AddsTyped, SetCountAgrees
  <2> QED
    BY <1>0, <1>2, <2>2 DEF AddSetCount
<1>3. ASSUME NEW a \in Adds, AddStage(a) PROVE CacheOK(cache')
  <2>1. Protects(a) \in BOOLEAN
    BY DEF Protects
  <2>2. CacheOK(Stage(cache, HashOf[a.chunk], Protects(a)))
    BY <1>0, <2>1, AddsTyped, StageAgrees
  <2> QED
    BY <1>0, <1>3, <2>2 DEF AddStage
<1>4. ASSUME NEW a \in Adds, AddCommit(a) PROVE CacheOK(cache')
  <2>1. Protects(a) \in BOOLEAN
    BY DEF Protects
  <2>2. CASE a.owner \in gone \/ ~CanCommit(cache, a.chunk)
    BY <1>0, <1>4, <2>2 DEF AddCommit
  <2>3. CASE ~(a.owner \in gone \/ ~CanCommit(cache, a.chunk))
    <3>1. cache.payload[HashOf[a.chunk]] # NoPayload
      BY <2>3 DEF CanCommit
    <3>2. CacheOK(Commit(cache, a.owner, a.chunk, a.id, Protects(a)))
      BY <1>0, <2>1, <3>1, AddsTyped, CommitAgrees
    <3> QED
      BY <1>4, <2>3, <3>2 DEF AddCommit
  <2> QED
    BY <2>2, <2>3
<1>5. ASSUME NEW a \in Adds, AddAbort(a) PROVE CacheOK(cache')
  <2>1. Protects(a) \in BOOLEAN
    BY DEF Protects
  <2>2. CacheOK(AbortStage(cache, HashOf[a.chunk], Protects(a)))
    BY <1>0, <2>1, AddsTyped, AbortStageAgrees
  <2> QED
    BY <1>5, <2>2 DEF AddAbort
<1>6. ASSUME NEW l \in later, UnlinkLater(l) PROVE CacheOK(cache')
  <2>1. l.owner \in Owners /\ l.chunk \in Chunks
    BY <1>0, <1>6 DEF LaterTyped, UnlinkLater, UnlinkHooks, RecountHooks
  <2>2. CacheOK(RemoveCopy(cache, l.owner, l.chunk, l.id))
    BY <1>0, <2>1, RemoveCopyAgrees
  <2> QED
    BY <1>6, <2>2 DEF UnlinkLater
<1>7. ASSUME NEW l \in later, RecountLater(l) PROVE CacheOK(cache')
  <2>1. l.owner \in Owners /\ l.root \in Roots /\ (l.n # -1 => l.n \in Nat)
    BY <1>0, <1>7 DEF LaterTyped, RecountLater, UnlinkHooks, RecountHooks
  <2>2. l.n # -1 => CacheOK(SetCount(cache, l.owner, l.root, l.n))
    BY <1>0, <2>1, SetCountAgrees
  <2> QED
    BY <1>0, <1>7, <2>2 DEF RecountLater
<1>8. ASSUME NEW w \in Workers, PurgeSetCount(w) PROVE CacheOK(cache')
  <2> DEFINE n == IF Purges(w, "cited") THEN 1 ELSE 0
  <2>1. purge[w].owner \in Owners /\ purge[w].root \in Roots /\ n \in Nat
    BY <1>0, <1>8 DEF PurgeTyped, PurgeSetCount
  <2>2. cache' = cache \/ cache' = SetCount(cache, purge[w].owner, purge[w].root, n)
    BY <1>8 DEF PurgeSetCount
  <2> HIDE DEF n
  <2>3. CacheOK(SetCount(cache, purge[w].owner, purge[w].root, n))
    BY <1>0, <2>1, SetCountAgrees
  <2> QED
    BY <1>0, <2>2, <2>3
<1>9. ASSUME NEW w \in Workers, PurgeCopies(w) PROVE CacheOK(cache')
  <2>1. purge[w].owner \in Owners /\ purge[w].root \in Roots
    BY <1>0, <1>9 DEF PurgeTyped, PurgeCopies, Purges
  <2>2. CacheOK(RemoveRoot(cache, purge[w].owner, purge[w].root))
    BY <1>0, <2>1, RemoveRootAgrees
  <2> QED
    BY <1>9, <2>2 DEF PurgeCopies
<1>10. CASE KeepUnlink
  <2>1. keep.owner \in Owners /\ keep.item \in Chunks
    BY <1>0, <1>10 DEF KeepTyped, KeepUnlink, KeepAt
  <2>2. CacheOK(RemoveCopy(cache, keep.owner, keep.item, 0))
    BY <1>0, <2>1, RemoveCopyAgrees
  <2> QED
    BY <1>10, <2>2 DEF KeepUnlink
<1>11. CASE KeepRelink
  <2> DEFINE c == keep.item[1]
             id == keep.item[2]
             protect == keep.n > 0
  <2>1. keep.owner \in Owners /\ c \in Chunks /\ id \in Nat /\ id # 0 /\ protect \in BOOLEAN
    BY <1>0, <1>11 DEF KeepTyped, KeepRelink, KeepAt
  <2>2. cache' = IF CanCommit(cache, c) THEN Commit(cache, keep.owner, c, id, protect) ELSE cache
    BY <1>11 DEF KeepRelink
  <2> HIDE DEF c, id, protect
  <2>3. CASE CanCommit(cache, c)
    <3>1. cache.payload[HashOf[c]] # NoPayload
      BY <2>3 DEF CanCommit
    <3>2. CacheOK(Commit(cache, keep.owner, c, id, protect))
      BY <1>0, <2>1, <3>1, CommitAgrees
    <3> QED
      BY <2>2, <2>3, <3>2
  <2>4. CASE ~CanCommit(cache, c)
    BY <1>0, <2>2, <2>4
  <2> QED
    BY <2>3, <2>4
<1>12. CASE KeepCount
  <2>1. keep.owner \in Owners /\ keep.item \in Roots /\ keep.n \in Nat
    BY <1>0, <1>12 DEF KeepTyped, KeepCount, KeepAt
  <2>2. CacheOK(SetCount(cache, keep.owner, keep.item, keep.n))
    BY <1>0, <2>1, SetCountAgrees
  <2> QED
    BY <1>12, <2>2 DEF KeepCount
<1>13. ASSUME NEW h \in Hashes, KeepStages(h) PROVE CacheOK(cache')
  BY <1>0, <1>13, DropStagesAgrees DEF KeepStages
<1>14. ASSUME NEW o \in Owners, ClearOwner(o) PROVE CacheOK(cache')
  <2>1. \A r \in Roots : CacheOK(RemoveRoot(cache, o, r))
    BY <1>0, RemoveRootAgrees
  <2> QED
    BY <1>0, <1>14, <2>1 DEF ClearOwner
<1>15. UNCHANGED cache
         \/ (\E a \in Adds : AddSetCount(a) \/ AddStage(a) \/ AddCommit(a) \/ AddAbort(a))
         \/ (\E l \in later : UnlinkLater(l) \/ RecountLater(l))
         \/ (\E w \in Workers : PurgeSetCount(w) \/ PurgeCopies(w))
         \/ KeepUnlink \/ KeepRelink \/ KeepCount
         \/ (\E h \in Hashes : KeepStages(h)) \/ (\E o \in Owners : ClearOwner(o))
  BY DEF NextChunks, chunkVars, Users, Work, Hooks, Keeping, Adding, Purging, Crash, AddCount, AddMakeRoom, AddStore,
         DeleteChunk, Cite, Uncite, Leave, PurgeCount, PurgeCheck, PurgeRows, LookAtLink, LookAtRow, KeepDrop,
         LookAtRoot, KeepPurge, KeepRevoked
<1> QED
  BY <1>1, <1>2, <1>3, <1>4, <1>5, <1>6, <1>7, <1>8, <1>9, <1>10, <1>11, <1>12, <1>13, <1>14, <1>15

\* The rows and the plan.
LEMMA RowStep == ChunkInv /\ [NextChunks]_chunkVars => (plan \in Plans /\ row \in CopyTables)'
<1> SUFFICES ASSUME ChunkInv, [NextChunks]_chunkVars PROVE plan' \in Plans /\ row' \in CopyTables
  OBVIOUS
<1>0. plan \in Plans /\ row \in CopyTables /\ KeepTyped /\ PurgeTyped
  BY DEF ChunkInv, TasksTyped
<1>1. plan' = plan
  BY DEF NextChunks, chunkVars, Users, Work, Hooks, Keeping, Adding, Purging, Crash, AddCount, AddSetCount, AddStage,
         AddMakeRoom, AddStore, AddCommit, AddAbort, DeleteChunk, Cite, Uncite, Leave, UnlinkLater, RecountLater,
         PurgeCount, PurgeSetCount, PurgeCheck, PurgeRows, PurgeCopies, LookAtLink, LookAtRow, KeepUnlink, KeepRelink,
         KeepDrop, LookAtRoot, KeepCount, KeepPurge, KeepStages, KeepRevoked, ClearOwner, store
<1>2. CASE UNCHANGED row
  BY <1>0, <1>1, <1>2
<1>3. \A o \in Owners, c \in Chunks, id \in Nat : [row EXCEPT ![o][c] = id] \in CopyTables
  BY <1>0 DEF CopyTables
<1>5. ASSUME NEW a \in Adds, AddStore(a) PROVE row' \in CopyTables
  BY <1>0, <1>3, <1>5, AddsTyped DEF AddStore
<1>6. ASSUME NEW o \in Owners, NEW c \in Chunks, DeleteChunk(o, c) PROVE row' \in CopyTables
  BY <1>3, <1>6 DEF DeleteChunk
<1>7. ASSUME NEW w \in Workers, PurgeRows(w) PROVE row' \in CopyTables
  <2> DEFINE o == purge[w].owner
             found == FirstRows(o, purge[w].root)
             g == [c \in Chunks |-> IF c \in found THEN 0 ELSE row[o][c]]
  <2>1. o \in Owners
    BY <1>0, <1>7 DEF PurgeTyped, PurgeRows, Purges
  <2>2. row' = row \/ row' = [row EXCEPT ![o] = g]
    BY <1>7 DEF PurgeRows
  <2>3. g \in [Chunks -> Nat]
    BY <1>0, <2>1 DEF CopyTables
  <2> HIDE DEF g, o
  <2> QED
    BY <1>0, <2>1, <2>2, <2>3 DEF CopyTables
<1>8. CASE KeepDrop
  <2>1. keep.owner \in Owners /\ keep.item[1] \in Chunks
    BY <1>0, <1>8 DEF KeepTyped, KeepDrop, KeepAt
  <2> QED
    BY <1>0, <1>3, <1>8, <2>1 DEF KeepDrop
<1>9. ASSUME NEW o \in Owners, Leave(o) PROVE row' \in CopyTables
  <2>1. row' = [row EXCEPT ![o] = [c \in Chunks |-> 0]]
    BY <1>9 DEF Leave
  <2> QED
    BY <1>0, <2>1 DEF CopyTables
<1>10. UNCHANGED row \/ KeepDrop
         \/ (\E a \in Adds : AddStore(a)) \/ (\E o \in Owners, c \in Chunks : DeleteChunk(o, c))
         \/ (\E w \in Workers : PurgeRows(w)) \/ (\E o \in Owners : Leave(o))
  BY DEF NextChunks, chunkVars, Users, Work, Hooks, Keeping, Adding, Purging, Crash, AddCount, AddSetCount, AddStage,
         AddMakeRoom, AddCommit, AddAbort, Cite, Uncite, UnlinkLater, RecountLater,
         PurgeCount, PurgeSetCount, PurgeCheck, PurgeCopies, LookAtLink, LookAtRow, KeepUnlink, KeepRelink,
         LookAtRoot, KeepCount, KeepPurge, KeepStages, KeepRevoked, ClearOwner, store
<1> QED
  BY <1>0, <1>1, <1>2, <1>5, <1>6, <1>7, <1>8, <1>9, <1>10

\* The chunk events on their way.
LEMMA AddStep == ChunkInv /\ [NextChunks]_chunkVars => AddTyped'
<1> SUFFICES ASSUME ChunkInv, [NextChunks]_chunkVars PROVE AddTyped'
  OBVIOUS
<1>0. add \in [Adds -> [pc : AddPcs, n : Nat]]
  BY DEF ChunkInv, TasksTyped, AddTyped
<1>1. CASE UNCHANGED add
  BY <1>0, <1>1 DEF AddTyped
<1>2. ASSUME NEW a \in Adds, NEW pc \in AddPcs, Goes(a, pc) PROVE AddTyped'
  <2> DEFINE n == IF pc = "done" THEN 0 ELSE add[a].n
  <2>1. n \in Nat /\ add' = [add EXCEPT ![a] = [pc |-> pc, n |-> n]]
    BY <1>0, <1>2 DEF Goes
  <2> HIDE DEF n
  <2> QED
    BY <1>0, <2>1 DEF AddTyped
<1>3. ASSUME NEW a \in Adds, Adding(a) PROVE AddTyped'
  <2>1. CASE AddCount(a)
    <3> DEFINE n == Count(a.owner, RootOf[a.chunk])
    <3>1. n \in Nat /\ add' = [add EXCEPT ![a] = [pc |-> "counted", n |-> n]]
      BY <2>1, AddsTyped DEF AddCount
    <3> HIDE DEF n
    <3> QED
      BY <1>0, <3>1 DEF AddTyped, AddPcs
  <2>2. CASE AddSetCount(a) \/ AddStage(a) \/ AddMakeRoom(a) \/ AddStore(a) \/ AddCommit(a) \/ AddAbort(a)
    <3>1. \E pc \in AddPcs : Goes(a, pc)
      BY <2>2 DEF AddSetCount, AddStage, AddMakeRoom, AddStore, AddCommit, AddAbort, AddPcs
    <3> QED
      BY <1>2, <3>1
  <2> QED
    BY <1>3, <2>1, <2>2 DEF Adding
<1>4. CASE Crash
  <2>1. add' = [a \in Adds |-> IF add[a].pc = "new" THEN add[a] ELSE [pc |-> "done", n |-> 0]]
    BY <1>4 DEF Crash
  <2> QED
    BY <1>0, <2>1 DEF AddTyped, AddPcs
<1>5. UNCHANGED add \/ Crash \/ (\E a \in Adds : Adding(a))
  BY DEF NextChunks, chunkVars, Users, Work, Hooks, Keeping, Purging, tasks, DeleteChunk, Cite, Uncite, Leave,
         UnlinkLater, RecountLater, PurgeCount, PurgeSetCount, PurgeCheck, PurgeRows, PurgeCopies, LookAtLink, LookAtRow,
         KeepUnlink, KeepRelink, KeepDrop, LookAtRoot, KeepCount, KeepPurge, KeepStages, KeepRevoked, ClearOwner
<1> QED
  BY <1>1, <1>3, <1>4, <1>5

\* The purges.
LEMMA PurgeStep == ChunkInv /\ [NextChunks]_chunkVars => PurgeTyped'
<1> SUFFICES ASSUME ChunkInv, [NextChunks]_chunkVars PROVE PurgeTyped'
  OBVIOUS
<1> DEFINE Tasks == [pc : PurgePcs, owner : Owners \cup {"none"}, root : Roots \cup {"none"}, force : BOOLEAN]
           Ok(p) == p \in Tasks /\ (p.pc # "none" => p.owner \in Owners /\ p.root \in Roots)
<1>0. purge \in [Workers -> Tasks] /\ \A w \in Workers : Ok(purge[w])
  BY DEF ChunkInv, TasksTyped, PurgeTyped
<1>1. CASE UNCHANGED purge
  BY <1>0, <1>1 DEF PurgeTyped
<1>2. ASSUME NEW w \in Workers, NEW x, Ok(x), purge' = [purge EXCEPT ![w] = x] PROVE PurgeTyped'
  BY <1>0, <1>2 DEF PurgeTyped
<1>3. ASSUME NEW w \in Workers, PurgeEnds(w) PROVE PurgeTyped'
  <2>1. Ok(NoPurge)
    BY DEF NoPurge, PurgePcs
  <2> HIDE DEF Ok
  <2> QED
    BY <1>2, <1>3, <2>1 DEF PurgeEnds
<1>4. ASSUME NEW w \in Workers, NEW pc \in PurgePcs, purge[w].pc # "none", PurgeGoes(w, pc) PROVE PurgeTyped'
  <2> DEFINE x == [purge[w] EXCEPT !.pc = pc]
  <2>1. purge' = [purge EXCEPT ![w] = x]
    BY <1>4 DEF PurgeGoes
  <2>2. Ok(x)
    BY <1>0, <1>4
  <2> HIDE DEF x, Ok
  <2> QED
    BY <1>2, <2>1, <2>2
<1>5. ASSUME NEW w \in Workers, Purging(w) PROVE PurgeTyped'
  <2>1. UNCHANGED purge \/ PurgeEnds(w) \/ (\E pc \in PurgePcs : purge[w].pc # "none" /\ PurgeGoes(w, pc))
    BY <1>5 DEF Purging, PurgeCount, PurgeSetCount, PurgeCheck, PurgeRows, PurgeCopies, Purges, PurgePcs
  <2> QED
    BY <1>1, <1>3, <1>4, <2>1
<1>6. ASSUME NEW a \in Adds, AddMakeRoom(a) PROVE PurgeTyped'
  <2>1. CASE UNCHANGED purge
    BY <1>1, <2>1
  <2>2. ASSUME NEW p \in Open,
               purge' = [purge EXCEPT ![a] = [pc |-> "count", owner |-> p[1], root |-> p[2], force |-> TRUE]]
        PROVE PurgeTyped'
    <3> DEFINE x == [pc |-> "count", owner |-> p[1], root |-> p[2], force |-> TRUE]
    <3>1. p[1] \in Owners /\ p[2] \in Roots /\ a \in Workers
      BY DEF Open, Candidates, Workers
    <3>2. Ok(x)
      BY <3>1 DEF PurgePcs
    <3>3. purge' = [purge EXCEPT ![a] = x]
      BY <2>2
    <3> HIDE DEF x, Ok
    <3> QED
      BY <1>2, <3>1, <3>2, <3>3
  <2> QED
    BY <1>6, <2>1, <2>2 DEF AddMakeRoom
<1>7. ASSUME NEW o \in Owners, NEW r \in Roots, KeepPurge(o, r) PROVE PurgeTyped'
  <2> DEFINE x == [pc |-> "count", owner |-> o, root |-> r, force |-> FALSE]
  <2>1. Ok(x) /\ Keeper \in Workers
    BY DEF Workers, PurgePcs
  <2>2. purge' = [purge EXCEPT ![Keeper] = x]
    BY <1>7 DEF KeepPurge
  <2> HIDE DEF x, Ok
  <2> QED
    BY <1>2, <2>1, <2>2
<1>8. CASE Crash
  BY <1>8 DEF Crash, PurgeTyped, NoPurge, PurgePcs
<1>9. UNCHANGED purge \/ Crash \/ (\E w \in Workers : Purging(w)) \/ (\E a \in Adds : AddMakeRoom(a))
         \/ (\E o \in Owners, r \in Roots : KeepPurge(o, r))
  BY DEF NextChunks, chunkVars, Users, Work, Hooks, Keeping, Adding, tasks, DeleteChunk, Cite, Uncite, Leave,
         AddCount, AddSetCount, AddStage, AddStore, AddCommit, AddAbort,
         UnlinkLater, RecountLater, LookAtLink, LookAtRow,
         KeepUnlink, KeepRelink, KeepDrop, LookAtRoot, KeepCount, KeepStages, KeepRevoked, ClearOwner
<1> QED
  BY <1>1, <1>5, <1>6, <1>7, <1>8, <1>9

\* What the keeper looked at.
LEMMA KeepStep == ChunkInv /\ [NextChunks]_chunkVars => KeepTyped'
<1> SUFFICES ASSUME ChunkInv, [NextChunks]_chunkVars PROVE KeepTyped'
  OBVIOUS
<1>0. KeepTyped /\ row \in CopyTables
  BY DEF ChunkInv, TasksTyped
<1>1. CASE UNCHANGED keep
  BY <1>0, <1>1 DEF KeepTyped
<1>2. CASE keep' = Rest
  BY <1>2 DEF Rest, KeepTyped
<1>3. ASSUME NEW o \in Owners, NEW c \in Chunks, KeepTakes("unlink", o, c, 0) PROVE KeepTyped'
  BY <1>3 DEF KeepTakes, KeepTyped
<1>4. ASSUME NEW o \in Owners, NEW c \in Chunks, LookAtRow(o, c) PROVE KeepTyped'
  <2>1. row[o][c] \in Nat \ {0}
    BY <1>0, <1>4 DEF LookAtRow, CopyTables
  <2>2. Count(o, RootOf[c]) \in Nat
    BY AddsTyped
  <2>3. \/ KeepTakes("drop", o, <<c, row[o][c]>>, 0)
        \/ KeepTakes("relink", o, <<c, row[o][c]>>, Count(o, RootOf[c]))
    BY <1>4 DEF LookAtRow
  <2> QED
    BY <2>1, <2>2, <2>3 DEF KeepTakes, KeepTyped
<1>5. ASSUME NEW o \in Owners, NEW r \in Roots, LookAtRoot(o, r) PROVE KeepTyped'
  <2>1. Count(o, r) \in Nat
    BY AddsTyped
  <2> QED
    BY <1>5, <2>1 DEF LookAtRoot, KeepTakes, KeepTyped
<1>6. CASE KeepDrop
  <2>1. keep.owner \in Owners /\ keep.item[1] \in Chunks
    BY <1>0, <1>6 DEF KeepTyped, KeepDrop, KeepAt
  <2>2. KeepTakes("unlink", keep.owner, keep.item[1], 0)
    BY <1>6 DEF KeepDrop
  <2> QED
    BY <1>3, <2>1, <2>2
<1>7. \/ UNCHANGED keep
      \/ keep' = Rest
      \/ \E o \in Owners, c \in Chunks : LookAtRow(o, c) \/ KeepTakes("unlink", o, c, 0)
      \/ \E o \in Owners, r \in Roots : LookAtRoot(o, r)
      \/ KeepDrop
  BY DEF NextChunks, chunkVars, Users, Work, Hooks, Keeping, Adding, Purging, Crash, tasks, AddCount, AddSetCount, AddStage,
         AddMakeRoom, AddStore, AddCommit, AddAbort, DeleteChunk, Cite, Uncite, Leave, UnlinkLater, RecountLater,
         PurgeCount, PurgeSetCount, PurgeCheck, PurgeRows, PurgeCopies, LookAtLink, KeepUnlink, KeepRelink,
         KeepCount, KeepPurge, KeepStages, KeepRevoked, ClearOwner
<1> QED
  BY <1>1, <1>2, <1>3, <1>4, <1>5, <1>6, <1>7

\* The hooks that wait.
LEMMA LaterStep == ChunkInv /\ [NextChunks]_chunkVars => LaterTyped'
<1> SUFFICES ASSUME ChunkInv, [NextChunks]_chunkVars PROVE LaterTyped'
  OBVIOUS
<1>0. LaterTyped /\ row \in CopyTables /\ KeepTyped /\ PurgeTyped /\ plan \in Plans
  BY DEF ChunkInv, TasksTyped
<1>1. \A o \in Owners, c \in Chunks : Unlink(o, c) \in UnlinkHooks
  BY <1>0 DEF Unlink, UnlinkHooks, CopyTables
<1>2. \A o \in Owners, r \in Roots : Recount(o, r) \in RecountHooks
  BY DEF Recount, RecountHooks
<1>3. CASE later' \subseteq later
  BY <1>0, <1>3 DEF LaterTyped
<1>4. ASSUME NEW o \in Owners, NEW c \in Chunks, later' = later \cup {Unlink(o, c)} PROVE LaterTyped'
  BY <1>0, <1>1, <1>4 DEF LaterTyped
<1>5. ASSUME NEW o \in Owners, NEW r \in Roots, later' = later \cup {Recount(o, r)} PROVE LaterTyped'
  BY <1>0, <1>2, <1>5 DEF LaterTyped
<1>6. ASSUME NEW a \in Adds, AddStore(a) PROVE LaterTyped'
  BY <1>3, <1>4, <1>6, AddsTyped DEF AddStore
<1>7. ASSUME NEW p \in plan.references, Cite(p) \/ Uncite(p) PROVE LaterTyped'
  <2>1. p[1] \in Owners /\ p[2] \in Roots
    <3>1. plan.references \subseteq Owners \X Roots
      BY <1>0, ChunkConstants
    <3> QED
      BY <3>1
  <2>2. later' = later \cup {Recount(p[1], p[2])}
    BY <1>7 DEF Cite, Uncite
  <2> QED
    BY <1>5, <2>1, <2>2
<1>8. ASSUME NEW l \in later, RecountLater(l) PROVE LaterTyped'
  <2>1. l \in RecountHooks
    BY <1>0, <1>8 DEF LaterTyped, RecountLater, UnlinkHooks
  <2> DEFINE n == Count(l.owner, l.root)
             x == [l EXCEPT !.n = n]
  <2>2. n \in Nat
    BY AddsTyped
  <2>3. later' \subseteq later \/ later' = (later \ {l}) \cup {x}
    BY <1>8 DEF RecountLater
  <2> HIDE DEF n
  <2>4. x \in RecountHooks
    BY <2>1, <2>2 DEF RecountHooks
  <2> HIDE DEF x
  <2> QED
    BY <1>0, <2>3, <2>4 DEF LaterTyped
<1>9. ASSUME NEW w \in Workers, PurgeRows(w) PROVE LaterTyped'
  <2> DEFINE o == purge[w].owner
             found == FirstRows(o, purge[w].root)
  <2>1. o \in Owners /\ found \subseteq Chunks
    BY <1>0, <1>9 DEF PurgeTyped, PurgeRows, Purges, FirstRows, ChunksOf
  <2>2. later' \subseteq later \/ later' = later \cup {Unlink(o, c) : c \in found}
    BY <1>9 DEF PurgeRows
  <2> HIDE DEF o, found
  <2> QED
    BY <1>0, <1>1, <2>1, <2>2 DEF LaterTyped
<1>10. CASE KeepDrop
  <2>1. keep.owner \in Owners /\ keep.item[1] \in Chunks
    BY <1>0, <1>10 DEF KeepTyped, KeepDrop, KeepAt
  <2>2. later' \subseteq later \/ later' = later \cup {Unlink(keep.owner, keep.item[1])}
    BY <1>10 DEF KeepDrop
  <2> QED
    BY <1>3, <1>4, <2>1, <2>2
<1>11. ASSUME NEW o \in Owners, NEW c \in Chunks, DeleteChunk(o, c) PROVE LaterTyped'
  BY <1>4, <1>11 DEF DeleteChunk
<1>12. \/ later' \subseteq later
       \/ \E a \in Adds : AddStore(a)
       \/ \E p \in plan.references : Cite(p) \/ Uncite(p)
       \/ \E l \in later : RecountLater(l)
       \/ \E w \in Workers : PurgeRows(w)
       \/ \E o \in Owners, c \in Chunks : DeleteChunk(o, c)
       \/ KeepDrop
  BY DEF NextChunks, chunkVars, Users, Work, Hooks, Keeping, Adding, Purging, Crash, tasks, AddCount, AddSetCount, AddStage,
         AddMakeRoom, AddCommit, AddAbort, Leave, UnlinkLater,
         PurgeCount, PurgeSetCount, PurgeCheck, PurgeCopies, LookAtLink, LookAtRow, KeepUnlink, KeepRelink, LookAtRoot,
         KeepCount, KeepPurge, KeepStages, KeepRevoked, ClearOwner
<1> QED
  BY <1>3, <1>6, <1>7, <1>8, <1>9, <1>10, <1>11, <1>12

\* The invariant is inductive.
LEMMA ChunkStep == ChunkInv /\ [NextChunks]_chunkVars => ChunkInv'
  BY CacheStep, RowStep, AddStep, PurgeStep, KeepStep, LaterStep DEF ChunkInv, TasksTyped

\* Empty stores agree.
LEMMA ChunkInit == InitChunks => ChunkInv
<1> SUFFICES ASSUME InitChunks PROVE ChunkInv
  OBVIOUS
<1> DEFINE P == cache.payload
           C == cache.copy
           A == cache.assoc
           R == cache.root
           t == cache.totals
<1>1. /\ \A h \in Hashes : P[h] = NoPayload
      /\ \A o \in Owners, c \in Chunks : C[o][c] = 0
      /\ \A o \in Owners, r \in Roots, h \in Hashes : A[o][r][h] = 0
      /\ \A o \in Owners, r \in Roots : R[o][r] = NoRoot
      /\ t = [bytes |-> 0, unreferenced |-> 0, copies |-> 0]
      /\ P \in PayloadTables /\ C \in CopyTables /\ A \in LinkTables /\ R \in RootTables /\ t \in TotalRecords
  BY DEF InitChunks, PayloadTables, CopyTables, LinkTables, RootTables, TotalRecords
<1>2. cache \in CacheRecords
  BY <1>1 DEF InitChunks, CacheRecords
<1> HIDE DEF P, C, A, R, t
<1>3. \A o \in Owners, r \in Roots, h \in Hashes : CopiesUnder(C, o, r, h) = 0
  <2> SUFFICES ASSUME NEW o \in Owners, NEW r \in Roots, NEW h \in Hashes PROVE CopiesUnder(C, o, r, h) = 0
    OBVIOUS
  <2>1. HeldUnder(C, o, r, h) = {}
    BY <1>1 DEF HeldUnder, HeldOf
  <2> QED
    BY <2>1, FS_EmptySet DEF CopiesUnder
<1>4. AllCopies(C) = 0
  <2>1. HeldPairs(C) = {}
    BY <1>1 DEF HeldPairs
  <2> QED
    BY <2>1, FS_EmptySet DEF AllCopies
<1>5. \A h \in Hashes : CopiesOf(C, h) = 0
  <2> SUFFICES ASSUME NEW h \in Hashes PROVE CopiesOf(C, h) = 0
    OBVIOUS
  <2>1. HeldOf(C, h) = {}
    BY <1>1 DEF HeldOf
  <2> QED
    BY <2>1, FS_EmptySet DEF CopiesOf
<1>6. \A o \in Owners, r \in Roots : ChunksHeld(C, o, r) = 0
  <2> SUFFICES ASSUME NEW o \in Owners, NEW r \in Roots PROVE ChunksHeld(C, o, r) = 0
    OBVIOUS
  <2>1. HeldIn(C, o, r) = {}
    BY <1>1 DEF HeldIn, ChunksOf
  <2> QED
    BY <2>1, FS_EmptySet DEF ChunksHeld
<1>7. StoresAgree(P, C, A, R, t.copies)
  BY <1>1, <1>3, <1>4, <1>5, <1>6 DEF StoresAgree, Backed, RootFits
<1>8. Weighed(P, t)
  <2> DEFINE f == BytesOf(P)
             v == ContributionOf(P)
             z == [h \in Hashes |-> 0]
  <2>1. \A h \in Hashes : z[h] \in Nat /\ f[h] = z[h] /\ v[h] = z[h]
    BY <1>1 DEF BytesOf, ContributionOf, Contribution
  <2>2. IsFiniteSet(Hashes) /\ \A h \in Hashes : z[h] \in Nat /\ z[h] = 0
    BY ChunkConstants
  <2> HIDE DEF f, v, z
  <2>3. Sum(f, Hashes) = Sum(z, Hashes) /\ Sum(v, Hashes) = Sum(z, Hashes)
    BY <2>1, <2>2, SumSame
  <2>4. Sum(z, Hashes) = 0
    <3>1. Sum(z, Hashes) \in Nat
      BY <2>2, SumStep
    <3>2. CASE Sum(z, Hashes) > 0
      <4>1. \E h \in Hashes : z[h] > 0
        BY <2>2, <3>2, SumPositive
      <4> QED
        BY <2>2, <4>1
    <3> QED
      BY <3>1, <3>2
  <2> QED
    BY <1>1, <2>3, <2>4 DEF Weighed, f, v
<1>9. CacheOK(cache)
  BY <1>1, <1>2, <1>7, <1>8 DEF CacheOK, StoresOK, P, C, A, R, t
<1>10. TasksTyped
  BY DEF InitChunks, TasksTyped, CopyTables, AddTyped, AddPcs, PurgeTyped, PurgePcs, NoPurge, KeepTyped, Rest, LaterTyped
<1> QED
  BY <1>9, <1>10 DEF ChunkInv

\* What the invariant says, as the runs state it.
LEMMA AgreeAsChecked == CacheOK(cache) => CountersAgree /\ CopyHasPayload
<1> SUFFICES ASSUME CacheOK(cache) PROVE CountersAgree /\ CopyHasPayload
  OBVIOUS
<1> DEFINE P == cache.payload
           C == cache.copy
<1>1. /\ cache \in CacheRecords /\ cache.totals.copies = AllCopies(C)
      /\ \A h \in Hashes : Backed(P[h], CopiesOf(C, h))
      /\ \A o \in Owners, r \in Roots, h \in Hashes : cache.assoc[o][r][h] = CopiesUnder(C, o, r, h)
      /\ \A o \in Owners, r \in Roots : RootFits(cache.root[o][r], ChunksHeld(C, o, r))
  BY AgreeParts
<1>2. /\ cache.totals.bytes = SumFunction(BytesOf(P)) /\ cache.totals.unreferenced = SumFunction(ContributionOf(P))
  <2>1. DOMAIN BytesOf(P) = Hashes /\ DOMAIN ContributionOf(P) = Hashes
    BY DEF BytesOf, ContributionOf
  <2> QED
    BY <2>1 DEF CacheOK, StoresOK, Weighed, SumFunction, Sum
<1>3. \A h \in Hashes : Copies(h) = HeldOf(C, h)
  BY DEF Copies, HeldOf
<1>4. cache.totals.copies = Cardinality(UNION {Copies(h) : h \in Hashes})
  <2>1. UNION {Copies(h) : h \in Hashes} = HeldPairs(C)
    <3>1. \A c \in Chunks : HashOf[c] \in Hashes
      BY ChunkConstants
    <3> QED
      BY <3>1 DEF Copies, HeldPairs
  <2> QED
    BY <1>1, <2>1 DEF AllCopies
<1>5. ASSUME NEW h \in Hashes PROVE P[h] # NoPayload => P[h].copies = Cardinality(Copies(h))
  BY <1>1, <1>3 DEF Backed, CopiesOf
<1>6. ASSUME NEW o \in Owners, NEW r \in Roots, NEW h \in Hashes
      PROVE  cache.assoc[o][r][h] = Cardinality({p \in Copies(h) : p[1] = o /\ RootOf[p[2]] = r})
  BY <1>1, <1>3 DEF CopiesUnder, HeldUnder
<1>7. ASSUME NEW o \in Owners, NEW r \in Roots, cache.root[o][r] # NoRoot
      PROVE  /\ cache.root[o][r].referenced = (cache.root[o][r].count > 0)
             /\ cache.root[o][r].chunks = Cardinality({c \in ChunksOf(r) : cache.copy[o][c] # 0})
  <2> DEFINE x == cache.root[o][r]
  <2>1. x \in RootRecords /\ RootFits(x, ChunksHeld(C, o, r))
    BY <1>1, <1>7 DEF CacheRecords, RootTables
  <2>2. x.referenced \in BOOLEAN /\ (x.referenced <=> x.count > 0) /\ x.chunks = ChunksHeld(C, o, r)
    BY <1>7, <2>1 DEF RootFits, RootRecords
  <2>3. x.referenced = (x.count > 0)
    BY <2>2
  <2> QED
    BY <2>2, <2>3 DEF ChunksHeld, HeldIn
<1>8. CountersAgree
  BY <1>2, <1>4, <1>5, <1>6, <1>7 DEF CountersAgree
<1>9. ASSUME NEW o \in Owners, NEW c \in Chunks, C[o][c] # 0 PROVE CanCommit(cache, c)
  <2> DEFINE h == HashOf[c]
  <2>1. <<o, c>> \in HeldOf(C, h) /\ h \in Hashes
    BY <1>9, ChunkConstants DEF HeldOf
  <2>2. HeldOf(C, h) # {}
    BY <2>1
  <2>3. CopiesOf(C, h) # 0
    BY <2>2, HeldFinite, FS_EmptySet DEF CopiesOf
  <2>4. P[h] # NoPayload
    BY <1>1, <2>1, <2>3 DEF Backed
  <2> QED
    BY <2>4 DEF CanCommit
<1> QED
  BY <1>8, <1>9 DEF CopyHasPayload

\* The stores agree and the tasks are about what there is, in every reachable
\* state: each transaction is atomic, and no other step writes the stores.
THEOREM ChunkInvariant == ChunkSpec => []ChunkInv
<1> QED
  BY ChunkInit, ChunkStep, PTL DEF ChunkSpec

\* The counters, the links and the roots agree with the copies there are,
\* whatever replacements, purges, repairs and crashes came between.
THEOREM CountersExact == ChunkSpec => []CountersAgree
<1>1. ChunkInv => CountersAgree
  BY AgreeAsChecked DEF ChunkInv
<1> QED
  BY <1>1, ChunkInvariant, PTL

\* No copy is without its bytes: what one owner's purge or a repair removes
\* never takes the payload of another's copy.
THEOREM SharedBytesStay == ChunkSpec => []CopyHasPayload
<1>1. ChunkInv => CopyHasPayload
  BY AgreeAsChecked DEF ChunkInv
<1> QED
  BY <1>1, ChunkInvariant, PTL
=============================================================================
