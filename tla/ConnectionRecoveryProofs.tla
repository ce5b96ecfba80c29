---------------------- MODULE ConnectionRecoveryProofs ----------------------
(***************************************************************************)
(* For every set of buckets, relays and hosts, and all rates and delays:   *)
(* the lease of a relay is held by a socket that is connecting, and by one *)
(* at a time; no queued bucket sleeps; and flapping keeps the back-off.    *)
(***************************************************************************)
EXTENDS ConnectionRecovery, DataLemmas

UrlState ==
  [delay : 1..MaxDelay, retryIn : Nat, generation : Nat, failedGeneration : Int,
   failure : BOOLEAN, recovering : BOOLEAN, trial : Buckets \cup {None}, stable : BOOLEAN]

TypeOK ==
  /\ status \in [Buckets -> {"none", "queued", "connecting", "open", "idle"}]
  /\ stage \in [Buckets -> Nat]
  /\ queue \in Seq(Buckets)
  /\ url \in [Urls -> UrlState]
  /\ offline \in BOOLEAN /\ monitor \in BOOLEAN /\ probing \in BOOLEAN /\ nav \in BOOLEAN
  /\ probe \in [Urls -> {"no", "current", "stale"}]
  /\ scheduled \in BOOLEAN /\ pumps \in Nat
  /\ timer \in Nat \cup {-1}
  /\ ages \in [Hosts -> Seq(Nat)]
  /\ trialing \subseteq Buckets

\* The connection queue lists the queued buckets, each once.
QueueOK == IsInjective(queue) /\ ToSet(queue) = {b \in Buckets : status[b] = "queued"}

\* A socket that was opened as the trial of its URL has the lease until it opens
\* or ends: nobody else can take it over.
TrialHasLease == \A b \in trialing : status[b] = "connecting" /\ url[UrlOf[b]].trial = b

\* The stability timer runs only while some socket of the URL is healthy.
StableIsHealthy == \A u \in Urls : url[u].stable => Healthy(u) # {}

IInv == TypeOK /\ QueueOK /\ TrialIsConnecting /\ TrialHasLease /\ StableIsHealthy

-----------------------------------------------------------------------------
\* The generation an attempt is given exists: there are more numbers than
\* generations that somebody holds.
LEMMA FreshGeneration ==
  ASSUME TypeOK, NEW u \in Urls
  PROVE  /\ NextGeneration(u) \in Nat
         /\ \A b \in Buckets : UrlOf[b] = u /\ status[b] # "none" => stage[b] # NextGeneration(u)
<1> USE RecoveryConstants
<1> DEFINE M == {x \in Buckets : UrlOf[x] = u /\ status[x] # "none"}
           Held == {stage[b] : b \in M}
           Two == {url[u].generation, url[u].failedGeneration}
           n == Cardinality(Buckets)
           Free == 0..(n + 2) \ (Two \cup Held)
           f == [b \in M |-> stage[b]]
<1>1. IsFiniteSet(M) /\ n \in Nat /\ Cardinality(M) \in Nat /\ Cardinality(M) <= n
  <2>1. M \subseteq Buckets
    OBVIOUS
  <2> QED
    BY <2>1, FS_Subset, FS_CardinalityType
<1>2. f \in Surjection(M, Held)
  BY DEF Surjection
<1> HIDE DEF M, f
<1>3. IsFiniteSet(Held) /\ Cardinality(Held) <= Cardinality(M)
  BY <1>1, <1>2, FS_Surjection
<1>4. IsFiniteSet(Two) /\ Cardinality(Two) <= 2
  <2>1. Two = {url[u].generation} \cup {url[u].failedGeneration}
    OBVIOUS
  <2>2. /\ IsFiniteSet({url[u].generation}) /\ Cardinality({url[u].generation}) = 1
        /\ IsFiniteSet({url[u].failedGeneration}) /\ Cardinality({url[u].failedGeneration}) = 1
    BY FS_Singleton
  <2>3. IsFiniteSet({url[u].generation} \cap {url[u].failedGeneration})
    BY <2>2, FS_Intersection
  <2> DEFINE A == {url[u].generation}
             B == {url[u].failedGeneration}
  <2> HIDE DEF A, B
  <2>4. Cardinality(A \cap B) \in Nat
    BY <2>3, FS_CardinalityType DEF A, B
  <2>5. IsFiniteSet(A \cup B) /\ Cardinality(A \cup B) = Cardinality(A) + Cardinality(B) - Cardinality(A \cap B)
    BY <2>2, FS_Union DEF A, B
  <2>6. Two = A \cup B /\ Cardinality(A) = 1 /\ Cardinality(B) = 1
    BY <2>1, <2>2 DEF A, B
  <2> HIDE DEF Two
  <2> QED
    BY <2>4, <2>5, <2>6
<1> HIDE DEF Held, Two
<1>5. IsFiniteSet(Two \cup Held) /\ Cardinality(Two \cup Held) <= n + 2
  <2>1. Cardinality(Two) \in Nat /\ Cardinality(Held) \in Nat
    BY <1>3, <1>4, FS_CardinalityType
  <2>2. IsFiniteSet(Two \cap Held)
    BY <1>3, <1>4, FS_Intersection
  <2>3. Cardinality(Two \cap Held) \in Nat
    BY <2>2, FS_CardinalityType
  <2>4. IsFiniteSet(Two \cup Held) /\ Cardinality(Two \cup Held) = Cardinality(Two) + Cardinality(Held) - Cardinality(Two \cap Held)
    BY <1>3, <1>4, FS_Union
  <2> QED
    BY <2>1, <2>3, <2>4, <1>1, <1>3, <1>4
<1>6. Free # {}
  <2> SUFFICES ASSUME Free = {} PROVE FALSE
    OBVIOUS
  <2>1. 0..(n + 2) \subseteq Two \cup Held
    OBVIOUS
  <2>2. Cardinality(0..(n + 2)) = n + 3
    <3>1. 0 \in Int /\ n + 2 \in Int /\ 0 <= n + 2 /\ (n + 2) - 0 + 1 = n + 3
      BY <1>1
    <3> QED
      BY <3>1, FS_Interval
  <2>3. Cardinality(0..(n + 2)) <= Cardinality(Two \cup Held)
    BY <1>5, <2>1, FS_Subset
  <2>4. Cardinality(Two \cup Held) \in Nat
    BY <1>5, FS_CardinalityType
  <2> QED
    BY <1>1, <1>5, <2>2, <2>3, <2>4
<1>7. Min(Free) \in Free
  <2>1. Free \subseteq Nat
    BY <1>1
  <2> HIDE DEF Free
  <2> QED
    BY <1>6, <2>1, MinOf
<1>8. NextGeneration(u) = Min(Free)
  BY DEF NextGeneration, Free, Held, Two, M
<1>9. Min(Free) \in Nat /\ Min(Free) \notin Held
  BY <1>7, <1>1
<1> QED
  BY <1>8, <1>9 DEF Held, M

-----------------------------------------------------------------------------
\* What closing, opening, failing and an attempt make of the record of a URL.

\* closed() gives back the lease of its bucket, and only of its bucket.
LEMMA ClosedFields ==
  ASSUME TypeOK, NEW u \in Urls, NEW b \in Buckets
  PROVE  /\ ClosedState(u, b) \in UrlState
         /\ ClosedState(u, b).trial = Released(url[u], b)
         /\ ClosedState(u, b).stable <=> url[u].stable /\ Healthy(u) \ {b} # {}
         /\ ClosedState(u, b).delay = url[u].delay
<1> DEFINE S == url[u].stable /\ Healthy(u) \ {b} # {}
           T == Released(url[u], b)
<1>1. url[u] \in UrlState
  BY DEF TypeOK
<1>2. T \in Buckets \cup {None}
  BY <1>1 DEF Released, UrlState
<1>3. S \in BOOLEAN
  OBVIOUS
<1>4. ClosedState(u, b) = [[url[u] EXCEPT !.trial = T] EXCEPT !.stable = S]
  BY <1>1 DEF ClosedState, UrlState
<1> HIDE DEF S, T
<1>5. /\ ClosedState(u, b) \in UrlState
      /\ ClosedState(u, b).trial = T
      /\ ClosedState(u, b).stable = S
      /\ ClosedState(u, b).delay = url[u].delay
  BY <1>1, <1>2, <1>3, <1>4 DEF UrlState
<1> QED
  BY <1>5 DEF S, T

\* opened() too; it starts the stability timer and keeps the delay.
LEMMA OpenedFields ==
  ASSUME TypeOK, NEW u \in Urls, NEW b \in Buckets
  PROVE  /\ OpenedState(u, b) \in UrlState
         /\ OpenedState(u, b).trial = Released(url[u], b)
         /\ OpenedState(u, b).delay = url[u].delay
<1> DEFINE S == url[u].stable \/ url[u].recovering
           T == Released(url[u], b)
           F == IF url[u].failure THEN -1 ELSE url[u].failedGeneration
<1>1. url[u] \in UrlState
  BY DEF TypeOK
<1>2. T \in Buckets \cup {None} /\ F \in Int
  BY <1>1 DEF Released, UrlState
<1>3. S \in BOOLEAN
  BY <1>1 DEF UrlState
<1>4. OpenedState(u, b) =
        [[[[url[u] EXCEPT !.failure = FALSE] EXCEPT !.trial = T] EXCEPT !.stable = S] EXCEPT !.failedGeneration = F]
  BY <1>1 DEF OpenedState, UrlState
<1> HIDE DEF S, T, F
<1>5. /\ OpenedState(u, b) \in UrlState
      /\ OpenedState(u, b).trial = T
      /\ OpenedState(u, b).delay = url[u].delay
  BY <1>1, <1>2, <1>3, <1>4 DEF UrlState
<1> QED
  BY <1>5 DEF T

\* failed() is closed() first.
LEMMA FailedFields ==
  ASSUME TypeOK, NEW u \in Urls, NEW b \in Buckets
  PROVE  /\ FailedState(u, b) \in UrlState
         /\ FailedState(u, b).trial = Released(url[u], b)
         /\ FailedState(u, b).stable <=> url[u].stable /\ Healthy(u) \ {b} # {}
         /\ FailedState(u, b).delay = url[u].delay
<1> DEFINE C == ClosedState(u, b)
           F == ~offline /\ nav
<1>1. /\ C \in UrlState
      /\ C.trial = Released(url[u], b)
      /\ C.stable <=> url[u].stable /\ Healthy(u) \ {b} # {}
      /\ C.delay = url[u].delay
  BY ClosedFields
<1>2. stage[b] \in Int /\ F \in BOOLEAN
  BY DEF TypeOK
<1>3. FailedState(u, b) = [[[C EXCEPT !.failedGeneration = stage[b]] EXCEPT !.recovering = TRUE] EXCEPT !.failure = F]
  BY <1>1 DEF FailedState, UrlState
<1> HIDE DEF C, F
<1>4. /\ FailedState(u, b) \in UrlState
      /\ FailedState(u, b).trial = C.trial
      /\ FailedState(u, b).stable = C.stable
      /\ FailedState(u, b).delay = C.delay
  BY <1>1, <1>2, <1>3 DEF UrlState
<1> QED
  BY <1>1, <1>4

\* attempt() takes the lease of a URL that recovers.
LEMMA AttemptFields ==
  ASSUME TypeOK, NEW u \in Urls, NEW b \in Buckets
  PROVE  /\ AttemptState(u, b) \in UrlState
         /\ AttemptState(u, b).trial = IF Recovering(u) THEN b ELSE url[u].trial
         /\ AttemptState(u, b).stable = url[u].stable
         /\ AttemptState(u, b).delay = url[u].delay
<1>1. url[u] \in UrlState
  BY DEF TypeOK
<1>2. CASE Recovering(u)
  <2> DEFINE G == NextGeneration(u)
  <2>1. G \in Nat
    BY FreshGeneration
  <2>2. AttemptState(u, b) = [[url[u] EXCEPT !.generation = G] EXCEPT !.trial = b]
    BY <1>1, <1>2 DEF AttemptState, UrlState
  <2> HIDE DEF G
  <2> QED
    BY <1>1, <1>2, <2>1, <2>2 DEF UrlState
<1>3. CASE ~Recovering(u)
  BY <1>1, <1>3 DEF AttemptState
<1> QED
  BY <1>2, <1>3

-----------------------------------------------------------------------------
\* The shared check.
Probes == [Urls -> {"no", "current", "stale"}]

\* Whether or not anybody is left, the check and the monitor keep their types.
LEMMA StopTypes ==
  ASSUME NEW p \in Probes, NEW on \in BOOLEAN, NEW m \in BOOLEAN, NEW st, StopIfIdle(p, on, m, st)
  PROVE  probe' \in Probes /\ probing' \in BOOLEAN /\ monitor' \in BOOLEAN
<1>1. CASE Demand(st)
  BY <1>1 DEF StopIfIdle
<1>2. CASE ~Demand(st)
  BY <1>2 DEF StopIfIdle, NoProbe, Probes
<1> QED
  BY <1>1, <1>2

\* So do failures that are forgotten.
LEMMA OutdatedTypes ==
  ASSUME NEW p \in Probes, NEW U
  PROVE  Outdated(p, U) \in Probes
BY DEF Outdated, Probes

\* Forgetting failures changes neither leases nor timers nor delays.
LEMMA ForgottenFields ==
  ASSUME NEW s \in [Urls -> UrlState]
  PROVE  /\ Forgotten(s) \in [Urls -> UrlState]
         /\ \A u \in Urls : /\ Forgotten(s)[u].trial = s[u].trial
                            /\ Forgotten(s)[u].stable = s[u].stable
                            /\ Forgotten(s)[u].delay = s[u].delay
<1>1. ASSUME NEW u \in Urls
      PROVE  /\ [s[u] EXCEPT !.failure = FALSE] \in UrlState
             /\ [s[u] EXCEPT !.failure = FALSE].trial = s[u].trial
             /\ [s[u] EXCEPT !.failure = FALSE].stable = s[u].stable
             /\ [s[u] EXCEPT !.failure = FALSE].delay = s[u].delay
  BY DEF UrlState
<1>2. \A u \in Urls : Forgotten(s)[u] = [s[u] EXCEPT !.failure = FALSE]
  BY DEF Forgotten
<1>3. Forgotten(s) \in [Urls -> UrlState]
  BY <1>1 DEF Forgotten
<1> QED
  BY <1>1, <1>2, <1>3

-----------------------------------------------------------------------------
\* The end of a bucket: its lease, its trial and the stability timer end with it.
LEMMA DestroyedKeeps ==
  ASSUME IInv, NEW b \in Buckets, Destroyed(b),
         url' \in [Urls -> UrlState],
         \A v \in Urls :
           /\ url'[v].trial = IF v = UrlOf[b] THEN Released(url[v], b) ELSE url[v].trial
           /\ url'[v].stable => url[v].stable /\ (v = UrlOf[b] => Healthy(v) \ {b} # {})
  PROVE  /\ status' \in [Buckets -> {"none", "queued", "connecting", "open", "idle"}]
         /\ stage' \in [Buckets -> Nat]
         /\ trialing' \subseteq Buckets
         /\ \A x \in Buckets : status'[x] = IF x = b THEN "none" ELSE status[x]
         /\ TrialIsConnecting' /\ TrialHasLease' /\ StableIsHealthy'
<1> USE RecoveryConstants
<1>0. TypeOK /\ TrialIsConnecting /\ TrialHasLease /\ StableIsHealthy
  BY DEF IInv
<1>1. \A x \in Buckets : status'[x] = IF x = b THEN "none" ELSE status[x]
  BY <1>0 DEF TypeOK, Destroyed
<1>2. /\ status' \in [Buckets -> {"none", "queued", "connecting", "open", "idle"}]
      /\ stage' \in [Buckets -> Nat]
      /\ trialing' \subseteq Buckets
  BY <1>0 DEF TypeOK, Destroyed
<1>3. TrialIsConnecting'
  <2> SUFFICES ASSUME NEW u \in Urls, url'[u].trial # None
               PROVE  UrlOf[url'[u].trial] = u /\ status'[url'[u].trial] = "connecting"
    BY DEF TrialIsConnecting
  <2>1. url'[u].trial = url[u].trial /\ url[u].trial # None /\ (u = UrlOf[b] => url[u].trial # b)
    BY DEF Released
  <2>2. UrlOf[url[u].trial] = u /\ status[url[u].trial] = "connecting"
    BY <1>0, <2>1 DEF TrialIsConnecting
  <2>3. url[u].trial \in Buckets
    BY <1>0, <2>1 DEF TypeOK, UrlState
  <2> QED
    BY <1>1, <2>1, <2>2, <2>3
<1>4. TrialHasLease'
  <2> SUFFICES ASSUME NEW x \in trialing' PROVE status'[x] = "connecting" /\ url'[UrlOf[x]].trial = x
    BY DEF TrialHasLease
  <2>1. x \in trialing /\ x # b /\ x \in Buckets /\ UrlOf[x] \in Urls
    BY <1>0 DEF Destroyed, TypeOK
  <2>2. status[x] = "connecting" /\ url[UrlOf[x]].trial = x
    BY <1>0, <2>1 DEF TrialHasLease
  <2> QED
    BY <1>1, <2>1, <2>2 DEF Released
<1>5. StableIsHealthy'
  <2> SUFFICES ASSUME NEW u \in Urls, url'[u].stable PROVE Healthy(u)' # {}
    BY DEF StableIsHealthy
  <2>1. url[u].stable /\ (u = UrlOf[b] => Healthy(u) \ {b} # {})
    OBVIOUS
  <2>2. Healthy(u) # {}
    BY <1>0, <2>1 DEF StableIsHealthy
  <2>3. \E x \in Buckets : x # b /\ UrlOf[x] = u /\ status[x] \in {"open", "idle"}
    BY <2>1, <2>2 DEF Healthy
  <2>4. PICK x \in Buckets : x # b /\ UrlOf[x] = u /\ status[x] \in {"open", "idle"}
    BY <2>3
  <2>5. status'[x] \in {"open", "idle"}
    BY <1>1, <2>4
  <2> QED
    BY <2>4, <2>5 DEF Healthy
<1> QED
  BY <1>1, <1>2, <1>3, <1>4, <1>5

\* A bucket that leaves no queue leaves the queue as it is.
LEMMA QueueKept ==
  ASSUME QueueOK, queue' = queue,
         \A x \in Buckets : status'[x] = "queued" <=> status[x] = "queued"
  PROVE  QueueOK'
BY DEF QueueOK

\* closed() as the record of every URL sees it.
LEMMA ClosedEverywhere ==
  ASSUME TypeOK, NEW b \in Buckets, url' = [url EXCEPT ![UrlOf[b]] = ClosedState(UrlOf[b], b)]
  PROVE  /\ url' \in [Urls -> UrlState]
         /\ \A v \in Urls :
              /\ url'[v].trial = IF v = UrlOf[b] THEN Released(url[v], b) ELSE url[v].trial
              /\ url'[v].stable => url[v].stable /\ (v = UrlOf[b] => Healthy(v) \ {b} # {})
              /\ url'[v].delay = url[v].delay
<1>1. UrlOf[b] \in Urls
  BY RecoveryConstants
<1>2. \A v \in Urls : url'[v] = IF v = UrlOf[b] THEN ClosedState(v, b) ELSE url[v]
  BY <1>1 DEF TypeOK
<1>3. url' \in [Urls -> UrlState]
  BY <1>1, ClosedFields DEF TypeOK
<1> QED
  BY <1>1, <1>2, <1>3, ClosedFields

\* failed() likewise.
FailedRecords(b) == [url EXCEPT ![UrlOf[b]] = FailedState(UrlOf[b], b)]

\* The record of every URL once one of them failed.
LEMMA FailedEverywhere ==
  ASSUME TypeOK, NEW b \in Buckets
  PROVE  /\ FailedRecords(b) \in [Urls -> UrlState]
         /\ \A v \in Urls :
              /\ FailedRecords(b)[v].trial = IF v = UrlOf[b] THEN Released(url[v], b) ELSE url[v].trial
              /\ FailedRecords(b)[v].stable => url[v].stable /\ (v = UrlOf[b] => Healthy(v) \ {b} # {})
              /\ FailedRecords(b)[v].delay = url[v].delay
<1>1. UrlOf[b] \in Urls
  BY RecoveryConstants
<1>2. \A v \in Urls : FailedRecords(b)[v] = IF v = UrlOf[b] THEN FailedState(v, b) ELSE url[v]
  BY <1>1 DEF TypeOK, FailedRecords
<1>3. FailedRecords(b) \in [Urls -> UrlState]
  BY <1>1, FailedFields DEF TypeOK, FailedRecords
<1> QED
  BY <1>1, <1>2, <1>3, FailedFields

-----------------------------------------------------------------------------
\* Every action keeps the invariant.
LEMMA AttachKeeps == ASSUME IInv, NEW b \in Buckets, Attach(b) PROVE IInv'
<1> USE RecoveryConstants
<1>0. TypeOK /\ QueueOK /\ TrialIsConnecting /\ TrialHasLease /\ StableIsHealthy
  BY DEF IInv
<1>1. /\ status[b] = "none" /\ queue' = Append(queue, b) /\ url' = url /\ trialing' = trialing
      /\ \A x \in Buckets : status'[x] = IF x = b THEN "queued" ELSE status[x]
  BY <1>0 DEF Attach, TypeOK
<1>2. b \notin ToSet(queue) /\ queue \in Seq(Buckets) /\ IsInjective(queue)
  BY <1>0, <1>1 DEF QueueOK, TypeOK
<1>3. queue' \in Seq(Buckets) /\ IsInjective(queue') /\ ToSet(queue') = ToSet(queue) \cup {b}
  BY <1>1, <1>2, AppendFresh
<1>4. QueueOK'
  <2>1. ToSet(queue') = {x \in Buckets : status'[x] = "queued"}
    BY <1>0, <1>1, <1>3 DEF QueueOK
  <2> QED
    BY <1>3, <2>1 DEF QueueOK
<1>5. TypeOK'
  BY <1>0, <1>3 DEF TypeOK, Attach, Wake, net
<1>6. TrialIsConnecting'
  <2> SUFFICES ASSUME NEW u \in Urls, url[u].trial # None
               PROVE  UrlOf[url[u].trial] = u /\ status'[url[u].trial] = "connecting"
    BY <1>1 DEF TrialIsConnecting
  <2>1. url[u].trial \in Buckets
    BY <1>0 DEF TypeOK, UrlState
  <2>2. UrlOf[url[u].trial] = u /\ status[url[u].trial] = "connecting"
    BY <1>0 DEF TrialIsConnecting
  <2> QED
    BY <1>1, <2>1, <2>2
<1>7. TrialHasLease'
  BY <1>0, <1>1 DEF TrialHasLease, TypeOK
<1>8. StableIsHealthy'
  <2>1. \A u \in Urls : Healthy(u)' = Healthy(u)
    BY <1>1 DEF Healthy
  <2> QED
    BY <1>0, <1>1, <2>1 DEF StableIsHealthy
<1> QED
  BY <1>4, <1>5, <1>6, <1>7, <1>8 DEF IInv

\* What changes neither leases nor the sockets that have one or are healthy.
LEMMA LeasesKept ==
  ASSUME IInv, trialing' = trialing,
         \A u \in Urls : /\ url'[u].trial = url[u].trial
                         /\ url'[u].stable => url[u].stable,
         \A x \in Buckets : /\ status'[x] = "connecting" <=> status[x] = "connecting"
                            /\ status'[x] \in {"open", "idle"} <=> status[x] \in {"open", "idle"}
  PROVE  TrialIsConnecting' /\ TrialHasLease' /\ StableIsHealthy'
<1> USE RecoveryConstants
<1>0. TypeOK /\ TrialIsConnecting /\ TrialHasLease /\ StableIsHealthy
  BY DEF IInv
<1>1. TrialIsConnecting'
  <2> SUFFICES ASSUME NEW u \in Urls, url'[u].trial # None
               PROVE  UrlOf[url'[u].trial] = u /\ status'[url'[u].trial] = "connecting"
    BY DEF TrialIsConnecting
  <2>1. url[u].trial \in Buckets /\ UrlOf[url[u].trial] = u /\ status[url[u].trial] = "connecting"
    BY <1>0 DEF TrialIsConnecting, TypeOK, UrlState
  <2> QED
    BY <2>1
<1>2. TrialHasLease'
  BY <1>0 DEF TrialHasLease, TypeOK
<1>3. StableIsHealthy'
  <2>1. \A u \in Urls : Healthy(u)' = Healthy(u)
    BY DEF Healthy
  <2> QED
    BY <1>0, <2>1 DEF StableIsHealthy
<1> QED
  BY <1>1, <1>2, <1>3

\* A member that joins an idle bucket keeps the invariant.
LEMMA JoinKeeps == ASSUME IInv, NEW b \in Buckets, Join(b) PROVE IInv'
<1>0. TypeOK /\ QueueOK
  BY DEF IInv
<1>1. /\ url' = url /\ trialing' = trialing /\ queue' = queue /\ status[b] = "idle"
      /\ \A x \in Buckets : status'[x] = IF x = b THEN "open" ELSE status[x]
  BY <1>0 DEF Join, TypeOK
<1>2. TypeOK'
  BY <1>0 DEF TypeOK, Join, net, loop
<1>3. QueueOK'
  BY <1>0, <1>1, QueueKept
<1>4. TrialIsConnecting' /\ TrialHasLease' /\ StableIsHealthy'
  BY <1>1, LeasesKept
<1> QED
  BY <1>2, <1>3, <1>4 DEF IInv

\* The last member leaving a bucket keeps the invariant.
LEMMA LeaveKeeps == ASSUME IInv, NEW b \in Buckets, Leave(b) PROVE IInv'
<1>0. TypeOK /\ QueueOK
  BY DEF IInv
<1>1. queue \in Seq(Buckets) /\ IsInjective(queue) /\ queue' = RemoveFirst(queue, b)
  BY <1>0 DEF Leave, TypeOK, QueueOK
<1>2. queue' \in Seq(Buckets) /\ IsInjective(queue') /\ ToSet(queue') = ToSet(queue) \ {b}
  BY <1>1, RemoveFirstProperties
<1>3. probe' \in Probes /\ probing' \in BOOLEAN /\ monitor' \in BOOLEAN
  <2>1. probe \in Probes /\ probing \in BOOLEAN /\ monitor \in BOOLEAN /\ StopIfIdle(probe, probing, monitor, status')
    BY <1>0 DEF TypeOK, Leave, Probes
  <2> QED
    BY <2>1, StopTypes
<1>4. offline' = offline /\ nav' = nav /\ ages' = ages
  BY DEF Leave
<1>5. CASE Destroyed(b) /\ url' = [url EXCEPT ![UrlOf[b]] = ClosedState(UrlOf[b], b)] /\ Wake
  <2>1. /\ status' \in [Buckets -> {"none", "queued", "connecting", "open", "idle"}]
        /\ stage' \in [Buckets -> Nat]
        /\ trialing' \subseteq Buckets
        /\ \A x \in Buckets : status'[x] = IF x = b THEN "none" ELSE status[x]
        /\ TrialIsConnecting' /\ TrialHasLease' /\ StableIsHealthy'
        /\ url' \in [Urls -> UrlState]
    BY <1>0, <1>5, ClosedEverywhere, DestroyedKeeps
  <2>2. QueueOK'
    BY <1>0, <1>2, <2>1 DEF QueueOK
  <2>3. TypeOK'
    BY <1>0, <1>2, <1>3, <1>4, <1>5, <2>1 DEF TypeOK, Wake, Probes
  <2> QED
    BY <2>1, <2>2, <2>3 DEF IInv
<1>6. CASE status[b] = "open" /\ status' = [status EXCEPT ![b] = "idle"] /\ UNCHANGED <<stage, url, loop, trialing>>
  <2>1. \A x \in Buckets : status'[x] = IF x = b THEN "idle" ELSE status[x]
    BY <1>0, <1>6 DEF TypeOK
  <2>2. TrialIsConnecting' /\ TrialHasLease' /\ StableIsHealthy'
    BY <1>6, <2>1, LeasesKept
  <2>3. QueueOK'
    BY <1>0, <1>2, <1>6, <2>1 DEF QueueOK
  <2>4. TypeOK'
    BY <1>0, <1>2, <1>3, <1>4, <1>6 DEF TypeOK, Probes, loop
  <2> QED
    BY <2>2, <2>3, <2>4 DEF IInv
<1> QED
  BY <1>5, <1>6 DEF Leave

\* Closing an idle bucket keeps the invariant.
LEMMA IdleTimeoutKeeps == ASSUME IInv, NEW b \in Buckets, IdleTimeout(b) PROVE IInv'
<1>0. TypeOK /\ QueueOK
  BY DEF IInv
<1>1. /\ status' \in [Buckets -> {"none", "queued", "connecting", "open", "idle"}]
      /\ stage' \in [Buckets -> Nat]
      /\ trialing' \subseteq Buckets
      /\ \A x \in Buckets : status'[x] = IF x = b THEN "none" ELSE status[x]
      /\ TrialIsConnecting' /\ TrialHasLease' /\ StableIsHealthy'
      /\ url' \in [Urls -> UrlState]
  BY <1>0, ClosedEverywhere, DestroyedKeeps DEF IdleTimeout
<1>2. QueueOK'
  BY <1>0, <1>1, QueueKept DEF IdleTimeout
<1>3. TypeOK'
  BY <1>0, <1>1 DEF TypeOK, IdleTimeout, Wake, net
<1> QED
  BY <1>1, <1>2, <1>3 DEF IInv

\* A socket that closes keeps the invariant.
LEMMA ClosedKeeps == ASSUME IInv, NEW b \in Buckets, Closed(b) PROVE IInv'
<1>0. TypeOK /\ QueueOK
  BY DEF IInv
<1>1. /\ status' \in [Buckets -> {"none", "queued", "connecting", "open", "idle"}]
      /\ stage' \in [Buckets -> Nat]
      /\ trialing' \subseteq Buckets
      /\ \A x \in Buckets : status'[x] = IF x = b THEN "none" ELSE status[x]
      /\ TrialIsConnecting' /\ TrialHasLease' /\ StableIsHealthy'
      /\ url' \in [Urls -> UrlState]
  BY <1>0, ClosedEverywhere, DestroyedKeeps DEF Closed
<1>2. QueueOK'
  BY <1>0, <1>1, QueueKept DEF Closed, Socket
<1>3. probe' \in Probes /\ probing' \in BOOLEAN /\ monitor' \in BOOLEAN
  <2>1. probe \in Probes /\ probing \in BOOLEAN /\ monitor \in BOOLEAN /\ StopIfIdle(probe, probing, monitor, status')
    BY <1>0 DEF TypeOK, Closed, Probes
  <2> QED
    BY <2>1, StopTypes
<1>4. TypeOK'
  BY <1>0, <1>1, <1>3 DEF TypeOK, Closed, Wake, Probes
<1> QED
  BY <1>1, <1>2, <1>4 DEF IInv

\* A failed handshake keeps the invariant: the trial ends and the lease goes with it.
LEMMA FailedKeeps == ASSUME IInv, NEW b \in Buckets, Failed(b) PROVE IInv'
<1> USE RecoveryConstants
<1> DEFINE s == FailedRecords(b)
<1>0. TypeOK /\ QueueOK
  BY DEF IInv
<1>1. Destroyed(b) /\ queue' = queue /\ Socket(b) /\ Wake /\ nav' = nav /\ ages' = ages
  BY DEF Failed
<1>2. /\ s \in [Urls -> UrlState]
      /\ \A v \in Urls :
           /\ s[v].trial = IF v = UrlOf[b] THEN Released(url[v], b) ELSE url[v].trial
           /\ s[v].stable => url[v].stable /\ (v = UrlOf[b] => Healthy(v) \ {b} # {})
  BY <1>0, FailedEverywhere
<1>3. probe \in Probes /\ probing \in BOOLEAN /\ monitor \in BOOLEAN /\ Outdated(probe, {UrlOf[b]}) \in Probes
  BY <1>0, OutdatedTypes DEF TypeOK, Probes
<1>4. /\ url' \in [Urls -> UrlState]
      /\ \A v \in Urls :
           /\ url'[v].trial = IF v = UrlOf[b] THEN Released(url[v], b) ELSE url[v].trial
           /\ url'[v].stable => url[v].stable /\ (v = UrlOf[b] => Healthy(v) \ {b} # {})
      /\ offline' \in BOOLEAN
      /\ probe' \in Probes /\ probing' \in BOOLEAN /\ monitor' \in BOOLEAN
  <2>1. CASE /\ url' = [url EXCEPT ![UrlOf[b]] = ClosedState(UrlOf[b], b)]
             /\ StopIfIdle(probe, probing, monitor, status')
             /\ UNCHANGED offline
    <3>1. /\ url' \in [Urls -> UrlState]
          /\ \A v \in Urls :
               /\ url'[v].trial = IF v = UrlOf[b] THEN Released(url[v], b) ELSE url[v].trial
               /\ url'[v].stable => url[v].stable /\ (v = UrlOf[b] => Healthy(v) \ {b} # {})
      BY <1>0, <2>1, ClosedEverywhere
    <3>2. probe' \in Probes /\ probing' \in BOOLEAN /\ monitor' \in BOOLEAN
      BY <1>3, <2>1, StopTypes
    <3> QED
      BY <1>0, <2>1, <3>1, <3>2 DEF TypeOK
  <2>2. CASE /\ url' = s
             /\ StopIfIdle(Outdated(probe, {UrlOf[b]}), probing, monitor, status')
             /\ UNCHANGED offline
    <3> HIDE DEF s
    <3> QED
      BY <1>0, <1>2, <1>3, <2>2, StopTypes DEF TypeOK
  <2>3. CASE url' = Forgotten(s) /\ offline' = TRUE /\ NoProbe /\ monitor' = Demand(status')
    <3> HIDE DEF s
    <3>1. url' \in [Urls -> UrlState] /\ \A v \in Urls : url'[v].trial = s[v].trial /\ url'[v].stable = s[v].stable
      BY <1>2, <2>3, ForgottenFields
    <3>2. probe' \in Probes /\ probing' \in BOOLEAN
      BY <2>3 DEF NoProbe, Probes
    <3>3. monitor' \in BOOLEAN
      BY <2>3 DEF Demand
    <3> QED
      BY <1>2, <2>3, <3>1, <3>2, <3>3
  <2> QED
    BY <2>1, <2>2, <2>3 DEF Failed, FailedRecords
<1>5. /\ status' \in [Buckets -> {"none", "queued", "connecting", "open", "idle"}]
      /\ stage' \in [Buckets -> Nat]
      /\ trialing' \subseteq Buckets
      /\ \A x \in Buckets : status'[x] = IF x = b THEN "none" ELSE status[x]
      /\ TrialIsConnecting' /\ TrialHasLease' /\ StableIsHealthy'
  BY <1>1, <1>4, DestroyedKeeps
<1>6. QueueOK'
  BY <1>0, <1>1, <1>5, QueueKept DEF Socket
<1>7. TypeOK'
  BY <1>0, <1>1, <1>4, <1>5 DEF TypeOK, Wake, Probes
<1> QED
  BY <1>5, <1>6, <1>7 DEF IInv

\* Of a sequence of ages what is left are the last ones, from the first that is
\* young enough.
LEMMA YoungerProperties ==
  ASSUME NEW s \in Seq(Nat), NEW limit \in Nat
  PROVE  /\ YoungerFrom(s, limit) \in 1..(Len(s) + 1)
         /\ YoungerFrom(s, limit) <= Len(s) => s[YoungerFrom(s, limit)] < limit
         /\ \A i \in 1..(YoungerFrom(s, limit) - 1) : s[i] >= limit
         /\ Younger(s, limit) \in Seq(Nat)
         /\ Len(Younger(s, limit)) = Len(s) + 1 - YoungerFrom(s, limit)
         /\ \A n \in 1..(Len(s) + 1 - YoungerFrom(s, limit)) :
              Younger(s, limit)[n] = s[YoungerFrom(s, limit) - 1 + n]
<1> DEFINE I == {i \in 1..(Len(s) + 1) : i <= Len(s) => s[i] < limit}
           k == YoungerFrom(s, limit)
<1>0. Len(s) \in Nat /\ \A i \in 1..Len(s) : s[i] \in Nat
  BY LenProperties, ElementOfSeq
<1>1. I \subseteq Nat /\ I # {}
  <2>1. Len(s) + 1 \in I
    BY <1>0
  <2> QED
    BY <1>0, <2>1
<1>2. k = Min(I)
  BY DEF YoungerFrom
<1> HIDE DEF k
<1>3. k \in I /\ \A x \in I : k <= x
  <2> HIDE DEF I
  <2> QED
    BY <1>1, <1>2, MinOf
<1>4. k \in 1..(Len(s) + 1) /\ k \in Nat /\ (k <= Len(s) => s[k] < limit)
  BY <1>0, <1>3
<1>5. \A i \in 1..(k - 1) : s[i] >= limit
  <2> SUFFICES ASSUME NEW i \in 1..(k - 1) PROVE s[i] >= limit
    OBVIOUS
  <2>1. i \in 1..Len(s) /\ i < k /\ s[i] \in Nat
    BY <1>0, <1>4
  <2>2. i \notin I
    BY <1>3, <1>4, <2>1
  <2> QED
    BY <1>0, <2>1, <2>2
<1>6. Younger(s, limit) = SubSeq(s, k, Len(s))
  BY DEF Younger, k
<1>7. \A i \in k..Len(s) : s[i] \in Nat
  BY <1>0, <1>4
<1>8. /\ SubSeq(s, k, Len(s)) \in Seq(Nat)
      /\ Len(SubSeq(s, k, Len(s))) = IF k <= Len(s) THEN Len(s) - k + 1 ELSE 0
      /\ \A n \in 1..(Len(s) - k + 1) : SubSeq(s, k, Len(s))[n] = s[k + n - 1]
  BY <1>0, <1>4, <1>7, SubSeqProperties
<1>9. \A n \in 1..(Len(s) + 1 - k) : Younger(s, limit)[n] = s[k - 1 + n]
  <2> SUFFICES ASSUME NEW n \in 1..(Len(s) + 1 - k) PROVE Younger(s, limit)[n] = s[k - 1 + n]
    OBVIOUS
  <2>1. n \in 1..(Len(s) - k + 1) /\ k + n - 1 = k - 1 + n
    BY <1>0, <1>4
  <2> QED
    BY <1>6, <1>8, <2>1
<1> QED
  BY <1>0, <1>4, <1>5, <1>6, <1>8, <1>9 DEF k

\* A tick later: the ages as they are now, without those that leave the window.
Later(s) == [i \in DOMAIN s |-> s[i] + 1]

\* What is left of the ages is a sequence of ages.
LEMMA AgedTypes ==
  ASSUME NEW s \in Seq(Nat)
  PROVE  /\ Later(s) \in Seq(Nat) /\ Len(Later(s)) = Len(s)
         /\ \A i \in 1..Len(s) : Later(s)[i] = s[i] + 1
         /\ Aged(s) = Younger(Later(s), Window)
         /\ Aged(s) \in Seq(Nat)
<1>0. Len(s) \in Nat /\ DOMAIN s = 1..Len(s) /\ \A i \in 1..Len(s) : s[i] \in Nat
  BY LenProperties, ElementOfSeq
<1>1. Later(s) \in [1..Len(s) -> Nat]
  BY <1>0 DEF Later
<1>2. Later(s) \in Seq(Nat) /\ Len(Later(s)) = Len(s) /\ \A i \in 1..Len(s) : Later(s)[i] = s[i] + 1
  <2>1. Later(s) \in Seq(Nat)
    BY <1>0, <1>1, SeqDef
  <2>2. DOMAIN Later(s) = 1..Len(Later(s)) /\ Len(Later(s)) \in Nat
    BY <2>1, LenProperties
  <2>3. DOMAIN Later(s) = 1..Len(s)
    BY <1>1
  <2>4. Len(Later(s)) = Len(s)
    BY <1>0, <2>1, <2>3, LenProperties
  <2> QED
    BY <1>0, <2>1, <2>4 DEF Later
<1>3. Aged(s) = Younger(Later(s), Window)
  BY DEF Aged, Later
<1>4. Window \in Nat
  BY RecoveryConstants
<1> HIDE DEF Later
<1> QED
  BY <1>2, <1>3, <1>4, YoungerProperties

\* An opened socket keeps the invariant: a healthy relay begins its stable period.
LEMMA OpenedKeeps == ASSUME IInv, NEW b \in Buckets, Opened(b) PROVE IInv'
<1> USE RecoveryConstants
<1> DEFINE u == UrlOf[b]
<1>0. TypeOK /\ QueueOK /\ TrialIsConnecting /\ TrialHasLease /\ StableIsHealthy /\ u \in Urls
  BY DEF IInv
<1>1. /\ status[b] = "connecting" /\ queue' = queue /\ trialing' = trialing \ {b} /\ stage' = stage
      /\ \A x \in Buckets : status'[x] = IF x = b THEN "open" ELSE status[x]
  BY <1>0 DEF Opened, TypeOK
<1>2. /\ url' \in [Urls -> UrlState]
      /\ \A v \in Urls : url'[v] = IF v = u THEN OpenedState(v, b) ELSE url[v]
  BY <1>0, OpenedFields DEF Opened, TypeOK
<1>3. \A v \in Urls : url'[v].trial = IF v = u THEN Released(url[v], b) ELSE url[v].trial
  BY <1>0, <1>2, OpenedFields
<1>4. TypeOK'
  <2>1. probe \in Probes /\ probe' = Outdated(probe, {u})
    BY <1>0 DEF Opened, TypeOK, Probes
  <2>2. probe' \in Probes
    BY <2>1, OutdatedTypes
  <2> HIDE DEF u
  <2> QED
    BY <1>0, <1>1, <1>2, <2>2 DEF TypeOK, Opened, Wake, Probes
<1>5. QueueOK'
  BY <1>0, <1>1, QueueKept
<1>6. TrialIsConnecting'
  <2> SUFFICES ASSUME NEW v \in Urls, url'[v].trial # None
               PROVE  UrlOf[url'[v].trial] = v /\ status'[url'[v].trial] = "connecting"
    BY DEF TrialIsConnecting
  <2>1. url'[v].trial = url[v].trial /\ url[v].trial # None /\ (v = u => url[v].trial # b)
    BY <1>3 DEF Released
  <2>2. UrlOf[url[v].trial] = v /\ status[url[v].trial] = "connecting" /\ url[v].trial \in Buckets
    BY <1>0, <2>1 DEF TrialIsConnecting, TypeOK, UrlState
  <2> QED
    BY <1>1, <2>1, <2>2
<1>7. TrialHasLease'
  <2> SUFFICES ASSUME NEW x \in trialing' PROVE status'[x] = "connecting" /\ url'[UrlOf[x]].trial = x
    BY DEF TrialHasLease
  <2>1. x \in trialing /\ x # b /\ x \in Buckets /\ UrlOf[x] \in Urls
    BY <1>0, <1>1 DEF TypeOK
  <2>2. status[x] = "connecting" /\ url[UrlOf[x]].trial = x
    BY <1>0, <2>1 DEF TrialHasLease
  <2> QED
    BY <1>1, <1>3, <2>1, <2>2 DEF Released
<1>8. StableIsHealthy'
  <2> SUFFICES ASSUME NEW v \in Urls, url'[v].stable PROVE Healthy(v)' # {}
    BY DEF StableIsHealthy
  <2>1. CASE v = u
    <3>1. UrlOf[b] = v /\ status'[b] = "open"
      BY <1>1, <2>1
    <3> QED
      BY <3>1 DEF Healthy
  <2>2. CASE v # u
    <3>1. url[v].stable
      BY <1>2, <2>2
    <3>2. PICK x \in Buckets : UrlOf[x] = v /\ status[x] \in {"open", "idle"}
      BY <1>0, <3>1 DEF StableIsHealthy, Healthy
    <3>3. status'[x] \in {"open", "idle"}
      BY <1>1, <3>2
    <3> QED
      BY <3>2, <3>3 DEF Healthy
  <2> QED
    BY <2>1, <2>2
<1> QED
  BY <1>4, <1>5, <1>6, <1>7, <1>8 DEF IInv

\* What leaves the pool alone needs to be checked for types and leases only.
LEMMA PoolKept ==
  ASSUME IInv, TypeOK', UNCHANGED pool, trialing' = trialing,
         \A u \in Urls : url'[u].trial = url[u].trial /\ (url'[u].stable => url[u].stable)
  PROVE  IInv'
<1>1. QueueOK'
  BY QueueKept DEF IInv, pool
<1>2. TrialIsConnecting' /\ TrialHasLease' /\ StableIsHealthy'
  BY LeasesKept DEF pool
<1> QED
  BY <1>1, <1>2 DEF IInv

\* The end of the stable period keeps the invariant.
LEMMA StableKeeps == ASSUME IInv, NEW u \in Urls, Stable(u) PROVE IInv'
<1> DEFINE R == [[[[[url[u] EXCEPT !.stable = FALSE] EXCEPT !.delay = 1] EXCEPT !.retryIn = 0]
                                EXCEPT !.failedGeneration = -1] EXCEPT !.recovering = FALSE]
<1>0. TypeOK /\ url[u] \in UrlState
  BY DEF IInv, TypeOK
<1>1. R \in UrlState /\ R.trial = url[u].trial /\ R.stable = FALSE
  <2>0. 1 \in 1..MaxDelay /\ 0 \in Nat /\ -1 \in Int
    BY RecoveryConstants
  <2> DEFINE A == [url[u] EXCEPT !.stable = FALSE]
             B == [A EXCEPT !.delay = 1]
             C == [B EXCEPT !.retryIn = 0]
             D == [C EXCEPT !.failedGeneration = -1]
             E == [D EXCEPT !.recovering = FALSE]
  <2>1. A \in UrlState /\ A.trial = url[u].trial /\ A.stable = FALSE
    BY <1>0 DEF UrlState
  <2> HIDE DEF A
  <2>2. B \in UrlState /\ B.trial = A.trial /\ B.stable = A.stable
    BY <2>0, <2>1 DEF UrlState
  <2> HIDE DEF B
  <2>3. C \in UrlState /\ C.trial = B.trial /\ C.stable = B.stable
    BY <2>0, <2>2 DEF UrlState
  <2> HIDE DEF C
  <2>4. D \in UrlState /\ D.trial = C.trial /\ D.stable = C.stable
    BY <2>0, <2>3 DEF UrlState
  <2> HIDE DEF D
  <2>5. E \in UrlState /\ E.trial = D.trial /\ E.stable = D.stable
    BY <2>0, <2>4 DEF UrlState
  <2>6. E = R
    BY DEF E, D, C, B, A, R
  <2> QED
    BY <2>1, <2>2, <2>3, <2>4, <2>5, <2>6
<1>2. url' = [url EXCEPT ![u] = R]
  BY <1>0 DEF Stable, UrlState
<1> HIDE DEF R
<1>3. url' \in [Urls -> UrlState] /\ \A v \in Urls : url'[v] = IF v = u THEN R ELSE url[v]
  BY <1>0, <1>1, <1>2 DEF TypeOK
<1>4. TypeOK'
  BY <1>0, <1>3 DEF TypeOK, Stable, Wake, pool, net
<1> QED
  BY <1>1, <1>3, <1>4, PoolKept DEF Stable

\* A relay that nobody used yet has no trial, is not stable and has no delay.
LEMMA FreshFields == Fresh \in UrlState /\ Fresh.trial = None /\ Fresh.stable = FALSE /\ Fresh.delay = 1
BY RecoveryConstants DEF Fresh, UrlState

\* Forgetting an unused relay keeps the invariant.
LEMMA ExpireKeeps == ASSUME IInv, NEW u \in Urls, Expire(u) PROVE IInv'
<1>0. TypeOK
  BY DEF IInv
<1>1. url' \in [Urls -> UrlState] /\ \A v \in Urls : url'[v] = IF v = u THEN Fresh ELSE url[v]
  BY <1>0, FreshFields DEF TypeOK, Expire
<1>2. probe' \in Probes
  BY <1>0, OutdatedTypes DEF TypeOK, Expire, Probes
<1>3. TypeOK'
  BY <1>0, <1>1, <1>2 DEF TypeOK, Expire, pool, loop, Probes
<1>4. \A v \in Urls : url'[v].trial = url[v].trial /\ (url'[v].stable => url[v].stable)
  BY <1>1, FreshFields DEF Expire
<1> QED
  BY <1>3, <1>4, PoolKept DEF Expire

\* A delay doubles up to its bound: it never shrinks.
LEMMA DelayedFields ==
  ASSUME TypeOK, NEW u \in Urls, NEW wait, wait[u] \in Nat
  PROVE  /\ Delayed(u, wait) \in UrlState
         /\ Delayed(u, wait).trial = url[u].trial
         /\ Delayed(u, wait).stable = url[u].stable
         /\ Delayed(u, wait).delay >= url[u].delay
<1> DEFINE d == IF 2 * url[u].delay <= MaxDelay THEN 2 * url[u].delay ELSE MaxDelay
           w == wait[u]
           A == [url[u] EXCEPT !.failure = FALSE]
           B == [A EXCEPT !.retryIn = w]
           C == [B EXCEPT !.delay = d]
<1>0. url[u] \in UrlState /\ url[u].delay \in 1..MaxDelay
  BY DEF TypeOK, UrlState
<1>1. d \in 1..MaxDelay /\ d >= url[u].delay
  BY <1>0, RecoveryConstants
<1>2. Delayed(u, wait) = C
  BY <1>0 DEF Delayed, UrlState
<1> HIDE DEF d, w
<1>3. A \in UrlState /\ A.trial = url[u].trial /\ A.stable = url[u].stable
  BY <1>0 DEF UrlState
<1> HIDE DEF A
<1>4. B \in UrlState /\ B.trial = A.trial /\ B.stable = A.stable
  BY <1>3 DEF UrlState, w
<1> HIDE DEF B
<1>5. C \in UrlState /\ C.trial = B.trial /\ C.stable = B.stable /\ C.delay = d
  BY <1>1, <1>4 DEF UrlState
<1> QED
  BY <1>1, <1>2, <1>3, <1>4, <1>5

\* What the end of the check makes of the records.
LEMMA ProbeEndsFields ==
  ASSUME TypeOK, NEW online, ProbeEnds(online)
  PROVE  /\ url' \in [Urls -> UrlState]
         /\ \A u \in Urls : /\ url'[u].trial = url[u].trial
                            /\ url'[u].stable = url[u].stable
                            /\ url'[u].delay >= url[u].delay
         /\ offline' \in BOOLEAN /\ monitor' \in BOOLEAN
<1>0. /\ url \in [Urls -> UrlState]
      /\ \A u \in Urls : url[u].delay \in Int /\ url[u].delay >= url[u].delay
      /\ offline \in BOOLEAN /\ monitor \in BOOLEAN
  BY DEF TypeOK, UrlState
<1>1. CASE UNCHANGED <<url, offline, monitor>>
  BY <1>0, <1>1
<1>2. CASE url' = Forgotten(url) /\ offline' = TRUE /\ monitor' = TRUE
  <2>1. /\ Forgotten(url) \in [Urls -> UrlState]
        /\ \A u \in Urls : /\ Forgotten(url)[u].trial = url[u].trial
                           /\ Forgotten(url)[u].stable = url[u].stable
                           /\ Forgotten(url)[u].delay = url[u].delay
    BY <1>0, ForgottenFields
  <2> QED
    BY <1>0, <1>2, <2>1
<1>3. CASE /\ \E wait \in [Classified -> 0..MaxDelay] :
                url' = [u \in Urls |-> IF u \in Classified THEN Delayed(u, wait) ELSE url[u]]
           /\ UNCHANGED <<offline, monitor>>
  <2>1. PICK wait \in [Classified -> 0..MaxDelay] :
          url' = [u \in Urls |-> IF u \in Classified THEN Delayed(u, wait) ELSE url[u]]
    BY <1>3
  <2>2. \A u \in Classified : u \in Urls /\ wait[u] \in Nat
    BY RecoveryConstants DEF Classified
  <2>3. \A u \in Urls : u \in Classified =>
          /\ Delayed(u, wait) \in UrlState
          /\ Delayed(u, wait).trial = url[u].trial
          /\ Delayed(u, wait).stable = url[u].stable
          /\ Delayed(u, wait).delay >= url[u].delay
    BY <2>2, DelayedFields
  <2>4. \A u \in Urls : url'[u] = IF u \in Classified THEN Delayed(u, wait) ELSE url[u]
    BY <2>1
  <2>5. url' \in [Urls -> UrlState]
    BY <1>0, <2>1, <2>3
  <2> QED
    BY <1>0, <1>3, <2>3, <2>4, <2>5
<1> QED
  BY <1>1, <1>2, <1>3 DEF ProbeEnds

\* The answer of the shared check keeps the invariant.
LEMMA ProbeEndsKeeps == ASSUME IInv, NEW online, ProbeEnds(online) PROVE IInv'
<1>0. TypeOK
  BY DEF IInv
<1>1. /\ url' \in [Urls -> UrlState]
      /\ \A u \in Urls : url'[u].trial = url[u].trial /\ url'[u].stable = url[u].stable
      /\ offline' \in BOOLEAN /\ monitor' \in BOOLEAN
  BY <1>0, ProbeEndsFields
<1>2. TypeOK'
  BY <1>0, <1>1 DEF TypeOK, ProbeEnds, NoProbe, Wake, pool
<1> QED
  BY <1>1, <1>2, PoolKept DEF ProbeEnds

\* The network and the timer say nothing of leases.
LEMMA EnvironmentKeeps ==
  ASSUME IInv, Online \/ NavChanges \/ TimerFires
  PROVE  IInv'
<1>0. TypeOK
  BY DEF IInv
<1>1. CASE Online
  <2>1. TypeOK'
    BY <1>0, <1>1 DEF TypeOK, Online, Wake, pool, check
  <2> QED
    BY <1>1, <2>1, PoolKept DEF Online
<1>2. CASE NavChanges
  <2>1. TypeOK'
    BY <1>0, <1>2 DEF TypeOK, NavChanges, pool, net, loop
  <2> QED
    BY <1>2, <2>1, PoolKept DEF NavChanges
<1>3. CASE TimerFires
  <2>1. TypeOK'
    BY <1>0, <1>3 DEF TypeOK, TimerFires, pool, net
  <2> QED
    BY <1>3, <2>1, PoolKept DEF TimerFires
<1> QED
  BY <1>1, <1>2, <1>3

\* A tick brings every next attempt nearer.
Nearer(s) == [s EXCEPT !.retryIn = Less(@)]

\* And leaves everything else of a record as it is.
LEMMA NearerFields ==
  ASSUME NEW s \in UrlState
  PROVE  /\ Nearer(s) \in UrlState
         /\ Nearer(s).trial = s.trial /\ Nearer(s).stable = s.stable /\ Nearer(s).delay = s.delay
         /\ Nearer(s).failure = s.failure /\ Nearer(s).retryIn = Less(s.retryIn)
<1> DEFINE r == Less(s.retryIn)
<1>1. r \in Nat
  BY DEF UrlState, Less
<1>2. Nearer(s) = [s EXCEPT !.retryIn = r]
  BY DEF Nearer, UrlState
<1> HIDE DEF r
<1>3. /\ Nearer(s) \in UrlState
      /\ Nearer(s).trial = s.trial /\ Nearer(s).stable = s.stable /\ Nearer(s).delay = s.delay
      /\ Nearer(s).failure = s.failure /\ Nearer(s).retryIn = r
  BY <1>1, <1>2 DEF UrlState
<1> QED
  BY <1>3 DEF r

\* Time passing keeps the invariant.
LEMMA TickKeeps == ASSUME IInv, Tick PROVE IInv'
<1>0. TypeOK
  BY DEF IInv
<1>1. url' = [u \in Urls |-> Nearer(url[u])]
  BY DEF Tick, Nearer
<1>2. \A u \in Urls : url[u] \in UrlState /\ url'[u] = Nearer(url[u])
  BY <1>0, <1>1 DEF TypeOK
<1>3. url' \in [Urls -> UrlState]
  BY <1>1, <1>2, NearerFields
<1>4. timer' \in Nat \cup {-1}
  BY <1>0 DEF TypeOK, Tick, Less
<1>5. ages' \in [Hosts -> Seq(Nat)]
  <2>1. \A h \in Hosts : ages[h] \in Seq(Nat)
    BY <1>0 DEF TypeOK
  <2>2. \A h \in Hosts : Aged(ages[h]) \in Seq(Nat)
    BY <2>1, AgedTypes
  <2> QED
    BY <2>2 DEF Tick
<1>6. TypeOK'
  BY <1>0, <1>3, <1>4, <1>5 DEF TypeOK, Tick, pool, net
<1>7. \A u \in Urls : url'[u].trial = url[u].trial /\ (url'[u].stable => url[u].stable)
  BY <1>2, NearerFields
<1> QED
  BY <1>6, <1>7, PoolKept DEF Tick

-----------------------------------------------------------------------------
\* The pump.

\* What the pump may do, apart from counting itself.
LEMMA PumpOfflineKeeps ==
  ASSUME IInv, PumpOffline, nav' = nav, scheduled' \in BOOLEAN, pumps' \in Nat
  PROVE  IInv'
<1>0. TypeOK
  BY DEF IInv
<1>1. /\ url' \in [Urls -> UrlState]
      /\ \A u \in Urls : url'[u].trial = url[u].trial /\ url'[u].stable = url[u].stable
  <2>1. url \in [Urls -> UrlState]
    BY <1>0 DEF TypeOK
  <2>2. /\ Forgotten(url) \in [Urls -> UrlState]
        /\ \A u \in Urls : /\ Forgotten(url)[u].trial = url[u].trial
                           /\ Forgotten(url)[u].stable = url[u].stable
    BY <2>1, ForgottenFields
  <2> QED
    BY <2>1, <2>2 DEF PumpOffline
<1>2. probe' \in Probes /\ probing' \in BOOLEAN
  BY <1>0 DEF PumpOffline, NoProbe, check, TypeOK, Probes
<1>3. TypeOK'
  BY <1>0, <1>1, <1>2 DEF TypeOK, PumpOffline, pool, Probes
<1> QED
  BY <1>1, <1>3, PoolKept DEF PumpOffline

\* The check that failures of other relays join is still a check.
LEMMA JoinedTypes == ASSUME TypeOK PROVE JoinedProbe \in Probes /\ ProbeWanted \in BOOLEAN
<1>1. JoinedProbe \in Probes
  BY DEF JoinedProbe, TypeOK, Probes
<1>2. ProbeWanted \in BOOLEAN
  BY DEF ProbeWanted
<1> QED
  BY <1>1, <1>2

\* Attempts leave a full window after at least a tick.
LEMMA RateDelayType ==
  ASSUME NEW s \in Seq(Nat), RateFull(s)
  PROVE  /\ Len(s) >= 1 /\ Len(s) \in Nat
         /\ RateDelay(s) \in Nat /\ RateDelay(s) >= 1
         /\ BurstFull(s) =>
              /\ YoungerFrom(s, BurstWindow) \in 1..Len(s)
              /\ Len(s) + 1 - YoungerFrom(s, BurstWindow) >= Burst
              /\ RateDelay(s) = IF 1 >= BurstWindow - s[YoungerFrom(s, BurstWindow)] THEN 1
                                ELSE BurstWindow - s[YoungerFrom(s, BurstWindow)]
         /\ ~BurstFull(s) =>
              /\ Len(s) >= Most
              /\ RateDelay(s) = IF 1 >= Window - s[1] THEN 1 ELSE Window - s[1]
<1> USE RecoveryConstants
<1> DEFINE k == YoungerFrom(s, BurstWindow)
           y == Younger(s, BurstWindow)
<1>0. Len(s) \in Nat /\ \A i \in 1..Len(s) : s[i] \in Nat
  BY LenProperties, ElementOfSeq
<1>1. /\ k \in 1..(Len(s) + 1) /\ y \in Seq(Nat) /\ Len(y) = Len(s) + 1 - k
      /\ \A n \in 1..(Len(s) + 1 - k) : y[n] = s[k - 1 + n]
  BY <1>0, YoungerProperties
<1>2. Recent(s) = y
  BY DEF Recent
<1>3. CASE BurstFull(s)
  <2>1. Len(y) >= Burst /\ Len(y) >= 1
    BY <1>0, <1>1, <1>2, <1>3 DEF BurstFull
  <2>2. k \in 1..Len(s) /\ Len(s) + 1 - k >= Burst
    BY <1>0, <1>1, <2>1
  <2>3. y # <<>>
    BY <1>1, <2>1, EmptySeq
  <2>4. Head(y) = y[1]
    BY <1>1, <2>3, HeadTailProperties
  <2>5. y[1] = s[k]
    <3>1. 1 \in 1..(Len(s) + 1 - k) /\ k - 1 + 1 = k
      BY <1>0, <2>2
    <3> QED
      BY <1>1, <3>1
  <2>6. RateDelay(s) = Max({1, BurstWindow - s[k]})
    BY <1>2, <1>3, <2>4, <2>5 DEF RateDelay
  <2>7. s[k] \in Nat
    BY <1>0, <2>2
  <2> HIDE DEF k
  <2>8. RateDelay(s) = IF 1 >= BurstWindow - s[k] THEN 1 ELSE BurstWindow - s[k]
    <3>1. BurstWindow - s[k] \in Int
      BY <2>7
    <3> QED
      BY <2>6, <3>1, MaxOfTwo
  <2> QED
    BY <1>0, <1>3, <2>2, <2>7, <2>8 DEF k
<1>4. CASE ~BurstFull(s)
  <2>1. Len(s) >= Most /\ Len(s) >= 1
    BY <1>0, <1>4 DEF RateFull
  <2>2. s # <<>>
    BY <1>0, <2>1, EmptySeq
  <2>3. Head(s) = s[1]
    BY <1>0, <2>2, HeadTailProperties
  <2>4. RateDelay(s) = Max({1, Window - s[1]})
    BY <1>4, <2>3 DEF RateDelay
  <2>5. s[1] \in Nat
    BY <1>0, <2>1
  <2>6. RateDelay(s) = IF 1 >= Window - s[1] THEN 1 ELSE Window - s[1]
    <3>1. Window - s[1] \in Int
      BY <2>5
    <3> QED
      BY <2>4, <3>1, MaxOfTwo
  <2> QED
    BY <1>0, <1>4, <2>1, <2>5, <2>6
<1> QED
  BY <1>3, <1>4

\* If the scan selects nobody, it has reached every bucket of the queue.
LEMMA NobodySelected ==
  ASSUME TypeOK, Selected = {}
  PROVE  /\ \A i \in DOMAIN queue : ~Admissible(queue[i])
         /\ Scanned = DOMAIN queue
<1> DEFINE I == {i \in DOMAIN queue : Admissible(queue[i])}
<1>0. DOMAIN queue = 1..Len(queue) /\ Len(queue) \in Nat
  BY LenProperties DEF TypeOK
<1>1. ASSUME I # {} PROVE FALSE
  <2>1. I \subseteq Nat
    BY <1>0
  <2>2. Min(I) \in I /\ \A x \in I : Min(I) <= x
    <3> HIDE DEF I
    <3> QED
      BY <1>1, <2>1, MinOf
  <2> DEFINE m == Min(I)
  <2>3. m \in DOMAIN queue /\ m \in 1..Len(queue) /\ Admissible(queue[m])
    BY <1>0, <2>2
  <2>4. ASSUME NEW k \in 1..(m - 1) PROVE ~Admissible(queue[k])
    <3>1. k \in 1..Len(queue) /\ k < m /\ k \in DOMAIN queue
      BY <1>0, <2>3
    <3>2. ~(m <= k)
      BY <1>0, <2>3, <3>1
    <3>3. k \notin I
      <4> HIDE DEF I
      <4> QED
        BY <2>2, <3>2
    <3> QED
      BY <3>1, <3>3
  <2>5. m \in Selected
    BY <2>3, <2>4 DEF Selected
  <2> QED
    BY <2>5
<1>2. \A i \in DOMAIN queue : ~Admissible(queue[i])
  BY <1>1
<1>3. Scanned = DOMAIN queue
  BY DEF Scanned
<1> QED
  BY <1>2, <1>3

\* Every deadline lies ahead.
LEMMA DeadlinesType ==
  ASSUME TypeOK, Selected = {}
  PROVE  Deadlines \subseteq Nat
<1> SUFFICES ASSUME NEW i \in {k \in DOMAIN queue : Wait(queue[k]) \in {"backoff", "none"}}
             PROVE  (IF Wait(queue[i]) = "backoff" THEN url[UrlOf[queue[i]]].retryIn
                                                   ELSE RateDelay(Times(queue[i]))) \in Nat
  BY DEF Deadlines
<1>1. DOMAIN queue = 1..Len(queue) /\ queue[i] \in Buckets
  BY LenProperties, ElementOfSeq DEF TypeOK
<1>2. UrlOf[queue[i]] \in Urls /\ Times(queue[i]) \in Seq(Nat)
  BY <1>1, RecoveryConstants DEF Times, TypeOK
<1>3. url[UrlOf[queue[i]]].retryIn \in Nat
  BY <1>2 DEF TypeOK, UrlState
<1>4. CASE Wait(queue[i]) = "backoff"
  BY <1>3, <1>4
<1>5. CASE Wait(queue[i]) = "none"
  <2>1. RateFull(Times(queue[i]))
    BY <1>5, NobodySelected DEF Admissible
  <2> QED
    BY <1>2, <1>5, <2>1, RateDelayType
<1> QED
  BY <1>4, <1>5

\* A pump that finds nothing to open keeps the invariant.
LEMMA PumpWaitsKeeps ==
  ASSUME IInv, PumpWaits, nav' = nav, scheduled' \in BOOLEAN, pumps' \in Nat
  PROVE  IInv'
<1>0. TypeOK /\ Selected = {}
  BY DEF IInv, PumpWaits
<1>1. timer' \in Nat \cup {-1}
  <2>1. Deadlines # {} => Min(Deadlines) \in Deadlines
    BY <1>0, DeadlinesType, MinOf
  <2> QED
    BY <1>0, <2>1, DeadlinesType DEF PumpWaits
<1>2. TypeOK'
  BY <1>0, <1>1, JoinedTypes DEF TypeOK, PumpWaits, pool, Probes
<1> QED
  BY <1>2, PoolKept DEF PumpWaits

\* A pump that meets an empty queue or an armed timer keeps the invariant.
LEMMA PumpSkipsKeeps ==
  ASSUME IInv, PumpSkips, nav' = nav, scheduled' \in BOOLEAN, pumps' \in Nat
  PROVE  IInv'
<1>1. TypeOK'
  BY DEF IInv, TypeOK, PumpSkips, pool, net
<1> QED
  BY <1>1, PoolKept DEF PumpSkips

\* Opening takes the selected bucket out of the queue.
LEMMA OpenLeavesQueue ==
  ASSUME IInv, NEW i \in DOMAIN queue
  PROVE  /\ queue[i] \in Buckets /\ status[queue[i]] = "queued"
         /\ RemoveAt(queue, i) \in Seq(Buckets)
         /\ IsInjective(RemoveAt(queue, i))
         /\ ToSet(RemoveAt(queue, i)) = ToSet(queue) \ {queue[i]}
<1> DEFINE b == queue[i]
<1>0. queue \in Seq(Buckets) /\ IsInjective(queue) /\ DOMAIN queue = 1..Len(queue)
  BY LenProperties DEF IInv, TypeOK, QueueOK
<1>1. b \in Buckets /\ b \in ToSet(queue)
  BY <1>0, ElementOfSeq DEF ToSet
<1>2. status[b] = "queued"
  BY <1>1 DEF IInv, QueueOK
<1>3. PICK k \in 1..Len(queue) : queue[k] = b /\ RemoveFirst(queue, b) = RemoveAt(queue, k)
  BY <1>0, <1>1, RemoveFirstAt
<1>4. k = i
  BY <1>0, <1>3 DEF IsInjective
<1>5. RemoveFirst(queue, b) = RemoveAt(queue, i)
  BY <1>3, <1>4
<1> HIDE DEF b
<1>6. /\ RemoveFirst(queue, b) \in Seq(Buckets)
      /\ IsInjective(RemoveFirst(queue, b))
      /\ ToSet(RemoveFirst(queue, b)) = ToSet(queue) \ {b}
  BY <1>0, RemoveFirstProperties
<1> QED
  BY <1>1, <1>2, <1>5, <1>6 DEF b

\* A bucket that is opened has no trial of a sibling to wait for: the gate said so.
LEMMA NoTrialToWaitFor ==
  ASSUME TypeOK, NEW b \in Buckets, Admissible(b), Recovering(UrlOf[b])
  PROVE  url[UrlOf[b]].trial = None
BY DEF Admissible, Wait, Recovering

\* What PumpOpens does to bucket queue[i], apart from the check.
Connects(b) ==
  /\ status' = [status EXCEPT ![b] = "connecting"]
  /\ stage' = [stage EXCEPT ![b] = AttemptState(UrlOf[b], b).generation]
  /\ url' = [url EXCEPT ![UrlOf[b]] = AttemptState(UrlOf[b], b)]
  /\ trialing' = IF Recovering(UrlOf[b]) THEN trialing \cup {b} ELSE trialing

Throws(b) ==
  /\ status' = [status EXCEPT ![b] = "none"]
  /\ url' = [url EXCEPT ![UrlOf[b]] =
               [AttemptState(UrlOf[b], b) EXCEPT !.trial = Released(AttemptState(UrlOf[b], b), b)]]
  /\ UNCHANGED <<stage, trialing>>

\* The socket connects: it has the lease if its URL recovers.
LEMMA ConnectsKeeps ==
  ASSUME IInv, NEW b \in Buckets, status[b] = "queued", Admissible(b), Connects(b)
  PROVE  /\ status' \in [Buckets -> {"none", "queued", "connecting", "open", "idle"}]
         /\ stage' \in [Buckets -> Nat]
         /\ url' \in [Urls -> UrlState]
         /\ trialing' \subseteq Buckets
         /\ TrialIsConnecting' /\ TrialHasLease' /\ StableIsHealthy'
<1> USE RecoveryConstants
<1> DEFINE u == UrlOf[b]
<1>0. TypeOK /\ TrialIsConnecting /\ TrialHasLease /\ StableIsHealthy /\ u \in Urls
  BY DEF IInv
<1>1. \A x \in Buckets : status'[x] = IF x = b THEN "connecting" ELSE status[x]
  BY <1>0 DEF Connects, TypeOK
<1>2. \A v \in Urls : url'[v] = IF v = u THEN AttemptState(v, b) ELSE url[v]
  BY <1>0 DEF Connects, TypeOK
<1>3. url' \in [Urls -> UrlState]
  BY <1>0, AttemptFields DEF Connects, TypeOK
<1>4. \A v \in Urls :
        /\ url'[v].trial = IF v = u /\ Recovering(v) THEN b ELSE url[v].trial
        /\ url'[v].stable = url[v].stable
  BY <1>0, <1>2, AttemptFields
<1>5. stage' \in [Buckets -> Nat] /\ trialing' \subseteq Buckets
      /\ status' \in [Buckets -> {"none", "queued", "connecting", "open", "idle"}]
  <2>1. AttemptState(u, b).generation \in Nat
    BY <1>0, AttemptFields DEF UrlState
  <2> QED
    BY <1>0, <2>1 DEF Connects, TypeOK
<1>6. TrialIsConnecting'
  <2> SUFFICES ASSUME NEW v \in Urls, url'[v].trial # None
               PROVE  UrlOf[url'[v].trial] = v /\ status'[url'[v].trial] = "connecting"
    BY DEF TrialIsConnecting
  <2>1. CASE v = u /\ Recovering(v)
    BY <1>1, <1>4, <2>1
  <2>2. CASE ~(v = u /\ Recovering(v))
    <3>1. url'[v].trial = url[v].trial /\ url[v].trial \in Buckets
      BY <1>0, <1>4, <2>2 DEF TypeOK, UrlState
    <3>2. UrlOf[url[v].trial] = v /\ status[url[v].trial] = "connecting"
      BY <1>0, <3>1 DEF TrialIsConnecting
    <3> QED
      BY <1>1, <3>1, <3>2
  <2> QED
    BY <2>1, <2>2
<1>7. TrialHasLease'
  <2> SUFFICES ASSUME NEW x \in trialing' PROVE status'[x] = "connecting" /\ url'[UrlOf[x]].trial = x
    BY DEF TrialHasLease
  <2>1. CASE x = b
    <3>1. b \notin trialing
      BY <1>0 DEF TrialHasLease
    <3>2. Recovering(u)
      BY <2>1, <3>1 DEF Connects
    <3> QED
      BY <1>0, <1>1, <1>4, <2>1, <3>2
  <2>2. CASE x # b
    <3>1. x \in trialing /\ x \in Buckets /\ UrlOf[x] \in Urls
      BY <1>0, <2>2 DEF Connects, TypeOK
    <3>2. status[x] = "connecting" /\ url[UrlOf[x]].trial = x
      BY <1>0, <3>1 DEF TrialHasLease
    <3>3. ~(UrlOf[x] = u /\ Recovering(u))
      BY <1>0, <3>1, <3>2, NoTrialToWaitFor
    <3> QED
      BY <1>1, <1>4, <3>1, <3>2, <3>3
  <2> QED
    BY <2>1, <2>2
<1>8. StableIsHealthy'
  <2> SUFFICES ASSUME NEW v \in Urls, url'[v].stable PROVE Healthy(v)' # {}
    BY DEF StableIsHealthy
  <2>1. PICK x \in Buckets : UrlOf[x] = v /\ status[x] \in {"open", "idle"}
    BY <1>0, <1>4 DEF StableIsHealthy, Healthy
  <2>2. status'[x] \in {"open", "idle"}
    BY <1>1, <2>1
  <2> QED
    BY <2>1, <2>2 DEF Healthy
<1> QED
  BY <1>3, <1>5, <1>6, <1>7, <1>8

\* Its construction throws: a lease it was given is gone again.
LEMMA ThrowsKeeps ==
  ASSUME IInv, NEW b \in Buckets, status[b] = "queued", Admissible(b), Throws(b)
  PROVE  /\ status' \in [Buckets -> {"none", "queued", "connecting", "open", "idle"}]
         /\ stage' \in [Buckets -> Nat]
         /\ url' \in [Urls -> UrlState]
         /\ trialing' \subseteq Buckets
         /\ TrialIsConnecting' /\ TrialHasLease' /\ StableIsHealthy'
<1> USE RecoveryConstants
<1> DEFINE u == UrlOf[b]
           A == AttemptState(u, b)
           t == Released(A, b)
           R == [A EXCEPT !.trial = t]
<1>0. TypeOK /\ TrialIsConnecting /\ TrialHasLease /\ StableIsHealthy /\ u \in Urls
  BY DEF IInv
<1>1. \A x \in Buckets : status'[x] = IF x = b THEN "none" ELSE status[x]
  BY <1>0 DEF Throws, TypeOK
<1>2. url' = [url EXCEPT ![u] = R]
  BY DEF Throws
<1>3. /\ A \in UrlState /\ A.stable = url[u].stable
      /\ A.trial = IF Recovering(u) THEN b ELSE url[u].trial
  BY <1>0, AttemptFields
<1>4. url[u].trial # b
  BY <1>0 DEF TrialIsConnecting
<1>5. t = IF Recovering(u) THEN None ELSE url[u].trial
  BY <1>3, <1>4 DEF Released
<1>6. Recovering(u) => url[u].trial = None
  BY <1>0, NoTrialToWaitFor
<1>7. t = url[u].trial /\ t \in Buckets \cup {None}
  BY <1>0, <1>5, <1>6 DEF TypeOK, UrlState
<1> HIDE DEF A, t, u
<1>8. R \in UrlState /\ R.trial = t /\ R.stable = A.stable
  BY <1>3, <1>7 DEF UrlState
<1> HIDE DEF R
<1>9. url' \in [Urls -> UrlState] /\ \A v \in Urls : url'[v] = IF v = u THEN R ELSE url[v]
  BY <1>0, <1>2, <1>8 DEF TypeOK
<1>10. \A v \in Urls : url'[v].trial = url[v].trial /\ (url'[v].stable => url[v].stable)
  BY <1>3, <1>7, <1>8, <1>9
<1>11. TrialIsConnecting' /\ TrialHasLease' /\ StableIsHealthy'
  BY <1>1, <1>10, LeasesKept DEF Throws
<1>12. /\ status' \in [Buckets -> {"none", "queued", "connecting", "open", "idle"}]
       /\ stage' \in [Buckets -> Nat] /\ trialing' \subseteq Buckets
  BY <1>0 DEF Throws, TypeOK
<1> QED
  BY <1>9, <1>11, <1>12

\* A pump that opens a socket keeps the invariant: a recovering relay gets its one
\* trial, and a socket that cannot be made gives the lease back.
LEMMA PumpOpensKeeps ==
  ASSUME IInv, PumpOpens, nav' = nav, scheduled' \in BOOLEAN, pumps' \in Nat
  PROVE  IInv'
<1> USE RecoveryConstants
<1>0. TypeOK /\ QueueOK
  BY DEF IInv
<1>1. PICK i \in Selected :
        /\ queue' = RemoveAt(queue, i)
        /\ ages' = [ages EXCEPT ![HostOf[UrlOf[queue[i]]]] = Append(@, 0)]
        /\ \/ Connects(queue[i]) /\ probe' = JoinedProbe /\ probing' = ProbeWanted /\ UNCHANGED monitor
           \/ Throws(queue[i]) /\ StopIfIdle(JoinedProbe, ProbeWanted, monitor, status')
  BY DEF PumpOpens, Connects, Throws
<1> DEFINE b == queue[i]
<1>2. i \in DOMAIN queue /\ Admissible(b)
  BY DEF Selected
<1>3. /\ b \in Buckets /\ status[b] = "queued"
      /\ queue' \in Seq(Buckets) /\ IsInjective(queue') /\ ToSet(queue') = ToSet(queue) \ {b}
  BY <1>1, <1>2, OpenLeavesQueue
<1>4. ages' \in [Hosts -> Seq(Nat)]
  <2>1. \A h \in Hosts : ages[h] \in Seq(Nat) /\ Append(ages[h], 0) \in Seq(Nat)
    BY <1>0, AppendProperties DEF TypeOK
  <2> QED
    BY <1>0, <1>1, <2>1 DEF TypeOK
<1>5. probe' \in Probes /\ probing' \in BOOLEAN /\ monitor' \in BOOLEAN
  <2>1. JoinedProbe \in Probes /\ ProbeWanted \in BOOLEAN /\ monitor \in BOOLEAN
    BY <1>0, JoinedTypes DEF TypeOK
  <2> QED
    BY <1>1, <2>1, StopTypes
<1> HIDE DEF b
<1>6. Connects(b) \/ Throws(b)
  BY <1>1 DEF b
<1>7. /\ status' \in [Buckets -> {"none", "queued", "connecting", "open", "idle"}]
      /\ stage' \in [Buckets -> Nat]
      /\ url' \in [Urls -> UrlState]
      /\ trialing' \subseteq Buckets
      /\ TrialIsConnecting' /\ TrialHasLease' /\ StableIsHealthy'
  BY <1>2, <1>3, <1>6, ConnectsKeeps, ThrowsKeeps DEF b
<1>8. \A x \in Buckets : status'[x] = "queued" <=> status[x] = "queued" /\ x # b
  BY <1>0, <1>3, <1>6 DEF Connects, Throws, TypeOK
<1>9. QueueOK'
  <2>1. ToSet(queue') = {x \in Buckets : status'[x] = "queued"}
    BY <1>0, <1>3, <1>8 DEF QueueOK
  <2> QED
    BY <1>3, <2>1 DEF QueueOK
<1>10. TypeOK'
  BY <1>0, <1>3, <1>4, <1>5, <1>7 DEF TypeOK, PumpOpens, Probes
<1> QED
  BY <1>7, <1>9, <1>10 DEF IInv

\* A pump of either kind.
LEMMA PumpKeeps == ASSUME IInv, PumpScheduled \/ PumpAgain PROVE IInv'
<1>0. pumps \in Nat /\ scheduled \in BOOLEAN
  BY DEF IInv, TypeOK
<1>1. Again \in {0, 1} /\ Thrown \in BOOLEAN
  BY DEF Again, Thrown
<1>2. scheduled' \in BOOLEAN /\ pumps' \in Nat /\ Pump
  BY <1>0, <1>1 DEF PumpScheduled, PumpAgain
<1> QED
  BY <1>2, PumpOfflineKeeps, PumpWaitsKeeps, PumpOpensKeeps, PumpSkipsKeeps DEF Pump

\* A step that changes nothing keeps the invariant.
LEMMA StutterKeeps == ASSUME IInv, UNCHANGED vars PROVE IInv'
<1>1. TypeOK'
  BY DEF IInv, TypeOK, vars, net, loop
<1> QED
  BY <1>1, PoolKept DEF vars, pool

\* Every step keeps the invariant, and it holds initially.
LEMMA StepKeeps == IInv /\ [Next]_vars => IInv'
<1> SUFFICES ASSUME IInv, [Next]_vars PROVE IInv'
  OBVIOUS
<1>1. CASE \E b \in Buckets : Attach(b) \/ Join(b) \/ Leave(b) \/ IdleTimeout(b) \/ Opened(b) \/ Closed(b) \/ Failed(b)
  BY <1>1, AttachKeeps, JoinKeeps, LeaveKeeps, IdleTimeoutKeeps, OpenedKeeps, ClosedKeeps, FailedKeeps
<1>2. CASE \E u \in Urls : Stable(u) \/ Expire(u)
  BY <1>2, StableKeeps, ExpireKeeps
<1>3. CASE \E online \in BOOLEAN : ProbeEnds(online)
  BY <1>3, ProbeEndsKeeps
<1>4. CASE Online \/ NavChanges \/ TimerFires
  BY <1>4, EnvironmentKeeps
<1>5. CASE Tick
  BY <1>5, TickKeeps
<1>6. CASE PumpScheduled \/ PumpAgain
  BY <1>6, PumpKeeps
<1>7. CASE UNCHANGED vars
  BY <1>7, StutterKeeps
<1> QED
  BY <1>1, <1>2, <1>3, <1>4, <1>5, <1>6, <1>7 DEF Next

\* The initial states satisfy the invariant.
LEMMA InitKeeps == Init => IInv
<1> SUFFICES ASSUME Init PROVE IInv
  OBVIOUS
<1> USE RecoveryConstants
<1>1. TypeOK
  <2>1. status \in [Buckets -> {"none", "queued", "connecting", "open", "idle"}] /\ stage \in [Buckets -> Nat]
    BY DEF Init
  <2>2. url \in [Urls -> UrlState]
    BY FreshFields DEF Init
  <2>3. queue \in Seq(Buckets) /\ ages \in [Hosts -> Seq(Nat)]
    BY DEF Init
  <2>4. probe \in [Urls -> {"no", "current", "stale"}]
    BY DEF Init
  <2>5. timer \in Nat \cup {-1}
    BY DEF Init
  <2> QED
    BY <2>1, <2>2, <2>3, <2>4, <2>5 DEF Init, TypeOK
<1>2. QueueOK
  BY DEF Init, QueueOK, IsInjective, ToSet
<1>3. TrialIsConnecting /\ TrialHasLease /\ StableIsHealthy
  BY FreshFields DEF Init, TrialIsConnecting, TrialHasLease, StableIsHealthy
<1> QED
  BY <1>1, <1>2, <1>3 DEF IInv

\* The leases, the queue and the stability timers are in order after every task.
THEOREM LeasesInOrder == Spec => []IInv
<1> QED
  BY InitKeeps, StepKeeps, PTL DEF Spec

\* The trial lease of a relay is held by a socket that is still connecting, and
\* there is one trial at a time, whatever older sockets and siblings do.
THEOREM OneTrialAtATime == Spec => []TrialLease
<1>1. IInv => TrialLease
  BY DEF IInv, TrialLease, TrialHasLease, OneTrial
<1> QED
  BY <1>1, LeasesInOrder, PTL

-----------------------------------------------------------------------------
\* The back-off.

\* No record's delay shrinks, whatever happens to a single bucket ...
LEMMA BucketKeepsDelays ==
  ASSUME IInv, NEW b \in Buckets,
         Attach(b) \/ Join(b) \/ Leave(b) \/ IdleTimeout(b) \/ Opened(b) \/ Closed(b) \/ Failed(b)
  PROVE  \A u \in Urls : url'[u].delay = url[u].delay
<1> USE RecoveryConstants
<1>0. TypeOK /\ UrlOf[b] \in Urls
  BY DEF IInv
<1>1. CASE url' = url
  BY <1>1
<1>2. CASE url' = [url EXCEPT ![UrlOf[b]] = ClosedState(UrlOf[b], b)]
  BY <1>0, <1>2, ClosedEverywhere
<1>3. CASE Opened(b)
  <2>1. \A v \in Urls : url'[v] = IF v = UrlOf[b] THEN OpenedState(v, b) ELSE url[v]
    BY <1>0, <1>3 DEF Opened, TypeOK
  <2> QED
    BY <1>0, <2>1, OpenedFields
<1>4. CASE url' = FailedRecords(b)
  BY <1>0, <1>4, FailedEverywhere
<1>5. CASE url' = Forgotten(FailedRecords(b))
  <2>1. FailedRecords(b) \in [Urls -> UrlState] /\ \A v \in Urls : FailedRecords(b)[v].delay = url[v].delay
    BY <1>0, FailedEverywhere
  <2>2. \A v \in Urls : Forgotten(FailedRecords(b))[v].delay = FailedRecords(b)[v].delay
    BY <2>1, ForgottenFields
  <2> QED
    BY <1>5, <2>1, <2>2
<1>6. Attach(b) \/ Join(b) => url' = url
  BY DEF Attach, Join
<1>7. Leave(b) \/ IdleTimeout(b) \/ Closed(b)
        => url' = url \/ url' = [url EXCEPT ![UrlOf[b]] = ClosedState(UrlOf[b], b)]
  BY DEF Leave, IdleTimeout, Closed
<1>8. Failed(b) => \/ url' = [url EXCEPT ![UrlOf[b]] = ClosedState(UrlOf[b], b)]
                   \/ url' = FailedRecords(b)
                   \/ url' = Forgotten(FailedRecords(b))
  BY DEF Failed, FailedRecords
<1> QED
  BY <1>1, <1>2, <1>3, <1>4, <1>5, <1>6, <1>7, <1>8

\* ... or when the pump opens sockets or makes them wait.
LEMMA PumpKeepsDelays ==
  ASSUME IInv, PumpScheduled \/ PumpAgain
  PROVE  \A u \in Urls : url'[u].delay = url[u].delay
<1> USE RecoveryConstants
<1>0. TypeOK /\ url \in [Urls -> UrlState]
  BY DEF IInv, TypeOK
<1>1. CASE url' = url
  BY <1>1
<1>2. CASE url' = Forgotten(url)
  BY <1>0, <1>2, ForgottenFields
<1>3. CASE PumpOpens
  <2>1. PICK i \in Selected : Connects(queue[i]) \/ Throws(queue[i])
    BY <1>3 DEF PumpOpens, Connects, Throws
  <2> DEFINE b == queue[i]
             A == AttemptState(UrlOf[b], b)
             t == Released(A, b)
             R == [A EXCEPT !.trial = t]
  <2>2. b \in Buckets /\ UrlOf[b] \in Urls
    BY <1>0, ElementOfSeq, LenProperties DEF Selected, TypeOK
  <2>3. A \in UrlState /\ A.delay = url[UrlOf[b]].delay
    BY <1>0, <2>2, AttemptFields
  <2>4. url' = [url EXCEPT ![UrlOf[b]] = A] \/ url' = [url EXCEPT ![UrlOf[b]] = R]
    BY <2>1 DEF Connects, Throws
  <2> HIDE DEF A, t, b
  <2>5. R.delay = A.delay
    BY <2>3 DEF UrlState
  <2> HIDE DEF R
  <2> QED
    BY <1>0, <2>2, <2>3, <2>4, <2>5
<1>4. PumpOffline => url' = url \/ url' = Forgotten(url)
  BY DEF PumpOffline
<1>5. PumpWaits \/ PumpSkips => url' = url
  BY DEF PumpWaits, PumpSkips
<1> QED
  BY <1>1, <1>2, <1>3, <1>4, <1>5 DEF PumpScheduled, PumpAgain, Pump

\* A delay shrinks at two steps only: the URL was stable, or of interest to nobody.
LEMMA DelayShrinksForAReason ==
  ASSUME IInv, [Next]_vars, NEW u \in Urls, url'[u].delay < url[u].delay
  PROVE  (url[u].stable /\ Healthy(u) # {}) \/ ~Interested(status, u)
<1>0. TypeOK /\ StableIsHealthy /\ url[u].delay \in Int /\ ~(url[u].delay < url[u].delay)
  BY DEF IInv, TypeOK, UrlState
<1>1. CASE \E b \in Buckets : Attach(b) \/ Join(b) \/ Leave(b) \/ IdleTimeout(b) \/ Opened(b) \/ Closed(b) \/ Failed(b)
  BY <1>0, <1>1, BucketKeepsDelays
<1>2. CASE \E v \in Urls : Stable(v)
  <2>1. PICK v \in Urls : Stable(v)
    BY <1>2
  <2>2. v = u
    BY <1>0, <2>1 DEF Stable, TypeOK
  <2> QED
    BY <1>0, <2>1, <2>2 DEF Stable, StableIsHealthy
<1>3. CASE \E v \in Urls : Expire(v)
  <2>1. PICK v \in Urls : Expire(v)
    BY <1>3
  <2>2. v = u
    BY <1>0, <2>1 DEF Expire, TypeOK
  <2> QED
    BY <2>1, <2>2 DEF Expire
<1>4. CASE \E online \in BOOLEAN : ProbeEnds(online)
  <2>1. url'[u].delay >= url[u].delay /\ url'[u].delay \in Int
    BY <1>0, <1>4, ProbeEndsFields DEF UrlState
  <2> QED
    BY <1>0, <2>1
<1>5. CASE Online \/ NavChanges \/ TimerFires \/ UNCHANGED vars
  BY <1>0, <1>5 DEF Online, NavChanges, TimerFires, vars
<1>6. CASE Tick
  <2>1. url' = [v \in Urls |-> Nearer(url[v])] /\ url[u] \in UrlState
    BY <1>0, <1>6 DEF Tick, Nearer, TypeOK
  <2> QED
    BY <1>0, <2>1, NearerFields
<1>7. CASE PumpScheduled \/ PumpAgain
  BY <1>0, <1>7, PumpKeepsDelays
<1> QED
  BY <1>1, <1>2, <1>3, <1>4, <1>5, <1>6, <1>7 DEF Next

\* A socket that opens and drops again keeps its back-off.
THEOREM FlappingNeverHelps == Spec => FlappingKeepsDelay
<1>1. IInv /\ [Next]_vars =>
        [\A u \in Urls : url'[u].delay < url[u].delay =>
           (url[u].stable /\ Healthy(u) # {}) \/ ~Interested(status, u)]_vars
  BY DelayShrinksForAReason
<1> QED
  BY <1>1, LeasesInOrder, PTL DEF Spec, FlappingKeepsDelay

-----------------------------------------------------------------------------
\* Rates and time.
Sorted(s) == \A m, n \in 1..Len(s) : m < n => s[m] >= s[n]

\* Attempts that are kept stay in order.
LEMMA AgedSorted ==
  ASSUME NEW s \in Seq(Nat), Sorted(s)
  PROVE  /\ Sorted(Aged(s))
         /\ \E k \in 1..(Len(s) + 1) :
              /\ Len(Aged(s)) = Len(s) + 1 - k
              /\ \A n \in 1..Len(Aged(s)) : k - 1 + n \in 1..Len(s) /\ Aged(s)[n] = s[k - 1 + n] + 1
              /\ \A i \in 1..(k - 1) : s[i] + 1 >= Window
<1> USE RecoveryConstants
<1> DEFINE l == Later(s)
           k == YoungerFrom(l, Window)
           t == Aged(s)
<1>0. Len(s) \in Nat /\ \A i \in 1..Len(s) : s[i] \in Nat
  BY LenProperties, ElementOfSeq
<1>1. /\ l \in Seq(Nat) /\ Len(l) = Len(s) /\ \A i \in 1..Len(s) : l[i] = s[i] + 1
      /\ t = Younger(l, Window) /\ t \in Seq(Nat)
  BY AgedTypes
<1> HIDE DEF l, t
<1>2. /\ k \in 1..(Len(s) + 1) /\ Len(t) = Len(s) + 1 - k
      /\ \A i \in 1..(k - 1) : l[i] >= Window
      /\ \A n \in 1..(Len(s) + 1 - k) : t[n] = l[k - 1 + n]
  <2>1. Window \in Nat
    OBVIOUS
  <2>2. /\ k \in 1..(Len(l) + 1) /\ Len(Younger(l, Window)) = Len(l) + 1 - k
        /\ \A i \in 1..(k - 1) : l[i] >= Window
        /\ \A n \in 1..(Len(l) + 1 - k) : Younger(l, Window)[n] = l[k - 1 + n]
    BY <1>1, <2>1, YoungerProperties
  <2> QED
    BY <1>1, <2>2
<1> HIDE DEF k
<1>3. \A n \in 1..Len(t) : k - 1 + n \in 1..Len(s) /\ t[n] = s[k - 1 + n] + 1
  <2> SUFFICES ASSUME NEW n \in 1..Len(t) PROVE k - 1 + n \in 1..Len(s) /\ t[n] = s[k - 1 + n] + 1
    OBVIOUS
  <2>1. k - 1 + n \in 1..Len(s) /\ n \in 1..(Len(s) + 1 - k)
    BY <1>0, <1>2
  <2> QED
    BY <1>1, <1>2, <2>1
<1>4. \A i \in 1..(k - 1) : s[i] + 1 >= Window
  <2> SUFFICES ASSUME NEW i \in 1..(k - 1) PROVE s[i] + 1 >= Window
    OBVIOUS
  <2>1. i \in 1..Len(s)
    BY <1>0, <1>2
  <2> QED
    BY <1>1, <1>2, <2>1
<1>5. Sorted(t)
  <2> SUFFICES ASSUME NEW m \in 1..Len(t), NEW n \in 1..Len(t), m < n PROVE t[m] >= t[n]
    BY DEF Sorted
  <2>1. /\ k - 1 + m \in 1..Len(s) /\ k - 1 + n \in 1..Len(s) /\ k - 1 + m < k - 1 + n
        /\ t[m] = s[k - 1 + m] + 1 /\ t[n] = s[k - 1 + n] + 1
    BY <1>0, <1>2, <1>3
  <2>2. s[k - 1 + m] >= s[k - 1 + n] /\ s[k - 1 + m] \in Nat /\ s[k - 1 + n] \in Nat
    BY <1>0, <2>1 DEF Sorted
  <2> QED
    BY SMTT(30), <2>1, <2>2
<1> QED
  BY <1>2, <1>3, <1>4, <1>5 DEF t

\* A tick brings the end of a full rate nearer by a tick at most, and when the
\* rate is no longer full its end was due.
LEMMA RateTick ==
  ASSUME NEW s \in Seq(Nat), Sorted(s)
  PROVE  /\ RateFull(Aged(s)) => RateFull(s) /\ RateDelay(Aged(s)) >= RateDelay(s) - 1
         /\ RateFull(s) /\ ~RateFull(Aged(s)) => RateDelay(s) = 1
<1> USE RecoveryConstants
<1> DEFINE t == Aged(s)
           ks == YoungerFrom(s, BurstWindow)
           kt == YoungerFrom(t, BurstWindow)
<1>0. /\ Len(s) \in Nat /\ \A i \in 1..Len(s) : s[i] \in Nat
      /\ t \in Seq(Nat) /\ Len(t) \in Nat /\ \A i \in 1..Len(t) : t[i] \in Nat
  BY AgedTypes, LenProperties, ElementOfSeq
<1>1. PICK k \in 1..(Len(s) + 1) :
        /\ Len(t) = Len(s) + 1 - k
        /\ \A n \in 1..Len(t) : k - 1 + n \in 1..Len(s) /\ t[n] = s[k - 1 + n] + 1
        /\ \A i \in 1..(k - 1) : s[i] + 1 >= Window
  BY AgedSorted
<1> HIDE DEF t
<1>2. /\ ks \in 1..(Len(s) + 1) /\ (ks <= Len(s) => s[ks] < BurstWindow)
      /\ \A i \in 1..(ks - 1) : s[i] >= BurstWindow
      /\ Len(Recent(s)) = Len(s) + 1 - ks
  BY <1>0, YoungerProperties DEF Recent
<1>3. /\ kt \in 1..(Len(t) + 1) /\ (kt <= Len(t) => t[kt] < BurstWindow)
      /\ \A i \in 1..(kt - 1) : t[i] >= BurstWindow
      /\ Len(Recent(t)) = Len(t) + 1 - kt
  BY <1>0, YoungerProperties DEF Recent
<1>b. \A w \in {s, t} : RateFull(w) =>
        /\ RateDelay(w) \in Nat /\ RateDelay(w) >= 1
        /\ BurstFull(w) =>
             RateDelay(w) = IF 1 >= BurstWindow - w[YoungerFrom(w, BurstWindow)] THEN 1
                            ELSE BurstWindow - w[YoungerFrom(w, BurstWindow)]
        /\ ~BurstFull(w) =>
             RateDelay(w) = IF 1 >= Window - w[1] THEN 1 ELSE Window - w[1]
  BY <1>0, RateDelayType
<1> DEFINE Delay(w, j) == IF 1 >= BurstWindow - w[j] THEN 1 ELSE BurstWindow - w[j]
<1>c. /\ BurstFull(s) => RateFull(s) /\ RateDelay(s) = Delay(s, ks)
      /\ BurstFull(t) => RateFull(t) /\ RateDelay(t) = Delay(t, kt)
  BY <1>b DEF RateFull
<1>d. /\ RateFull(s) /\ ~BurstFull(s) => RateDelay(s) = IF 1 >= Window - s[1] THEN 1 ELSE Window - s[1]
      /\ RateFull(t) /\ ~BurstFull(t) => RateDelay(t) = IF 1 >= Window - t[1] THEN 1 ELSE Window - t[1]
      /\ RateFull(s) => RateDelay(s) \in Nat /\ RateDelay(s) >= 1
      /\ RateFull(t) => RateDelay(t) \in Nat /\ RateDelay(t) >= 1
  BY <1>b
<1>e. /\ BurstFull(s) <=> Len(s) + 1 - ks >= Burst
      /\ BurstFull(t) <=> Len(t) + 1 - kt >= Burst
  BY <1>2, <1>3 DEF BurstFull
<1>f. /\ RateFull(s) <=> BurstFull(s) \/ Len(s) >= Most
      /\ RateFull(t) <=> BurstFull(t) \/ Len(t) >= Most
  BY DEF RateFull
<1> HIDE DEF ks, kt
<1>g. Burst >= 1 /\ Most >= 1 /\ BurstWindow <= Window /\ BurstWindow \in Nat /\ Window \in Nat /\ Burst \in Nat /\ Most \in Nat
  OBVIOUS
\* The burst is full after the tick: it was before, by the same attempts or more.
<1>4. CASE BurstFull(t)
  <2> DEFINE i == k - 1 + kt
  <2>1. kt \in 1..Len(t)
    BY <1>0, <1>3, <1>4, <1>e, <1>g
  <2>2. i \in 1..Len(s) /\ t[kt] = s[i] + 1 /\ s[i] \in Nat /\ t[kt] < BurstWindow
    BY <1>0, <1>1, <1>3, <2>1
  <2>3. i >= ks
    <3> SUFFICES ASSUME i < ks PROVE FALSE
      BY <1>2, <2>2
    <3>1. i \in 1..(ks - 1)
      BY <1>2, <2>2
    <3>2. s[i] >= BurstWindow
      BY <1>2, <3>1
    <3> QED
      BY <1>g, <2>2, <3>2
  <2>4. Len(s) + 1 - ks >= Burst
    BY <1>0, <1>1, <1>2, <1>3, <1>4, <1>e, <1>g, <2>3
  <2>5. BurstFull(s) /\ ks \in 1..Len(s)
    BY <1>0, <1>2, <1>e, <1>g, <2>4
  <2>6. s[i] <= s[ks] /\ s[ks] \in Nat
    <3>1. s[ks] \in Nat /\ ks \in 1..Len(s) /\ ks <= i
      BY <1>0, <2>2, <2>3, <2>5
    <3> HIDE DEF i
    <3>2. CASE i = ks
      BY <2>2, <3>1, <3>2
    <3>3. CASE ks < i
      BY <2>2, <3>1, <3>3 DEF Sorted
    <3> QED
      BY <2>2, <3>1, <3>2, <3>3
  <2> HIDE DEF i
  <2>7. Delay(t, kt) >= Delay(s, ks) - 1
    <3> DEFINE x == t[kt]
               y == s[ks]
    <3>1. x \in Int /\ y \in Int /\ x <= y + 1
      BY <2>2, <2>6
    <3> HIDE DEF x, y
    <3>2. (IF 1 >= BurstWindow - x THEN 1 ELSE BurstWindow - x) >= (IF 1 >= BurstWindow - y THEN 1 ELSE BurstWindow - y) - 1
      BY <1>g, <3>1
    <3> QED
      BY <3>2 DEF x, y
  <2>8. RateFull(s) /\ RateFull(t) /\ RateDelay(s) = Delay(s, ks) /\ RateDelay(t) = Delay(t, kt)
    BY <1>4, <1>c, <2>5
  <2> HIDE DEF Delay
  <2> QED
    BY <2>7, <2>8 DEF t
\* Some attempt has left the burst: the oldest one was due.
<1>5. CASE BurstFull(s) /\ ~BurstFull(t)
  <2>1. ks \in 1..Len(s) /\ s[ks] \in Nat
    BY <1>0, <1>2, <1>5, <1>e, <1>g
  <2>2. s[ks] + 1 >= BurstWindow
    <3> SUFFICES ASSUME s[ks] + 1 < BurstWindow PROVE FALSE
      BY <1>g, <2>1
    <3>1. k <= ks
      <4> SUFFICES ASSUME ks < k PROVE FALSE
        BY <1>1, <2>1
      <4>1. ks \in 1..(k - 1)
        BY <1>1, <2>1
      <4>2. s[ks] + 1 >= Window
        BY <1>1, <4>1
      <4> QED
        BY <1>g, <2>1, <4>2
    <3> DEFINE n == ks - k + 1
    <3>2. n \in 1..Len(t) /\ k - 1 + n = ks
      BY <1>0, <1>1, <2>1, <3>1
    <3>3. t[n] = s[ks] + 1
      BY <1>1, <3>2
    <3>4. kt <= n
      <4> SUFFICES ASSUME n < kt PROVE FALSE
        BY <1>3, <3>2
      <4>1. n \in 1..(kt - 1)
        BY <1>3, <3>2
      <4>2. t[n] >= BurstWindow
        BY <1>3, <4>1
      <4> QED
        BY <1>g, <2>1, <3>3, <4>2
    <3> QED
      BY <1>0, <1>1, <1>2, <1>3, <1>5, <1>e, <1>g, <3>2, <3>4
  <2>3. Delay(s, ks) = 1
    BY <1>g, <2>1, <2>2
  <2>4. RateFull(s) /\ RateDelay(s) = Delay(s, ks)
    BY <1>5, <1>c
  <2> HIDE DEF Delay
  <2> QED
    BY <1>d, <2>3, <2>4 DEF t
<1>6. CASE ~BurstFull(s) /\ ~BurstFull(t)
  <2>1. CASE RateFull(t)
    <3>1. Len(t) >= Most /\ Len(s) >= Most /\ RateFull(s)
      BY <1>0, <1>1, <1>6, <1>f, <1>g, <2>1
    <3>2. /\ 1 \in 1..Len(t) /\ k - 1 + 1 = k /\ k \in 1..Len(s) /\ t[1] = s[k] + 1
          /\ s[k] \in Nat /\ s[1] \in Nat /\ 1 \in 1..Len(s)
      <4>1. 1 \in 1..Len(t) /\ k - 1 + 1 = k
        BY <1>0, <1>1, <1>g, <3>1
      <4>2. k \in 1..Len(s) /\ t[1] = s[k] + 1
        BY <1>1, <4>1
      <4>3. 1 \in 1..Len(s)
        BY <1>0, <1>g, <3>1
      <4> QED
        BY <1>0, <4>1, <4>2, <4>3
    <3>3. s[k] <= s[1]
      BY <3>2 DEF Sorted
    <3>4. /\ RateDelay(s) = IF 1 >= Window - s[1] THEN 1 ELSE Window - s[1]
          /\ RateDelay(t) = IF 1 >= Window - t[1] THEN 1 ELSE Window - t[1]
      BY <1>6, <1>d, <2>1, <3>1
    <3>5. RateDelay(t) >= RateDelay(s) - 1
      <4> DEFINE x == t[1]
                 y == s[1]
      <4>1. x \in Int /\ y \in Int /\ x <= y + 1
        BY <3>2, <3>3
      <4> HIDE DEF x, y
      <4>2. (IF 1 >= Window - x THEN 1 ELSE Window - x) >= (IF 1 >= Window - y THEN 1 ELSE Window - y) - 1
        BY <1>g, <4>1
      <4> QED
        BY <3>4, <4>2 DEF x, y
    <3> QED
      BY <2>1, <3>1, <3>5 DEF t
  <2>2. CASE RateFull(s) /\ ~RateFull(t)
    <3>1. Len(s) >= Most /\ ~(Len(t) >= Most)
      BY <1>6, <1>f, <2>2
    <3>2. 1 \in 1..(k - 1) /\ 1 \in 1..Len(s)
      BY <1>0, <1>1, <1>g, <3>1
    <3>3. s[1] + 1 >= Window /\ s[1] \in Nat
      BY <1>0, <1>1, <3>2
    <3>4. RateDelay(s) = IF 1 >= Window - s[1] THEN 1 ELSE Window - s[1]
      BY <1>6, <1>d, <2>2
    <3>5. RateDelay(s) = 1
      BY <1>g, <3>3, <3>4
    <3> QED
      BY <2>2, <3>5 DEF t
  <2>3. CASE ~RateFull(s) /\ ~RateFull(t)
    BY <2>3 DEF t
  <2> QED
    BY <2>1, <2>2, <2>3
<1> QED
  BY <1>4, <1>5, <1>6

-----------------------------------------------------------------------------
\* Who ends the wait of a queued bucket.  What NoSleep asks of the moments
\* between tasks holds from the moment a timer is armed, while further pumps are
\* still to come.
Awaken(b) == (offline /\ monitor) \/ (~offline /\ Ending(b))
Awake == \A b \in Buckets : status[b] = "queued" => Awaken(b)
OldestFirst == \A h \in Hosts : Sorted(ages[h])
SInv == IInv /\ OldestFirst /\ (Quiet \/ timer # -1 => Awake)

\* A bucket waits on while nothing it waits for changes.
LEMMA WaitsOn ==
  ASSUME IInv', NEW b \in Buckets, Awaken(b),
         url'[UrlOf[b]] = url[UrlOf[b]],
         Healthy(UrlOf[b])' = {} <=> Healthy(UrlOf[b]) = {},
         probe'[UrlOf[b]] = probe[UrlOf[b]], probing' = probing,
         timer' = timer, Times(b)' = Times(b), offline' = offline, monitor' = monitor
  PROVE  Awaken(b)'
<1> USE RecoveryConstants
<1>1. CASE offline /\ monitor
  BY <1>1 DEF Awaken
<1>2. CASE ~offline /\ Ending(b)
  <2>1. Wait(b)' = Wait(b)
    BY DEF Wait
  <2>2. Wait(b)' = "probe" => status'[url'[UrlOf[b]].trial] = "connecting"
    <3>1. TrialIsConnecting' /\ UrlOf[b] \in Urls
      BY DEF IInv
    <3>2. Wait(b)' = "probe" => url'[UrlOf[b]].trial # None
      BY DEF Wait
    <3> QED
      BY <3>1, <3>2 DEF TrialIsConnecting
  <2>3. Ending(b)'
    <3> HIDE DEF Wait
    <3> QED
      BY <1>2, <2>1, <2>2 DEF Ending
  <2> QED
    BY <1>2, <2>3 DEF Awaken
<1> QED
  BY <1>1, <1>2 DEF Awaken

\* Steps without a wake-up between tasks.
LEMMA JoinAwake == ASSUME IInv, IInv', Awake, NEW c \in Buckets, Join(c) PROVE Awake'
<1>0. TypeOK /\ \A x \in Buckets : status'[x] = IF x = c THEN "open" ELSE status[x]
  BY DEF IInv, TypeOK, Join
<1> SUFFICES ASSUME NEW b \in Buckets, status'[b] = "queued" PROVE Awaken(b)'
  BY DEF Awake
<1>1. Awaken(b)
  BY <1>0 DEF Awake
<1>2. Healthy(UrlOf[b])' = Healthy(UrlOf[b])
  BY <1>0 DEF Healthy, Join
<1> QED
  BY <1>1, <1>2, WaitsOn DEF Join, net, loop, Times

\* A bucket whose last member leaves does not put the others to sleep.
LEMMA LeaveAwake ==
  ASSUME IInv, IInv', Awake, NEW c \in Buckets, Leave(c), timer' # -1 \/ Quiet'
  PROVE  Awake'
<1>0. /\ status[c] = "open" /\ status' = [status EXCEPT ![c] = "idle"] /\ UNCHANGED <<stage, url, loop, trialing>>
      /\ StopIfIdle(probe, probing, monitor, status') /\ UNCHANGED <<offline, nav, ages>>
  BY DEF Leave, Wake, Quiet
<1>1. TypeOK /\ \A x \in Buckets : status'[x] = IF x = c THEN "idle" ELSE status[x]
  BY <1>0 DEF IInv, TypeOK
<1> SUFFICES ASSUME NEW b \in Buckets, status'[b] = "queued" PROVE Awaken(b)'
  BY DEF Awake
<1>2. Awaken(b)
  BY <1>1 DEF Awake
<1>3. Healthy(UrlOf[b])' = Healthy(UrlOf[b])
  BY <1>0, <1>1 DEF Healthy
<1>4. probe' = probe /\ probing' = probing /\ monitor' = monitor
  <2>1. Demand(status')
    BY DEF Demand, Live
  <2> QED
    BY <1>0, <2>1 DEF StopIfIdle
<1> QED
  BY <1>0, <1>2, <1>3, <1>4, WaitsOn DEF loop, Times

\* A browser that goes online or offline does not put anybody to sleep.
LEMMA NavAwake == ASSUME IInv, IInv', Awake, NavChanges PROVE Awake'
<1> SUFFICES ASSUME NEW b \in Buckets, status[b] = "queued" PROVE Awaken(b)'
  BY DEF Awake, NavChanges, pool
<1>1. Awaken(b)
  BY DEF Awake
<1>2. Healthy(UrlOf[b])' = Healthy(UrlOf[b])
  BY DEF Healthy, NavChanges, pool
<1> QED
  BY <1>1, <1>2, WaitsOn DEF NavChanges, net, loop, Times

\* A URL is forgotten when none of its buckets is queued.
LEMMA ExpireAwake == ASSUME IInv, IInv', Awake, NEW u \in Urls, Expire(u) PROVE Awake'
<1>0. TypeOK /\ status' = status
  BY DEF IInv, Expire, pool
<1> SUFFICES ASSUME NEW b \in Buckets, status[b] = "queued" PROVE Awaken(b)'
  BY <1>0 DEF Awake
<1>1. Awaken(b)
  BY DEF Awake
<1>2. UrlOf[b] # u /\ UrlOf[b] \in Urls
  BY RecoveryConstants DEF Expire, Interested, Live
<1>3. Healthy(UrlOf[b])' = Healthy(UrlOf[b])
  BY <1>0 DEF Healthy
<1>4. url'[UrlOf[b]] = url[UrlOf[b]] /\ probe'[UrlOf[b]] = probe[UrlOf[b]]
  BY <1>0, <1>2 DEF Expire, Outdated, TypeOK
<1> QED
  BY <1>1, <1>3, <1>4, WaitsOn DEF Expire, loop, Times

\* A tick brings the timer, the back-off and the ends of the rates nearer alike.
LEMMA TickAwake == ASSUME IInv, IInv', OldestFirst, Awake, Tick PROVE Awake' /\ OldestFirst'
<1> USE RecoveryConstants
<1>0. /\ TypeOK /\ UNCHANGED <<pool, offline, monitor, probe, probing>>
      /\ url' = [u \in Urls |-> Nearer(url[u])] /\ timer' = Less(timer) /\ ages' = [h \in Hosts |-> Aged(ages[h])]
  BY DEF IInv, Tick, net, Nearer
<1>1. OldestFirst'
  <2> SUFFICES ASSUME NEW h \in Hosts PROVE Sorted(ages'[h])
    BY DEF OldestFirst
  <2>1. ages[h] \in Seq(Nat) /\ Sorted(ages[h]) /\ ages'[h] = Aged(ages[h])
    BY <1>0 DEF OldestFirst, TypeOK
  <2> QED
    BY <2>1, AgedSorted
<1>2. ASSUME NEW b \in Buckets, status[b] = "queued" PROVE Awaken(b)'
  <2> DEFINE u == UrlOf[b]
             h == HostOf[u]
  <2>0. Awaken(b) /\ u \in Urls /\ h \in Hosts
    BY <1>2 DEF Awake
  <2>1. CASE offline /\ monitor
    BY <1>0, <2>1 DEF Awaken
  <2>2. CASE ~offline /\ Ending(b)
    <3>1. /\ url[u] \in UrlState /\ url'[u] = Nearer(url[u])
          /\ url'[u].trial = url[u].trial /\ url'[u].failure = url[u].failure
          /\ url'[u].retryIn = Less(url[u].retryIn) /\ url[u].retryIn \in Nat
      BY <1>0, <2>0, NearerFields DEF TypeOK, UrlState
    <3>2. Healthy(u)' = Healthy(u)
      BY <1>0 DEF Healthy, pool
    <3> DEFINE alone == Healthy(u) = {}
    <3>3. /\ Wait(b) = IF url[u].failure THEN "connectivity"
                       ELSE IF alone /\ url[u].retryIn > 0 THEN "backoff"
                       ELSE IF alone /\ url[u].trial # None THEN "probe" ELSE "none"
          /\ Wait(b)' = IF url[u].failure THEN "connectivity"
                        ELSE IF alone /\ url'[u].retryIn > 0 THEN "backoff"
                        ELSE IF alone /\ url[u].trial # None THEN "probe" ELSE "none"
      BY <3>1, <3>2 DEF Wait
    <3>4. url[u].trial # None => status'[url[u].trial] = "connecting"
      BY <1>0, <2>0 DEF IInv, TrialIsConnecting, pool
    <3>5. Times(b) \in Seq(Nat) /\ Sorted(Times(b)) /\ Times(b)' = Aged(Times(b))
      BY <1>0, <2>0 DEF Times, TypeOK, OldestFirst
    <3> DEFINE s == Times(b)
               t == Aged(s)
    <3>6. t \in Seq(Nat) /\ (RateFull(t) => RateDelay(t) \in Nat) /\ (RateFull(s) => RateDelay(s) \in Nat)
      BY <3>5, AgedTypes, RateDelayType
    <3>7. /\ RateFull(t) => RateFull(s) /\ RateDelay(t) >= RateDelay(s) - 1
          /\ RateFull(s) /\ ~RateFull(t) => RateDelay(s) = 1
      BY <3>5, RateTick
    <3>8. Times(b)' = t
      BY <3>5
    <3> HIDE DEF alone, t, u
    <3>9. CASE Wait(b) = "connectivity"
      <4>1. probing /\ probe[u] = "current" /\ Wait(b)' = "connectivity"
        BY <2>2, <3>3, <3>9 DEF Ending, u
      <4>2. Ending(b)'
        BY <1>0, <4>1 DEF Ending, u
      <4> QED
        BY <1>0, <2>2, <4>2 DEF Awaken
    <3>10. CASE Wait(b) = "backoff"
      <4>1. timer \in 0..url[u].retryIn /\ url[u].retryIn > 0
        BY <2>2, <3>3, <3>10 DEF Ending, u
      <4>2. timer' \in 0..url'[u].retryIn
        BY <1>0, <3>1, <4>1 DEF Less
      <4>3. CASE url'[u].retryIn > 0
        <5>1. Wait(b)' = "backoff"
          BY <3>3, <3>10, <4>3
        <5>2. Ending(b)'
          BY <4>2, <5>1 DEF Ending, u
        <5> QED
          BY <1>0, <2>2, <5>2 DEF Awaken
      <4>4. CASE ~(url'[u].retryIn > 0)
        <5>1. timer' = 0
          BY <3>1, <4>1, <4>2, <4>4 DEF Less
        <5>2. Wait(b)' \in {"probe", "none"} /\ (Wait(b)' = "probe" => url[u].trial # None)
          BY <3>3, <3>10, <4>4
        <5>3. timer' \in 0..IF RateFull(t) THEN RateDelay(t) ELSE 0
          BY <3>6, <5>1
        <5>4. Ending(b)'
          BY <3>1, <3>4, <3>8, <5>2, <5>3 DEF Ending, u
        <5> QED
          BY <1>0, <2>2, <5>4 DEF Awaken
      <4> QED
        BY <4>3, <4>4
    <3>11. CASE Wait(b) = "probe"
      <4>1. Wait(b)' = "probe" /\ url[u].trial # None
        BY <3>1, <3>3, <3>11 DEF Less
      <4>2. Ending(b)'
        BY <3>1, <3>4, <4>1 DEF Ending, u
      <4> QED
        BY <1>0, <2>2, <4>2 DEF Awaken
    <3>12. CASE Wait(b) = "none"
      <4>1. Wait(b)' = "none"
        BY <3>1, <3>3, <3>12 DEF Less
      <4>2. timer \in 0..IF RateFull(s) THEN RateDelay(s) ELSE 0
        BY <2>2, <3>12 DEF Ending
      <4> HIDE DEF s
      <4>3. timer' \in 0..IF RateFull(t) THEN RateDelay(t) ELSE 0
        <5>1. timer \in Nat /\ timer' = IF timer > 0 THEN timer - 1 ELSE timer
          BY <1>0, <3>6, <4>2 DEF Less
        <5>2. CASE RateFull(t)
          <6>1. timer <= RateDelay(s)
            BY <3>6, <3>7, <4>2, <5>2
          <6> QED
            BY <3>6, <3>7, <5>1, <5>2, <6>1
        <5>3. CASE ~RateFull(t)
          <6>1. timer <= 1
            BY <3>6, <3>7, <4>2, <5>1, <5>3
          <6> QED
            BY <5>1, <5>3, <6>1
        <5> QED
          BY <5>2, <5>3
      <4>4. Ending(b)'
        BY <3>8, <4>1, <4>3 DEF Ending
      <4> QED
        BY <1>0, <2>2, <4>4 DEF Awaken
    <3> QED
      BY <3>3, <3>9, <3>10, <3>11, <3>12
  <2> QED
    BY <2>0, <2>1, <2>2 DEF Awaken
<1>3. Awake'
  BY <1>0, <1>2 DEF Awake, pool
<1> QED
  BY <1>1, <1>3

\* An offline pump leaves the waiting to the monitor.
LEMMA PumpOfflineAwake == ASSUME PumpOffline PROVE Awake'
BY DEF PumpOffline, Awake, Awaken

\* A pump that skips changes nothing, or nobody is queued.
LEMMA PumpSkipsAwake ==
  ASSUME IInv, IInv', Quiet \/ timer # -1 => Awake, PumpSkips
  PROVE  Awake'
<1> SUFFICES ASSUME NEW b \in Buckets, status[b] = "queued" PROVE Awaken(b)'
  BY DEF Awake, PumpSkips, pool
<1>1. b \in ToSet(queue)
  BY DEF IInv, QueueOK
<1>2. queue # <<>>
  BY <1>1 DEF ToSet
<1>3. Awaken(b)
  BY <1>2 DEF PumpSkips, Awake
<1>4. Healthy(UrlOf[b])' = Healthy(UrlOf[b])
  BY DEF Healthy, PumpSkips, pool
<1> QED
  BY <1>3, <1>4, WaitsOn DEF PumpSkips, net, Times

\* A pump that opens nothing has joined every failure it met to the check, and
\* its timer is not later than any deadline.
LEMMA PumpWaitsAwake ==
  ASSUME IInv, IInv', PumpWaits
  PROVE  Awake'
<1> USE RecoveryConstants
<1>0. TypeOK /\ QueueOK /\ Selected = {} /\ ~offline /\ status' = status /\ url' = url /\ ages' = ages /\ offline' = offline
  BY DEF IInv, PumpWaits, pool
<1> SUFFICES ASSUME NEW b \in Buckets, status[b] = "queued" PROVE Awaken(b)'
  BY <1>0 DEF Awake
<1> DEFINE u == UrlOf[b]
<1>1. PICK i \in DOMAIN queue : queue[i] = b
  BY <1>0 DEF QueueOK, ToSet
<1>2. ~Admissible(b) /\ i \in Scanned
  BY <1>0, <1>1, NobodySelected
<1>3. Wait(b)' = Wait(b) /\ Times(b)' = Times(b) /\ u \in Urls
  BY <1>0 DEF Wait, Healthy, Times
<1>4. Wait(b) \in {"connectivity", "backoff", "probe", "none"}
  BY DEF Wait
<1>5. CASE Wait(b) = "connectivity"
  <2>1. u \in Joined
    BY <1>1, <1>2, <1>5 DEF Joined
  <2>2. probing' /\ probe'[u] = "current"
    BY <1>3, <2>1 DEF PumpWaits, JoinedProbe, ProbeWanted
  <2> QED
    BY <1>0, <1>3, <1>5, <2>2 DEF Awaken, Ending
<1>6. CASE Wait(b) = "backoff"
  <2>1. url[u].retryIn \in Deadlines
    BY <1>1, <1>6 DEF Deadlines
  <2>2. timer' = Min(Deadlines)
    BY <2>1 DEF PumpWaits
  <2>3. timer' \in Nat /\ timer' <= url[u].retryIn /\ url[u].retryIn \in Nat
    BY <1>0, <2>1, <2>2, MinOf, DeadlinesType
  <2>4. timer' \in 0..url'[u].retryIn
    BY <1>0, <2>3
  <2> QED
    BY <1>0, <1>3, <1>6, <2>4 DEF Awaken, Ending
<1>7. CASE Wait(b) = "probe"
  <2>1. url[u].trial # None
    BY <1>7 DEF Wait
  <2>2. status[url[u].trial] = "connecting"
    BY <1>3, <2>1 DEF IInv, TrialIsConnecting
  <2>3. Ending(b)'
    BY <1>0, <1>3, <1>7, <2>2 DEF Ending
  <2> QED
    BY <1>0, <2>3 DEF Awaken
<1>8. CASE Wait(b) = "none"
  <2>1. RateFull(Times(b))
    BY <1>2, <1>8 DEF Admissible
  <2>2. RateDelay(Times(b)) \in Deadlines
    BY <1>1, <1>8 DEF Deadlines
  <2>3. timer' = Min(Deadlines)
    BY <2>2 DEF PumpWaits
  <2>4. timer' \in Nat /\ timer' <= RateDelay(Times(b)) /\ RateDelay(Times(b)) \in Nat
    BY <1>0, <2>2, <2>3, MinOf, DeadlinesType
  <2>5. timer' \in 0..IF RateFull(Times(b)) THEN RateDelay(Times(b)) ELSE 0
    BY <2>1, <2>4
  <2>6. Ending(b)'
    BY <1>3, <1>8, <2>5 DEF Ending
  <2> QED
    BY <1>0, <2>6 DEF Awaken
<1> QED
  BY <1>4, <1>5, <1>6, <1>7, <1>8

\* After an opening the pump comes again, unless nobody is left in the queue.
LEMMA PumpOpensAgain ==
  ASSUME IInv, IInv', PumpOpens, Again = 0
  PROVE  Awake'
<1>0. PICK i \in Selected : status' # status
  <2>1. PICK i \in Selected :
          status' = [status EXCEPT ![queue[i]] = "connecting"] \/ status' = [status EXCEPT ![queue[i]] = "none"]
    BY DEF PumpOpens
  <2>2. queue[i] \in Buckets /\ status[queue[i]] = "queued"
    BY OpenLeavesQueue DEF Selected
  <2> QED
    BY <2>1, <2>2 DEF IInv, TypeOK
<1>1. queue' = <<>>
  BY <1>0 DEF Again, Opening
<1>2. \A b \in Buckets : status'[b] # "queued"
  <2>1. ToSet(queue') = {}
    BY <1>1 DEF ToSet
  <2> QED
    BY <2>1 DEF IInv, QueueOK
<1> QED
  BY <1>2 DEF Awake

\* Pumps of both kinds, with what they count.
LEMMA PumpAwake ==
  ASSUME IInv, IInv', Quiet \/ timer # -1 => Awake, PumpScheduled \/ PumpAgain, Quiet' \/ timer' # -1
  PROVE  Awake'
<1>1. CASE PumpOffline
  BY <1>1, PumpOfflineAwake
<1>2. CASE PumpWaits
  BY <1>2, PumpWaitsAwake
<1>3. CASE PumpSkips
  BY <1>3, PumpSkipsAwake
<1>4. CASE PumpOpens
  <2>1. pumps' = 0
    BY <1>4 DEF PumpOpens, Quiet
  <2>2. Again \in Nat /\ pumps \in Nat
    BY DEF Again, IInv, TypeOK
  <2>3. Again = 0
    BY <2>1, <2>2 DEF PumpScheduled, PumpAgain
  <2> QED
    BY <1>4, <2>3, PumpOpensAgain
<1> QED
  BY <1>1, <1>2, <1>3, <1>4 DEF PumpScheduled, PumpAgain, Pump

\* A new attempt is the youngest one.
LEMMA AppendSorted ==
  ASSUME NEW s \in Seq(Nat), Sorted(s)
  PROVE  Sorted(Append(s, 0))
<1> DEFINE t == Append(s, 0)
<1>1. /\ Len(s) \in Nat /\ Len(t) = Len(s) + 1 /\ t[Len(s) + 1] = 0
      /\ \A n \in 1..Len(s) : t[n] = s[n] /\ s[n] \in Nat
  BY AppendProperties, LenProperties, ElementOfSeq
<1> HIDE DEF t
<1>2. Sorted(t)
  <2> SUFFICES ASSUME NEW m \in 1..Len(t), NEW n \in 1..Len(t), m < n PROVE t[m] >= t[n]
    BY DEF Sorted
  <2>1. m \in 1..Len(s) /\ (n \in 1..Len(s) \/ n = Len(s) + 1)
    BY <1>1
  <2> QED
    BY <1>1, <2>1 DEF Sorted
<1> QED
  BY <1>2 DEF t

\* The pump keeps the queue in the order of arrival.
LEMMA PumpSorted ==
  ASSUME IInv, OldestFirst, PumpScheduled \/ PumpAgain
  PROVE  OldestFirst'
<1> USE RecoveryConstants
<1>0. TypeOK
  BY DEF IInv
<1>1. CASE ages' = ages
  BY <1>1 DEF OldestFirst
<1>2. CASE PumpOpens
  <2>1. PICK h \in Hosts : ages' = [ages EXCEPT ![h] = Append(@, 0)]
    <3>1. PICK i \in Selected : ages' = [ages EXCEPT ![HostOf[UrlOf[queue[i]]]] = Append(@, 0)]
      BY <1>2 DEF PumpOpens
    <3>2. queue[i] \in Buckets
      BY OpenLeavesQueue DEF Selected
    <3>3. HostOf[UrlOf[queue[i]]] \in Hosts
      BY <3>2
    <3> QED
      BY <3>1, <3>3
  <2>2. \A x \in Hosts : ages[x] \in Seq(Nat) /\ Sorted(ages[x]) /\ ages'[x] = IF x = h THEN Append(ages[x], 0) ELSE ages[x]
    BY <1>0, <2>1 DEF TypeOK, OldestFirst
  <2> QED
    BY <2>2, AppendSorted DEF OldestFirst
<1>3. PumpOffline \/ PumpWaits \/ PumpSkips => ages' = ages
  BY DEF PumpOffline, PumpWaits, PumpSkips
<1> QED
  BY <1>1, <1>2, <1>3 DEF PumpScheduled, PumpAgain, Pump

\* A wake-up leaves no moment between tasks before the pump has run.
LEMMA AwokenByAction ==
  ASSUME Wake PROVE ~(Quiet' \/ timer' # -1)
BY DEF Wake, Quiet

\* Every step keeps somebody awake for every queued bucket.
LEMMA StepAwake == SInv /\ [Next]_vars => SInv'
<1> SUFFICES ASSUME SInv, [Next]_vars PROVE SInv'
  OBVIOUS
<1>0. IInv /\ IInv' /\ OldestFirst /\ (Quiet \/ timer # -1 => Awake)
  BY StepKeeps DEF SInv
<1>1. CASE \E b \in Buckets : Attach(b) \/ Join(b) \/ Leave(b) \/ IdleTimeout(b) \/ Opened(b) \/ Closed(b) \/ Failed(b)
  <2>1. PICK b \in Buckets : Attach(b) \/ Join(b) \/ Leave(b) \/ IdleTimeout(b) \/ Opened(b) \/ Closed(b) \/ Failed(b)
    BY <1>1
  <2>2. Quiet /\ Awake /\ ages' = ages
    BY <1>0, <2>1 DEF Attach, Join, Leave, IdleTimeout, Opened, Closed, Failed, Quiet
  <2>3. OldestFirst'
    BY <1>0, <2>2 DEF OldestFirst
  <2>4. Join(b) => Awake'
    BY <1>0, <2>2, JoinAwake
  <2>5. Leave(b) /\ (Quiet' \/ timer' # -1) => Awake'
    BY <1>0, <2>2, LeaveAwake
  <2>6. Attach(b) \/ IdleTimeout(b) \/ Opened(b) \/ Closed(b) \/ Failed(b) => Wake
    BY DEF Attach, IdleTimeout, Opened, Closed, Failed
  <2> QED
    BY <1>0, <2>1, <2>3, <2>4, <2>5, <2>6, AwokenByAction DEF SInv
<1>2. CASE \E u \in Urls : Stable(u)
  <2>1. Wake /\ ages' = ages
    BY <1>2 DEF Stable
  <2>2. OldestFirst'
    BY <1>0, <2>1 DEF OldestFirst
  <2> QED
    BY <1>0, <2>1, <2>2, AwokenByAction DEF SInv
<1>3. CASE \E u \in Urls : Expire(u)
  <2>1. PICK u \in Urls : Expire(u)
    BY <1>3
  <2>2. Quiet /\ ages' = ages
    BY <2>1 DEF Expire
  <2>3. OldestFirst'
    BY <1>0, <2>2 DEF OldestFirst
  <2>4. Awake'
    BY <1>0, <2>1, <2>2, ExpireAwake
  <2> QED
    BY <1>0, <2>3, <2>4 DEF SInv
<1>4. CASE (\E online \in BOOLEAN : ProbeEnds(online)) \/ Online
  <2>1. Wake /\ ages' = ages
    BY <1>4 DEF ProbeEnds, Online
  <2>2. OldestFirst'
    BY <1>0, <2>1 DEF OldestFirst
  <2> QED
    BY <1>0, <2>1, <2>2, AwokenByAction DEF SInv
<1>5. CASE NavChanges
  <2>1. Quiet /\ ages' = ages
    BY <1>5 DEF NavChanges
  <2>2. OldestFirst'
    BY <1>0, <2>1 DEF OldestFirst
  <2>3. Awake'
    BY <1>0, <1>5, <2>1, NavAwake
  <2> QED
    BY <1>0, <2>2, <2>3 DEF SInv
<1>6. CASE TimerFires
  <2>1. ~(Quiet' \/ timer' # -1) /\ ages' = ages
    BY <1>6 DEF TimerFires, Quiet
  <2>2. OldestFirst'
    BY <1>0, <2>1 DEF OldestFirst
  <2> QED
    BY <1>0, <2>1, <2>2 DEF SInv
<1>7. CASE Tick
  <2>1. Quiet
    BY <1>7 DEF Tick
  <2>2. Awake' /\ OldestFirst'
    BY <1>0, <1>7, <2>1, TickAwake
  <2> QED
    BY <1>0, <2>2 DEF SInv
<1>8. CASE PumpScheduled \/ PumpAgain
  <2>1. OldestFirst'
    BY <1>0, <1>8, PumpSorted
  <2>2. Quiet' \/ timer' # -1 => Awake'
    BY <1>0, <1>8, PumpAwake
  <2> QED
    BY <1>0, <2>1, <2>2 DEF SInv
<1>9. CASE UNCHANGED vars
  <2>1. OldestFirst' /\ (Quiet' <=> Quiet) /\ timer' = timer
    BY <1>0, <1>9 DEF vars, loop, OldestFirst, Quiet
  <2>2. ASSUME NEW b \in Buckets, status'[b] = "queued", Awake PROVE Awaken(b)'
    <3>1. Awaken(b)
      BY <1>9, <2>2 DEF Awake, vars, pool
    <3>2. Healthy(UrlOf[b])' = Healthy(UrlOf[b])
      BY <1>9 DEF Healthy, vars, pool
    <3> QED
      BY <1>0, <1>9, <3>1, <3>2, WaitsOn DEF vars, net, loop, Times
  <2>3. Awake => Awake'
    BY <2>2 DEF Awake
  <2> QED
    BY <1>0, <2>1, <2>3 DEF SInv
<1> QED
  BY <1>1, <1>2, <1>3, <1>4, <1>5, <1>6, <1>7, <1>8, <1>9 DEF Next

\* Nobody is queued initially.
LEMMA InitAwake == Init => SInv
<1> SUFFICES ASSUME Init PROVE SInv
  OBVIOUS
<1>1. OldestFirst
  BY DEF Init, OldestFirst, Sorted
<1>2. Awake
  BY DEF Init, Awake
<1> QED
  BY <1>1, <1>2, InitKeeps DEF SInv

\* No bucket sleeps: between tasks, whatever a queued bucket waits for has
\* somebody to end it.
THEOREM NobodySleeps == Spec => []NoSleep
<1>1. SInv => NoSleep
  BY DEF SInv, NoSleep, Awake, Awaken
<1>2. Spec => []SInv
  BY InitAwake, StepAwake, PTL DEF Spec
<1> QED
  BY <1>1, <1>2, PTL
=============================================================================
