------------------------- MODULE ConnectionRecovery -------------------------
(***************************************************************************)
(* Physical connections of the relay pool: the queue of buckets that want  *)
(* a socket, the pump that opens them under per-host rates                 *)
(* (services/relay-pool/pool.js), and the recovery that admits them        *)
(* (connection-recovery.js): back-off per URL, one trial socket while a    *)
(* URL recovers, one shared connectivity check and one online monitor.     *)
(*                                                                         *)
(* Every action is a task of the event loop; the pump is a microtask and   *)
(* runs before any other task.  Time is counted in ticks, and only where   *)
(* deadlines are compared; other timers may fire whenever they are armed.  *)
(* A bucket is a slot that is used again once it is closed.                *)
(***************************************************************************)
EXTENDS Integers, Sequences, FiniteSets, FiniteSetsExt, SequencesExt

CONSTANTS
  Buckets, Urls, Hosts,
  UrlOf,        \* [Buckets -> Urls]
  HostOf,       \* [Urls -> Hosts]
  None,
  MaxDelay,     \* connectionBackoffMaxMs, in ticks
  Burst, BurstWindow,   \* maxNewConnectionsPerSecond, connectionBurstWindowMs
  Most, Window          \* maxNewConnectionsPerWindow, connectionWindowMs

ASSUME RecoveryConstants ==
  /\ IsFiniteSet(Buckets) /\ UrlOf \in [Buckets -> Urls] /\ HostOf \in [Urls -> Hosts]
  /\ None \notin Buckets
  /\ MaxDelay \in Nat \ {0}
  /\ Burst \in Nat \ {0} /\ Most \in Nat \ {0}
  /\ BurstWindow \in Nat \ {0} /\ Window \in Nat /\ BurstWindow <= Window

VARIABLES
  status,      \* [Buckets -> {"none", "queued", "connecting", "open", "idle"}]
  stage,       \* [Buckets -> Nat]: recoveryGeneration of the socket
  queue,       \* connectionQueue
  url,         \* [Urls -> UrlState]
  offline, monitor,
  probe,       \* [Urls -> {"no", "current", "stale"}]: failures the check covers
  probing,     \* a connectivity check runs
  nav,         \* navigator.onLine
  scheduled,   \* connectionPumpScheduled: a microtask that will pump
  pumps,       \* further pumps queued as microtasks
  timer,       \* connectionTimer: ticks left, or -1
  ages,        \* [Hosts -> Seq(Nat)]: how long ago the last sockets were opened
  trialing     \* history: sockets opened while their URL was down

pool == <<status, stage, queue>>
check == <<probe, probing>>
net == <<offline, monitor, probe, probing>>
loop == <<scheduled, pumps, timer>>
vars == <<status, stage, queue, url, net, nav, loop, ages, trialing>>

Live == {"queued", "connecting", "open"}          \* a bucket with members
Healthy(u) == {b \in Buckets : UrlOf[b] = u /\ status[b] \in {"open", "idle"}}
Interested(st, u) == \E b \in Buckets : UrlOf[b] = u /\ st[b] \in Live
Socket(b) == status[b] \in {"connecting", "open", "idle"}
Demand(st) == \E b \in Buckets : st[b] \in Live

Fresh == [delay |-> 1, retryIn |-> 0, generation |-> 0, failedGeneration |-> -1,
          failure |-> FALSE, recovering |-> FALSE, trial |-> None, stable |-> FALSE]

Init ==
  /\ status = [b \in Buckets |-> "none"]
  /\ stage = [b \in Buckets |-> 0]
  /\ queue = <<>>
  /\ url = [u \in Urls |-> Fresh]
  /\ offline = FALSE /\ monitor = FALSE
  /\ probe = [u \in Urls |-> "no"] /\ probing = FALSE
  /\ nav = TRUE
  /\ scheduled = FALSE /\ pumps = 0 /\ timer = -1
  /\ ages = [h \in Hosts |-> <<>>]
  /\ trialing = {}

Quiet == ~scheduled /\ pumps = 0
Wake == scheduled' = TRUE /\ timer' = -1 /\ UNCHANGED pumps

-----------------------------------------------------------------------------
\* Network state.  A recorded failure is stale once its URL has opened, failed
\* again or was declared offline.

Outdated(p, U) == [u \in Urls |-> IF u \in U /\ p[u] = "current" THEN "stale" ELSE p[u]]
NoProbe == probing' = FALSE /\ probe' = [u \in Urls |-> "no"]

\* stopNetworkIfIdle once a member has left: st is the status of the buckets,
\* the others what the check and the monitor are otherwise.
StopIfIdle(p, on, m, st) ==
  IF Demand(st) THEN probe' = p /\ probing' = on /\ monitor' = m
                ELSE NoProbe /\ monitor' = FALSE

\* markOffline with some demand: every failure is forgotten, the check is
\* cancelled and the monitor listens.
Forgotten(s) == [u \in Urls |-> [s[u] EXCEPT !.failure = FALSE]]

-----------------------------------------------------------------------------
\* Recovery state of a URL: opened, closed, failed, attempt.

\* Mutant: a closing bucket keeps its lease.
ReleasedNever(s, b) == s.trial

Released(s, b) == IF s.trial = b THEN None ELSE s.trial

\* closed(url, id): the lease goes, and with the last healthy socket the timer.
ClosedState(u, b) ==
  [url[u] EXCEPT !.trial = Released(url[u], b),
                 !.stable = @ /\ Healthy(u) \ {b} # {}]

\* Mutant: a socket that opens ends the recovery.
OpenedHealed(u, b) ==
  [url[u] EXCEPT !.failure = FALSE, !.trial = Released(url[u], b), !.delay = 1]

\* opened(url, id): a pending failure is forgotten, and the stability timer of
\* a recovering URL starts.
OpenedState(u, b) ==
  [url[u] EXCEPT !.failure = FALSE, !.trial = Released(url[u], b),
                 !.stable = @ \/ url[u].recovering,
                 !.failedGeneration = IF url[u].failure THEN -1 ELSE @]

\* failed(url, id, generation): the first failure of a generation, unless a
\* sibling is healthy.
Counts(u, b) == Healthy(u) \ {b} = {} /\ url[u].failedGeneration # stage[b]

FailedState(u, b) ==
  [ClosedState(u, b) EXCEPT !.failedGeneration = stage[b], !.recovering = TRUE,
                            !.failure = ~offline /\ nav]

\* Generations are only compared for equality: a number nobody holds stands
\* for the next one.
NextGeneration(u) ==
  Min(0..(Cardinality(Buckets) + 2)
      \ ({url[u].generation, url[u].failedGeneration}
         \cup {stage[b] : b \in {x \in Buckets : UrlOf[x] = u /\ status[x] # "none"}}))

Recovering(u) == url[u].recovering /\ Healthy(u) = {}

AttemptState(u, b) ==
  IF Recovering(u) THEN [url[u] EXCEPT !.generation = NextGeneration(u), !.trial = b] ELSE url[u]

-----------------------------------------------------------------------------
\* Members and buckets.

\* The bucket is closed, whatever its socket was for.
Destroyed(b) ==
  /\ status' = [status EXCEPT ![b] = "none"]
  /\ stage' = [stage EXCEPT ![b] = 0]
  /\ trialing' = trialing \ {b}

Attach(b) ==
  /\ Quiet /\ status[b] = "none"
  /\ status' = [status EXCEPT ![b] = "queued"]
  /\ queue' = Append(queue, b)
  /\ Wake
  /\ UNCHANGED <<stage, url, net, nav, ages, trialing>>

Join(b) ==
  /\ Quiet /\ status[b] = "idle"
  /\ status' = [status EXCEPT ![b] = "open"]
  /\ UNCHANGED <<stage, queue, url, net, nav, loop, ages, trialing>>

\* The last member leaves.  A bucket that is not open yet is destroyed (its
\* entry in the queue is skipped by the pump that the destruction wakes).
Leave(b) ==
  /\ Quiet
  /\ \/ /\ status[b] \in {"queued", "connecting"}
        /\ Destroyed(b)
        /\ url' = [url EXCEPT ![UrlOf[b]] = ClosedState(UrlOf[b], b)]
        /\ Wake
     \/ /\ status[b] = "open"
        /\ status' = [status EXCEPT ![b] = "idle"]
        /\ UNCHANGED <<stage, url, loop, trialing>>
  /\ queue' = RemoveFirst(queue, b)
  /\ StopIfIdle(probe, probing, monitor, status')
  /\ UNCHANGED <<offline, nav, ages>>

\* bucketIdleMs after the last member left.
IdleTimeout(b) ==
  /\ Quiet /\ status[b] = "idle"
  /\ Destroyed(b)
  /\ url' = [url EXCEPT ![UrlOf[b]] = ClosedState(UrlOf[b], b)]
  /\ Wake
  /\ UNCHANGED <<queue, net, nav, ages>>

Opened(b) ==
  LET u == UrlOf[b] IN
  /\ Quiet /\ status[b] = "connecting"
  /\ status' = [status EXCEPT ![b] = "open"]
  /\ url' = [url EXCEPT ![u] = OpenedState(u, b)]
  /\ trialing' = trialing \ {b}
  /\ probe' = Outdated(probe, {u})
  /\ Wake
  /\ UNCHANGED <<stage, queue, offline, monitor, probing, nav, ages>>

\* The socket closes with a code that is not a transport failure.
Closed(b) ==
  /\ Quiet /\ Socket(b)
  /\ Destroyed(b)
  /\ url' = [url EXCEPT ![UrlOf[b]] = ClosedState(UrlOf[b], b)]
  /\ StopIfIdle(probe, probing, monitor, status')
  /\ Wake
  /\ UNCHANGED <<queue, offline, nav, ages>>

\* A recoverable close, a failed send or the handshake watchdog; the members
\* of the bucket are closed in the same task.
Failed(b) ==
  LET u == UrlOf[b] IN
  /\ Quiet /\ Socket(b)
  /\ Destroyed(b)
  /\ \/ /\ ~Counts(u, b)
        /\ url' = [url EXCEPT ![u] = ClosedState(u, b)]
        /\ StopIfIdle(probe, probing, monitor, status')
        /\ UNCHANGED offline
     \/ /\ Counts(u, b) /\ ~offline /\ nav
        /\ url' = [url EXCEPT ![u] = FailedState(u, b)]
        /\ StopIfIdle(Outdated(probe, {u}), probing, monitor, status')
        /\ UNCHANGED offline
     \/ /\ Counts(u, b) /\ (offline \/ ~nav)
        /\ url' = Forgotten([url EXCEPT ![u] = FailedState(u, b)])
        /\ offline' = TRUE
        /\ NoProbe
        /\ monitor' = Demand(status')
  /\ Wake
  /\ UNCHANGED <<queue, nav, ages>>

\* connectionStableMs with a healthy socket.
Stable(u) ==
  /\ Quiet /\ url[u].stable
  /\ url' = [url EXCEPT ![u] =
       [@ EXCEPT !.stable = FALSE, !.delay = 1, !.retryIn = 0, !.failedGeneration = -1, !.recovering = FALSE]]
  /\ Wake
  /\ UNCHANGED <<pool, net, nav, ages, trialing>>

\* connectionRecoveryIdleMs without interest: the state is forgotten.
Expire(u) ==
  /\ Quiet
  /\ ~Interested(status, u) /\ Healthy(u) = {} /\ url[u].trial = None
  /\ url' = [url EXCEPT ![u] = Fresh]
  /\ probe' = Outdated(probe, {u})
  /\ UNCHANGED <<pool, offline, monitor, probing, nav, loop, ages, trialing>>

-----------------------------------------------------------------------------
\* The shared check and the monitor.

\* The failures the check still covers.
Classified ==
  {u \in Urls : probe[u] = "current" /\ Healthy(u) = {} /\ Interested(status, u)}

\* The wait is measured from the failure, with jitter, so that any part of the
\* delay may be over already.
Delayed(u, wait) ==
  [url[u] EXCEPT !.failure = FALSE, !.retryIn = wait[u],
                 !.delay = IF 2 * @ <= MaxDelay THEN 2 * @ ELSE MaxDelay]

ProbeEnds(online) ==
  /\ Quiet /\ probing
  /\ NoProbe
  /\ \/ /\ Classified = {}
        /\ UNCHANGED <<url, offline, monitor>>
     \/ /\ Classified # {} /\ (~online \/ ~nav)
        /\ offline' = TRUE
        /\ url' = Forgotten(url)
        /\ monitor' = TRUE
     \/ /\ Classified # {} /\ online /\ nav
        /\ \E wait \in [Classified -> 0..MaxDelay] :
             /\ \A u \in Classified : wait[u] <= url[u].delay
             /\ url' = [u \in Urls |-> IF u \in Classified THEN Delayed(u, wait) ELSE url[u]]
        /\ UNCHANGED <<offline, monitor>>
  /\ Wake
  /\ UNCHANGED <<pool, nav, ages, trialing>>

\* The library reports that the network is back.
Online ==
  /\ Quiet /\ monitor /\ nav
  /\ offline' = FALSE /\ monitor' = FALSE
  /\ Wake
  /\ UNCHANGED <<pool, url, check, nav, ages, trialing>>

NavChanges ==
  /\ Quiet
  /\ nav' = ~nav
  /\ UNCHANGED <<pool, url, net, loop, ages, trialing>>

-----------------------------------------------------------------------------
\* The pump.

\* Mutant: waiting buckets do not respect the trial of a sibling.
WaitWithoutTrial(b) ==
  LET s == url[UrlOf[b]] IN
  IF s.failure THEN "connectivity"
  ELSE IF Healthy(UrlOf[b]) = {} /\ s.retryIn > 0 THEN "backoff" ELSE "none"

\* gate(url, id) while online: why a queued bucket must wait.
Wait(b) ==
  LET s == url[UrlOf[b]]
      alone == Healthy(UrlOf[b]) = {}
  IN  IF s.failure THEN "connectivity"
      ELSE IF alone /\ s.retryIn > 0 THEN "backoff"
      ELSE IF alone /\ s.trial # None THEN "probe"
      ELSE "none"

\* Attempts are noted oldest first, so that the younger ones are the last ones.
YoungerFrom(s, limit) == Min({i \in 1..(Len(s) + 1) : i <= Len(s) => s[i] < limit})
Younger(s, limit) == SubSeq(s, YoungerFrom(s, limit), Len(s))

Recent(times) == Younger(times, BurstWindow)
BurstFull(times) == Len(Recent(times)) >= Burst
RateFull(times) == BurstFull(times) \/ Len(times) >= Most
\* When the oldest attempt leaves the window that is full.
RateDelay(times) ==
  Max({1, IF BurstFull(times) THEN BurstWindow - Head(Recent(times)) ELSE Window - Head(times)})

Times(b) == ages[HostOf[UrlOf[b]]]
Admissible(b) == Wait(b) = "none" /\ ~RateFull(Times(b))

\* The indices the scan reaches: up to the first bucket it may open.
Selected == {i \in DOMAIN queue : Admissible(queue[i]) /\ \A k \in 1..(i - 1) : ~Admissible(queue[k])}
Scanned == {i \in DOMAIN queue : \A k \in Selected : i < k}

Deadlines ==
  {IF Wait(queue[i]) = "backoff" THEN url[UrlOf[queue[i]]].retryIn ELSE RateDelay(Times(queue[i])) :
     i \in {k \in DOMAIN queue : Wait(queue[k]) \in {"backoff", "none"}}}

\* Mutant: a failure met while the check runs is left out.
JoinedOnce == IF probing THEN {} ELSE {UrlOf[queue[i]] : i \in {k \in Scanned : Wait(queue[k]) = "connectivity"}}

\* The scan's gates join the failures they meet to the shared check.
Joined == {UrlOf[queue[i]] : i \in {k \in Scanned : Wait(queue[k]) = "connectivity"}}

PumpOffline ==
  /\ queue # <<>> /\ timer = -1 /\ (offline \/ ~nav)
  /\ offline' = TRUE
  /\ url' = IF nav THEN url ELSE Forgotten(url)
  /\ IF nav THEN UNCHANGED check ELSE NoProbe
  /\ monitor' = TRUE
  /\ UNCHANGED <<pool, timer, ages, trialing>>

JoinedProbe == [u \in Urls |-> IF u \in Joined THEN "current" ELSE probe[u]]
ProbeWanted == probing \/ Joined # {}

\* Nothing may open: a timer for the next deadline.
PumpWaits ==
  /\ queue # <<>> /\ timer = -1 /\ ~offline /\ nav /\ Selected = {}
  /\ probe' = JoinedProbe /\ probing' = ProbeWanted
  /\ timer' = IF Deadlines = {} THEN -1 ELSE Min(Deadlines)
  /\ UNCHANGED <<pool, url, offline, monitor, ages, trialing>>

\* openBucket: the attempt is counted against the host; the socket connects, or
\* its construction throws and the bucket is closed with its members.
PumpOpens ==
  /\ queue # <<>> /\ timer = -1 /\ ~offline /\ nav
  /\ \E i \in Selected :
       LET b == queue[i]
           u == UrlOf[b]
           attempted == AttemptState(u, b)
       IN  /\ queue' = RemoveAt(queue, i)
           /\ ages' = [ages EXCEPT ![HostOf[u]] = Append(@, 0)]
           /\ \/ /\ status' = [status EXCEPT ![b] = "connecting"]
                 /\ stage' = [stage EXCEPT ![b] = attempted.generation]
                 /\ url' = [url EXCEPT ![u] = attempted]
                 /\ trialing' = IF Recovering(u) THEN trialing \cup {b} ELSE trialing
                 /\ probe' = JoinedProbe /\ probing' = ProbeWanted
                 /\ UNCHANGED monitor
              \/ /\ status' = [status EXCEPT ![b] = "none"]
                 /\ url' = [url EXCEPT ![u] = [attempted EXCEPT !.trial = Released(attempted, b)]]
                 /\ StopIfIdle(JoinedProbe, ProbeWanted, monitor, status')
                 /\ UNCHANGED <<stage, trialing>>
  /\ UNCHANGED <<timer, offline>>

PumpSkips ==
  /\ queue = <<>> \/ timer # -1
  /\ UNCHANGED <<pool, url, net, timer, ages, trialing>>

Opening == status' # status
Again == IF Opening /\ queue' # <<>> THEN 1 ELSE 0
Thrown == \E b \in Buckets : status[b] # "none" /\ status'[b] = "none"
Pump == (PumpOffline \/ PumpWaits \/ PumpOpens \/ PumpSkips) /\ UNCHANGED nav

\* A microtask: the one wakeConnections schedules, or a pump after an opening.
PumpScheduled == scheduled /\ Pump /\ scheduled' = Thrown /\ pumps' = pumps + Again
PumpAgain == pumps > 0 /\ Pump /\ pumps' = pumps - 1 + Again /\ scheduled' = (scheduled \/ Thrown)

TimerFires ==
  /\ Quiet /\ timer = 0
  /\ timer' = -1 /\ pumps' = 1
  /\ UNCHANGED <<pool, url, net, nav, scheduled, ages, trialing>>

Less(n) == IF n > 0 THEN n - 1 ELSE n
Aged(s) == Younger([i \in DOMAIN s |-> s[i] + 1], Window)

Tick ==
  /\ Quiet
  /\ \E u \in Urls, h \in Hosts : url[u].retryIn > 0 \/ ages[h] # <<>> \/ timer > 0
  /\ url' = [u \in Urls |-> [url[u] EXCEPT !.retryIn = Less(@)]]
  /\ timer' = Less(timer)
  /\ ages' = [h \in Hosts |-> Aged(ages[h])]
  /\ UNCHANGED <<pool, net, nav, scheduled, pumps, trialing>>

Next ==
  \/ \E b \in Buckets : \/ Attach(b) \/ Join(b) \/ Leave(b) \/ IdleTimeout(b)
                        \/ Opened(b) \/ Closed(b) \/ Failed(b)
  \/ \E u \in Urls : Stable(u) \/ Expire(u)
  \/ \E online \in BOOLEAN : ProbeEnds(online)
  \/ Online \/ NavChanges \/ TimerFires \/ Tick
  \/ PumpScheduled \/ PumpAgain

Spec == Init /\ [][Next]_vars

\* Microtasks run, time passes, armed timers fire, a handshake ends within its
\* watchdog, a check within its 6 seconds, and the library reports a network
\* that is back.  Nobody has to attach, leave, or lose a socket that is open.
FairSpec ==
  /\ Spec
  /\ WF_vars(PumpScheduled \/ PumpAgain)
  /\ SF_vars(Tick) /\ SF_vars(TimerFires)
  /\ SF_vars(\E online \in BOOLEAN : ProbeEnds(online))
  /\ SF_vars(Online)
  /\ \A b \in Buckets : SF_vars(status[b] = "connecting" /\ (Opened(b) \/ Closed(b) \/ Failed(b)))

-----------------------------------------------------------------------------
(***************************************************************************)
(* Properties.                                                             *)
(***************************************************************************)
\* The trial lease of a URL is held by a socket that is still connecting: a
\* lease that outlived its socket would keep every other one out.  And there
\* is one trial at a time, whatever older sockets and siblings do meanwhile:
\* "When the deadline expires, one recovery socket may connect for the URL"
\* (docs/relay-pool.md).
TrialIsConnecting ==
  \A u \in Urls : url[u].trial # None =>
    UrlOf[url[u].trial] = u /\ status[url[u].trial] = "connecting"
OneTrial == \A b, c \in trialing : UrlOf[b] = UrlOf[c] => b = c
TrialLease == TrialIsConnecting /\ OneTrial

\* No bucket sleeps: between tasks, whatever a queued bucket waits for has
\* somebody to end it - the monitor, the check of its own failure, the trial's
\* socket, or a timer that is not later than its deadline.
Ending(b) ==
  IF Wait(b) = "connectivity" THEN probing /\ probe[UrlOf[b]] = "current"
  ELSE IF Wait(b) = "backoff" THEN timer \in 0..url[UrlOf[b]].retryIn
  ELSE IF Wait(b) = "probe" THEN status[url[UrlOf[b]].trial] = "connecting"
  ELSE timer \in 0..IF RateFull(Times(b)) THEN RateDelay(Times(b)) ELSE 0

NoSleep ==
  Quiet => \A b \in Buckets : status[b] = "queued" =>
    \/ offline /\ monitor
    \/ ~offline /\ Ending(b)

\* A socket that opens and drops again keeps its back-off: only thirty stable
\* seconds, or losing all interest, make a delay smaller.
FlappingKeepsDelay ==
  [][\A u \in Urls : url'[u].delay < url[u].delay =>
       (url[u].stable /\ Healthy(u) # {}) \/ ~Interested(status, u)]_vars

\* While the browser believes it is online, every bucket that waits for a
\* socket gets one or is closed, whatever its siblings and its host do.
Served == <>[]nav => \A b \in Buckets : status[b] = "queued" ~> status[b] # "queued"
=============================================================================
