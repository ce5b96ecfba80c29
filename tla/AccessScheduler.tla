-------------------------- MODULE AccessScheduler --------------------------
(***************************************************************************)
(* One scheduler object of services/idb/nostrdb/access-scheduler.js: the   *)
(* queues per class and app, the round-robin cursors, the starvation       *)
(* counter, foreground intents, preemption with retry, abort and reset.    *)
(*                                                                         *)
(* JavaScript runs each call to its end, so an action is one call.  The    *)
(* only loop, pump(), is unrolled: while "pumping" holds nothing but       *)
(* PumpStep and PumpEnd is enabled, so every call that ends in pump() is   *)
(* followed by the whole of it before anything else happens.               *)
(***************************************************************************)
EXTENDS Integers, Sequences, FiniteSets

CONSTANTS
  Jobs,         \* callers: a slot holds one access at a time
  Apps,         \* consumer ids ("system" is one of them)
  StoreNames,   \* object stores of the owner database
  Intents,      \* foreground intents
  ClassOf,      \* [Jobs -> Classes]: the launcher-owned class
  AppOf,        \* [Jobs -> Apps]
  StoresOf,     \* [Jobs -> nonempty sets of stores]
  Readers,      \* the jobs of mode "readonly"
  Preemptible,  \* the readers that a foreground intent may interrupt
  IntentStores, \* [Intents -> sets of stores]
  StarvationLimit \* CLASS_STARVATION_LIMIT

Classes == {"foreground", "normal", "background", "maintenance"}
Rank == [c \in Classes |->
          CASE c = "foreground" -> 3 [] c = "normal" -> 2
            [] c = "background" -> 1 [] OTHER -> 0]
Lower == {"background", "maintenance"}

ASSUME SchedulerConstants ==
  /\ ClassOf \in [Jobs -> Classes]
  /\ AppOf \in [Jobs -> Apps]
  /\ StoresOf \in [Jobs -> (SUBSET StoreNames) \ {{}}]
  /\ IntentStores \in [Intents -> SUBSET StoreNames]
  /\ Preemptible \subseteq Readers
  /\ Readers \subseteq Jobs
  /\ StarvationLimit \in Nat \ {0}

VARIABLES
  status,     \* [Jobs -> Phases]: what became of the caller's access
  queues,     \* [Classes -> [Apps -> Seq(Jobs)]]: <<>> is an absent lane
  consumers,  \* [Classes -> Seq(Apps)]: the order of the lanes
  cursors,    \* [Classes -> Nat]: where the next scan starts
  active,     \* the accesses that hold their stores
  foregroundIntents, \* the intents the scheduler knows of
  held,       \* [Intents -> {"idle", "held"}]: the intents their holders know of
  preempted,  \* active readers whose operation has been told to stop
  preferred,  \* starts of higher classes since a lower one, saturated
  waiting,    \* the counter of queued accesses
  pumping,    \* pump() is on the stack
  listed      \* the registry still maps the owner to this object

vars == <<status, queues, consumers, cursors, active, foregroundIntents,
          held, preempted, preferred, waiting, pumping, listed>>

\* "rejected": removed from its queue; the handler that scheduled.finally
\* registered has not run yet.  "retrying": preempted, about to be resubmitted.
Phases == {"idle", "waiting", "active", "rejected", "retrying"}

TypeOK ==
  /\ status \in [Jobs -> Phases]
  /\ queues \in [Classes -> [Apps -> Seq(Jobs)]]
  /\ consumers \in [Classes -> Seq(Apps)]
  /\ cursors \in [Classes -> Nat]
  /\ active \subseteq Jobs
  /\ foregroundIntents \subseteq Intents
  /\ held \in [Intents -> {"idle", "held"}]
  /\ preempted \subseteq Jobs
  /\ preferred \in 0..StarvationLimit
  /\ waiting \in Int
  /\ pumping \in BOOLEAN
  /\ listed \in BOOLEAN

-----------------------------------------------------------------------------
\* Helpers of the queues.

Occupied == UNION {StoresOf[k] : k \in active}
IntentScope == UNION {IntentStores[i] : i \in foregroundIntents}

\* Mutant: the check forgets the stores of the active jobs.
RunnableIgnoringActive(j) ==
  j \in Readers => StoresOf[j] \cap IntentScope = {}

Runnable(j) ==
  /\ j \in Readers => StoresOf[j] \cap IntentScope = {}
  /\ StoresOf[j] \cap Occupied = {}

IsIdle == active = {} /\ waiting = 0 /\ foregroundIntents = {}

Without(s, i) == SubSeq(s, 1, i - 1) \o SubSeq(s, i + 1, Len(s))

Lane(j) == queues[ClassOf[j]][AppOf[j]]

\* consumerQueue: a lane that did not exist goes to the end of the order.
PushLane(c, a) ==
  IF queues[c][a] = <<>> THEN [consumers EXCEPT ![c] = Append(@, a)] ELSE consumers

\* Mutant: the cursor steps back whichever lane goes.
DropLaneUnguarded(c, i) ==
  /\ consumers' = [consumers EXCEPT ![c] = Without(@, i)]
  /\ cursors' = [cursors EXCEPT ![c] = @ - 1]

\* Mutant: the cursor stays when a lane before it goes.
DropLaneDrifting(c, i) ==
  /\ consumers' = [consumers EXCEPT ![c] = Without(@, i)]
  /\ UNCHANGED cursors

\* removeEmptyConsumer for the lane at position i (1-based) of class c.
DropLane(c, i) ==
  /\ consumers' = [consumers EXCEPT ![c] = Without(@, i)]
  /\ cursors' = IF i - 1 < cursors[c]
                  THEN [cursors EXCEPT ![c] = @ - 1] ELSE cursors

\* Take element n out of the lane of app a, the i-th lane of class c, and drop
\* the lane when that empties it; "advance" is the cursor of a lane that stays.
Extract(c, a, i, n, advance) ==
  /\ queues' = [queues EXCEPT ![c][a] = Without(@, n)]
  /\ IF Len(queues[c][a]) = 1
       THEN DropLane(c, i)
       ELSE /\ cursors' = [cursors EXCEPT ![c] = advance]
            /\ UNCHANGED consumers
  /\ waiting' = waiting - 1

-----------------------------------------------------------------------------
Init ==
  /\ status = [j \in Jobs |-> "idle"]
  /\ queues = [c \in Classes |-> [a \in Apps |-> <<>>]]
  /\ consumers = [c \in Classes |-> <<>>]
  /\ cursors = [c \in Classes |-> 0]
  /\ active = {}
  /\ foregroundIntents = {}
  /\ held = [i \in Intents |-> "idle"]
  /\ preempted = {}
  /\ preferred = 0
  /\ waiting = 0
  /\ pumping = FALSE
  /\ listed = TRUE

\* scheduleNostrDbAccess, and scheduleNostrDbRead's next round after a
\* preemption: the access joins its lane and the scheduler pumps.
Run(j) ==
  /\ ~pumping /\ listed
  /\ status[j] \in {"idle", "retrying"}
  /\ status' = [status EXCEPT ![j] = "waiting"]
  /\ consumers' = PushLane(ClassOf[j], AppOf[j])
  /\ queues' = [queues EXCEPT ![ClassOf[j]][AppOf[j]] = Append(@, j)]
  /\ waiting' = waiting + 1
  /\ pumping' = TRUE
  /\ UNCHANGED <<cursors, active, foregroundIntents, held, preempted, preferred, listed>>

\* The scan of takeFromClass: offsets from the cursor whose lane offers its
\* head.  A lane whose head is blocked offers nothing (head of line).
LaneAt(c, k) == ((cursors[c] + k) % Len(consumers[c])) + 1
HeadAt(c, k) == Head(queues[c][consumers[c][LaneAt(c, k)]])
Offers(c) == {k \in 0..(Len(consumers[c]) - 1) : Runnable(HeadAt(c, k))}

\* take: the highest class with an offer; after StarvationLimit preferred
\* starts, the highest lower class with an offer.
Picks(c) ==
  /\ Offers(c) # {}
  /\ IF preferred >= StarvationLimit /\ \E d \in Lower : Offers(d) # {}
       THEN c \in Lower /\ \A d \in Lower : Offers(d) # {} => Rank[d] <= Rank[c]
       ELSE \A d \in Classes : Offers(d) # {} => Rank[d] <= Rank[c]

\* One round of pump(): take() finds a job and start() makes it active.
Serve(c, k) ==
  LET i == LaneAt(c, k)
      a == consumers[c][i]
      j == HeadAt(c, k)
  IN  /\ Extract(c, a, i, 1, i % Len(consumers[c]))
      /\ active' = active \cup {j}
      /\ status' = [status EXCEPT ![j] = "active"]
      /\ preferred' = IF c \in Lower THEN 0
                      ELSE IF preferred < StarvationLimit THEN preferred + 1
                      ELSE preferred

PumpStep ==
  /\ pumping
  /\ \E c \in Classes :
       /\ Picks(c)
       /\ \E k \in Offers(c) : (\A m \in Offers(c) : k <= m) /\ Serve(c, k)
  /\ UNCHANGED <<foregroundIntents, held, preempted, pumping, listed>>

\* take() returns null and the loop ends.
PumpEnd ==
  /\ pumping
  /\ \A c \in Classes : Offers(c) = {}
  /\ pumping' = FALSE
  /\ UNCHANGED <<status, queues, consumers, cursors, active, foregroundIntents,
                 held, preempted, preferred, waiting, listed>>

\* The operation settles: resolve/reject, then active.delete and pump().  The
\* isIdle test of scheduled.finally runs while the job is still active, so it
\* never unlists.  A preempted read may have finished anyway or is retried.
Complete(j) ==
  /\ ~pumping
  /\ j \in active
  /\ active' = active \ {j}
  /\ \/ status' = [status EXCEPT ![j] = "idle"]
     \/ j \in preempted /\ status' = [status EXCEPT ![j] = "retrying"]
  /\ preempted' = preempted \ {j}
  /\ pumping' = TRUE
  /\ UNCHANGED <<queues, consumers, cursors, foregroundIntents, held, preferred,
                 waiting, listed>>

\* The caller's signal aborts a waiting access (job.abort -> removeJob) ...
Abort(j) ==
  /\ ~pumping
  /\ status[j] = "waiting"
  /\ status' = [status EXCEPT ![j] = "rejected"]
  /\ \E i \in DOMAIN consumers[ClassOf[j]], n \in DOMAIN Lane(j) :
       /\ consumers[ClassOf[j]][i] = AppOf[j]
       /\ Lane(j)[n] = j
       /\ Extract(ClassOf[j], AppOf[j], i, n, cursors[ClassOf[j]])
  /\ UNCHANGED <<active, foregroundIntents, held, preempted, preferred, pumping, listed>>

\* ... or stops the retry loop of a preempted read.
AbortRetry(j) ==
  /\ ~pumping
  /\ status[j] = "retrying"
  /\ status' = [status EXCEPT ![j] = "idle"]
  /\ UNCHANGED <<queues, consumers, cursors, active, foregroundIntents, held,
                 preempted, preferred, waiting, pumping, listed>>

\* The finally handler of a job that was rejected while it waited.
SettleRejected(j) ==
  /\ ~pumping
  /\ status[j] = "rejected"
  /\ status' = [status EXCEPT ![j] = "idle"]
  /\ listed' = (listed /\ ~IsIdle)
  /\ UNCHANGED <<queues, consumers, cursors, active, foregroundIntents, held,
                 preempted, preferred, waiting, pumping>>

\* Mutant: intents no longer preempt.
PreemptNobody(i) == preempted

\* The active reads that a new intent tells to stop.
Preempt(i) ==
  preempted \cup {j \in active \cap Preemptible : StoresOf[j] \cap IntentStores[i] # {}}

\* beginNostrDbForegroundIntent: no pump, nothing can become runnable.
BeginIntent(i) ==
  /\ ~pumping /\ listed
  /\ held[i] = "idle"
  /\ held' = [held EXCEPT ![i] = "held"]
  /\ foregroundIntents' = foregroundIntents \cup {i}
  /\ preempted' = Preempt(i)
  /\ UNCHANGED <<status, queues, consumers, cursors, active, preferred, waiting,
                 pumping, listed>>

\* Mutant: the release forgets pump().
ReleaseIntentQuietly(i) ==
  /\ ~pumping
  /\ held[i] = "held"
  /\ held' = [held EXCEPT ![i] = "idle"]
  /\ foregroundIntents' = foregroundIntents \ {i}
  /\ UNCHANGED <<status, queues, consumers, cursors, active, preempted, preferred,
                 waiting, pumping, listed>>

\* release(): pump only if the scheduler still knew the intent (a reset may
\* have cleared it), then unlist an idle scheduler.  pump() moves jobs from
\* waiting to active, so IsIdle is the same before and after it.
ReleaseIntent(i) ==
  /\ ~pumping
  /\ held[i] = "held"
  /\ held' = [held EXCEPT ![i] = "idle"]
  /\ foregroundIntents' = foregroundIntents \ {i}
  /\ pumping' = (i \in foregroundIntents)
  /\ listed' = (listed /\ ~(active = {} /\ waiting = 0 /\ foregroundIntents' = {}))
  /\ UNCHANGED <<status, queues, consumers, cursors, active, preempted, preferred, waiting>>

\* cancelNostrDbAccesses: a deleted or upgraded database rejects what waits
\* and forgets the intents; active operations run to their end.
Cancel ==
  /\ ~pumping /\ listed
  /\ status' = [j \in Jobs |-> IF status[j] = "waiting" THEN "rejected" ELSE status[j]]
  /\ queues' = [c \in Classes |-> [a \in Apps |-> <<>>]]
  /\ consumers' = [c \in Classes |-> <<>>]
  /\ cursors' = [c \in Classes |-> 0]
  /\ waiting' = 0
  /\ foregroundIntents' = {}
  /\ listed' = (active # {})
  /\ UNCHANGED <<active, held, preempted, preferred, pumping>>

\* schedulerFor after the object was unlisted: the next access gets a fresh
\* one.  Objects that outlive their entry are the subject of SchedulerRegistry.
Recreate ==
  /\ ~pumping /\ ~listed
  /\ active = {}
  /\ \A i \in Intents : held[i] = "idle"
  /\ \A j \in Jobs : status[j] # "rejected"
  /\ listed' = TRUE
  /\ preferred' = 0
  /\ cursors' = [c \in Classes |-> 0]
  /\ UNCHANGED <<status, queues, consumers, active, foregroundIntents, held,
                 preempted, waiting, pumping>>

Next ==
  \/ \E j \in Jobs : Run(j) \/ Complete(j) \/ Abort(j) \/ AbortRetry(j) \/ SettleRejected(j)
  \/ \E i \in Intents : BeginIntent(i) \/ ReleaseIntent(i)
  \/ PumpStep \/ PumpEnd
  \/ Cancel \/ Recreate

Spec == Init /\ [][Next]_vars

-----------------------------------------------------------------------------
(***************************************************************************)
(* Safety.                                                                 *)
(***************************************************************************)

\* Active accesses never share a store, although each start looks only at the
\* stores that were active when the pump round began (takeFromClass, start).
StoresSerialized ==
  \A j, k \in active : j # k => StoresOf[j] \cap StoresOf[k] = {}

\* The queues agree with what the callers were told: a waiting access is in its
\* own lane exactly once, and a lane holds nothing else (run, removeJob,
\* takeFromClass, cancelWaiting all edit the lanes on their own).
LanesHoldTheWaiting ==
  \A j \in Jobs : \A c \in Classes, a \in Apps :
    Cardinality({n \in DOMAIN queues[c][a] : queues[c][a][n] = j})
      = IF status[j] = "waiting" /\ c = ClassOf[j] /\ a = AppOf[j] THEN 1 ELSE 0

\* The order of the lanes lists every lane that holds a job, once, and no other:
\* a lane missing from it would never be scanned, an empty one would be read.
LanesListedOnce ==
  \A c \in Classes :
    /\ \A m, n \in DOMAIN consumers[c] : m # n => consumers[c][m] # consumers[c][n]
    /\ {consumers[c][n] : n \in DOMAIN consumers[c]} = {a \in Apps : queues[c][a] # <<>>}

\* A class's cursor never leaves the order of its lanes, however lanes go before
\* it, at it and after it and come back at the end: the scan wraps a cursor that
\* drifted away without a trace, and other lanes would get the turn.
CursorsInOrder == \A c \in Classes : cursors[c] \in 0..Len(consumers[c])

\* The hand-kept counter that isIdle and the diagnostics read counts the queues,
\* and an unlisted object is empty: dropping the entry loses no access.
WaitingCounted == waiting = Cardinality({j \in Jobs : status[j] = "waiting"})
UnlistedIsIdle == ~listed => IsIdle

\* So what callers were told, the lanes, their order, the cursors, the counter
\* and the registry entry tell one story, through every abort, reset and pump.
QueuesAgree ==
  LanesHoldTheWaiting /\ LanesListedOnce /\ CursorsInOrder /\ WaitingCounted /\ UnlistedIsIdle

\* No lost wakeup: with the pump at rest, an access waits only while something
\* is held whose end pumps again.  Aborting the blocked head of a lane exposes
\* a runnable job without a pump, so "every waiting head is blocked" is false.
NoStall == ~pumping /\ waiting > 0 => active # {} \/ foregroundIntents # {}

\* A foreground write never sits behind speculative planning that was not told
\* to stop: the ones active at the intent are preempted, and none starts after it.
PlanningYields ==
  \A i \in foregroundIntents, j \in active \cap Preemptible :
    StoresOf[j] \cap IntentStores[i] # {} => j \in preempted

-----------------------------------------------------------------------------
\* The scheduler implements the promise made to its callers: what the queues,
\* classes, lanes, preemptions and resets do is, for each access, to be
\* submitted, started when no running access shares a store with it, finished
\* or withdrawn.
phase == [j \in Jobs |-> IF status[j] = "waiting" THEN "waiting"
                         ELSE IF status[j] = "active" THEN "running" ELSE "out"]
Promise == INSTANCE StoreAccess WITH Jobs <- Jobs, StoresOf <- StoresOf, phase <- phase
KeepsPromise == Promise!Spec
=============================================================================
