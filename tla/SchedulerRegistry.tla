------------------------- MODULE SchedulerRegistry -------------------------
(***************************************************************************)
(* The "schedulers" map of services/idb/nostrdb/access-scheduler.js for    *)
(* one owner: which scheduler object its entry names, and what the calls   *)
(* and late callbacks that remember an older object do to that entry.      *)
(*                                                                         *)
(* Every access is a write in a lane of its own, so that a pump of an      *)
(* object starts a maximal set of its waiting accesses with disjoint       *)
(* stores; AccessScheduler models which one.                               *)
(***************************************************************************)
EXTENDS Integers, FiniteSets

CONSTANTS
  Jobs, Intents,
  StoresOf,     \* [Jobs -> sets of stores]
  MaxObjects,   \* bound: scheduler objects created
  MaxResets     \* bound: calls of cancelNostrDbAccesses

VARIABLES
  entry,     \* the object the owner's entry names, 0 for none
  created,   \* objects created so far: 1..created
  status,    \* [Jobs -> {"idle", "waiting", "active", "rejected"}]
  home,      \* the object each access or intent was given to
  held,      \* intents whose holder has not released them
  known,     \* intents their object still counts
  resets

vars == <<entry, created, status, home, held, known, resets>>

Init ==
  /\ entry = 0 /\ created = 0
  /\ status = [j \in Jobs |-> "idle"]
  /\ home = [x \in Jobs \cup Intents |-> 0]
  /\ held = {} /\ known = {}
  /\ resets = 0

In(o, phase) == {j \in Jobs : home[j] = o /\ status[j] = phase}
Clash(j, k) == StoresOf[j] \cap StoresOf[k] # {}

Idle(o) ==
  /\ In(o, "active") \cup In(o, "waiting") = {}
  /\ \A i \in known : home[i] # o

\* What pump() may start among the waiting accesses W beside the active ones A.
Compatible(S, A) ==
  /\ \A j, k \in S : j # k => ~Clash(j, k)
  /\ \A j \in S, k \in A : ~Clash(j, k)
Batches(W, A) ==
  {S \in SUBSET W : /\ Compatible(S, A)
                    /\ \A j \in W \ S : ~Compatible(S \cup {j}, A)}
Pumped(st, W, A) ==
  {[j \in Jobs |-> IF j \in S THEN "active" ELSE st[j]] : S \in Batches(W, A)}

\* schedulerFor: the named object, or a new one.
ObjectFor == IF entry = 0 THEN created + 1 ELSE entry
Enter(x) ==
  /\ ObjectFor <= MaxObjects
  /\ entry' = ObjectFor
  /\ created' = IF entry = 0 THEN created + 1 ELSE created
  /\ home' = [home EXCEPT ![x] = ObjectFor]

Schedule(j) ==
  /\ status[j] = "idle"
  /\ Enter(j)
  /\ status' \in Pumped([status EXCEPT ![j] = "waiting"],
                        In(ObjectFor, "waiting") \cup {j}, In(ObjectFor, "active"))
  /\ UNCHANGED <<held, known, resets>>

BeginIntent(i) ==
  /\ i \notin held
  /\ Enter(i)
  /\ held' = held \cup {i}
  /\ known' = known \cup {i}
  /\ UNCHANGED <<status, resets>>

Complete(j) ==
  /\ status[j] = "active"
  /\ status' \in Pumped([status EXCEPT ![j] = "idle"],
                        In(home[j], "waiting"), In(home[j], "active") \ {j})
  /\ UNCHANGED <<entry, created, home, held, known, resets>>

Abort(j) ==
  /\ status[j] = "waiting"
  /\ status' = [status EXCEPT ![j] = "rejected"]
  /\ UNCHANGED <<entry, created, home, held, known, resets>>

\* "if (scheduler.isIdle()) schedulers.delete(owner)": the object asked is the
\* one the caller remembers, the entry deleted is whatever the map holds.
Drop(o) == IF Idle(o) THEN 0 ELSE entry

\* scheduled.finally of an access rejected while it waited.
SettleRejected(j) ==
  /\ status[j] = "rejected"
  /\ status' = [status EXCEPT ![j] = "idle"]
  /\ entry' = Drop(home[j])
  /\ UNCHANGED <<created, home, held, known, resets>>

\* release() of an intent.  Writes do not wait for intents, so its pump starts
\* nothing; the intent no longer counts when isIdle is asked.
ReleaseIntent(i) ==
  /\ i \in held
  /\ held' = held \ {i}
  /\ known' = known \ {i}
  /\ entry' = IF In(home[i], "active") \cup In(home[i], "waiting") = {}
                 /\ \A k \in known \ {i} : home[k] # home[i]
              THEN 0 ELSE entry
  /\ UNCHANGED <<created, status, home, resets>>

\* cancelNostrDbAccesses (deleteNostrDb, onversionchange).
Reset ==
  /\ entry # 0
  /\ resets < MaxResets
  /\ resets' = resets + 1
  /\ status' = [j \in Jobs |-> IF j \in In(entry, "waiting") THEN "rejected" ELSE status[j]]
  /\ known' = {i \in known : home[i] # entry}
  /\ entry' = IF In(entry, "active") = {} THEN 0 ELSE entry
  /\ UNCHANGED <<created, home, held>>

\* The handlers of rejected accesses are microtasks queued at the rejection:
\* they run before the next task, whichever it is.
MicrotasksDone == \A j \in Jobs : status[j] # "rejected"

Next ==
  \/ \E j \in Jobs : SettleRejected(j)
  \/ /\ MicrotasksDone
     /\ \/ \E j \in Jobs : Schedule(j) \/ Complete(j) \/ Abort(j)
        \/ \E i \in Intents : BeginIntent(i) \/ ReleaseIntent(i)
        \/ Reset

Spec == Init /\ [][Next]_vars

-----------------------------------------------------------------------------
Active == {j \in Jobs : status[j] = "active"}

\* "The in-memory access scheduler runs one logical scheduler per
\* owner/database [...] intersecting stores remain serialized" (docs/nostrdb.md).
OwnerSerialized == \A j, k \in Active : j # k => ~Clash(j, k)
=============================================================================
