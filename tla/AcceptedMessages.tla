-------------------------- MODULE AcceptedMessages --------------------------
(***************************************************************************)
(* Messages the vault must accept or reject, kept in local storage until   *)
(* it does (helpers/window-message/browser/vault-accepted-message-queue.js)*)
(* and shared by the launcher's tabs. A request is known by its key: the   *)
(* owner and the app whose events the vault shall send again.              *)
(*                                                                         *)
(* A flush is unrolled: one step per item, up to the await of its answer.  *)
(* Reading and writing the storage is one step of a tab. Times are kept as *)
(* ticks since createdAt (age) and ticks until the next attempt (rest).    *)
(***************************************************************************)
EXTENDS Integers, Sequences, FiniteSets

CONSTANTS
  Tabs, Keys, NoKey,
  MaxItems,    \* 100
  Lifetime,    \* 6 months, in ticks
  Throttle,    \* 30 s, in ticks
  Timeout,     \* 5 s, in ticks
  MaxAge       \* bound: [Keys -> Nat], the age of a request is counted up to here

ASSUME AcceptedConstants ==
  /\ IsFiniteSet(Tabs) /\ IsFiniteSet(Keys) /\ NoKey \notin Keys
  /\ MaxItems \in Nat \ {0} /\ Lifetime \in Nat /\ Timeout \in Nat
  /\ Throttle \in Nat /\ Throttle > Timeout
  /\ MaxAge \in [Keys -> 0..(Lifetime + 1)]

VARIABLES
  stored,    \* the queue in local storage, oldest first
  online,    \* tabs with a vault connection
  flushing,  \* tabs with a flushPromise
  todo,      \* [Tabs -> Seq(Keys)]: items the flush has yet to visit
  asked,     \* [Tabs -> Keys \cup {NoKey}]: the message awaiting its answer
  waited,    \* [Tabs -> ticks it has been waiting]
  event,     \* history: what the last step did, and to which key
  quiet      \* history: [Keys -> ticks since this request was sent]

messageVars == <<stored, online, flushing, todo, asked, waited, event, quiet>>

Queued(items) == {items[i].key : i \in DOMAIN items}
Live(item) == item.age <= Lifetime

InitMessages ==
  /\ stored = <<>>
  /\ online = {} /\ flushing = {}
  /\ todo = [t \in Tabs |-> <<>>]
  /\ asked = [t \in Tabs |-> NoKey]
  /\ waited = [t \in Tabs |-> 0]
  /\ event = <<"none", NoKey>>
  /\ quiet = [k \in Keys |-> Throttle]

-----------------------------------------------------------------------------
\* The items at some of their positions, in order.
ItemsAt(items, positions) ==
  [n \in 1..Cardinality(positions) |->
     items[CHOOSE i \in positions : Cardinality({j \in positions : j <= i}) = n]]

\* The oldest item of each key that is not too old: the queue is in the order
\* of createdAt.
Deduped(items) ==
  {i \in DOMAIN items : Live(items[i]) /\ \A j \in 1..(i - 1) : items[j].key = items[i].key => ~Live(items[j])}

\* One item per key, none too old, the newest MaxItems of them.
Prune(items) ==
  LET kept == Deduped(items) IN
  ItemsAt(items, {i \in kept : Cardinality({j \in kept : j > i}) < MaxItems})

Without(items, k) == ItemsAt(items, {i \in DOMAIN items : items[i].key # k})

\* Other code of a tab runs only while its flush awaits an answer.
Awaits(t) == t \in flushing => asked[t] # NoKey

-----------------------------------------------------------------------------
\* A flush visits the items that are queued when it begins; a tab has one
\* flush at a time.
Begins(t, items) ==
  IF t \notin flushing
  THEN /\ flushing' = flushing \cup {t}
       /\ todo' = [todo EXCEPT ![t] = [i \in DOMAIN items |-> items[i].key]]
  ELSE UNCHANGED <<flushing, todo>>

\* requestNostrDbAppBackfillForWorkspace: enqueue, and flush if connected.
Enqueue(t, k) ==
  LET kept == Prune(stored)
      items == IF k \in Queued(kept) THEN kept
               ELSE Prune(Append(kept, [key |-> k, age |-> 0, rest |-> 0])) IN
  /\ Awaits(t)
  /\ stored' = items
  /\ quiet' = IF k \in Queued(kept) THEN quiet ELSE [quiet EXCEPT ![k] = Throttle]
  /\ event' = <<"enqueue", k>>
  /\ IF t \in online THEN Begins(t, items) ELSE UNCHANGED <<flushing, todo>>
  /\ UNCHANGED <<online, asked, waited>>

\* removeVaultAcceptedMessage: the app was cleaned up for its owner.
Forget(t, k) ==
  /\ Awaits(t)
  /\ stored' = Prune(Without(Prune(stored), k))
  /\ event' = <<"remove", k>>
  /\ UNCHANGED <<online, flushing, todo, asked, waited, quiet>>

\* The vault connects to the tab: the queue is flushed.
Connect(t) ==
  /\ Awaits(t) /\ t \notin online
  /\ online' = online \cup {t}
  /\ stored' = Prune(stored)
  /\ Begins(t, stored')
  /\ event' = <<"none", NoKey>>
  /\ UNCHANGED <<asked, waited, quiet>>

Disconnect(t) ==
  /\ Awaits(t) /\ t \in online
  /\ online' = online \ {t}
  /\ event' = <<"none", NoKey>>
  /\ UNCHANGED <<stored, flushing, todo, asked, waited, quiet>>

\* Mutant: the attempt is noted when it ends.
AttemptedLater(items, k) == items

\* lastAttemptAt is written before the message is sent.
Attempted(items, k) ==
  [i \in DOMAIN items |-> IF items[i].key = k THEN [items[i] EXCEPT !.rest = Throttle] ELSE items[i]]

\* The next item of the flush: skipped if it is gone or was tried lately.
Visit(t) ==
  LET k == Head(todo[t])
      items == Prune(stored)
      due == \E i \in DOMAIN items : items[i].key = k /\ items[i].rest = 0 IN
  /\ ~Awaits(t) /\ todo[t] # <<>>
  /\ todo' = [todo EXCEPT ![t] = Tail(@)]
  /\ IF due
     THEN /\ stored' = Attempted(items, k)
          /\ asked' = [asked EXCEPT ![t] = k]
          /\ waited' = [waited EXCEPT ![t] = 0]
          /\ quiet' = [quiet EXCEPT ![k] = 0]
          /\ event' = <<"ask", k>>
     ELSE /\ stored' = items
          /\ event' = <<"none", NoKey>>
          /\ UNCHANGED <<asked, waited, quiet>>
  /\ UNCHANGED <<online, flushing>>

\* Mutant: the promise of a flush is kept.
FlushKept(t) == flushing

FlushOver(t) == flushing \ {t}

FinishFlush(t) ==
  /\ ~Awaits(t) /\ todo[t] = <<>>
  /\ flushing' = FlushOver(t)
  /\ event' = <<"none", NoKey>>
  /\ UNCHANGED <<stored, online, todo, asked, waited, quiet>>

\* Mutant: an error counts as an answer.
AcceptedOrNot(verdict, k) == Prune(Without(stored, k))

\* An item leaves with a verdict, be it true or false; an error keeps it.
AfterAnswer(verdict, k) == IF verdict THEN Prune(Without(stored, k)) ELSE stored

TakeAnswer(t, verdict) ==
  /\ asked[t] # NoKey
  /\ verdict => t \in online
  /\ stored' = AfterAnswer(verdict, asked[t])
  /\ asked' = [asked EXCEPT ![t] = NoKey]
  /\ event' = IF verdict THEN <<"verdict", asked[t]>> ELSE <<"none", NoKey>>
  /\ UNCHANGED <<online, flushing, todo, waited, quiet>>

-----------------------------------------------------------------------------
\* The tab is closed: its flush is lost, what it wrote is not.
Crash(t) ==
  /\ online' = online \ {t}
  /\ flushing' = flushing \ {t}
  /\ todo' = [todo EXCEPT ![t] = <<>>]
  /\ asked' = [asked EXCEPT ![t] = NoKey]
  /\ event' = <<"crash", NoKey>>
  /\ UNCHANGED <<stored, waited, quiet>>

Least(x, y) == IF x < y THEN x ELSE y
Sooner(n) == IF n = 0 THEN 0 ELSE n - 1

\* Time passes, and an ask does not outlive its timeout.
Tick ==
  /\ \A t \in Tabs : asked[t] # NoKey => waited[t] < Timeout
  /\ stored' = [i \in DOMAIN stored |->
       [stored[i] EXCEPT !.age = Least(@ + 1, MaxAge[stored[i].key]), !.rest = Sooner(@)]]
  /\ waited' = [t \in Tabs |-> IF asked[t] # NoKey THEN waited[t] + 1 ELSE 0]
  /\ quiet' = [k \in Keys |-> Least(quiet[k] + 1, Throttle)]
  /\ event' = <<"none", NoKey>>
  /\ UNCHANGED <<online, flushing, todo, asked>>

NextMessages ==
  \/ \E t \in Tabs :
       \/ \E k \in Keys : Enqueue(t, k) \/ Forget(t, k)
       \/ Connect(t) \/ Disconnect(t) \/ Visit(t) \/ FinishFlush(t) \/ Crash(t)
       \/ \E verdict \in BOOLEAN : TakeAnswer(t, verdict)
  \/ Tick

MessagesSpec == InitMessages /\ [][NextMessages]_messageVars

\* Time goes on and so does a flush. There is no retry but at a connection or
\* at an enqueue: a tab's connection ends some day (the page is left, if
\* nothing else) and a vault connects again, and a message that is sent for
\* ever is answered some time.
FairMessagesSpec ==
  /\ MessagesSpec /\ SF_messageVars(Tick)
  /\ \A t \in Tabs :
       /\ WF_messageVars(Visit(t) \/ FinishFlush(t)) /\ WF_messageVars(\E v \in BOOLEAN : TakeAnswer(t, v))
       /\ WF_messageVars(Disconnect(t)) /\ SF_messageVars(Connect(t))
       /\ \A k \in Keys : SF_messageVars(asked[t] = k /\ TakeAnswer(t, TRUE))

-----------------------------------------------------------------------------
(***************************************************************************)
(* Properties.                                                             *)
(***************************************************************************)
\* An item leaves the store with a verdict, when its app is cleaned up, when
\* it is too old or when newer ones push it out: never for a crash, a lost
\* connection, a timeout or another tab's write.  What was just queued stays.
LeavesForAReason ==
  [][/\ event'[1] = "enqueue" => event'[2] \in Queued(stored')
     /\ \A i \in DOMAIN stored : stored[i].key \notin Queued(stored') =>
          \/ event' \in {<<"verdict", stored[i].key>>, <<"remove", stored[i].key>>}
          \/ ~Live(stored[i])
          \/ event'[1] = "enqueue" /\ Len(stored') = MaxItems
               /\ \A n \in 1..i : stored[n].key \notin Queued(stored')]_messageVars

\* A queued request is sent at most once in 30 seconds, by all tabs together.
SentOnceAWhile == [][\A t \in Tabs, k \in Keys : asked[t] = NoKey /\ asked'[t] = k => quiet[k] >= Throttle]_messageVars

\* A request that does not grow too old gets its verdict: it is not in the store
\* for ever, though answers are lost, connections break and tabs close (as long
\* as they do not all close for ever).
Lasting == {k \in Keys : MaxAge[k] <= Lifetime}
EveryRequestJudged ==
  <>[](event[1] # "crash") => \A k \in Lasting : k \in Queued(stored) ~> k \notin Queued(stored)
=============================================================================
