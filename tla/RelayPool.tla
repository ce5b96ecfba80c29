------------------------------ MODULE RelayPool ------------------------------
(***************************************************************************)
(* The launcher's relay pool for one relay (services/relay-pool/pool.js):  *)
(* virtual sockets ("members") share physical connections ("buckets").     *)
(* Members are placed, moved together and apart; their publications share  *)
(* a job per bucket and event; EVENTs rejected for want of authentication  *)
(* are retried on a connection of their own.                               *)
(*                                                                         *)
(* One handler with all it calls at once is a step, a function from one    *)
(* state of the pool to the next; s is that state.  Reconnection is        *)
(* ConnectionRecovery's: here a queued bucket opens or fails.  The message *)
(* budget of the host decides which queued frame goes next: any may.       *)
(* Left out: bytes queued, COUNT, retry advice, caches of seen events and  *)
(* diagnostics.                                                            *)
(***************************************************************************)
EXTENDS Integers, Sequences, FiniteSets, SequencesExt, BagsExt

CONSTANTS
  Members, Raws,       \* virtual sockets; subscription ids of a client
  Events, Keys, Anon,  \* signed events; identities; none of these
  AuthorOf,            \* [Events -> Keys]
  MaxSubs,             \* maxSubscriptionsPerBucket
  MaxBuckets,          \* maxBucketsPerRelay
  MaxFrames,           \* maxQueuedFramesPerMember
  Crowds               \* what the members may do: [join, raws, negs, posts, auths, made], sets of members,
                       \* of pairs with a Raw, of members, of pairs with an event and with a key, and the
                       \* bound of the connections made

ASSUME LimitsAssumption == MaxSubs \in Nat /\ MaxFrames \in Nat /\ MaxSubs <= MaxFrames

VARIABLES
  crowd,
  s      \* [bk, at, life, subs, neg, pend, auto, frames, waiting, packed, busy, todo, owed, extra,
         \*  asked]; a bucket also has what is the relay's, wire, remote and as

vars == <<crowd, s>>

None == 0
NoBucket == 0
Less(n) == IF n = 0 THEN 0 ELSE n - 1
Drop(f, x) == [y \in DOMAIN f \ {x} |-> f[y]]
Req(r) == <<"REQ", r>>
Event(e) == <<"EVENT", e>>
Auth(m, x) == <<"AUTH", <<m, x>>>>
Neg == <<"NEG">>

(***************************************************************************)
(* Buckets.                                                                *)
(***************************************************************************)
NewBucket(state) ==
  [state |-> state, id |-> Anon, alone |-> FALSE, doubt |-> FALSE, chal |-> FALSE, mem |-> <<>>,
   listed |-> {}, negs |-> {}, pubs |-> [e \in Events |-> {}], jobs |-> <<>>,
   queue |-> [m \in Members |-> EmptyBag], auths |-> {}, wire |-> {}, remote |-> {}, as |-> {}]

Open(p, b) == p.bk[b].state = "open"
Closed(p, b) == p.bk[b].state = "closed"
Live(p) == {b \in DOMAIN p.bk : ~Closed(p, b)}
In(p, b) == Range(p.bk[b].mem)
HasRoom(p, b) == Cardinality(p.bk[b].listed) < MaxSubs
MaySign(p, b) == p.bk[b].auths # {}
Empty(p, b) == p.bk[b].mem = <<>> /\ p.bk[b].listed = {} /\ ~MaySign(p, b)

ByOpen(p, B) == SetToSortSeq(B, LAMBDA a, b : (Open(p, a) /\ ~Open(p, b)) \/ (Open(p, a) = Open(p, b) /\ a < b))
ByCrowd(p, B) ==
  LET n(b) == Len(p.bk[b].mem) IN
  SetToSortSeq(B, LAMBDA a, b : \/ Open(p, a) /\ ~Open(p, b)
                                \/ Open(p, a) = Open(p, b) /\ (n(a) > n(b) \/ (n(a) = n(b) /\ a < b)))

\* Mutant: a connection whose AUTH was never answered takes new members.
CanAcceptDoubted(p, b) == p.bk[b].id = Anon /\ ~p.bk[b].alone /\ ~MaySign(p, b) /\ HasRoom(p, b)

CanAcceptAnonymous(p, b) ==
  p.bk[b].id = Anon /\ ~p.bk[b].alone /\ ~p.bk[b].doubt /\ ~MaySign(p, b) /\ HasRoom(p, b)
CanMerge(p, b, m) ==
  p.neg[m] # "pinned" /\ Cardinality(p.bk[b].listed) + Cardinality(p.subs[m]) <= MaxSubs
HasPendingAuth(p, m) == p.at[m] # NoBucket /\ \E x \in p.bk[p.at[m]].auths : x.member = m

(***************************************************************************)
(* Publications.                                                           *)
(***************************************************************************)
Release(p, m) == [p EXCEPT !.frames[m] = Less(@)]
Put(p, b, m, item) == [p EXCEPT !.bk[b].queue[m] = BagAdd(@, item)]
Take(p, b, m, item) == [p EXCEPT !.bk[b].queue[m] = BagRemove(@, item)]

\* Mutant: what leaves the queue stays charged.
UnqueueCharged(p, b, m, item) == [p EXCEPT !.bk[b].queue[m] = BagRemoveAll(@, item)]

\* removeQueued: every copy of the operation
Unqueue(p, b, m, item) ==
  LET n == CopiesIn(item, p.bk[b].queue[m])
  IN  [p EXCEPT !.bk[b].queue[m] = BagRemoveAll(@, item), !.frames[m] = IF @ > n THEN @ - n ELSE 0]

RemoveJob(p, b, e) ==
  IF e \notin DOMAIN p.bk[b].jobs THEN p
  ELSE LET j == p.bk[b].jobs[e]
           freed == IF j.sent THEN p ELSE FoldLeft(Release, Take(p, b, j.lead, Event(e)), j.wait)
       IN  [freed EXCEPT !.bk[b].jobs = Drop(@, e), !.bk[b].pubs[e] = @ \ Range(j.wait)]

\* detachPublicationWaiter and transferPublicationLeader: the queued frame of
\* a job goes to the next who waits for it.
Detach(p, m, e) ==
  LET b == p.pend[m][e].job
      j == p.bk[b].jobs[e]
      rest == SelectSeq(j.wait, LAMBDA w : w # m)
      leads == ~j.sent /\ j.lead = m
      queued(w, bag) == IF leads /\ w = m THEN BagRemove(bag, Event(e))
                        ELSE IF leads /\ rest # <<>> /\ w = Head(rest) THEN BagAdd(bag, Event(e)) ELSE bag
  IN
  IF b = NoBucket \/ e \notin DOMAIN p.bk[b].jobs THEN [p EXCEPT !.pend[m][e].job = NoBucket]
  ELSE [p EXCEPT !.pend[m][e].job = NoBucket,
                 !.frames[m] = IF j.sent THEN @ ELSE Less(@),
                 !.bk[b].queue = [w \in Members |-> queued(w, @[w])],
                 !.bk[b].jobs = IF rest = <<>> THEN Drop(@, e)
                                ELSE [@ EXCEPT ![e] = [@ EXCEPT !.wait = rest, !.lead = IF leads THEN Head(rest) ELSE @]],
                 !.bk[b].pubs[e] = IF rest = <<>> THEN @ ELSE @ \ {m}]

RemovePending(p, m, e) ==
  IF e \in DOMAIN p.pend[m] THEN [Detach(p, m, e) EXCEPT !.pend[m] = Drop(@, e)] ELSE p

\* The client hears of its event: owed and extra are history.
Deliver(p, m, e) ==
  IF p.at[m] = NoBucket \/ p.life[m] = "closed" THEN p
  ELSE [p EXCEPT !.owed[m] = @ \ {e}, !.extra = @ \/ e \notin p.owed[m]]

Discard(p, m, e) ==
  IF e \notin DOMAIN p.auto[m] THEN p
  ELSE LET t == p.auto[m][e].target
           off == IF t = NoBucket \/ Closed(p, t) THEN p
                  ELSE Unqueue([p EXCEPT !.bk[t].auths = {x \in @ : ~x.auto \/ x.member # m \/ x.event # e},
                                         !.bk[t].wire = @ \ {Auth(m, e)}], t, m, Auth(m, e))
       IN  [off EXCEPT !.auto[m] = Drop(@, e),
                       !.pend[m] = [x \in DOMAIN @ |-> IF x = e THEN [@[x] EXCEPT !.auth = FALSE] ELSE @[x]]]

\* Mutant: the rejection kept back is not delivered.
FailAutoSilently(p, m, e) ==
  IF e \notin DOMAIN p.auto[m] THEN p ELSE RemovePending(Discard(p, m, e), m, e)

FailAuto(p, m, e) ==
  IF e \notin DOMAIN p.auto[m] THEN p ELSE Deliver(RemovePending(Discard(p, m, e), m, e), m, e)

Autos(p) == SetToSeq({<<m, e>> \in Members \X Events : e \in DOMAIN p.auto[m]})
AutosOf(p, m) == SetToSeq(DOMAIN p.auto[m])
DiscardAll(p, m) == FoldLeft(LAMBDA q, e : Discard(q, m, e), p, AutosOf(p, m))

\* finishPublicationRecord
FinishPublication(p, m, e) ==
  IF e \notin DOMAIN p.pend[m] THEN p
  ELSE Deliver(RemovePending(IF p.pend[m][e].auth THEN Discard(p, m, e) ELSE p, m, e), m, e)

(***************************************************************************)
(* Members come, move and go.  Handlers call each other deep: what a call  *)
(* leaves for its callees is put on todo, the first to be done first.      *)
(* A task that needs a connection has it second; NoBucket if there is none.*)
(***************************************************************************)
Then(p, tasks) == [p EXCEPT !.todo = tasks \o @]
Close(p, m) == Then(p, <<<<"close", NoBucket, m>>>>)
Each(S, Task(_)) == LET q == SetToSeq(S) IN [i \in DOMAIN q |-> Task(q[i])]

\* reclaimUnverifiedBucket
Reclaimable(p) == {b \in Live(p) : p.bk[b].doubt /\ Empty(p, b)}

\* The connection for a task: one that fits, or else a new one, made in the
\* place of a reclaimed one if there are as many as there may be.
Find(p, fit, full, task) ==
  IF fit # NoBucket THEN Then(p, <<[task EXCEPT ![2] = fit]>>)
  ELSE IF full /\ Reclaimable(p) = {} THEN Then(p, <<task>>)
  ELSE Then(p, (IF full THEN <<<<"destroy", FoldSet(LAMBDA b, c : IF b < c THEN b ELSE c, Len(p.bk), Reclaimable(p))>>>>
                ELSE <<>>) \o <<<<"create", NoBucket, task>>>>)
Create(p, task) ==
  Then([p EXCEPT !.bk = Append(@, NewBucket("queued"))], <<[task EXCEPT ![2] = Len(p.bk) + 1]>>)

\* selectBucket, for a member without identity
Select(p, exclude, task) ==
  LET buckets == Live(p) \ exclude
      fit == SelectSeq(ByOpen(p, buckets), LAMBDA b : CanAcceptAnonymous(p, b))
  IN  Find(p, IF fit = <<>> THEN NoBucket ELSE fit[1], Cardinality(buckets) >= MaxBuckets, task)

Place(p, m) == IF p.life[m] = "closed" THEN p ELSE Select(p, {}, <<"seat", NoBucket, m>>)
Seat(p, b, m) ==
  IF b = NoBucket THEN [p EXCEPT !.waiting = Append(@, m)] ELSE [p EXCEPT !.at[m] = b, !.bk[b].mem = Append(@, m)]

\* drainPendingMembers
DrainWaiting(p) == Then([p EXCEPT !.waiting = <<>>], [i \in DOMAIN p.waiting |-> <<"place", NoBucket, p.waiting[i]>>])

Destroy(p, b) ==
  LET aimed == SelectSeq(Autos(p), LAMBDA x : p.auto[x[1]][x[2]].target = b)
      calm == FoldLeft(LAMBDA q, x : Discard(q, x[1], x[2]), p, aimed)
  IN  IF Closed(p, b) THEN p ELSE Then([calm EXCEPT !.bk[b] = NewBucket("closed")], <<<<"drain">>>>)

\* removeMemberFromBucket
RemoveMember(p, m, preserve) ==
  LET b == p.at[m]
      left == FoldSet(LAMBDA e, q : Detach(q, m, e), p, DOMAIN p.pend[m])
      empties == p.bk[b].mem = <<m>> /\ p.bk[b].state = "queued"
  IN  IF b = NoBucket THEN p
      ELSE Then([left EXCEPT !.pend[m] = IF preserve THEN @ ELSE <<>>, !.bk[b].mem = SelectSeq(@, LAMBDA x : x # m),
                             !.bk[b].listed = @ \ ({m} \X p.subs[m]), !.bk[b].remote = @ \ ({m} \X p.subs[m]),
                             !.bk[b].negs = @ \ {m}, !.bk[b].queue[m] = EmptyBag, !.frames[m] = 0, !.at[m] = NoBucket],
                IF empties THEN <<<<"destroy", b>>>> ELSE <<>>)

CloseMember(p, m) ==
  IF p.life[m] = "closed" THEN p
  ELSE Then([DiscardAll(p, m) EXCEPT !.life[m] = "closed", !.neg[m] = "none"],
            <<<<"remove", NoBucket, m, FALSE>>, <<"drain">>, <<"left", p.at[m]>>>>)

Enqueue(p, b, m, item) ==
  IF b = NoBucket \/ p.life[m] = "closed" \/ Closed(p, b) THEN p
  ELSE IF p.frames[m] >= MaxFrames THEN Close(p, m)
  ELSE Put([p EXCEPT !.frames[m] = @ + 1], b, m, item)

\* attachPublicationRecord
Attach(p, m, e) ==
  LET b == p.at[m]
      known == e \in DOMAIN p.bk[b].jobs
      sent == known /\ p.bk[b].jobs[e].sent
      owes == IF sent THEN p ELSE [p EXCEPT !.frames[m] = @ + 1]
      job == IF known THEN [p.bk[b].jobs[e] EXCEPT !.wait = IF m \in Range(@) THEN @ ELSE Append(@, m)]
             ELSE [wait |-> <<m>>, lead |-> m, sent |-> FALSE]
      joined == [owes EXCEPT !.bk[b].jobs = (e :> job) @@ @, !.bk[b].pubs[e] = @ \cup {m}, !.pend[m][e].job = b]
  IN  IF b = NoBucket \/ e \notin DOMAIN p.pend[m] THEN p
      ELSE IF Closed(p, b) \/ p.pend[m][e].job # NoBucket THEN p
      ELSE IF ~sent /\ p.frames[m] >= MaxFrames THEN Close(p, m)
      ELSE IF known THEN joined ELSE Put(joined, b, m, Event(e))

Attached(p, m, e) == e \in DOMAIN p.pend[m] /\ p.pend[m][e].job # NoBucket

\* moveMember and replayMemberOperations
Move(p, m, t, publications) ==
  IF p.at[m] \in {NoBucket, t} THEN p
  ELSE IF p.neg[m] = "pinned" THEN Close(p, m)
  ELSE Then(p, <<<<"remove", NoBucket, m, TRUE>>, <<"replay", t, m, publications>>>>)

Replay(p, t, m, publications) ==
  LET joined == [Seat(p, t, m) EXCEPT !.astray = @ \/ Closed(p, t),
                                      !.bk[t].listed = @ \cup ({m} \X p.subs[m]),
                                      !.bk[t].negs = IF p.neg[m] = "none" THEN @ ELSE @ \cup {m}]
  IN  Then(joined, Each(p.subs[m], LAMBDA r : <<"enqueue", t, m, Req(r)>>)
                   \o (IF p.neg[m] = "none" THEN <<>> ELSE <<<<"enqueue", t, m, Neg>>>>)
                   \o (IF publications THEN Each(DOMAIN p.pend[m], LAMBDA e : <<"attach", t, m, e>>) ELSE <<>>))

(***************************************************************************)
(* Consolidation.                                                          *)
(***************************************************************************)
Pairs(kind, targets, sources) ==
  FlattenSeq([i \in DOMAIN targets |-> [j \in DOMAIN sources |-> <<kind, targets[i], sources[j]>>]])
Skip(p, t, b) == b = t \/ Closed(p, t) \/ p.bk[t].mem = <<>> \/ Closed(p, b)

AnonymousSources(p) == SetToSortSeq({b \in Live(p) : p.bk[b].id = Anon}, LAMBDA a, b : a < b)
AnonymousTargets(p) == ByCrowd(p, {b \in Live(p) : p.bk[b].id = Anon /\ ~p.bk[b].doubt /\ ~MaySign(p, b)})

\* consolidateBuckets
Consolidate(p, id) ==
  LET on == [p EXCEPT !.busy = @ \cup {id}]
      same == ByCrowd(p, {b \in Live(p) : p.bk[b].id = id})
      end == <<<<"unbusy", NoBucket, id>>, <<"drain">>>>
  IN  IF id \in p.busy THEN Then(p, <<<<"drain">>>>)
      ELSE IF id # Anon THEN Then(on, Pairs("some", same, same) \o end)
      ELSE Then(on, Pairs("whole", AnonymousTargets(p), AnonymousSources(p))
                    \o <<<<"partly", NoBucket, p.at, AnonymousTargets(p), AnonymousSources(p)>>>> \o end)

\* A whole connection at once
MoveWhole(p, t, b) ==
  LET needed == Cardinality(UNION {{m} \X p.subs[m] : m \in In(p, b)})
      may == /\ ~Skip(p, t, b) /\ p.bk[b].mem # <<>> /\ ~MaySign(p, b)
             /\ \A m \in In(p, b) : p.neg[m] # "pinned"
             /\ Cardinality(p.bk[t].listed) + needed <= MaxSubs
  IN  IF may THEN Then(p, [i \in DOMAIN p.bk[b].mem |-> <<"move", t, p.bk[b].mem[i], TRUE>>]) ELSE p

\* Only if nobody moved, and only every consolidationThrottleMs
MovePartly(p, before, targets, sources) ==
  IF p.at # before \/ p.packed THEN p ELSE Then([p EXCEPT !.packed = TRUE], Pairs("some", targets, sources))

MoveSome(p, t, b) ==
  IF Skip(p, t, b) \/ p.bk[t].doubt THEN p
  ELSE Then(p, [i \in DOMAIN p.bk[b].mem |-> <<"merge", t, p.bk[b].mem[i], b>>])
Merge(p, t, m, b) == IF p.at[m] = b /\ ~HasPendingAuth(p, m) /\ CanMerge(p, t, m) THEN Move(p, m, t, TRUE) ELSE p

(***************************************************************************)
(* Steps of the members.                                                   *)
(***************************************************************************)
\* selectSpillBucket
Spill(p, b, m) ==
  LET others == Live(p) \ {b}
      fits(c) == /\ p.bk[c].id = p.bk[b].id /\ Cardinality(p.bk[c].listed) + Cardinality(p.subs[m]) + 1 <= MaxSubs
                 /\ p.bk[b].id = Anon => ~p.bk[c].doubt /\ ~MaySign(p, c)
      fit == {c \in others : fits(c)}
      least == IF fit = {} THEN NoBucket ELSE CHOOSE c \in fit : \A d \in fit : c <= d
  IN  IF least = NoBucket /\ p.bk[b].id # Anon THEN Close(p, m)
      ELSE Find(p, least, Cardinality(others) + 1 >= MaxBuckets, <<"spilled", NoBucket, m>>)

Subscribe(p, m, r) ==
  LET b == p.at[m]
  IN  IF b = NoBucket THEN p
      ELSE Enqueue([p EXCEPT !.subs[m] = @ \cup {r}, !.bk[b].listed = @ \cup {<<m, r>>}], b, m, Req(r))

\* handleClientRequest, once consolidation had its chance
Packed(p, m, r) ==
  LET b == p.at[m]
  IN  IF b = NoBucket THEN p
      ELSE IF HasRoom(p, b) THEN Subscribe(p, m, r)
      ELSE Spill(Then(p, <<<<"subscribe", NoBucket, m, r>>>>), b, m)

NegEnds(p, m) == Then([p EXCEPT !.neg[m] = "none", !.bk[p.at[m]].negs = @ \ {m}], <<<<"left", p.at[m]>>>>)
Unsubscribe(p, m, r) ==
  LET b == p.at[m]
  IN  Then([p EXCEPT !.subs[m] = @ \ {r}, !.bk[b].listed = @ \ {<<m, r>>}, !.bk[b].remote = @ \ {<<m, r>>}],
           <<<<"drain">>, <<"left", b>>>>)

SetPending(p, b, m, k) ==
  [p EXCEPT !.asked[m] = @ \cup {k},
            !.astray = @ \/ (p.bk[b].id = Anon /\ p.bk[b].mem # <<m>>) \/ (\E x \in p.bk[b].auths : x.key # k),
            !.bk[b].auths = @ \cup {[id |-> <<m, k>>, member |-> m, key |-> k, auto |-> FALSE, event |-> None]}]
Ask(p, b, m, k) == Enqueue(SetPending(p, b, m, k), b, m, Auth(m, k))

\* handleClientAuth on a shared connection: the others leave it.
Evacuate(p, t, m, k) ==
  LET b == p.at[m]
      others == SelectSeq(p.bk[b].mem, LAMBDA o : o # m)
  IN  IF t = NoBucket THEN Close(p, m)
      ELSE Then(p, [i \in DOMAIN others |-> <<"move", t, others[i], TRUE>>] \o <<<<"ask", b, m, k>>>>)

AuthRequested(p, b, m, k) ==
  LET same == {c \in Live(p) : ~p.bk[c].doubt /\ p.bk[c].id = k}
      home == CHOOSE c \in same : \A d \in same : c <= d
  IN  IF ~p.bk[b].chal \/ \E x \in p.bk[b].auths : x.id = <<m, k>> THEN p
      ELSE IF p.bk[b].id = k THEN Ask(p, b, m, k)
      ELSE IF same # {} /\ CanMerge(p, home, m) THEN Move([p EXCEPT !.asked[m] = @ \cup {k}], m, home, TRUE)
      ELSE IF p.bk[b].id # Anon THEN Close(p, m)
      ELSE IF Len(p.bk[b].mem) = 1 THEN Ask(p, b, m, k)
      ELSE Select(p, {b}, <<"evacuate", NoBucket, m, k>>)

\* isolateAutomaticAuth
Isolate(p, m, e) ==
  LET b == p.at[m]
      aim == <<"aim", NoBucket, m, e>>
  IN  IF p.neg[m] = "pinned" THEN Then(p, <<<<"fail", NoBucket, m, e>>>>)
      ELSE IF p.bk[b].id = Anon /\ Len(p.bk[b].mem) = 1 /\ ~MaySign(p, b) THEN Then(p, <<[aim EXCEPT ![2] = b]>>)
      ELSE Find(p, NoBucket, Cardinality(Live(p)) >= MaxBuckets, aim)
Aim(p, t, m, e) ==
  IF t = NoBucket THEN Then(p, <<<<"fail", NoBucket, m, e>>>>)
  ELSE Then([p EXCEPT !.bk[t].alone = TRUE], <<<<"move", t, m, FALSE>>, <<"aimed", t, m, e>>>>)
Aimed(p, t, m, e) ==
  IF e \notin DOMAIN p.auto[m] THEN p
  ELSE [p EXCEPT !.auto[m][e] = [stage |-> IF p.bk[t].chal THEN "signing" ELSE "challenge", target |-> t]]

Do(p, task) ==
  LET kind == task[1]
      b == task[2]
      m == task[3]
  IN  CASE kind = "drain" -> DrainWaiting(p)
        [] kind = "destroy" -> Destroy(p, b)
        [] kind = "create" -> Create(p, task[3])
        [] kind = "place" -> Place(p, m)
        [] kind = "seat" -> Seat(p, b, m)
        [] kind = "close" -> CloseMember(p, m)
        [] kind = "remove" -> RemoveMember(p, m, task[4])
        [] kind = "enqueue" -> Enqueue(p, b, m, task[4])
        [] kind = "attach" -> IF p.at[m] = b THEN Attach(p, m, task[4]) ELSE p
        [] kind = "move" -> Move(p, m, b, task[4])
        [] kind = "replay" -> Replay(p, b, m, task[4])
        [] kind = "left" -> IF b = NoBucket THEN p ELSE IF Closed(p, b) THEN p ELSE Consolidate(p, p.bk[b].id)
        [] kind = "whole" -> MoveWhole(p, b, task[3])
        [] kind = "partly" -> MovePartly(p, task[3], task[4], task[5])
        [] kind = "some" -> MoveSome(p, b, task[3])
        [] kind = "merge" -> IF Closed(p, b) THEN p ELSE Merge(p, b, m, task[4])
        [] kind = "unbusy" -> [p EXCEPT !.busy = @ \ {task[3]}]
        [] kind = "packed" -> Packed(p, m, task[4])
        [] kind = "spilled" -> IF b = NoBucket THEN Close(p, m) ELSE Move(p, m, b, TRUE)
        [] kind = "subscribe" -> Subscribe(p, m, task[4])
        [] kind = "published" -> IF Attached(p, m, task[4]) THEN p ELSE RemovePending(p, m, task[4])
        [] kind = "authenticate" -> AuthRequested(p, b, m, task[4])
        [] kind = "evacuate" -> Evacuate(p, b, m, task[4])
        [] kind = "ask" -> Ask(p, b, m, task[4])
        [] kind = "aim" -> Aim(p, b, m, task[4])
        [] kind = "aimed" -> Aimed(p, b, m, task[4])
        [] kind = "again" -> IF Attached(p, m, task[4]) THEN p ELSE Then(p, <<<<"fail", NoBucket, m, task[4]>>>>)
        [] kind = "fail" -> FailAuto(p, m, task[4])

RECURSIVE Run(_)
Run(p) == IF p.todo = <<>> THEN p ELSE Run(Do([p EXCEPT !.todo = Tail(@)], Head(p.todo)))

Becomes(p) == s' = Run(p) /\ Len(s'.bk) <= crowd.made /\ UNCHANGED crowd

Init ==
  /\ crowd \in Crowds
  /\ s = [bk |-> <<>>, at |-> [m \in Members |-> NoBucket], life |-> [m \in Members |-> "out"],
          subs |-> [m \in Members |-> {}], neg |-> [m \in Members |-> "none"], pend |-> [m \in Members |-> <<>>],
          auto |-> [m \in Members |-> <<>>], frames |-> [m \in Members |-> 0], waiting |-> <<>>, packed |-> FALSE,
          busy |-> {}, todo |-> <<>>, owed |-> [m \in Members |-> {}], extra |-> FALSE, astray |-> FALSE, asked |-> [m \in Members |-> {}]]

\* attach, for a virtual socket of the relay
Join(m) == m \in crowd.join /\ s.life[m] = "out" /\ Becomes(Place([s EXCEPT !.life[m] = "in"], m))
Leave(m) == s.life[m] = "in" /\ Becomes(Close(s, m))

\* handleClientRequest
Request(m, r) ==
  LET b == s.at[m]
  IN  /\ <<m, r>> \in crowd.raws /\ b # NoBucket
      /\ Becomes(IF r \in s.subs[m] \/ HasRoom(s, b) THEN Subscribe(s, m, r)
                 ELSE Then(s, <<<<"left", b>>, <<"packed", NoBucket, m, r>>>>))

\* handleClientClose
Unrequest(m, r) ==
  /\ r \in s.subs[m] /\ s.at[m] # NoBucket
  /\ Becomes(Unsubscribe(Unqueue(s, s.at[m], m, Req(r)), m, r))

\* handleClientNegOpen, handleClientNeg
NegOpen(m) ==
  LET b == s.at[m]
      asked == [s EXCEPT !.neg[m] = "open", !.bk[b].negs = @ \cup {m}]
  IN  /\ m \in crowd.negs /\ b # NoBucket
      /\ Becomes(Enqueue(IF s.neg[m] = "none" THEN asked ELSE Then(asked, <<<<"left", b>>>>), b, m, Neg))

NegMessage(m) ==
  /\ s.neg[m] # "none" /\ s.at[m] # NoBucket
  /\ Becomes(Enqueue([s EXCEPT !.neg[m] = "pinned"], s.at[m], m, Neg))

\* The frame goes to the connection of before consolidation.
NegClose(m) ==
  /\ s.neg[m] # "none" /\ s.at[m] # NoBucket
  /\ Becomes(NegEnds(Then(s, <<<<"enqueue", s.at[m], m, Neg>>>>), m))

\* admitEvent
Publish(m, e) ==
  LET asked == [s EXCEPT !.pend[m] = (e :> [job |-> NoBucket, auth |-> FALSE, tried |-> FALSE]) @@ @, !.owed[m] = @ \cup {e}]
  IN  /\ <<m, e>> \in crowd.posts /\ s.at[m] # NoBucket /\ e \notin DOMAIN s.pend[m]
      /\ Becomes(Then(asked, <<<<"attach", s.at[m], m, e>>, <<"published", NoBucket, m, e>>>>))

\* handleClientAuth, with a valid event; an invalid one only ends the automatic attempts
Authenticate(m, k) ==
  /\ <<m, k>> \in crowd.auths /\ s.at[m] # NoBucket
  /\ \E valid \in BOOLEAN :
       Becomes(Then(s, Each(DOMAIN s.auto[m], LAMBDA e : <<"fail", NoBucket, m, e>>)
                       \o (IF valid THEN <<<<"authenticate", s.at[m], m, k>>>> ELSE <<>>)))

\* failPendingAuth
AuthTimeout(b, x) ==
  LET late == Unqueue([s EXCEPT !.bk[b].auths = @ \ {x}, !.bk[b].doubt = TRUE, !.bk[b].wire = @ \ {Auth(x.member, x.key)}],
                      b, x.member, Auth(x.member, x.key))
  IN  x \in s.bk[b].auths /\ ~x.auto /\ Becomes(Then(late, <<<<"left", b>>, <<"drain">>>>))

\* beginAutomaticAuth, once the provider answers
AutoAllowed(m, e) ==
  /\ e \in DOMAIN s.auto[m] /\ s.auto[m][e].stage = "checking" /\ s.at[m] # NoBucket
  /\ Becomes(Isolate(s, m, e))

\* signAutomaticAuth, once the signer answers
AutoSigned(m, e) ==
  LET t == s.auto[m][e].target
      entry == [id |-> <<m, e>>, member |-> m, key |-> AuthorOf[e], auto |-> TRUE, event |-> e]
      signed == [s EXCEPT !.auto[m][e].stage = "auth", !.asked[m] = @ \cup {AuthorOf[e]}, !.bk[t].auths = @ \cup {entry}]
  IN  /\ e \in DOMAIN s.auto[m] /\ s.auto[m][e].stage = "signing"
      /\ Becomes(IF s.at[m] # t THEN FailAuto(s, m, e) ELSE Enqueue(signed, t, m, Auth(m, e)))

\* The provider refuses, an error, or authPendingTimeoutMs has passed.
AutoFails(m, e) == e \in DOMAIN s.auto[m] /\ Becomes(FailAuto(s, m, e))

(***************************************************************************)
(* Steps of the relay and of the connections.                              *)
(***************************************************************************)
Opens(b) == s.bk[b].state = "queued" /\ s.bk[b].mem # <<>> /\ Becomes([s EXCEPT !.bk[b].state = "open"])

\* sendHostNext.  The relay takes an AUTH or not, and is no longer anyone's then.
Identity(x) == IF x \in Events THEN AuthorOf[x] ELSE x

Dispatch(b, m, item) ==
  LET out == Take(s, b, m, item)
      wire == [out EXCEPT !.bk[b].wire = @ \cup {item}]
      job == s.bk[b].jobs[item[2]]
  IN
  /\ Open(s, b) /\ BagIn(item, s.bk[b].queue[m])
  /\ \/ item[1] = "EVENT" /\ Becomes([FoldLeft(Release, wire, job.wait) EXCEPT !.bk[b].jobs[item[2]].sent = TRUE])
     \/ item[1] = "REQ" /\ Becomes([Release(out, m) EXCEPT !.bk[b].remote = @ \cup {<<m, item[2]>>}])
     \/ item[1] = "NEG" /\ Becomes(Release(out, m))
     \/ /\ item[1] = "AUTH"
        /\ \E taken \in BOOLEAN :
             Becomes([Release(wire, m) EXCEPT !.bk[b].as = IF taken THEN @ \cup {Identity(item[2][2])} ELSE {}])

\* handleAuthChallenge
Challenge(b) ==
  LET waits(m, e) == /\ e \in DOMAIN s.auto[m] /\ s.auto[m][e].stage = "challenge"
                     /\ s.auto[m][e].target = b /\ s.at[m] = b
  IN
  /\ Open(s, b) /\ ~s.bk[b].chal
  /\ Becomes([s EXCEPT !.bk[b].chal = TRUE,
                       !.auto = [m \in Members |-> [e \in DOMAIN @[m] |-> IF waits(m, e) THEN [@[m][e] EXCEPT !.stage = "signing"] ELSE @[m][e]]]])

\* completeAutomaticAuth
CompleteAuto(p, b, x, ok) ==
  LET m == x.member
      e == x.event
      known == [p EXCEPT !.bk[b].id = x.key]
      again == [known EXCEPT !.pend[m][e].tried = TRUE, !.auto[m][e].stage = "event"]
  IN  IF ~ok THEN FailAuto(p, m, e)
      ELSE IF e \notin DOMAIN p.pend[m] \/ p.at[m] # b THEN FailAuto(known, m, e)
      ELSE IF ~p.pend[m][e].auth THEN FailAuto(known, m, e)
      ELSE Then(again, <<<<"attach", b, m, e>>, <<"again", NoBucket, m, e>>>>)

\* routeOk, the answer to an AUTH
AuthAnswered(b, x) ==
  LET ok == x.key \in s.bk[b].as
      heard == [s EXCEPT !.bk[b].auths = @ \ {x}, !.bk[b].wire = @ \ {<<"AUTH", x.id>>}]
      known == [heard EXCEPT !.bk[b].id = IF ok THEN x.key ELSE Anon]
  IN
  /\ x \in s.bk[b].auths /\ <<"AUTH", x.id>> \in s.bk[b].wire
  /\ Becomes(IF x.auto THEN CompleteAuto(heard, b, x, ok) ELSE IF ok THEN Then(known, <<<<"left", b>>>>) ELSE known)

Waiters(e) == {m \in Members : e \in DOMAIN s.pend[m]}
Jobs(e) == {s.pend[m][e].job : m \in Waiters(e)} \ {NoBucket}

\* settleGlobalPublicationSuccess
Accepted(b, e) ==
  LET here == e \in DOMAIN s.bk[b].jobs \/ \E m \in Waiters(e) : s.at[m] = b
      heard == [s EXCEPT !.bk[b].wire = @ \ {Event(e)}]
      idle == FoldLeft(LAMBDA q, c : RemoveJob(q, c, e), heard, SetToSeq(Jobs(e)))
  IN
  /\ Event(e) \in s.bk[b].wire
  /\ Becomes(IF here THEN FoldLeft(LAMBDA q, m : FinishPublication(q, m, e), idle, SetToSeq(Waiters(e))) ELSE heard)

\* routeOk, settleBucketPublicationFailure and routeAutomaticAuthRejection
Rejected(b, e, wantsAuth) ==
  LET heard == [s EXCEPT !.bk[b].wire = @ \ {Event(e)}]
      eligible == {m \in s.bk[b].pubs[e] : /\ e \in DOMAIN s.pend[m] /\ ~s.pend[m][e].tried /\ ~s.pend[m][e].auth
                                           /\ s.life[m] # "closed"}
      idle == RemoveJob(heard, b, e)
      \* the rejected ones lose the publication and are told
      told(q, m) == IF q.life[m] = "closed" THEN q ELSE Deliver(RemovePending(q, m, e), m, e)
      begun == [idle EXCEPT !.pend = [m \in Members |-> IF m \in eligible THEN [@[m] EXCEPT ![e].job = NoBucket, ![e].auth = TRUE] ELSE @[m]],
                            !.auto = [m \in Members |-> IF m \in eligible /\ s.at[m] # NoBucket
                                                        THEN (e :> [stage |-> "checking", target |-> NoBucket]) @@ @[m] ELSE @[m]]]
      \* a publisher who no longer waits for this job, or authenticates for it already
      stray(m) == /\ s.life[m] # "closed"
                  /\ e \in DOMAIN s.pend[m] => s.pend[m][e].job # b \/ s.pend[m][e].auth
      waits == {m \in Range(s.bk[b].jobs[e].wait) : e \in DOMAIN s.pend[m] /\ s.pend[m][e].job = b}
  IN
  /\ Event(e) \in s.bk[b].wire
  /\ Becomes(IF e \notin DOMAIN s.bk[b].jobs THEN heard
             ELSE IF wantsAuth /\ eligible # {}
             THEN FoldLeft(told, [begun EXCEPT !.astray = @ \/ \E m \in s.bk[b].pubs[e] : stray(m)], SetToSeq(s.bk[b].pubs[e] \ eligible))
             ELSE FoldLeft(LAMBDA q, m : FinishPublication(q, m, e), idle, SetToSeq(waits)))

\* routeClosed
SubClosed(b, m, r) ==
  /\ <<m, r>> \in s.bk[b].remote
  /\ Becomes(IF <<m, r>> \notin s.bk[b].listed THEN [s EXCEPT !.bk[b].remote = @ \ {<<m, r>>}]
             ELSE Unsubscribe(s, m, r))

\* A negentropy message of the relay, its error, or negSessionIdleMs without any
NegAnswered(m) == s.neg[m] = "open" /\ Open(s, s.at[m]) /\ Becomes([s EXCEPT !.neg[m] = "pinned"])
NegFails(m) == s.neg[m] # "none" /\ s.at[m] # NoBucket /\ Becomes(NegEnds(s, m))

\* failBucket
Fail(b) ==
  LET hit == SelectSeq(Autos(s), LAMBDA x : s.auto[x[1]][x[2]].target = b \/ s.at[x[1]] = b)
      calm == FoldLeft(LAMBDA q, x : FailAuto(q, x[1], x[2]), s, hit)
  IN
  /\ ~Closed(s, b) /\ s.bk[b].mem # <<>>
  /\ Becomes(Destroy(Then(calm, [i \in DOMAIN s.bk[b].mem |-> <<"close", NoBucket, s.bk[b].mem[i]>>]), b))

\* The idle timer of a bucket without members
Idle(b) == Open(s, b) /\ s.bk[b].mem = <<>> /\ Becomes(Destroy(s, b))

\* consolidationThrottleMs has passed.
Rested == s.packed /\ Becomes([s EXCEPT !.packed = FALSE])

Clients ==
  \/ \E m \in Members : Join(m) \/ Leave(m) \/ NegOpen(m) \/ NegMessage(m) \/ NegClose(m)
  \/ \E m \in Members, r \in Raws : Request(m, r) \/ Unrequest(m, r)
  \/ \E m \in Members, e \in Events : Publish(m, e)
  \/ \E m \in Members, k \in Keys : Authenticate(m, k)

Signers == \E m \in Members, e \in Events : AutoAllowed(m, e) \/ AutoSigned(m, e) \/ AutoFails(m, e)

Relay ==
  \E b \in DOMAIN s.bk :
    \/ Opens(b) \/ Challenge(b) \/ Fail(b) \/ Idle(b)
    \/ \E m \in Members : \E item \in DOMAIN s.bk[b].queue[m] : Dispatch(b, m, item)
    \/ \E x \in s.bk[b].auths : AuthTimeout(b, x) \/ AuthAnswered(b, x)
    \/ \E e \in Events : Accepted(b, e) \/ \E wants \in BOOLEAN : Rejected(b, e, wants)
    \/ \E m \in Members, r \in Raws : SubClosed(b, m, r)

Next == Clients \/ Signers \/ Relay \/ Rested \/ \E m \in Members : NegAnswered(m) \/ NegFails(m)

Spec == Init /\ [][Next]_vars

-----------------------------------------------------------------------------
(***************************************************************************)
(* Properties.                                                             *)
(***************************************************************************)
\* The properties hold until the pool goes astray (history), which it does in
\* three cases.  A rejection goes to all who published the event there, also to
\* one who waits on another connection by now, was answered long ago, or
\* authenticates for it already.  A member closed while others are moved off
\* lets consolidation bring members back before the AUTH is asked for, or
\* destroys the connection they are moved to.  Of two AUTHs that wait together
\* the one refused takes back the identity the other gave.
Connected == {m \in Members : s.at[m] # NoBucket}

\* A client hears of every event it publishes while connected, and once: an
\* event is pending for exactly the members that still wait to hear of it,
\* although members move, leave and share the job of an event, and a
\* rejection is kept from them while the pool authenticates and tries again.
AnsweredOnce == s.astray \/ (~s.extra /\ \A m \in Connected : s.owed[m] = DOMAIN s.pend[m])

\* Whoever shares a connection that the relay knows by an identity has asked
\* for that identity itself: members are moved off before one authenticates,
\* and nobody is put on a connection whose AUTH is pending or was never
\* answered.  Connections dedicated to automatic authentication are apart:
\* consolidation does not look whether one is dedicated.
StrangersApart == s.astray \/ \A b \in Live(s) : ~s.bk[b].alone => \A m \in In(s, b) : s.bk[b].as \subseteq s.asked[m]

\* The frames a member is charged for: its own in the queues, and a share in
\* every job that is not sent yet.
Charged(m) ==
  LET own(b) == LET frames == {i \in DOMAIN s.bk[b].queue[m] : i[1] # "EVENT"}
                IN  MapThenSumSet(LAMBDA i : CopiesIn(i, s.bk[b].queue[m]), frames)
      shares(b) == {e \in DOMAIN s.bk[b].jobs : ~s.bk[b].jobs[e].sent /\ m \in Range(s.bk[b].jobs[e].wait)}
  IN  MapThenSumSet(LAMBDA b : own(b) + Cardinality(shares(b)), Live(s))
ChargesAgree == \A m \in Connected \ crowd.negs : s.frames[m] = Charged(m)

PlacesAgree == \A m \in Members : \A b \in Live(s) : m \in In(s, b) <=> s.at[m] = b
SubscriptionsAgree == \A b \in Live(s) : s.bk[b].listed = UNION {{m} \X s.subs[m] : m \in In(s, b)}
JobsAgree ==
  \A b \in Live(s) : \A e \in DOMAIN s.bk[b].jobs :
    Range(s.bk[b].jobs[e].wait) = {m \in Members : e \in DOMAIN s.pend[m] /\ s.pend[m][e].job = b}

\* What connections, members, jobs and counters say of each other agrees
\* after every handler: who is where, which subscriptions count against a
\* connection, who waits for a shared job and what each member is charged
\* for.  A counter that drifts closes a member for frames it does not have,
\* or lets it queue for ever.  Members that negotiate are not counted: their
\* NEG-CLOSE may be queued on the connection they were just moved from.
BooksAgree == s.astray \/ (PlacesAgree /\ SubscriptionsAgree /\ JobsAgree /\ ChargesAgree)

\* A publication that waits is on a connection or is being authenticated
\* for: "migration requeues them while preserving the original age".
NotStranded == \A m \in Connected : \A e \in DOMAIN s.pend[m] : s.pend[m][e].job # NoBucket \/ e \in DOMAIN s.auto[m]
=============================================================================
