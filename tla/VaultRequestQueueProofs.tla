---------------------- MODULE VaultRequestQueueProofs ----------------------
(***************************************************************************)
(* For every set of requests and connections and all limits: the queue's   *)
(* variables keep their types, a request settles once, no limit is passed, *)
(* slots are held for the vault only, no slot idles, and no result of a    *)
(* former connection settles a request.                                    *)
(*                                                                         *)
(* Of the messages the vault must accept: for any number of tabs, requests *)
(* and places an item leaves the store for a reason only, and the tabs     *)
(* together keep the throttle.                                             *)
(***************************************************************************)
EXTENDS VaultRequestQueue, AcceptedMessages, DataLemmas

\* A queue lists the waiting requests of its class, each once.
QueuesOK ==
  /\ waiting \in [BOOLEAN -> Seq(Jobs)]
  /\ \A c \in BOOLEAN :
       /\ IsInjective(waiting[c])
       /\ ToSet(waiting[c]) = {j \in Jobs : state[j] = "waiting" /\ IsPriority(j) = c}

\* What settling, cancelling and starting must keep about the requests ...
Requests ==
  /\ state \in [Jobs -> {"new", "waiting", "running", "done"}]
  /\ QueuesOK
  /\ overdue \subseteq {j \in Timed : state[j] \in {"waiting", "running"}}
  /\ result \subseteq Jobs /\ settled \in [Jobs -> Nat]
  /\ LimitsHold
  /\ SettlesOnce

\* ... and about the connection: slots need that only a connected queue drains
\* and that a request is not with the vault before it has its slot.
Connection ==
  /\ preferred \in 0..Streak
  /\ port \in Ports \cup {NoPort}
  /\ closed \in BOOLEAN /\ draining \in BOOLEAN
  /\ sent \in [Jobs -> Ports \cup {NoPort}]
  /\ SlotsAreWithTheVault
  /\ \A j \in Jobs : state[j] \in {"new", "waiting"} => sent[j] = NoPort
  /\ draining => Drains

IInv == Requests /\ Connection

-----------------------------------------------------------------------------
\* Leaving a queue.

\* A job that stops waiting leaves its queue.
LEMMA LeaveKeepsQueues ==
  ASSUME Requests, NEW j \in Jobs, NEW st \in {"running", "done"},
         state' = [state EXCEPT ![j] = st], waiting' = Left(j)
  PROVE  QueuesOK'
<1>0. (j \in Priority) \in BOOLEAN /\ \A c \in BOOLEAN : waiting[c] \in Seq(Jobs)
  BY DEF Requests, QueuesOK
<1>1. waiting' = [waiting EXCEPT ![(j \in Priority)] = RemoveFirst(waiting[(j \in Priority)], j)]
  BY DEF Left, IsPriority
<1>2. /\ RemoveFirst(waiting[(j \in Priority)], j) \in Seq(Jobs)
      /\ IsInjective(RemoveFirst(waiting[(j \in Priority)], j))
      /\ ToSet(RemoveFirst(waiting[(j \in Priority)], j)) = ToSet(waiting[(j \in Priority)]) \ {j}
  BY <1>0, RemoveFirstProperties DEF Requests, QueuesOK
<1>3. waiting' \in [BOOLEAN -> Seq(Jobs)]
  BY <1>0, <1>1, <1>2 DEF Requests, QueuesOK
<1>4. ASSUME NEW c \in BOOLEAN
      PROVE  /\ IsInjective(waiting'[c])
             /\ ToSet(waiting'[c]) = {k \in Jobs : state'[k] = "waiting" /\ (k \in Priority) = c}
  <2>0. /\ IsInjective(waiting[c])
        /\ ToSet(waiting[c]) = {k \in Jobs : state[k] = "waiting" /\ (k \in Priority) = c}
    BY DEF Requests, QueuesOK, IsPriority
  <2>1. {k \in Jobs : state'[k] = "waiting" /\ (k \in Priority) = c}
          = {k \in Jobs : state[k] = "waiting" /\ (k \in Priority) = c} \ {j}
    BY DEF Requests
  <2>2. CASE (j \in Priority) = c
    <3>1. waiting'[c] = RemoveFirst(waiting[(j \in Priority)], j)
      BY <1>0, <1>1, <2>2 DEF Requests, QueuesOK
    <3> QED
      BY <3>1, <1>2, <2>0, <2>1, <2>2
  <2>3. CASE (j \in Priority) # c
    <3>1. waiting'[c] = waiting[c]
      BY <1>0, <1>1, <2>3 DEF Requests, QueuesOK
    <3> QED
      BY <3>1, <2>0, <2>1, <2>3
  <2> QED
    BY <2>2, <2>3
<1> QED
  BY <1>3, <1>4 DEF QueuesOK, IsPriority

\* Fewer running requests pass no limit.
LEMMA FewerRunning ==
  ASSUME Requests, Running' \subseteq Running
  PROVE  LimitsHold'
<1>0. IsFiniteSet(Running) /\ IsFiniteSet(Running \ Priority)
      /\ IsFiniteSet(Running \cap Chunk) /\ IsFiniteSet(Running \cap Archive)
  BY QueueConstants, FS_Subset DEF Running
<1>1. /\ Cardinality(Running) \in Nat /\ Cardinality(Running \ Priority) \in Nat
      /\ Cardinality(Running \cap Chunk) \in Nat /\ Cardinality(Running \cap Archive) \in Nat
  BY <1>0, FS_CardinalityType
<1>2. Running' \in SUBSET Running /\ (Running' \ Priority) \in SUBSET (Running \ Priority)
      /\ (Running' \cap Chunk) \in SUBSET (Running \cap Chunk)
      /\ (Running' \cap Archive) \in SUBSET (Running \cap Archive)
  OBVIOUS
<1>3. /\ Cardinality(Running') <= Cardinality(Running) /\ Cardinality(Running') \in Nat
      /\ Cardinality(Running' \ Priority) <= Cardinality(Running \ Priority)
      /\ Cardinality(Running' \ Priority) \in Nat
      /\ Cardinality(Running' \cap Chunk) <= Cardinality(Running \cap Chunk)
      /\ Cardinality(Running' \cap Chunk) \in Nat
      /\ Cardinality(Running' \cap Archive) <= Cardinality(Running \cap Archive)
      /\ Cardinality(Running' \cap Archive) \in Nat
  BY <1>0, <1>2, FS_Subset, FS_CardinalityType
<1>4. LimitsHold
  BY DEF Requests
<1>5. Slots \in Int /\ NormalSlots \in Int /\ ChunkSlots \in Int /\ ArchiveSlots \in Int
  BY QueueConstants
<1> QED
  BY <1>1, <1>3, <1>4, <1>5 DEF LimitsHold

\* Settling a request keeps what is known of all requests.
LEMMA SettleKeeps ==
  ASSUME Requests, NEW j \in Jobs, state[j] # "done", NEW how, Settle(j, how)
  PROVE  /\ Requests'
         /\ \A k \in Jobs : state'[k] # "done" => state'[k] = state[k]
<1>1. state' = [state EXCEPT ![j] = "done"] /\ waiting' = Left(j)
  BY DEF Settle
<1>2. QueuesOK'
  BY <1>1, LeaveKeepsQueues
<1>3. Running' \subseteq Running
  BY <1>1 DEF Running, Requests
<1>4. LimitsHold'
  BY <1>3, FewerRunning
<1>5. state' \in [Jobs -> {"new", "waiting", "running", "done"}]
  BY <1>1 DEF Requests
<1>6. overdue' \subseteq {k \in Timed : state'[k] \in {"waiting", "running"}}
  BY QueueConstants DEF Settle, Requests
<1>7. result' \subseteq Jobs /\ settled' \in [Jobs -> Nat]
  BY DEF Settle, Requests
<1>8. SettlesOnce'
  BY DEF Settle, SettlesOnce, Requests
<1> QED
  BY <1>1, <1>2, <1>4, <1>5, <1>6, <1>7, <1>8 DEF Requests

\* A step that changes none of the requests keeps what is known of them.
LEMMA NothingKeeps ==
  ASSUME Requests, Nothing
  PROVE  Requests' /\ state' = state
<1>1. Running' = Running
  BY DEF Nothing, Running
<1>2. LimitsHold'
  BY <1>1, FewerRunning
<1> QED
  BY <1>2 DEF Nothing, Requests, QueuesOK, SettlesOnce

\* Cancelling settles every request that waits or runs, and leaves new ones new (cancel).
LEMMA CancelKeeps ==
  ASSUME Requests, Cancel
  PROVE  /\ Requests'
         /\ \A k \in Jobs : state'[k] = "done" \/ (state'[k] = "new" /\ state[k] = "new")
<1>1. \A k \in Jobs : state'[k] = IF state[k] \in {"waiting", "running"} THEN "done" ELSE state[k]
  BY DEF Cancel
<1>2. state' \in [Jobs -> {"new", "done"}]
  BY DEF Cancel, Requests
<1>3. QueuesOK'
  <2>1. <<>> \in Seq(Jobs) /\ ToSet(<<>>) = {} /\ IsInjective(<<>>)
    BY DEF ToSet, IsInjective
  <2>2. waiting' = [c \in BOOLEAN |-> <<>>]
    BY DEF Cancel
  <2> QED
    BY <1>2, <2>1, <2>2 DEF QueuesOK
<1>4. Running' \subseteq Running
  BY <1>2 DEF Running
<1>5. LimitsHold'
  BY <1>4, FewerRunning
<1>6. SettlesOnce'
  BY DEF Cancel, Requests, SettlesOnce
<1>7. overdue' = {} /\ result' = {} /\ settled' \in [Jobs -> Nat]
  BY DEF Cancel, Requests
<1>8. \A k \in Jobs : state'[k] = "done" \/ (state'[k] = "new" /\ state[k] = "new")
  BY <1>1 DEF Requests
<1>9. state' \in [Jobs -> {"new", "waiting", "running", "done"}]
  BY <1>2
<1> QED
  BY <1>8, <1>9, <1>3, <1>5, <1>6, <1>7 DEF Requests

-----------------------------------------------------------------------------
\* drain starts only what the limits let go.

\* What the loop chooses waits and may go: normal work only with a normal slot free.
LEMMA ChosenIsEligible ==
  ASSUME Requests, NEW j \in Chosen
  PROVE  /\ j \in Jobs /\ state[j] = "waiting" /\ Eligible(j)
         /\ j \notin Priority => Cardinality(Running \ Priority) < NormalSlots
<1>1. ASSUME NEW c \in BOOLEAN, NEW k \in Candidate(c)
      PROVE  k \in Jobs /\ state[k] = "waiting" /\ Eligible(k) /\ (k \in Priority) = c
  <2>1. k \in ToSet(waiting[c]) /\ Eligible(k)
    BY <1>1 DEF Candidate, ToSet
  <2> QED
    BY <2>1 DEF Requests, QueuesOK, IsPriority
<1>2. CASE j \in Candidate(TRUE)
  BY <1>1, <1>2
<1>3. CASE j \notin Candidate(TRUE)
  <2>1. j \in Normal
    BY <1>3 DEF Chosen
  <2>2. j \in Candidate(FALSE) /\ Cardinality(Running \ Priority) < NormalSlots
    BY <2>1 DEF Normal
  <2> QED
    BY <1>1, <2>2
<1> QED
  BY <1>2, <1>3

\* A set below a limit stays within it when one element is added.
LEMMA AddedWithin ==
  ASSUME NEW S, IsFiniteSet(S), NEW x, x \notin S, NEW T, T = S \cup {x},
         NEW n \in Int, Cardinality(S) < n
  PROVE  Cardinality(T) <= n
<1>1. Cardinality(T) = Cardinality(S) + 1
  BY FS_AddElement
<1> QED
  BY <1>1, FS_CardinalityType

\* A chosen job may run beside those that do.
LEMMA StartKeepsLimits ==
  ASSUME Requests, NEW j \in Chosen, Cardinality(Running) < Slots,
         state' = [state EXCEPT ![j] = "running"]
  PROVE  LimitsHold'
<1>0. IsFiniteSet(Running) /\ IsFiniteSet(Running \ Priority)
      /\ IsFiniteSet(Running \cap Chunk) /\ IsFiniteSet(Running \cap Archive)
  BY QueueConstants, FS_Subset DEF Running
<1>1. /\ j \in Jobs /\ state[j] = "waiting" /\ Eligible(j)
      /\ j \notin Priority => Cardinality(Running \ Priority) < NormalSlots
  BY ChosenIsEligible
<1>2. Running' = Running \cup {j} /\ j \notin Running
  BY <1>1 DEF Running, Requests
<1>3. LimitsHold
  BY DEF Requests
<1>4. Slots \in Int /\ NormalSlots \in Int /\ ChunkSlots \in Int /\ ArchiveSlots \in Int
  BY QueueConstants
<1>5. Cardinality(Running') <= Slots
  BY <1>0, <1>2, <1>4, AddedWithin
<1>6. Cardinality(Running' \ Priority) <= NormalSlots
  <2>1. CASE j \in Priority
    <3>1. Running' \ Priority = Running \ Priority
      BY <1>2, <2>1
    <3> QED
      BY <3>1, <1>3 DEF LimitsHold
  <2>2. CASE j \notin Priority
    <3>1. Running' \ Priority = (Running \ Priority) \cup {j} /\ j \notin Running \ Priority
      BY <1>2, <2>2
    <3>2. Cardinality(Running \ Priority) < NormalSlots
      BY <1>1, <2>2
    <3> QED
      BY <1>0, <1>4, <3>1, <3>2, AddedWithin
  <2> QED
    BY <2>1, <2>2
<1>7. Cardinality(Running' \cap Chunk) <= ChunkSlots
  <2>1. CASE j \notin Chunk
    <3>1. Running' \cap Chunk = Running \cap Chunk
      BY <1>2, <2>1
    <3> QED
      BY <3>1, <1>3 DEF LimitsHold
  <2>2. CASE j \in Chunk
    <3>1. Running' \cap Chunk = (Running \cap Chunk) \cup {j} /\ j \notin Running \cap Chunk
      BY <1>2, <2>2
    <3>2. Cardinality(Running \cap Chunk) < ChunkSlots
      BY <1>1, <2>2 DEF Eligible
    <3> QED
      BY <1>0, <1>4, <3>1, <3>2, AddedWithin
  <2> QED
    BY <2>1, <2>2
<1>8. Cardinality(Running' \cap Archive) <= ArchiveSlots
  <2>1. CASE j \notin Archive
    <3>1. Running' \cap Archive = Running \cap Archive
      BY <1>2, <2>1
    <3> QED
      BY <3>1, <1>3 DEF LimitsHold
  <2>2. CASE j \in Archive
    <3>1. Running' \cap Archive = (Running \cap Archive) \cup {j} /\ j \notin Running \cap Archive
      BY <1>2, <2>2
    <3>2. Cardinality(Running \cap Archive) < ArchiveSlots
      BY <1>1, <2>2 DEF Eligible
    <3> QED
      BY <1>0, <1>4, <3>1, <3>2, AddedWithin
  <2> QED
    BY <2>1, <2>2
<1> QED
  BY <1>5, <1>6, <1>7, <1>8 DEF LimitsHold

\* Starting a chosen request while a slot is free keeps what is known of requests.
LEMMA StartKeeps ==
  ASSUME Requests, NEW j \in Chosen, Cardinality(Running) < Slots,
         state' = [state EXCEPT ![j] = "running"], waiting' = Left(j),
         result' = {}, UNCHANGED <<overdue, settled>>
  PROVE  Requests'
<1>1. j \in Jobs /\ state[j] = "waiting"
  BY ChosenIsEligible
<1>2. QueuesOK'
  BY <1>1, LeaveKeepsQueues
<1>3. LimitsHold'
  BY StartKeepsLimits
<1>4. state' \in [Jobs -> {"new", "waiting", "running", "done"}]
  BY <1>1 DEF Requests
<1>5. overdue' \subseteq {k \in Timed : state'[k] \in {"waiting", "running"}}
  BY <1>1, QueueConstants DEF Requests
<1>6. SettlesOnce'
  BY <1>1 DEF Requests, SettlesOnce
<1> QED
  BY <1>2, <1>3, <1>4, <1>5, <1>6 DEF Requests

-----------------------------------------------------------------------------
\* Every action keeps the invariant.

\* A new queue satisfies the invariant.
LEMMA InitEstablishes == Init => IInv
<1> SUFFICES ASSUME Init PROVE IInv
  OBVIOUS
<1>1. Running = {}
  BY DEF Init, Running
<1>2. LimitsHold
  BY <1>1, FS_EmptySet, QueueConstants DEF LimitsHold
<1>3. QueuesOK
  <2>1. <<>> \in Seq(Jobs) /\ ToSet(<<>>) = {} /\ IsInjective(<<>>)
    BY DEF ToSet, IsInjective
  <2> QED
    BY <2>1 DEF QueuesOK, Init
<1>4. SettlesOnce
  BY DEF Init, SettlesOnce
<1>5. SlotsAreWithTheVault
  BY <1>1 DEF SlotsAreWithTheVault
<1>6. state \in [Jobs -> {"new", "waiting", "running", "done"}] /\ settled \in [Jobs -> Nat]
  BY DEF Init
<1>7. Requests
  BY <1>2, <1>3, <1>4, <1>6 DEF Requests, Init
<1>8. sent \in [Jobs -> Ports \cup {NoPort}] /\ \A j \in Jobs : sent[j] = NoPort
  BY DEF Init
<1>9. preferred \in 0..Streak /\ port \in Ports \cup {NoPort}
  BY QueueConstants DEF Init
<1>10. closed \in BOOLEAN /\ draining \in BOOLEAN /\ ~draining
  BY DEF Init
<1>11. Connection
  BY <1>5, <1>8, <1>9, <1>10 DEF Connection
<1> QED
  BY <1>7, <1>11 DEF IInv

\* The first outcome of a request is its only one; a late one changes nothing.
LEMMA FinishKeeps ==
  ASSUME IInv, NEW j \in Jobs, NEW how, Finish(j, how), UNCHANGED <<port, closed>>
  PROVE  /\ Requests'
         /\ \A k \in Jobs : state'[k] # "done" => state'[k] = state[k]
         /\ draining' \in BOOLEAN /\ (draining' => Drains')
<1>1. CASE Finishable(j) /\ Settle(j, how) /\ draining' = Drains
  BY <1>1, SettleKeeps DEF IInv, Finishable, Drains
<1>2. CASE ~Finishable(j) /\ Nothing /\ UNCHANGED draining
  BY <1>2, NothingKeeps DEF IInv, Connection, Drains
<1> QED
  BY <1>1, <1>2 DEF Finish

\* What holds of the connection holds on while nobody new takes a slot.
LEMMA ConnectionKept ==
  ASSUME IInv, Requests', UNCHANGED port, closed' \in BOOLEAN, draining' \in BOOLEAN,
         preferred' \in 0..Streak, draining' => Drains',
         UNCHANGED sent,
         \A k \in Jobs : state'[k] # "done" => state'[k] = state[k]
  PROVE  Connection'
<1>1. SlotsAreWithTheVault'
  BY DEF IInv, Connection, SlotsAreWithTheVault, Running
<1> QED
  BY <1>1 DEF IInv, Connection

\* A new request keeps the invariant (request, enqueue).
LEMMA AskKeeps ==
  ASSUME IInv, NEW j \in Jobs, Ask(j)
  PROVE  IInv'
<1>0. Requests /\ Connection
  BY DEF IInv
<1>1. /\ state[j] \in {"new", "done"} /\ sent[j] = NoPort
      /\ state' = [state EXCEPT ![j] = "waiting"]
      /\ waiting' = [waiting EXCEPT ![(j \in Priority)] = Append(waiting[(j \in Priority)], j)]
      /\ settled' = [settled EXCEPT ![j] = 0] /\ result' = {} /\ draining' = Drains
      /\ UNCHANGED <<preferred, port, closed, overdue, sent>>
  BY DEF Ask, IsPriority
<1>2. state' \in [Jobs -> {"new", "waiting", "running", "done"}] /\ settled' \in [Jobs -> Nat]
  BY <1>0, <1>1 DEF Requests
<1>3. QueuesOK'
  <2> DEFINE p == j \in Priority
  <2>p. p \in BOOLEAN
    OBVIOUS
  <2> HIDE DEF p
  <2>0. /\ waiting[p] \in Seq(Jobs) /\ IsInjective(waiting[p])
        /\ ToSet(waiting[p]) = {k \in Jobs : state[k] = "waiting" /\ (k \in Priority) = p}
    BY <1>0, <2>p DEF Requests, QueuesOK, IsPriority
  <2>1. j \notin ToSet(waiting[p])
    BY <1>1, <2>0
  <2> DEFINE q == Append(waiting[p], j)
  <2>2. q \in Seq(Jobs) /\ IsInjective(q) /\ ToSet(q) = ToSet(waiting[p]) \cup {j}
    BY <2>0, <2>1, AppendFresh
  <2>3. waiting' = [waiting EXCEPT ![p] = q]
    BY <1>1 DEF p
  <2> HIDE DEF q
  <2>4. waiting' \in [BOOLEAN -> Seq(Jobs)]
    BY <1>0, <2>p, <2>2, <2>3 DEF Requests, QueuesOK
  <2>5. ASSUME NEW c \in BOOLEAN
        PROVE  /\ IsInjective(waiting'[c])
               /\ ToSet(waiting'[c]) = {k \in Jobs : state'[k] = "waiting" /\ (k \in Priority) = c}
    <3>1. CASE c = p
      <4>1. {k \in Jobs : state'[k] = "waiting" /\ (k \in Priority) = c}
              = {k \in Jobs : state[k] = "waiting" /\ (k \in Priority) = p} \cup {j}
        BY <1>0, <1>1, <3>1 DEF Requests, p
      <4>2. waiting'[c] = q
        BY <1>0, <2>p, <2>3, <3>1 DEF Requests, QueuesOK
      <4> QED
        BY <4>1, <4>2, <2>0, <2>2
    <3>2. CASE c # p
      <4>1. {k \in Jobs : state'[k] = "waiting" /\ (k \in Priority) = c}
              = {k \in Jobs : state[k] = "waiting" /\ (k \in Priority) = c}
        BY <1>0, <1>1, <3>2 DEF Requests, p
      <4>2. waiting'[c] = waiting[c]
        BY <1>0, <2>p, <2>3, <3>2 DEF Requests, QueuesOK
      <4> QED
        BY <1>0, <4>1, <4>2 DEF Requests, QueuesOK, IsPriority
    <3> QED
      BY <3>1, <3>2
  <2> QED
    BY <2>4, <2>5 DEF QueuesOK, IsPriority
<1>4. Running' = Running
  BY <1>0, <1>1 DEF Running, Requests
<1>5. LimitsHold'
  BY <1>0, <1>4, FewerRunning
<1>6. overdue' \subseteq {k \in Timed : state'[k] \in {"waiting", "running"}}
  BY <1>0, <1>1, QueueConstants DEF Requests
<1>7. SettlesOnce'
  BY <1>0, <1>1 DEF Requests, SettlesOnce
<1>8. Requests'
  BY <1>1, <1>2, <1>3, <1>5, <1>6, <1>7 DEF Requests
<1>9. SlotsAreWithTheVault'
  BY <1>0, <1>1, <1>4 DEF Connection, SlotsAreWithTheVault
<1>10. draining' \in BOOLEAN /\ (draining' => Drains')
  BY <1>1 DEF Drains
<1>11. \A k \in Jobs : state'[k] \in {"new", "waiting"} => sent'[k] = NoPort
  BY <1>0, <1>1 DEF Connection, Requests
<1>12. Connection'
  BY <1>0, <1>1, <1>9, <1>10, <1>11 DEF Connection
<1> QED
  BY <1>8, <1>12 DEF IInv

\* An answer of the vault keeps the invariant: it settles only a request that is with it.
LEMMA AnswerKeeps ==
  ASSUME IInv, NEW j \in Jobs, Answer(j)
  PROVE  IInv'
<1>0. Requests /\ Connection
  BY DEF IInv
<1>1. PICK how \in {"result", "failure"} : Finish(j, how)
  BY DEF Answer
<1>2. /\ sent' = [sent EXCEPT ![j] = NoPort] /\ sent[j] # NoPort
      /\ UNCHANGED <<preferred, port, closed>>
  BY DEF Answer
<1>3. /\ Requests'
      /\ \A k \in Jobs : state'[k] # "done" => state'[k] = state[k]
      /\ draining' \in BOOLEAN /\ (draining' => Drains')
  BY <1>1, <1>2, FinishKeeps
<1>4. state'[j] # "running"
  <2>1. CASE Finishable(j) /\ Settle(j, how)
    BY <1>0, <2>1 DEF Settle, Requests
  <2>2. CASE ~Finishable(j) /\ Nothing
    BY <2>2 DEF Finishable, Nothing
  <2> QED
    BY <1>1, <2>1, <2>2 DEF Finish
<1>5. SlotsAreWithTheVault'
  BY <1>0, <1>2, <1>3, <1>4 DEF Connection, SlotsAreWithTheVault, Running
<1>6. Connection'
  BY <1>0, <1>2, <1>3, <1>5 DEF Connection
<1> QED
  BY <1>3, <1>6 DEF IInv

\* A deadline that passes keeps the invariant.
LEMMA DeadlineKeeps ==
  ASSUME IInv, NEW j \in Jobs, Deadline(j)
  PROVE  IInv'
<1>0. Requests /\ Connection
  BY DEF IInv
<1>1. /\ overdue' \subseteq {k \in Timed : state'[k] \in {"waiting", "running"}}
      /\ result' = {} /\ UNCHANGED <<state, waiting, preferred, port, closed, draining, sent, settled>>
  BY <1>0 DEF Deadline, Requests
<1>2. Running' = Running
  BY <1>1 DEF Running
<1>3. LimitsHold'
  BY <1>0, <1>2, FewerRunning
<1>4. Requests'
  BY <1>0, <1>1, <1>3 DEF Requests, QueuesOK, SettlesOnce
<1>5. Connection'
  BY <1>0, <1>1, <1>2 DEF Connection, Drains, SlotsAreWithTheVault
<1> QED
  BY <1>4, <1>5 DEF IInv

\* The timer of an overdue request keeps the invariant.
LEMMA TimerKeeps ==
  ASSUME IInv, NEW j \in Jobs, Timer(j)
  PROVE  IInv'
<1>1. Finish(j, "failure") /\ UNCHANGED <<preferred, port, closed, sent>>
  BY DEF Timer
<1>2. /\ Requests'
      /\ \A k \in Jobs : state'[k] # "done" => state'[k] = state[k]
      /\ draining' \in BOOLEAN /\ (draining' => Drains')
  BY <1>1, FinishKeeps
<1>3. preferred' \in 0..Streak /\ closed' \in BOOLEAN
  BY <1>1 DEF IInv, Connection
<1>4. Connection'
  BY <1>1, <1>2, <1>3, ConnectionKept
<1> QED
  BY <1>2, <1>4 DEF IInv

\* Cancelling leaves no slot that a connection must answer for.
LEMMA CancelledConnection ==
  ASSUME IInv, Requests', \A k \in Jobs : state'[k] = "done" \/ (state'[k] = "new" /\ state[k] = "new"),
         port' \in Ports \cup {NoPort}, closed' \in BOOLEAN, draining' \in BOOLEAN,
         draining' => Drains', UNCHANGED <<preferred, sent>>
  PROVE  Connection'
<1>1. Running' = {}
  BY DEF Running
<1> QED
  BY <1>1 DEF IInv, Connection, SlotsAreWithTheVault

\* Cancelling the requests of the former connection keeps the invariant.
LEMMA CancelPreviousKeeps ==
  ASSUME IInv, CancelPrevious
  PROVE  IInv'
<1>1. Requests' /\ \A k \in Jobs : state'[k] = "done" \/ (state'[k] = "new" /\ state[k] = "new")
  BY CancelKeeps DEF CancelPrevious, IInv
<1>2. Connection'
  BY <1>1, CancelledConnection DEF CancelPrevious, IInv, Connection, Drains
<1> QED
  BY <1>1, <1>2 DEF IInv

\* Closing the queue keeps the invariant.
LEMMA CloseKeeps ==
  ASSUME IInv, Close
  PROVE  IInv'
<1>1. Requests' /\ \A k \in Jobs : state'[k] = "done" \/ (state'[k] = "new" /\ state[k] = "new")
  BY CancelKeeps DEF Close, IInv
<1>2. Connection'
  BY <1>1, CancelledConnection DEF Close, IInv, Connection
<1> QED
  BY <1>1, <1>2 DEF IInv

\* A new port, or none, keeps the invariant: the slots of the old one are given up first.
LEMMA SetPortKeeps ==
  ASSUME IInv, NEW p \in Ports \cup {NoPort}, SetPort(p)
  PROVE  IInv'
<1>0. Requests /\ Connection
  BY DEF IInv
<1>1. /\ ~closed /\ port' = p /\ draining' = (p # NoPort) /\ UNCHANGED <<preferred, closed, sent>>
      /\ IF port # NoPort THEN Cancel ELSE Nothing
  BY DEF SetPort
<1>2. draining' \in BOOLEAN /\ (draining' => Drains') /\ closed' \in BOOLEAN
  BY <1>0, <1>1 DEF Drains, Connection
<1>3. CASE port # NoPort
  <2>1. Requests' /\ \A k \in Jobs : state'[k] = "done" \/ (state'[k] = "new" /\ state[k] = "new")
    BY <1>0, <1>1, <1>3, CancelKeeps
  <2>2. Connection'
    BY <1>1, <1>2, <2>1, CancelledConnection
  <2> QED
    BY <2>1, <2>2 DEF IInv
<1>4. CASE port = NoPort
  <2>1. Requests' /\ state' = state
    BY <1>0, <1>1, <1>4, NothingKeeps
  <2>2. Running = {}
    BY <1>0, <1>4 DEF Connection, SlotsAreWithTheVault
  <2>3. SlotsAreWithTheVault'
    BY <2>1, <2>2 DEF SlotsAreWithTheVault, Running
  <2>4. Connection'
    BY <1>0, <1>1, <1>2, <2>1, <2>3 DEF Connection
  <2> QED
    BY <2>1, <2>4 DEF IInv
<1> QED
  BY <1>3, <1>4

\* One round of the loop keeps the invariant.
LEMMA DrainKeeps ==
  ASSUME IInv, Drain
  PROVE  IInv'
<1>0. Requests /\ Connection
  BY DEF IInv
<1>1. /\ draining /\ Cardinality(Running) < Slots /\ UNCHANGED <<port, closed, draining>>
      /\ port # NoPort
  BY <1>0 DEF Drain, Connection, Drains
<1>2. PICK j \in Chosen : DrainOverdue(j) \/ DrainStart(j)
  BY DEF Drain
<1>3. j \in Jobs /\ state[j] = "waiting"
  BY <1>0, ChosenIsEligible
<1>4. draining' \in BOOLEAN /\ closed' \in BOOLEAN /\ (draining' => Drains')
  BY <1>0, <1>1 DEF Connection, Drains
<1>5. preferred' \in 0..Streak
  <2>1. CASE DrainOverdue(j)
    BY <1>0, <2>1 DEF DrainOverdue, Connection
  <2>2. CASE DrainStart(j)
    <3>1. preferred' = IF IsPriority(j) THEN Capped(preferred) ELSE 0
      BY <2>2 DEF DrainStart
    <3>2. preferred \in 0..Streak /\ Streak \in Nat
      BY <1>0, QueueConstants DEF Connection
    <3>3. Capped(preferred) \in 0..Streak /\ 0 \in 0..Streak
      BY <3>2 DEF Capped
    <3> QED
      BY <3>1, <3>3
  <2> QED
    BY <1>2, <2>1, <2>2
<1>6. ASSUME Settle(j, "failure"), UNCHANGED sent
      PROVE  IInv'
  <2>1. /\ Requests'
        /\ \A k \in Jobs : state'[k] # "done" => state'[k] = state[k]
    BY <1>0, <1>3, <1>6, SettleKeeps
  <2>2. Connection'
    BY <1>1, <1>4, <1>5, <1>6, <2>1, ConnectionKept
  <2> QED
    BY <2>1, <2>2 DEF IInv
<1>7. ASSUME state' = [state EXCEPT ![j] = "running"], waiting' = Left(j),
             sent' = [sent EXCEPT ![j] = port], result' = {}, UNCHANGED <<overdue, settled>>
      PROVE  IInv'
  <2>1. Requests'
    BY <1>0, <1>1, <1>7, StartKeeps
  <2>2. SlotsAreWithTheVault'
    BY <1>0, <1>1, <1>3, <1>7 DEF Requests, Connection, SlotsAreWithTheVault, Running
  <2>3. /\ sent' \in [Jobs -> Ports \cup {NoPort}]
        /\ \A k \in Jobs : state'[k] \in {"new", "waiting"} => sent'[k] = NoPort
    BY <1>0, <1>3, <1>7 DEF Requests, Connection
  <2>4. Connection'
    BY <1>0, <1>1, <1>4, <1>5, <2>2, <2>3 DEF Connection
  <2> QED
    BY <2>1, <2>4 DEF IInv
<1> QED
  BY <1>2, <1>6, <1>7 DEF DrainOverdue, DrainStart

\* A step that leaves requests, port and queues alone keeps the invariant.
LEMMA UnchangedKeeps ==
  ASSUME IInv, UNCHANGED <<state, waiting, preferred, port, closed, overdue, sent, settled>>,
         draining' \in BOOLEAN, draining' => Drains', result' \subseteq Jobs
  PROVE  IInv'
<1>1. Running' = Running
  BY DEF Running
<1>2. LimitsHold'
  BY <1>1, FewerRunning DEF IInv
<1> QED
  BY <1>1, <1>2 DEF IInv, Requests, Connection, QueuesOK, SettlesOnce, SlotsAreWithTheVault

\* Every step keeps the invariant.
LEMMA StepPreserves == IInv /\ [Next]_vars => IInv'
<1> SUFFICES ASSUME IInv, [Next]_vars PROVE IInv'
  OBVIOUS
<1>1. CASE Drain
  BY <1>1, DrainKeeps
<1>2. CASE DrainEnd
  <2>1. draining' \in BOOLEAN /\ ~draining' /\ result' \subseteq Jobs
        /\ UNCHANGED <<state, waiting, preferred, port, closed, overdue, sent, settled>>
    BY <1>2 DEF DrainEnd
  <2> QED
    BY <2>1, UnchangedKeeps
<1>3. CASE \E j \in Jobs : Ask(j) \/ Answer(j) \/ Deadline(j) \/ Timer(j)
  BY <1>3, AskKeeps, AnswerKeeps, DeadlineKeeps, TimerKeeps
<1>4. CASE \E p \in Ports \cup {NoPort} : SetPort(p)
  BY <1>4, SetPortKeeps
<1>5. CASE CancelPrevious
  BY <1>5, CancelPreviousKeeps
<1>6. CASE Close
  BY <1>6, CloseKeeps
<1>7. CASE UNCHANGED vars
  <2>1. draining' \in BOOLEAN /\ (draining' => Drains') /\ result' \subseteq Jobs
        /\ UNCHANGED <<state, waiting, preferred, port, closed, overdue, sent, settled>>
    BY <1>7 DEF vars, IInv, Requests, Connection, Drains
  <2> QED
    BY <2>1, UnchangedKeeps
<1> QED
  BY <1>1, <1>2, <1>3, <1>4, <1>5, <1>6, <1>7 DEF Next

-----------------------------------------------------------------------------
\* No idle slot: drain ends only when no class has an eligible request.

\* If a waiting request is eligible, its queue has a candidate: the first one.
LEMMA EligibleHasCandidate ==
  ASSUME Requests, NEW j \in Jobs, state[j] = "waiting", Eligible(j),
         NEW c \in BOOLEAN, (j \in Priority) = c
  PROVE  Candidate(c) # {}
<1>1. waiting[c] \in Seq(Jobs) /\ j \in ToSet(waiting[c])
  BY DEF Requests, QueuesOK, IsPriority
<1>2. DOMAIN waiting[c] = 1..Len(waiting[c]) /\ Len(waiting[c]) \in Nat
  BY <1>1, LenProperties
<1> DEFINE I == {i \in DOMAIN waiting[c] : Eligible(waiting[c][i])}
<1>3. I \subseteq Nat /\ I # {}
  BY <1>1, <1>2 DEF ToSet
<1>4. PICK k \in I : \A n \in I : ~(<<n, k>> \in OpToRel(<, Nat))
  <2> HIDE DEF I
  <2> QED
    BY <1>3, NatLessThanWellFounded, WFMin
<1>5. \A n \in I : ~(n < k)
  BY <1>3, <1>4 DEF OpToRel
<1>6. \A n \in 1..(k - 1) : ~Eligible(waiting[c][n])
  BY <1>2, <1>5
<1>7. waiting[c][k] \in Candidate(c)
  BY <1>6 DEF Candidate
<1> QED
  BY <1>7

\* Every step leaves no slot idle that an eligible request could have.
LEMMA StepKeepsBusy == IInv /\ NoIdleSlot /\ [Next]_vars => NoIdleSlot'
<1> SUFFICES ASSUME IInv, NoIdleSlot, [Next]_vars PROVE NoIdleSlot'
  OBVIOUS
<1>0. Requests /\ Connection
  BY DEF IInv
<1>1. ASSUME draining' \/ ~Drains' PROVE NoIdleSlot'
  BY <1>1 DEF NoIdleSlot
<1>2. ASSUME \A k \in Jobs : state'[k] = "done" \/ (state'[k] = "new" /\ state[k] = "new") PROVE NoIdleSlot'
  BY <1>2 DEF NoIdleSlot
<1>3. ASSUME UNCHANGED <<state, port, closed, draining>> PROVE NoIdleSlot'
  <2>1. Running' = Running /\ Drains' = Drains
    BY <1>3 DEF Running, Drains
  <2>2. \A j \in Jobs : Eligible(j)' = Eligible(j)
    BY <2>1 DEF Eligible
  <2> QED
    BY <1>3, <2>1, <2>2 DEF NoIdleSlot
<1>4. ASSUME NEW j \in Jobs, NEW how, Finish(j, how), UNCHANGED <<port, closed>>
      PROVE  NoIdleSlot'
  BY <1>1, <1>3, <1>4 DEF Finish, Drains, Nothing
<1>5. CASE Drain
  <2>1. draining'
    BY <1>5 DEF Drain
  <2> QED
    BY <1>1, <2>1
<1>6. CASE DrainEnd
  <2>1. Running' = Running /\ state' = state
    BY <1>6 DEF DrainEnd, Running
  <2>2. ASSUME Cardinality(Running) < Slots, NEW j \in Jobs, state[j] = "waiting", Eligible(j)
        PROVE  ~IsPriority(j) /\ Cardinality(Running \ Priority) >= NormalSlots
    <3>1. Chosen = {}
      <4>1. Cardinality(Running) \in Nat /\ Slots \in Nat
        BY QueueConstants, FS_Subset, FS_CardinalityType DEF Running
      <4> QED
        BY <1>6, <2>2, <4>1 DEF DrainEnd
    <3>2. Candidate(TRUE) = {} /\ Normal = {}
      BY <3>1 DEF Chosen
    <3>3. j \notin Priority
      <4>1. ASSUME j \in Priority PROVE Candidate(TRUE) # {}
        <5>1. (j \in Priority) = TRUE
          BY <4>1
        <5> QED
          BY <1>0, <2>2, <5>1, EligibleHasCandidate
      <4> QED
        BY <3>2, <4>1
    <3>4. Candidate(FALSE) # {}
      <4>1. (j \in Priority) = FALSE
        BY <3>3
      <4> QED
        BY <1>0, <2>2, <4>1, EligibleHasCandidate
    <3>5. ~(Cardinality(Running \ Priority) < NormalSlots)
      BY <3>2, <3>4 DEF Normal
    <3>6. Cardinality(Running \ Priority) \in Nat /\ NormalSlots \in Nat
      <4>1. IsFiniteSet(Running \ Priority)
        BY QueueConstants, FS_Subset DEF Running
      <4> QED
        BY <4>1, QueueConstants, FS_CardinalityType
    <3> QED
      BY <3>3, <3>5, <3>6 DEF IsPriority
  <2>3. \A j \in Jobs : Eligible(j)' = Eligible(j)
    BY <2>1 DEF Eligible
  <2> QED
    BY <2>1, <2>2, <2>3 DEF NoIdleSlot
<1>7. CASE \E j \in Jobs : Ask(j) \/ Answer(j) \/ Deadline(j) \/ Timer(j)
  <2>1. PICK j \in Jobs : Ask(j) \/ Answer(j) \/ Deadline(j) \/ Timer(j)
    BY <1>7
  <2>2. CASE Ask(j)
    BY <1>1, <2>2 DEF Ask, Drains
  <2>3. CASE Answer(j)
    BY <1>4, <2>3 DEF Answer
  <2>4. CASE Deadline(j)
    BY <1>3, <2>4 DEF Deadline
  <2>5. CASE Timer(j)
    BY <1>4, <2>5 DEF Timer
  <2> QED
    BY <2>1, <2>2, <2>3, <2>4, <2>5
<1>8. CASE \E p \in Ports \cup {NoPort} : SetPort(p)
  BY <1>1, <1>8 DEF SetPort, Drains
<1>9. CASE CancelPrevious
  BY <1>0, <1>2, <1>9, CancelKeeps DEF CancelPrevious
<1>10. CASE Close
  BY <1>1, <1>10 DEF Close, Drains
<1>11. CASE UNCHANGED vars
  BY <1>3, <1>11 DEF vars
<1> QED
  BY <1>5, <1>6, <1>7, <1>8, <1>9, <1>10, <1>11 DEF Next

-----------------------------------------------------------------------------
\* The invariant holds in every reachable state.
THEOREM Invariant == Spec => []IInv
<1> QED
  BY InitEstablishes, StepPreserves, PTL DEF Spec

\* Queues list the waiting requests of their class, each once, and no deadline
\* or connection is left behind by a request that was settled.
THEOREM TypeCorrect == Spec => []TypeOK
<1>1. IInv => TypeOK
  BY DEF IInv, Requests, Connection, QueuesOK, TypeOK
<1> QED
  BY <1>1, Invariant, PTL

\* drain never passes its limits, whatever the order of arrivals and answers.
THEOREM Limits == Spec => []LimitsHold
<1>1. IInv => LimitsHold
  BY DEF IInv, Requests
<1> QED
  BY <1>1, Invariant, PTL

\* A request is settled exactly once.
THEOREM SettledOnce == Spec => []SettlesOnce
<1>1. IInv => SettlesOnce
  BY DEF IInv, Requests
<1> QED
  BY <1>1, Invariant, PTL

\* No slot is held for a connection that is gone.
THEOREM SlotsLive == Spec => []SlotsAreWithTheVault
<1>1. IInv => SlotsAreWithTheVault
  BY DEF IInv, Connection
<1> QED
  BY <1>1, Invariant, PTL

\* A connected queue at rest has let go all that its limits allow.
THEOREM Busy == Spec => []NoIdleSlot
<1>1. Init => NoIdleSlot
  BY DEF Init, NoIdleSlot
<1> QED
  BY <1>1, Invariant, StepKeepsBusy, PTL DEF Spec

\* The slots are used well: never too many, none idle, none wasted.
THEOREM SlotsUsedWell == Spec => []SlotsHold
<1>1. LimitsHold /\ NoIdleSlot /\ SlotsAreWithTheVault => SlotsHold
  BY DEF SlotsHold
<1> QED
  BY <1>1, Limits, Busy, SlotsLive, PTL

\* A result settles a request only on the connection it was sent on.
THEOREM ResultsOfThisConnection == Spec => ResultOfThisConnection
<1>1. IInv /\ [Next]_vars => [\A j \in result' : sent[j] = port]_vars
  <2> SUFFICES ASSUME IInv, Next PROVE \A j \in result' : sent[j] = port
    BY DEF vars
  <2>0. Requests /\ Connection
    BY DEF IInv
  <2>1. ASSUME result' = {} PROVE \A j \in result' : sent[j] = port
    BY <2>1
  <2>2. ASSUME NEW j, Settle(j, "failure") PROVE result' = {}
    BY <2>2 DEF Settle
  <2>3. CASE Drain
    BY <2>1, <2>2, <2>3 DEF Drain, DrainOverdue, DrainStart
  <2>4. CASE \E j \in Jobs : Answer(j)
    <3>1. PICK j \in Jobs : Answer(j)
      BY <2>4
    <3>2. CASE Finishable(j) /\ result' \in {{j}, {}}
      <4>1. state[j] = "running" /\ sent[j] = port
        BY <2>0, <3>1, <3>2 DEF Requests, Connection, SlotsAreWithTheVault, Running, Finishable,
                                Answer, SettlesOnce
      <4> QED
        BY <3>2, <4>1
    <3>3. CASE result' = {}
      BY <3>3
    <3>4. result' = {} \/ (Finishable(j) /\ result' \in {{j}, {}})
      BY <3>1 DEF Answer, Finish, Settle, Nothing
    <3> QED
      BY <3>2, <3>3, <3>4
  <2>5. CASE DrainEnd \/ CancelPrevious \/ Close
    BY <2>1, <2>5 DEF DrainEnd, CancelPrevious, Close, Cancel
  <2>6. CASE \E j \in Jobs : Ask(j) \/ Deadline(j) \/ Timer(j)
    BY <2>1, <2>6 DEF Ask, Deadline, Timer, Finish, Settle, Nothing
  <2>7. CASE \E p \in Ports \cup {NoPort} : SetPort(p)
    BY <2>1, <2>7 DEF SetPort, Cancel, Nothing
  <2> QED
    BY <2>3, <2>4, <2>5, <2>6, <2>7 DEF Next
<1> QED
  BY <1>1, Invariant, PTL DEF Spec, ResultOfThisConnection

-----------------------------------------------------------------------------
\* The accepted messages. Positions in a queue.

\* The number of positions up to one of them, and the position of a number.
UpToPosition(P, i) == {j \in P : j <= i}
Nth(P, n) == CHOOSE i \in P : Cardinality(UpToPosition(P, i)) = n

\* Positions are numbered in their order.
LEMMA PositionsNumbered ==
  ASSUME NEW N \in Nat, NEW P \in SUBSET (1..N)
  PROVE  /\ IsFiniteSet(P) /\ Cardinality(P) \in Nat /\ Cardinality(P) <= N
         /\ \A n \in 1..Cardinality(P) : Nth(P, n) \in P /\ Cardinality(UpToPosition(P, Nth(P, n))) = n
         /\ \A i \in P : Cardinality(UpToPosition(P, i)) \in 1..Cardinality(P)
                         /\ Nth(P, Cardinality(UpToPosition(P, i))) = i
<1>1. IsFiniteSet(1..N) /\ Cardinality(1..N) = N BY FS_Interval
<1>2. IsFiniteSet(P) /\ Cardinality(P) \in Nat /\ Cardinality(P) <= N
  BY <1>1, FS_Subset, FS_CardinalityType
<1>3. ASSUME NEW i \in P
      PROVE  /\ i \in UpToPosition(P, i) /\ IsFiniteSet(UpToPosition(P, i))
             /\ Cardinality(UpToPosition(P, i)) \in 1..Cardinality(P)
  <2>1. UpToPosition(P, i) \in SUBSET P /\ i \in UpToPosition(P, i) BY DEF UpToPosition
  <2>2. IsFiniteSet(UpToPosition(P, i)) /\ Cardinality(UpToPosition(P, i)) <= Cardinality(P)
    BY <1>2, <2>1, FS_Subset
  <2>3. Cardinality(UpToPosition(P, i)) \in Nat /\ Cardinality(UpToPosition(P, i)) # 0
    BY <2>1, <2>2, FS_CardinalityType, FS_EmptySet
  <2> QED BY <1>2, <2>1, <2>2, <2>3
<1>4. ASSUME NEW i \in P, NEW k \in P, i < k
      PROVE  Cardinality(UpToPosition(P, i)) # Cardinality(UpToPosition(P, k))
  <2>1. UpToPosition(P, i) \in SUBSET UpToPosition(P, k)
    <3>1. \A j \in P : j \in Int /\ (j <= i => j <= k) BY <1>4
    <3> QED BY <3>1 DEF UpToPosition
  <2>2. k \in UpToPosition(P, k) /\ k \notin UpToPosition(P, i) BY <1>4 DEF UpToPosition
  <2> QED BY <1>3, <2>1, <2>2, FS_Subset
<1> DEFINE rank == [i \in P |-> Cardinality(UpToPosition(P, i))]
<1>5. rank \in Injection(P, 1..Cardinality(P))
  <2>1. rank \in [P -> 1..Cardinality(P)] BY <1>3
  <2>2. \A i, k \in P : rank[i] = rank[k] => i = k BY <1>4
  <2> QED BY <2>1, <2>2 DEF Injection, IsInjective
<1>6. IsFiniteSet(1..Cardinality(P)) /\ Cardinality(1..Cardinality(P)) = Cardinality(P)
  BY <1>2, FS_Interval
<1>7. rank \in Surjection(P, 1..Cardinality(P)) BY <1>5, <1>6, FS_Injection
<1>8. \A n \in 1..Cardinality(P) : \E i \in P : Cardinality(UpToPosition(P, i)) = n
  BY <1>7 DEF Surjection
<1>9. \A n \in 1..Cardinality(P) : Nth(P, n) \in P /\ Cardinality(UpToPosition(P, Nth(P, n))) = n
  BY <1>8 DEF Nth
<1>10. \A i, k \in P : Cardinality(UpToPosition(P, i)) = Cardinality(UpToPosition(P, k)) => i = k
  BY <1>4
<1> QED BY <1>2, <1>3, <1>9, <1>10

\* Requests in the store, and that each is listed once.
Items == [key : Keys, age : Nat, rest : 0..Throttle]
Distinct(items) == \A i, j \in DOMAIN items : items[i].key = items[j].key => i = j

\* The items at some positions: these and no others, each key once if the
\* positions have different keys.
LEMMA ItemsAtPositions ==
  ASSUME NEW items \in Seq(Items), NEW P \in SUBSET DOMAIN items,
         \A i, j \in P : items[i].key = items[j].key => i = j
  PROVE  /\ ItemsAt(items, P) \in Seq(Items) /\ Len(ItemsAt(items, P)) = Cardinality(P)
         /\ \A n \in DOMAIN ItemsAt(items, P) : \E i \in P : ItemsAt(items, P)[n] = items[i]
         /\ \A i \in P : \E n \in DOMAIN ItemsAt(items, P) : ItemsAt(items, P)[n] = items[i]
         /\ Distinct(ItemsAt(items, P))
<1>1. /\ DOMAIN items = 1..Len(items) /\ Len(items) \in Nat
      /\ \A i \in DOMAIN items : items[i] \in Items
  BY LenProperties, ElementOfSeq
<1>2. /\ IsFiniteSet(P) /\ Cardinality(P) \in Nat
      /\ \A n \in 1..Cardinality(P) : Nth(P, n) \in P /\ Cardinality(UpToPosition(P, Nth(P, n))) = n
      /\ \A i \in P : Cardinality(UpToPosition(P, i)) \in 1..Cardinality(P)
                      /\ Nth(P, Cardinality(UpToPosition(P, i))) = i
  BY <1>1, PositionsNumbered
<1>3. ItemsAt(items, P) = [n \in 1..Cardinality(P) |-> items[Nth(P, n)]]
  BY DEF ItemsAt, Nth, UpToPosition
<1> HIDE DEF Nth
<1>4. \A n \in 1..Cardinality(P) : ItemsAt(items, P)[n] = items[Nth(P, n)] /\ items[Nth(P, n)] \in Items
  BY <1>1, <1>2, <1>3
<1>5. /\ ItemsAt(items, P) \in Seq(Items) /\ Len(ItemsAt(items, P)) = Cardinality(P)
      /\ DOMAIN ItemsAt(items, P) = 1..Cardinality(P)
  BY <1>1, <1>2, <1>3, <1>4, IsASeq, LenProperties
<1>6. Distinct(ItemsAt(items, P))
  <2> SUFFICES ASSUME NEW m \in 1..Cardinality(P), NEW n \in 1..Cardinality(P),
                      items[Nth(P, m)].key = items[Nth(P, n)].key
               PROVE  m = n
    BY <1>4, <1>5 DEF Distinct
  <2>1. Nth(P, m) \in P /\ Nth(P, n) \in P BY <1>2
  <2>2. Nth(P, m) = Nth(P, n) BY <2>1
  <2> QED BY <1>2, <2>2
<1> QED BY <1>2, <1>4, <1>5, <1>6

\* All positions: nothing changes.
LEMMA ItemsAtAll ==
  ASSUME NEW items \in Seq(Items)
  PROVE  ItemsAt(items, DOMAIN items) = items
<1> DEFINE P == DOMAIN items
<1>1. P = 1..Len(items) /\ Len(items) \in Nat BY LenProperties
<1>2. /\ Cardinality(P) = Len(items)
      /\ \A n \in P : Cardinality(UpToPosition(P, n)) = n
  <2>1. Cardinality(P) = Len(items) BY <1>1, FS_Interval
  <2>2. ASSUME NEW n \in P PROVE Cardinality(UpToPosition(P, n)) = n
    <3>1. UpToPosition(P, n) = 1..n /\ n \in Nat \ {0} BY <1>1 DEF UpToPosition
    <3> QED BY <3>1, FS_Interval
  <2> QED BY <2>1, <2>2
<1>3. \A n \in P : Nth(P, n) = n
  <2>1. \A i \in P : Nth(P, Cardinality(UpToPosition(P, i))) = i BY <1>1, PositionsNumbered
  <2> QED BY <1>2, <2>1
<1>4. ItemsAt(items, P) = [n \in 1..Cardinality(P) |-> items[Nth(P, n)]]
  BY DEF ItemsAt, Nth, UpToPosition
<1>5. ItemsAt(items, P) = [n \in P |-> items[n]] BY <1>1, <1>2, <1>3, <1>4
<1> QED BY <1>1, <1>5

\* The positions that pruning keeps.
Spared(items) == {i \in Deduped(items) : Cardinality({j \in Deduped(items) : j > i}) < MaxItems}

\* What pruning keeps: one item per key, not too old, at most MaxItems, and
\* all such items of a short queue, or the newest of a long one.
LEMMA Pruned ==
  ASSUME AcceptedConstants, NEW items \in Seq(Items)
  PROVE  /\ Prune(items) \in Seq(Items) /\ Len(Prune(items)) <= MaxItems /\ Distinct(Prune(items))
         /\ \A n \in DOMAIN Prune(items) : \E i \in DOMAIN items : Prune(items)[n] = items[i] /\ Live(items[i])
         /\ Len(Prune(items)) = Cardinality(Spared(items)) /\ Spared(items) \in SUBSET DOMAIN items
         /\ \A i \in Spared(items) : \E n \in DOMAIN Prune(items) : Prune(items)[n] = items[i]
         /\ Distinct(items) => \A i \in DOMAIN items :
              Live(items[i]) /\ Len(items) - i < MaxItems => i \in Spared(items)
<1> DEFINE D == Deduped(items)
           P == Spared(items)
<1>1. /\ DOMAIN items = 1..Len(items) /\ Len(items) \in Nat
      /\ \A i \in DOMAIN items : items[i] \in Items
  BY LenProperties, ElementOfSeq
<1>2. D \in SUBSET DOMAIN items /\ P \in SUBSET D /\ P \in SUBSET (1..Len(items)) BY <1>1 DEF Deduped, Spared
<1>3. MaxItems \in Nat \ {0} BY DEF AcceptedConstants
<1>4. Prune(items) = ItemsAt(items, P) BY DEF Prune, Spared
<1>5. \A i, j \in P : items[i].key = items[j].key => i = j
  <2>1. ASSUME NEW i \in P, NEW j \in P, items[i].key = items[j].key, i < j PROVE FALSE
    <3>1. i \in 1..(j - 1) /\ Live(items[i]) BY <1>1, <1>2, <2>1 DEF Deduped
    <3>2. \A m \in 1..(j - 1) : items[m].key = items[j].key => ~Live(items[m]) BY <1>2 DEF Deduped
    <3> QED BY <2>1, <3>1, <3>2
  <2> QED BY <1>2, <2>1
<1>6. /\ ItemsAt(items, P) \in Seq(Items) /\ Len(ItemsAt(items, P)) = Cardinality(P)
      /\ \A n \in DOMAIN ItemsAt(items, P) : \E i \in P : ItemsAt(items, P)[n] = items[i]
      /\ \A i \in P : \E n \in DOMAIN ItemsAt(items, P) : ItemsAt(items, P)[n] = items[i]
      /\ Distinct(ItemsAt(items, P))
  <2>1. P \in SUBSET DOMAIN items BY <1>2
  <2> HIDE DEF P
  <2> QED BY <1>5, <2>1, ItemsAtPositions
<1>7. IsFiniteSet(D) /\ IsFiniteSet(P) /\ Cardinality(P) \in Nat
  <2>1. IsFiniteSet(1..Len(items)) BY <1>1, FS_Interval
  <2> QED BY <1>1, <1>2, <2>1, FS_Subset, FS_CardinalityType
<1>8. Cardinality(P) <= MaxItems
  <2>1. CASE P = {} BY <1>3, <2>1, FS_EmptySet
  <2>2. CASE P # {}
    <3>1. PICK i \in P : \A j \in P : i <= j
      <4>1. P \subseteq Nat BY <1>2
      <4> HIDE DEF P
      <4> QED BY <1>7, <2>2, <4>1, MinOf
    <3> DEFINE later == {j \in D : j > i}
    <3>2. IsFiniteSet(later) /\ Cardinality(later) < MaxItems /\ Cardinality(later) \in Nat
      BY <1>7, FS_Subset, FS_CardinalityType DEF Spared
    <3>3. P \ {i} \in SUBSET later BY <1>2, <3>1
    <3>4. Cardinality(P \ {i}) <= Cardinality(later) /\ Cardinality(P \ {i}) = Cardinality(P) - 1
      <4> HIDE DEF P, later
      <4> QED BY <1>7, <3>2, <3>3, FS_Subset, FS_RemoveElement
    <3> HIDE DEF P, later
    <3> QED BY <1>3, <1>7, <3>2, <3>4
  <2> QED BY <2>1, <2>2
<1>9. ASSUME Distinct(items), NEW i \in DOMAIN items, Live(items[i]), Len(items) - i < MaxItems
      PROVE  i \in P
  <2>1. i \in D
    <3>1. \A j \in 1..(i - 1) : j \in DOMAIN items /\ j # i BY <1>1
    <3> QED BY <1>9, <3>1 DEF Deduped, Distinct
  <2> DEFINE later == {j \in D : j > i}
  <2>2. later \in SUBSET ((i + 1)..Len(items)) BY <1>1, <1>2
  <2>3. /\ IsFiniteSet((i + 1)..Len(items))
        /\ Cardinality((i + 1)..Len(items)) = Len(items) - i
    <3>1. i + 1 \in Int /\ Len(items) \in Int /\ i <= Len(items) BY <1>1
    <3>2. Cardinality((i + 1)..Len(items)) = IF i + 1 > Len(items) THEN 0 ELSE Len(items) - (i + 1) + 1
      BY <3>1, FS_Interval
    <3>3. IsFiniteSet((i + 1)..Len(items)) BY <3>1, FS_Interval
    <3>4. Cardinality((i + 1)..Len(items)) = Len(items) - i BY <3>1, <3>2
    <3> QED BY <3>3, <3>4
  <2>4. Cardinality(later) <= Len(items) - i /\ Cardinality(later) \in Nat
    <3> HIDE DEF later
    <3> QED BY <2>2, <2>3, FS_Subset, FS_CardinalityType
  <2>5. Cardinality(later) < MaxItems
    <3> HIDE DEF later
    <3> QED BY <1>1, <1>3, <1>9, <2>4
  <2> QED BY <2>1, <2>5 DEF Spared
<1>10. \A i \in P : i \in DOMAIN items /\ Live(items[i]) BY <1>2 DEF Deduped, Spared
<1> HIDE DEF P, D
<1>11. P \in SUBSET DOMAIN items BY <1>10
<1>12. P = Spared(items) BY DEF P
<1>13. Distinct(items) => \A i \in DOMAIN items :
          Live(items[i]) /\ Len(items) - i < MaxItems => i \in P
  BY <1>9
<1> QED BY <1>4, <1>6, <1>8, <1>10, <1>11, <1>12, <1>13

\* In a full queue an item is pushed out only when one more came, and it is
\* the oldest.
LEMMA PushedOut ==
  ASSUME AcceptedConstants, NEW items \in Seq(Items), Distinct(items), Len(items) <= MaxItems + 1,
         NEW i \in DOMAIN items, Live(items[i]), items[i].key \notin Queued(Prune(items))
  PROVE  i = 1 /\ Len(items) = MaxItems + 1 /\ Len(Prune(items)) = MaxItems
<1> DEFINE D == Deduped(items)
           P == Spared(items)
           later == {j \in D : j > i}
<1>1. DOMAIN items = 1..Len(items) /\ Len(items) \in Nat BY LenProperties
<1>2. MaxItems \in Nat \ {0} BY DEF AcceptedConstants
<1>3. /\ \A j \in P : \E n \in DOMAIN Prune(items) : Prune(items)[n] = items[j]
      /\ \A j \in DOMAIN items : Live(items[j]) /\ Len(items) - j < MaxItems => j \in P
      /\ Len(Prune(items)) = Cardinality(P) /\ P \in SUBSET DOMAIN items
  <2> HIDE DEF P
  <2>1. P = Spared(items) BY DEF P
  <2> QED BY <2>1, Pruned
<1>4. i \notin P BY <1>3 DEF Queued
<1>5. i = 1 /\ Len(items) = MaxItems + 1
  <2>1. ~(Len(items) - i < MaxItems)
    <3> HIDE DEF P
    <3> QED BY <1>3, <1>4
  <2>2. Len(items) \in Nat /\ i \in Nat /\ i >= 1 /\ Len(items) <= MaxItems + 1 BY <1>1
  <2> QED BY <1>2, <2>1, <2>2
<1>6. i \in D
  <2>1. \A j \in 1..(i - 1) : j \in DOMAIN items /\ j # i BY <1>1
  <2> QED BY <2>1 DEF Deduped, Distinct
<1>7. later \in SUBSET (2..Len(items)) /\ \A j \in later : Live(items[j])
  <2>1. \A j \in D : j \in 1..Len(items) /\ Live(items[j]) BY <1>1 DEF Deduped
  <2> QED BY <1>5, <2>1
<1>8. ~(Cardinality(later) < MaxItems) BY <1>4, <1>6 DEF Spared
<1>9. IsFiniteSet(2..Len(items)) /\ Cardinality(2..Len(items)) = MaxItems
  <2>1. 2 \in Int /\ Len(items) \in Int BY <1>1
  <2>2. Cardinality(2..Len(items)) = IF 2 > Len(items) THEN 0 ELSE Len(items) - 2 + 1 BY <2>1, FS_Interval
  <2>3. IsFiniteSet(2..Len(items)) BY <2>1, FS_Interval
  <2>4. Cardinality(2..Len(items)) = MaxItems BY <1>2, <1>5, <2>2
  <2> QED BY <2>3, <2>4
<1>10. later = 2..Len(items)
  <2> HIDE DEF later
  <2>1. /\ IsFiniteSet(later) /\ Cardinality(later) <= Cardinality(2..Len(items))
        /\ Cardinality(2..Len(items)) = Cardinality(later) => 2..Len(items) = later
    BY <1>7, <1>9, FS_Subset
  <2>2. Cardinality(later) \in Nat BY <2>1, FS_CardinalityType
  <2> QED BY <1>2, <1>8, <1>9, <2>1, <2>2
<1>11. P = 2..Len(items)
  <2> HIDE DEF P
  <2>1. \A j \in 2..Len(items) : j \in P
    <3>1. \A j \in 2..Len(items) : j \in DOMAIN items /\ Live(items[j]) /\ Len(items) - j < MaxItems
      <4> HIDE DEF later
      <4> QED BY <1>1, <1>2, <1>5, <1>7, <1>10
    <3> QED BY <1>3, <3>1
  <2>2. \A j \in P : j \in 2..Len(items) BY <1>1, <1>3, <1>4, <1>5
  <2> QED BY <2>1, <2>2
<1> QED BY <1>3, <1>5, <1>9, <1>11

\* A queue in the store, and that its items are from another one.
Store(items) == items \in Seq(Items) /\ Len(items) <= MaxItems /\ Distinct(items)
DrawnFrom(new, old) == \A n \in DOMAIN new : \E i \in DOMAIN old : new[n] = old[i]

\* Pruning a stored queue drops what is too old.
LEMMA PruneKeeps ==
  ASSUME AcceptedConstants, NEW items, Store(items)
  PROVE  /\ Store(Prune(items)) /\ DrawnFrom(Prune(items), items)
         /\ \A i \in DOMAIN items : Live(items[i]) => items[i].key \in Queued(Prune(items))
<1>1. DOMAIN items = 1..Len(items) /\ Len(items) \in Nat BY LenProperties DEF Store
<1>2. Store(Prune(items)) /\ DrawnFrom(Prune(items), items) BY Pruned DEF Store, DrawnFrom
<1>3. MaxItems \in Nat BY DEF AcceptedConstants
<1>4. ASSUME NEW i \in DOMAIN items, Live(items[i]) PROVE items[i].key \in Queued(Prune(items))
  <2>1. items \in Seq(Items) /\ Distinct(items) /\ Len(items) <= MaxItems BY DEF Store
  <2>2. Len(items) <= MaxItems + 1 /\ Len(items) # MaxItems + 1
    <3>1. Len(items) \in Nat /\ Len(items) <= MaxItems BY <1>1, <2>1
    <3> QED BY ONLY <1>3, <3>1
  <2> QED BY <1>4, <2>1, <2>2, PushedOut
<1> QED BY <1>2, <1>4

\* A key is taken out, the rest stays.
LEMMA WithoutKeeps ==
  ASSUME NEW items, Store(items), NEW k, MaxItems \in Nat
  PROVE  /\ Store(Without(items, k)) /\ DrawnFrom(Without(items, k), items)
         /\ \A i \in DOMAIN items : items[i].key # k =>
              \E n \in DOMAIN Without(items, k) : Without(items, k)[n] = items[i]
<1> DEFINE P == {i \in DOMAIN items : items[i].key # k}
           w == ItemsAt(items, P)
<1>1. DOMAIN items = 1..Len(items) /\ Len(items) \in Nat /\ items \in Seq(Items) BY LenProperties DEF Store
<1>2. P \in SUBSET DOMAIN items /\ \A i, j \in P : items[i].key = items[j].key => i = j
  BY DEF Store, Distinct
<1>3. Without(items, k) = w BY DEF Without
<1>4. \A i \in DOMAIN items : items[i].key # k <=> i \in P OBVIOUS
<1> HIDE DEF P
<1>5. /\ w \in Seq(Items) /\ Len(w) = Cardinality(P)
      /\ \A n \in DOMAIN w : \E i \in P : w[n] = items[i]
      /\ \A i \in P : \E n \in DOMAIN w : w[n] = items[i]
      /\ Distinct(w)
  BY <1>1, <1>2, ItemsAtPositions
<1>6. Cardinality(P) <= Len(items) /\ Cardinality(P) \in Nat BY <1>1, <1>2, PositionsNumbered
<1> HIDE DEF w
<1>7. Store(w) BY <1>1, <1>5, <1>6 DEF Store
<1>8. DrawnFrom(w, items) BY <1>2, <1>5 DEF DrawnFrom
<1> QED BY <1>3, <1>4, <1>5, <1>7, <1>8

\* Removing a request: it leaves, and what is too old.
LEMMA ForgetKeeps ==
  ASSUME AcceptedConstants, NEW items, Store(items), NEW k
  PROVE  /\ Store(Prune(Without(items, k))) /\ DrawnFrom(Prune(Without(items, k)), items)
         /\ \A i \in DOMAIN items :
              items[i].key # k /\ Live(items[i]) => items[i].key \in Queued(Prune(Without(items, k)))
<1> DEFINE w == Without(items, k)
<1>1. /\ Store(w) /\ DrawnFrom(w, items)
      /\ \A i \in DOMAIN items : items[i].key # k => \E n \in DOMAIN w : w[n] = items[i]
  BY WithoutKeeps DEF AcceptedConstants
<1> HIDE DEF w
<1>2. /\ Store(Prune(w)) /\ DrawnFrom(Prune(w), w)
      /\ \A i \in DOMAIN w : Live(w[i]) => w[i].key \in Queued(Prune(w))
  BY <1>1, PruneKeeps
<1>3. DrawnFrom(Prune(w), items) BY <1>1, <1>2 DEF DrawnFrom
<1>4. \A i \in DOMAIN items : items[i].key # k /\ Live(items[i]) => items[i].key \in Queued(Prune(w))
  BY <1>1, <1>2
<1> QED BY <1>2, <1>3, <1>4 DEF w

\* A queue that is full after pruning was not changed.
LEMMA FullKept ==
  ASSUME AcceptedConstants, NEW items, Store(items), Len(Prune(items)) = MaxItems
  PROVE  Prune(items) = items
<1>1. items \in Seq(Items) /\ DOMAIN items = 1..Len(items) /\ Len(items) \in Nat /\ Len(items) <= MaxItems
  BY LenProperties DEF Store
<1>2. Len(Prune(items)) = Cardinality(Spared(items)) /\ Spared(items) \in SUBSET DOMAIN items
  BY <1>1, Pruned
<1>3. IsFiniteSet(DOMAIN items) /\ Cardinality(DOMAIN items) = Len(items)
  <2>1. PICK N \in Nat : N = Len(items) BY <1>1
  <2>2. IsFiniteSet(1..N) /\ Cardinality(1..N) = N BY ONLY N \in Nat, FS_Interval
  <2> QED BY <1>1, <2>1, <2>2
<1>4. /\ Cardinality(Spared(items)) <= Cardinality(DOMAIN items)
      /\ Cardinality(DOMAIN items) = Cardinality(Spared(items)) => DOMAIN items = Spared(items)
  BY <1>2, <1>3, FS_Subset
<1>5. MaxItems \in Nat BY DEF AcceptedConstants
<1>6. DOMAIN items = Spared(items) BY <1>1, <1>2, <1>3, <1>4, <1>5
<1>7. Prune(items) = ItemsAt(items, Spared(items)) BY DEF Prune, Spared
<1> QED BY <1>1, <1>6, <1>7, ItemsAtAll

\* A new request as it is stored.
Fresh(k) == [key |-> k, age |-> 0, rest |-> 0]

\* It is stored in a pruned queue, and if an item that is not too old leaves,
\* the queue is full and the item was the oldest.
LEMMA EnqueueKeeps ==
  ASSUME AcceptedConstants, NEW items, Store(items), NEW k \in Keys, k \notin Queued(Prune(items))
  PROVE  /\ Store(Prune(Append(Prune(items), Fresh(k))))
         /\ DrawnFrom(Prune(Append(Prune(items), Fresh(k))), Append(Prune(items), Fresh(k)))
         /\ k \in Queued(Prune(Append(Prune(items), Fresh(k))))
         /\ \A i \in DOMAIN items :
              Live(items[i]) /\ items[i].key \notin Queued(Prune(Append(Prune(items), Fresh(k)))) =>
                i = 1 /\ Len(Prune(Append(Prune(items), Fresh(k)))) = MaxItems
<1> DEFINE kept == Prune(items)
           more == Append(kept, Fresh(k))
           after == Prune(more)
<1>1. /\ Store(kept) /\ DrawnFrom(kept, items)
      /\ \A i \in DOMAIN items : Live(items[i]) => items[i].key \in Queued(kept)
  BY PruneKeeps
<1>2. Fresh(k) \in Items /\ Fresh(k).key = k /\ Live(Fresh(k))
  BY DEF Fresh, Items, Live, AcceptedConstants
<1>3. MaxItems \in Nat \ {0} BY DEF AcceptedConstants
<1>4. items \in Seq(Items) /\ DOMAIN items = 1..Len(items) /\ Len(items) \in Nat /\ Len(items) <= MaxItems
  BY LenProperties DEF Store
<1>5. Len(kept) = MaxItems => kept = items BY FullKept
<1> HIDE DEF kept
<1>6. /\ kept \in Seq(Items) /\ DOMAIN kept = 1..Len(kept) /\ Len(kept) \in Nat /\ Len(kept) <= MaxItems
  BY <1>1, LenProperties DEF Store
<1>7. /\ more \in Seq(Items) /\ Len(more) = Len(kept) + 1 /\ DOMAIN more = 1..(Len(kept) + 1)
      /\ more[Len(kept) + 1] = Fresh(k) /\ \A n \in 1..Len(kept) : more[n] = kept[n]
  BY <1>2, <1>6, AppendProperties, LenProperties
<1>8. Distinct(more)
  <2>1. \A n \in 1..Len(kept) : more[n].key # k BY <1>6, <1>7 DEF Queued, kept
  <2>2. \A m, n \in 1..Len(kept) : more[m].key = more[n].key => m = n BY <1>1, <1>6, <1>7 DEF Store, Distinct
  <2>3. more[Len(kept) + 1].key = k BY <1>2, <1>7
  <2>4. \A n \in DOMAIN more : n \in 1..Len(kept) \/ n = Len(kept) + 1 BY <1>6, <1>7
  <2> HIDE DEF more
  <2> QED BY <2>1, <2>2, <2>3, <2>4 DEF Distinct
<1> HIDE DEF more
<1>9. Store(after) /\ DrawnFrom(after, more) BY <1>7, Pruned DEF Store, DrawnFrom
<1>10. \A n \in DOMAIN more : Live(more[n]) /\ more[n].key \notin Queued(after) =>
         n = 1 /\ Len(more) = MaxItems + 1 /\ Len(after) = MaxItems
  <2>1. Len(more) <= MaxItems + 1 BY <1>3, <1>6, <1>7
  <2> QED BY <1>7, <1>8, <2>1, PushedOut
<1>11. k \in Queued(after)
  <2> DEFINE n == Len(kept) + 1
  <2>1. n \in DOMAIN more /\ more[n].key = k /\ Live(more[n]) BY <1>2, <1>6, <1>7
  <2>2. n = 1 => Len(more) # MaxItems + 1 BY <1>3, <1>6, <1>7
  <2> QED BY <1>10, <2>1, <2>2
<1>12. ASSUME NEW i \in DOMAIN items, Live(items[i]), items[i].key \notin Queued(after)
       PROVE  i = 1 /\ Len(after) = MaxItems
  <2>1. PICK n \in DOMAIN kept : kept[n].key = items[i].key BY <1>1, <1>12 DEF Queued
  <2>2. kept[n] = items[i]
    <3>1. PICK m \in DOMAIN items : kept[n] = items[m] BY <1>1 DEF DrawnFrom
    <3> QED BY <2>1, <3>1 DEF Store, Distinct
  <2>3. n \in DOMAIN more /\ more[n] = items[i] BY <1>6, <1>7, <2>2
  <2>4. n = 1 /\ Len(more) = MaxItems + 1 /\ Len(after) = MaxItems BY <1>10, <1>12, <2>3
  <2>5. Len(kept) = MaxItems
    <3>1. Len(more) = Len(kept) + 1 /\ Len(kept) \in Nat /\ MaxItems \in Nat BY <1>3, <1>6, <1>7
    <3> QED BY <2>4, <3>1
  <2>6. kept = items BY <1>5, <2>5
  <2>7. i = n BY <1>12, <2>2, <2>6 DEF Store, Distinct
  <2> QED BY <2>4, <2>7
<1> HIDE DEF after
<1>13. after = Prune(Append(Prune(items), Fresh(k))) /\ more = Append(Prune(items), Fresh(k)) BY DEF after, more, kept
<1> QED BY <1>9, <1>11, <1>12, <1>13

-----------------------------------------------------------------------------
\* The accepted messages: the inductive invariant. A queued request that must
\* rest was sent no longer ago than its rest says.
Spaced(items, since) == \A i \in DOMAIN items : since[items[i].key] + items[i].rest >= Throttle

Messages ==
  /\ Store(stored)
  /\ asked \in [Tabs -> Keys \cup {NoKey}]
  /\ quiet \in [Keys -> 0..Throttle]
  /\ Spaced(stored, quiet)

\* Why an item may leave in a step, as the checked property says it.
Departs ==
  /\ event'[1] = "enqueue" => event'[2] \in Queued(stored')
  /\ \A i \in DOMAIN stored : stored[i].key \notin Queued(stored') =>
       \/ event' \in {<<"verdict", stored[i].key>>, <<"remove", stored[i].key>>}
       \/ ~Live(stored[i])
       \/ event'[1] = "enqueue" /\ Len(stored') = MaxItems
            /\ \A n \in 1..i : stored[n].key \notin Queued(stored')

\* What is sent has not been sent for a while.
Rested == \A t \in Tabs, k \in Keys : asked[t] = NoKey /\ asked'[t] = k => quiet[k] >= Throttle

\* Items drawn from a spaced queue are spaced.
LEMMA SpacedDrawn ==
  ASSUME NEW new, NEW old, DrawnFrom(new, old), NEW since, Spaced(old, since)
  PROVE  Spaced(new, since)
BY DEF DrawnFrom, Spaced

\* Init establishes the invariant.
LEMMA InitQueued == InitMessages => Messages
<1> SUFFICES ASSUME InitMessages PROVE Messages OBVIOUS
<1>1. stored = <<>> /\ stored \in Seq(Items) /\ Len(stored) = 0 BY EmptySeq DEF InitMessages
<1>2. DOMAIN stored = {} BY <1>1
<1>3. Store(stored) /\ Spaced(stored, quiet) BY <1>1, <1>2, AcceptedConstants DEF Store, Distinct, Spaced, AcceptedConstants
<1> QED BY <1>3, AcceptedConstants DEF Messages, InitMessages, AcceptedConstants

\* The queue is enqueued to.
LEMMA EnqueueStep ==
  ASSUME Messages, NEW t \in Tabs, NEW k \in Keys, Enqueue(t, k)
  PROVE  Messages' /\ Departs /\ Rested
<1> DEFINE kept == Prune(stored)
           more == Append(kept, Fresh(k))
           after == Prune(more)
<1>1. /\ Store(kept) /\ DrawnFrom(kept, stored)
      /\ \A i \in DOMAIN stored : Live(stored[i]) => stored[i].key \in Queued(kept)
  BY PruneKeeps, AcceptedConstants DEF Messages
<1>2. /\ stored' = IF k \in Queued(kept) THEN kept ELSE after
      /\ quiet' = IF k \in Queued(kept) THEN quiet ELSE [quiet EXCEPT ![k] = Throttle]
      /\ event' = <<"enqueue", k>> /\ asked' = asked
  BY DEF Enqueue, Fresh
<1>3. event'[1] = "enqueue" /\ event'[2] = k BY <1>2
<1>4. Rested BY <1>2, AcceptedConstants DEF Rested, AcceptedConstants, Messages
<1>5. Spaced(kept, quiet) BY <1>1, SpacedDrawn DEF Messages
<1>6. CASE k \in Queued(kept)
  <2> HIDE DEF kept
  <2>1. stored' = kept /\ quiet' = quiet BY <1>2, <1>6
  <2>2. Messages' BY <1>1, <1>2, <1>5, <2>1 DEF Messages
  <2>3. \A i \in DOMAIN stored : stored[i].key \notin Queued(stored') => ~Live(stored[i]) BY <1>1, <2>1
  <2> QED BY <1>3, <1>4, <1>6, <2>1, <2>2, <2>3 DEF Departs
<1>7. CASE k \notin Queued(kept)
  <2>1. stored' = after /\ quiet' = [quiet EXCEPT ![k] = Throttle] BY <1>2, <1>7
  <2>2. /\ Store(after) /\ DrawnFrom(after, more) /\ k \in Queued(after)
        /\ \A i \in DOMAIN stored :
             Live(stored[i]) /\ stored[i].key \notin Queued(after) => i = 1 /\ Len(after) = MaxItems
    BY <1>7, EnqueueKeeps, AcceptedConstants DEF Messages
  <2>3. Throttle \in Nat BY AcceptedConstants DEF AcceptedConstants
  <2>4. quiet' \in [Keys -> 0..Throttle] /\ quiet'[k] = Throttle /\ \A j \in Keys \ {k} : quiet'[j] = quiet[j]
    BY <2>1, <2>3 DEF Messages
  <2>5. Spaced(more, quiet')
    <3>1. kept \in Seq(Items) /\ DOMAIN kept = 1..Len(kept) /\ Len(kept) \in Nat
      BY <1>1, LenProperties DEF Store
    <3>2. Fresh(k) \in Items /\ Fresh(k).key = k /\ Fresh(k).rest = 0 BY <2>3 DEF Fresh, Items
    <3>3. /\ DOMAIN more = 1..(Len(kept) + 1) /\ more[Len(kept) + 1] = Fresh(k)
          /\ \A n \in 1..Len(kept) : more[n] = kept[n]
      BY <3>1, <3>2, AppendProperties, LenProperties
    <3>4. ASSUME NEW n \in 1..Len(kept) PROVE quiet'[more[n].key] + more[n].rest >= Throttle
      <4>1. kept[n] \in Items /\ kept[n].key # k BY <1>7, <3>1, ElementOfSeq DEF Queued
      <4>2. quiet[kept[n].key] + kept[n].rest >= Throttle BY <1>5, <3>1 DEF Spaced
      <4> QED BY <2>4, <3>3, <4>1, <4>2 DEF Items
    <3>5. quiet'[more[Len(kept) + 1].key] + more[Len(kept) + 1].rest >= Throttle
      BY <2>3, <2>4, <3>2, <3>3
    <3>6. \A n \in DOMAIN more : n \in 1..Len(kept) \/ n = Len(kept) + 1 BY <3>1, <3>3
    <3> HIDE DEF more
    <3> QED BY <3>4, <3>5, <3>6 DEF Spaced
  <2> HIDE DEF kept, more, after
  <2>6. Spaced(after, quiet') BY <2>2, <2>5, SpacedDrawn
  <2>7. Messages' BY <1>2, <2>1, <2>2, <2>4, <2>6 DEF Messages
  <2>8. ASSUME NEW i \in DOMAIN stored, stored[i].key \notin Queued(stored'), Live(stored[i])
        PROVE  Len(stored') = MaxItems /\ \A n \in 1..i : stored[n].key \notin Queued(stored')
    <3>1. i = 1 /\ Len(after) = MaxItems BY <2>1, <2>2, <2>8
    <3> QED BY <2>1, <2>8, <3>1
  <2> QED BY <1>3, <1>4, <2>1, <2>2, <2>7, <2>8 DEF Departs
<1> QED BY <1>6, <1>7

\* Some key is taken out, by a verdict or for a removal.
LEMMA RemovalStep ==
  ASSUME Messages, NEW items, Store(items), DrawnFrom(items, stored),
         \A i \in DOMAIN stored : Live(stored[i]) => stored[i].key \in Queued(items),
         NEW k, stored' = Prune(Without(items, k)), event' \in {<<"verdict", k>>, <<"remove", k>>},
         quiet' = quiet, NEW t, asked' \in {asked, [asked EXCEPT ![t] = NoKey]}
  PROVE  Messages' /\ Departs /\ Rested
<1>1. /\ Store(stored') /\ DrawnFrom(stored', items)
      /\ \A i \in DOMAIN items : items[i].key # k /\ Live(items[i]) => items[i].key \in Queued(stored')
  BY ForgetKeeps, AcceptedConstants
<1>2. asked' \in [Tabs -> Keys \cup {NoKey}] BY DEF Messages
<1>3. Spaced(stored', quiet') BY <1>1, SpacedDrawn DEF Messages
<1>4. Messages' BY <1>1, <1>2, <1>3 DEF Messages
<1>5. ASSUME NEW i \in DOMAIN stored, stored[i].key # k, Live(stored[i])
      PROVE  stored[i].key \in Queued(stored')
  <2>1. PICK n \in DOMAIN items : items[n].key = stored[i].key BY <1>5 DEF Queued
  <2>2. PICK m \in DOMAIN stored : items[n] = stored[m] BY DEF DrawnFrom
  <2>3. m = i BY <2>1, <2>2 DEF Messages, Store, Distinct
  <2> QED BY <1>1, <1>5, <2>1, <2>2, <2>3
<1>6. Departs
  <2>1. event'[1] # "enqueue" OBVIOUS
  <2>2. \A i \in DOMAIN stored : stored[i].key = k =>
          event' \in {<<"verdict", stored[i].key>>, <<"remove", stored[i].key>>}
    OBVIOUS
  <2> QED BY <1>5, <2>1, <2>2 DEF Departs
<1>7. Rested BY AcceptedConstants DEF Rested, AcceptedConstants, Messages
<1> QED BY <1>4, <1>6, <1>7

\* The queue is pruned, and no more.
LEMMA PruneStep ==
  ASSUME Messages, stored' = Prune(stored), event' = <<"none", NoKey>>, quiet' = quiet, asked' = asked
  PROVE  Messages' /\ Departs /\ Rested
<1>1. /\ Store(stored') /\ DrawnFrom(stored', stored)
      /\ \A i \in DOMAIN stored : Live(stored[i]) => stored[i].key \in Queued(stored')
  BY PruneKeeps, AcceptedConstants DEF Messages
<1>2. Spaced(stored', quiet') BY <1>1, SpacedDrawn DEF Messages
<1>3. Messages' BY <1>1, <1>2 DEF Messages
<1>4. event'[1] # "enqueue" OBVIOUS
<1>5. Departs BY <1>1, <1>4 DEF Departs
<1>6. Rested BY AcceptedConstants DEF Rested, AcceptedConstants, Messages
<1> QED BY <1>3, <1>5, <1>6

\* The queue is left alone.
LEMMA IdleStep ==
  ASSUME Messages, stored' = stored, event'[1] # "enqueue", quiet' = quiet,
         NEW t, asked' \in {asked, [asked EXCEPT ![t] = NoKey]}
  PROVE  Messages' /\ Departs /\ Rested
<1>1. asked' \in [Tabs -> Keys \cup {NoKey}] BY DEF Messages
<1>2. Messages' BY <1>1 DEF Messages
<1>3. Departs BY DEF Departs, Queued
<1>4. Rested BY AcceptedConstants DEF Rested, AcceptedConstants, Messages
<1> QED BY <1>2, <1>3, <1>4

\* A flush sends an item: it had rested, and rests from now on.
LEMMA AskStep ==
  ASSUME Messages, NEW t \in Tabs, NEW k, NEW items, items = Prune(stored),
         \E i \in DOMAIN items : items[i].key = k /\ items[i].rest = 0,
         stored' = Attempted(items, k), asked' = [asked EXCEPT ![t] = k],
         quiet' = [quiet EXCEPT ![k] = 0], event' = <<"ask", k>>
  PROVE  Messages' /\ Departs /\ Rested
<1>1. /\ Store(items) /\ DrawnFrom(items, stored)
      /\ \A i \in DOMAIN stored : Live(stored[i]) => stored[i].key \in Queued(items)
  BY PruneKeeps, AcceptedConstants DEF Messages
<1>2. Spaced(items, quiet) BY <1>1, SpacedDrawn DEF Messages
<1>3. /\ DOMAIN items = 1..Len(items) /\ Len(items) \in Nat
      /\ \A i \in DOMAIN items : items[i] \in Items
  BY <1>1, LenProperties, ElementOfSeq DEF Store
<1>4. Throttle \in Nat BY AcceptedConstants DEF AcceptedConstants
<1>5. k \in Keys /\ quiet[k] >= Throttle
  <2>1. PICK i \in DOMAIN items : items[i].key = k /\ items[i].rest = 0 OBVIOUS
  <2>2. k \in Keys BY <1>3, <2>1 DEF Items
  <2>3. quiet[k] + 0 >= Throttle BY <1>2, <2>1 DEF Spaced
  <2>4. quiet[k] \in Int BY <2>2 DEF Messages
  <2> QED BY <1>4, <2>2, <2>3, <2>4
<1>6. /\ DOMAIN stored' = DOMAIN items
      /\ \A i \in DOMAIN items : stored'[i] \in Items /\ stored'[i].key = items[i].key
      /\ \A i \in DOMAIN items : stored'[i].rest = IF items[i].key = k THEN Throttle ELSE items[i].rest
  BY <1>3, <1>4 DEF Attempted, Items
<1>7. Store(stored')
  <2>1. stored' = [i \in 1..Len(items) |-> stored'[i]] BY <1>3 DEF Attempted
  <2>2. stored' \in Seq(Items) /\ Len(stored') = Len(items) BY <1>3, <1>6, <2>1, IsASeq, LenProperties
  <2> QED BY <1>1, <1>6, <2>2 DEF Store, Distinct
<1>8. quiet' \in [Keys -> 0..Throttle] /\ quiet'[k] = 0 /\ \A j \in Keys \ {k} : quiet'[j] = quiet[j]
  BY <1>4, <1>5 DEF Messages
<1>9. Spaced(stored', quiet')
  <2> SUFFICES ASSUME NEW i \in DOMAIN items PROVE quiet'[stored'[i].key] + stored'[i].rest >= Throttle
    BY <1>6 DEF Spaced
  <2>1. CASE items[i].key = k BY <1>4, <1>6, <1>8, <2>1
  <2>2. CASE items[i].key # k
    <3>1. items[i].key \in Keys BY <1>3 DEF Items
    <3>2. quiet[items[i].key] + items[i].rest >= Throttle BY <1>2 DEF Spaced
    <3> QED BY <1>6, <1>8, <2>2, <3>1, <3>2
  <2> QED BY <2>1, <2>2
<1>10. Messages' BY <1>5, <1>7, <1>8, <1>9 DEF Messages
<1>11. Queued(stored') = Queued(items) BY <1>6 DEF Queued
<1>12. event'[1] # "enqueue" OBVIOUS
<1>13. Departs BY <1>1, <1>11, <1>12 DEF Departs
<1>14. Rested BY <1>5, AcceptedConstants DEF Rested, Messages, AcceptedConstants
<1> QED BY <1>10, <1>13, <1>14

\* Time passes: what an item still rests, its request was sent later.
LEMMA TickStep ==
  ASSUME Messages, Tick
  PROVE  Messages' /\ Departs /\ Rested
<1>1. /\ DOMAIN stored = 1..Len(stored) /\ Len(stored) \in Nat
      /\ \A i \in DOMAIN stored : stored[i] \in Items
  BY LenProperties, ElementOfSeq DEF Messages, Store
<1>2. /\ Throttle \in Nat /\ \A k \in Keys : MaxAge[k] \in Nat
  BY AcceptedConstants DEF AcceptedConstants
<1>3. \A k \in Keys : quiet[k] \in 0..Throttle /\ quiet'[k] = Least(quiet[k] + 1, Throttle)
  BY DEF Messages, Tick
<1>4. quiet' = [k \in Keys |-> Least(quiet[k] + 1, Throttle)] BY DEF Tick
<1>5. quiet' \in [Keys -> 0..Throttle] BY <1>2, <1>3, <1>4 DEF Least
<1>6. /\ DOMAIN stored' = DOMAIN stored
      /\ \A i \in DOMAIN stored : /\ stored'[i].key = stored[i].key
                                  /\ stored'[i].rest = Sooner(stored[i].rest)
                                  /\ stored'[i] \in Items
  <2>1. stored' = [i \in DOMAIN stored |->
          [stored[i] EXCEPT !.age = Least(@ + 1, MaxAge[stored[i].key]), !.rest = Sooner(@)]]
    BY DEF Tick
  <2>2. ASSUME NEW i \in DOMAIN stored
        PROVE  /\ stored'[i].key = stored[i].key /\ stored'[i].rest = Sooner(stored[i].rest)
               /\ stored'[i] \in Items
    <3> DEFINE a == Least(stored[i].age + 1, MaxAge[stored[i].key])
               r == Sooner(stored[i].rest)
    <3>1. a \in Nat /\ r \in 0..Throttle BY <1>1, <1>2 DEF Items, Least, Sooner
    <3>2. stored'[i] = [stored[i] EXCEPT !.age = a, !.rest = r] BY <2>1
    <3> HIDE DEF a, r
    <3>3. /\ stored'[i].key = stored[i].key /\ stored'[i].rest = r /\ stored'[i] \in Items
      BY <1>1, <3>1, <3>2 DEF Items
    <3> QED BY <3>3 DEF r
  <2> QED BY <2>1, <2>2
<1>7. Store(stored')
  <2>1. stored' = [i \in 1..Len(stored) |-> stored'[i]] BY <1>1 DEF Tick
  <2>2. stored' \in Seq(Items) /\ Len(stored') = Len(stored) BY <1>1, <1>6, <2>1, IsASeq, LenProperties
  <2> QED BY <1>6, <2>2 DEF Messages, Store, Distinct
<1>8. Spaced(stored', quiet')
  <2> SUFFICES ASSUME NEW i \in DOMAIN stored PROVE quiet'[stored'[i].key] + stored'[i].rest >= Throttle
    BY <1>6 DEF Spaced
  <2>1. PICK k \in Keys : k = stored[i].key BY <1>1 DEF Items
  <2>2. PICK r \in 0..Throttle : r = stored[i].rest BY <1>1 DEF Items
  <2>3. quiet[k] + r >= Throttle BY <2>1, <2>2 DEF Messages, Spaced
  <2>4. PICK q \in 0..Throttle : q = quiet[k] BY <1>3
  <2>5. Least(q + 1, Throttle) + Sooner(r) >= Throttle BY <1>2, <2>3, <2>4 DEF Least, Sooner
  <2> QED BY <1>3, <1>6, <2>1, <2>2, <2>4, <2>5
<1>9. asked' = asked /\ event' = <<"none", NoKey>> BY DEF Tick
<1>10. Messages' BY <1>5, <1>7, <1>8, <1>9 DEF Messages
<1>11. Queued(stored') = Queued(stored) BY <1>6 DEF Queued
<1>12. event'[1] # "enqueue" BY <1>9
<1>13. Departs BY <1>11, <1>12 DEF Departs, Queued
<1>14. Rested BY <1>9, AcceptedConstants DEF Rested, AcceptedConstants, Messages
<1> QED BY <1>10, <1>13, <1>14

\* Every step keeps the invariant, and is as the two properties say.
LEMMA MessageStep ==
  ASSUME Messages, NextMessages
  PROVE  Messages' /\ Departs /\ Rested
<1>0. /\ Store(stored) /\ DrawnFrom(stored, stored)
      /\ \A i \in DOMAIN stored : Live(stored[i]) => stored[i].key \in Queued(stored)
  BY DEF Messages, DrawnFrom, Queued
<1>1. ASSUME NEW t \in Tabs, NEW k \in Keys, Enqueue(t, k) PROVE Messages' /\ Departs /\ Rested
  BY <1>1, EnqueueStep
<1>2. ASSUME NEW t \in Tabs, NEW k \in Keys, Forget(t, k) PROVE Messages' /\ Departs /\ Rested
  <2>1. /\ Store(Prune(stored)) /\ DrawnFrom(Prune(stored), stored)
        /\ \A i \in DOMAIN stored : Live(stored[i]) => stored[i].key \in Queued(Prune(stored))
    BY PruneKeeps, AcceptedConstants DEF Messages
  <2>2. /\ stored' = Prune(Without(Prune(stored), k)) /\ event' \in {<<"verdict", k>>, <<"remove", k>>}
        /\ quiet' = quiet /\ asked' \in {asked, [asked EXCEPT ![t] = NoKey]}
    BY <1>2 DEF Forget
  <2> QED BY <2>1, <2>2, RemovalStep
<1>3. ASSUME NEW t \in Tabs, Connect(t) PROVE Messages' /\ Departs /\ Rested
  BY <1>3, PruneStep DEF Connect
<1>4. ASSUME NEW t \in Tabs, Disconnect(t) \/ FinishFlush(t) PROVE Messages' /\ Departs /\ Rested
  <2>1. /\ stored' = stored /\ event' = <<"none", NoKey>> /\ quiet' = quiet
        /\ asked' \in {asked, [asked EXCEPT ![t] = NoKey]}
    BY <1>4 DEF Disconnect, FinishFlush
  <2> QED BY <2>1, IdleStep
<1>5. ASSUME NEW t \in Tabs, Crash(t) PROVE Messages' /\ Departs /\ Rested
  <2>1. /\ stored' = stored /\ event' = <<"crash", NoKey>> /\ quiet' = quiet
        /\ asked' \in {asked, [asked EXCEPT ![t] = NoKey]}
    BY <1>5 DEF Crash
  <2> QED BY <2>1, IdleStep
<1>6. ASSUME NEW t \in Tabs, Visit(t) PROVE Messages' /\ Departs /\ Rested
  <2> DEFINE k == Head(todo[t])
             items == Prune(stored)
             due == \E i \in DOMAIN items : items[i].key = k /\ items[i].rest = 0
  <2>1. CASE due
    <3>1. /\ stored' = Attempted(items, k) /\ asked' = [asked EXCEPT ![t] = k]
          /\ quiet' = [quiet EXCEPT ![k] = 0] /\ event' = <<"ask", k>>
      BY <1>6, <2>1 DEF Visit
    <3>2. PICK key : key = k OBVIOUS
    <3>3. PICK list : list = Prune(stored) OBVIOUS
    <3> QED BY <2>1, <3>1, <3>2, <3>3, AskStep
  <2>2. CASE ~due
    <3>1. stored' = Prune(stored) /\ event' = <<"none", NoKey>> /\ quiet' = quiet /\ asked' = asked
      BY <1>6, <2>2 DEF Visit
    <3> QED BY <3>1, PruneStep
  <2> QED BY <2>1, <2>2
<1>7. ASSUME NEW t \in Tabs, NEW verdict \in BOOLEAN, TakeAnswer(t, verdict)
      PROVE  Messages' /\ Departs /\ Rested
  <2> DEFINE k == asked[t]
  <2>1. quiet' = quiet /\ asked' \in {asked, [asked EXCEPT ![t] = NoKey]} BY <1>7 DEF TakeAnswer
  <2>2. CASE verdict = TRUE
    <3>1. stored' = Prune(Without(stored, k)) /\ event' \in {<<"verdict", k>>, <<"remove", k>>}
      BY <1>7, <2>2 DEF TakeAnswer, AfterAnswer
    <3> HIDE DEF k
    <3> QED BY <1>0, <2>1, <3>1, RemovalStep
  <2>3. CASE verdict = FALSE
    <3>1. stored' = stored /\ event' = <<"none", NoKey>> BY <1>7, <2>3 DEF TakeAnswer, AfterAnswer
    <3> QED BY <2>1, <3>1, IdleStep
  <2> QED BY <2>2, <2>3
<1> QED BY <1>1, <1>2, <1>3, <1>4, <1>5, <1>6, <1>7, TickStep DEF NextMessages

\* The invariant of the accepted messages holds.
LEMMA MessagesInvariant == MessagesSpec => []Messages
<1>1. Messages /\ [NextMessages]_messageVars => Messages'
  <2> SUFFICES ASSUME Messages, [NextMessages]_messageVars PROVE Messages' OBVIOUS
  <2>1. CASE NextMessages BY <2>1, MessageStep
  <2>2. CASE UNCHANGED messageVars BY <2>2 DEF messageVars, Messages
  <2> QED BY <2>1, <2>2
<1> QED BY <1>1, InitQueued, PTL DEF MessagesSpec

\* For any number of tabs, requests and places: an accepted message leaves the
\* store with its verdict, when its app is cleaned up, when it is too old or when
\* newer ones push it out of a full queue (vault-accepted-message-queue.js).
THEOREM MessagesLeaveForAReason == MessagesSpec => LeavesForAReason
<1>1. Messages /\ [NextMessages]_messageVars =>
        [/\ event'[1] = "enqueue" => event'[2] \in Queued(stored')
         /\ \A i \in DOMAIN stored : stored[i].key \notin Queued(stored') =>
              \/ event' \in {<<"verdict", stored[i].key>>, <<"remove", stored[i].key>>}
              \/ ~Live(stored[i])
              \/ event'[1] = "enqueue" /\ Len(stored') = MaxItems
                   /\ \A n \in 1..i : stored[n].key \notin Queued(stored')]_messageVars
  BY MessageStep DEF Departs
<1> QED BY <1>1, MessagesInvariant, PTL DEF MessagesSpec, LeavesForAReason

\* However many tabs flush, a queued request is sent to the vault at most once
\* within the throttle.
THEOREM MessagesSentOnceAWhile == MessagesSpec => SentOnceAWhile
<1>1. Messages /\ [NextMessages]_messageVars =>
        [\A t \in Tabs, k \in Keys : asked[t] = NoKey /\ asked'[t] = k => quiet[k] >= Throttle]_messageVars
  BY MessageStep DEF Rested
<1> QED BY <1>1, MessagesInvariant, PTL DEF MessagesSpec, SentOnceAWhile
=============================================================================
