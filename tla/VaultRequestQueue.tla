------------------------- MODULE VaultRequestQueue -------------------------
(***************************************************************************)
(* The launcher's queue of requests to the vault                           *)
(* (services/vault-request-queue.js): two FIFO queues, a limit of running  *)
(* requests with shares for normal work, chunks and archives, deadlines    *)
(* that count queue time, and connections that come and go.                *)
(*                                                                         *)
(* drain's loop is unrolled: while "draining" only its steps are taken.    *)
(* A job that was settled may be asked again, as a new request, once the   *)
(* answer to its former request has arrived or failed.                     *)
(***************************************************************************)
EXTENDS Integers, Sequences, FiniteSets, FiniteSetsExt, SequencesExt

CONSTANTS
  Jobs,
  Priority, Chunk, Archive,  \* classification: subsets of Jobs
  Timed,                     \* jobs with a deadline
  Ports, NoPort,
  Slots, NormalSlots, ChunkSlots, ArchiveSlots,  \* 5, 4, 2 and 2
  Streak,                    \* 3: priority starts before a normal turn
  Again                      \* jobs that are asked again

ASSUME QueueConstants ==
  /\ IsFiniteSet(Jobs)
  /\ Priority \subseteq Jobs /\ Chunk \subseteq Jobs /\ Archive \subseteq Jobs
  /\ Timed \subseteq Jobs /\ Again \subseteq Jobs
  /\ NoPort \notin Ports
  /\ Slots \in Nat \ {0} /\ NormalSlots \in 1..Slots
  /\ ChunkSlots \in Nat \ {0} /\ ArchiveSlots \in Nat \ {0}
  /\ Streak \in Nat

VARIABLES
  state,      \* [Jobs -> {"new", "waiting", "running", "done"}]
  waiting,    \* [BOOLEAN -> Seq(Jobs)], by priority
  preferred,  \* priority starts since the last normal one
  port, closed,
  draining,
  overdue,    \* jobs whose deadline has passed, their timer not yet fired
  sent,       \* [Jobs -> Ports]: the connection a call to send is open on
  result,     \* history: the jobs that the last step settled with a result
  settled     \* history: how often the request was settled

vars == <<state, waiting, preferred, port, closed, draining, overdue, sent, result, settled>>

IsPriority(j) == j \in Priority
Running == {j \in Jobs : state[j] = "running"}

TypeOK ==
  /\ state \in [Jobs -> {"new", "waiting", "running", "done"}]
  /\ waiting \in [BOOLEAN -> Seq(Jobs)]
  /\ \A c \in BOOLEAN :
       /\ IsInjective(waiting[c])
       /\ ToSet(waiting[c]) = {j \in Jobs : state[j] = "waiting" /\ IsPriority(j) = c}
  /\ preferred \in 0..Streak
  /\ port \in Ports \cup {NoPort}
  /\ closed \in BOOLEAN /\ draining \in BOOLEAN
  /\ overdue \subseteq {j \in Timed : state[j] \in {"waiting", "running"}}
  /\ sent \in [Jobs -> Ports \cup {NoPort}]
  /\ result \subseteq Jobs /\ settled \in [Jobs -> Nat]

Init ==
  /\ state = [j \in Jobs |-> "new"]
  /\ waiting = [c \in BOOLEAN |-> <<>>]
  /\ preferred = 0
  /\ port = NoPort /\ closed = FALSE /\ draining = FALSE
  /\ overdue = {}
  /\ sent = [j \in Jobs |-> NoPort]
  /\ result = {}
  /\ settled = [j \in Jobs |-> 0]

-----------------------------------------------------------------------------
\* finish: the first outcome of a request counts; the job leaves the queue or
\* its slot, and the queue is drained.

\* Mutant: a late outcome settles the request again.
FinishableAlways(j) == TRUE

Finishable(j) == state[j] # "done"

Left(j) == [waiting EXCEPT ![IsPriority(j)] = RemoveFirst(@, j)]

Nothing == result' = {} /\ UNCHANGED <<state, waiting, overdue, settled>>

Settle(j, how) ==
  /\ state' = [state EXCEPT ![j] = "done"]
  /\ waiting' = Left(j)
  /\ overdue' = overdue \ {j}
  /\ result' = IF how = "result" THEN {j} ELSE {}
  /\ settled' = [settled EXCEPT ![j] = @ + 1]

\* drain returns at once when the queue is closed or not connected.
Drains == ~closed /\ port # NoPort

Finish(j, how) ==
  \/ Finishable(j) /\ Settle(j, how) /\ draining' = Drains
  \/ ~Finishable(j) /\ Nothing /\ UNCHANGED draining

-----------------------------------------------------------------------------
\* ask

Ask(j) ==
  /\ ~draining /\ ~closed
  /\ state[j] = "new" \/ (state[j] = "done" /\ j \in Again)
  /\ sent[j] = NoPort
  /\ settled' = [settled EXCEPT ![j] = 0]
  /\ result' = {}
  /\ state' = [state EXCEPT ![j] = "waiting"]
  /\ waiting' = [waiting EXCEPT ![IsPriority(j)] = Append(@, j)]
  /\ draining' = Drains
  /\ UNCHANGED <<preferred, port, closed, overdue, sent>>

-----------------------------------------------------------------------------
\* drain

Eligible(j) ==
  /\ j \in Chunk => Cardinality(Running \cap Chunk) < ChunkSlots
  /\ j \in Archive => Cardinality(Running \cap Archive) < ArchiveSlots

\* Mutant: only the head of a queue is considered.
CandidateHead(c) == {j \in Jobs : waiting[c] # <<>> /\ j = Head(waiting[c]) /\ Eligible(j)}

\* The first eligible job of a queue, if there is one.
Candidate(c) ==
  {waiting[c][i] : i \in {k \in DOMAIN waiting[c] :
      Eligible(waiting[c][k]) /\ \A n \in 1..(k - 1) : ~Eligible(waiting[c][n])}}

Normal == IF Cardinality(Running \ Priority) < NormalSlots THEN Candidate(FALSE) ELSE {}

\* Mutant: normal work goes only when no priority work waits.
ChosenPriority == IF Candidate(TRUE) # {} THEN Candidate(TRUE) ELSE Normal

Chosen ==
  IF Normal # {} /\ (Candidate(TRUE) = {} \/ preferred >= Streak) THEN Normal ELSE Candidate(TRUE)

\* Mutant: the streak is counted without end.
Uncapped(n) == n + 1

Capped(n) == IF n < Streak THEN n + 1 ELSE n

\* A chosen job whose deadline has passed is settled instead of sent.
DrainOverdue(j) ==
  /\ j \in overdue
  /\ Settle(j, "failure")
  /\ UNCHANGED <<preferred, sent>>

\* The job takes a slot; the guard beforeSend may answer for the vault, and
\* send may throw.
DrainStart(j) ==
  /\ j \notin overdue
  /\ preferred' = IF IsPriority(j) THEN Capped(preferred) ELSE 0
  /\ \/ /\ state' = [state EXCEPT ![j] = "running"]
        /\ waiting' = Left(j)
        /\ sent' = [sent EXCEPT ![j] = port]
        /\ result' = {}
        /\ UNCHANGED <<overdue, settled>>
     \/ /\ Settle(j, "failure")
        /\ UNCHANGED sent

Drain ==
  /\ draining /\ Cardinality(Running) < Slots
  /\ \E j \in Chosen : DrainOverdue(j) \/ DrainStart(j)
  /\ UNCHANGED <<port, closed, draining>>

DrainEnd ==
  /\ draining
  /\ Cardinality(Running) >= Slots \/ Chosen = {}
  /\ draining' = FALSE
  /\ result' = {}
  /\ UNCHANGED <<state, waiting, preferred, port, closed, overdue, sent, settled>>

-----------------------------------------------------------------------------
\* Answers, deadlines and connections.

\* The promise of send settles, perhaps long after the request was given up.
Answer(j) ==
  /\ ~draining
  /\ sent[j] # NoPort
  /\ sent' = [sent EXCEPT ![j] = NoPort]
  /\ \E how \in {"result", "failure"} : Finish(j, how)
  /\ UNCHANGED <<preferred, port, closed>>

Deadline(j) ==
  /\ ~draining
  /\ j \in Timed \ overdue /\ state[j] \in {"waiting", "running"}
  /\ overdue' = overdue \cup {j}
  /\ result' = {}
  /\ UNCHANGED <<state, waiting, preferred, port, closed, draining, sent, settled>>

Timer(j) ==
  /\ ~draining
  /\ j \in overdue
  /\ Finish(j, "failure")
  /\ UNCHANGED <<preferred, port, closed, sent>>

\* Mutant: requests of the former connection are left alone.
CancelNone == Nothing

\* cancel: every request fails, and nothing is started while they do.
Cancel ==
  LET open == {j \in Jobs : state[j] \in {"waiting", "running"}} IN
  /\ state' = [j \in Jobs |-> IF j \in open THEN "done" ELSE state[j]]
  /\ waiting' = [c \in BOOLEAN |-> <<>>]
  /\ overdue' = {}
  /\ result' = {}
  /\ settled' = [j \in Jobs |-> IF j \in open THEN settled[j] + 1 ELSE settled[j]]

CancelPrevious ==
  /\ ~draining
  /\ Cancel
  /\ UNCHANGED <<preferred, port, closed, draining, sent>>

SetPort(next) ==
  /\ ~draining /\ ~closed
  /\ next # port
  /\ IF port # NoPort THEN Cancel ELSE Nothing
  /\ port' = next
  /\ draining' = (next # NoPort)
  /\ UNCHANGED <<preferred, closed, sent>>

Close ==
  /\ ~draining /\ ~closed
  /\ closed' = TRUE
  /\ Cancel
  /\ port' = NoPort
  /\ UNCHANGED <<preferred, draining, sent>>

Next ==
  \/ Drain \/ DrainEnd
  \/ \E j \in Jobs : Ask(j) \/ Answer(j) \/ Deadline(j) \/ Timer(j)
  \/ \E p \in Ports \cup {NoPort} : SetPort(p)
  \/ CancelPrevious \/ Close

Spec == Init /\ [][Next]_vars

\* The loop ends and the vault answers what it was sent, if only with an error.
FairSpec == Spec /\ WF_vars(Drain \/ DrainEnd) /\ \A j \in Jobs : SF_vars(Answer(j))

-----------------------------------------------------------------------------
(***************************************************************************)
(* Properties.                                                             *)
(***************************************************************************)
\* Five requests at most, four of them normal, two chunks and two archives.
LimitsHold ==
  /\ Cardinality(Running) <= Slots
  /\ Cardinality(Running \ Priority) <= NormalSlots
  /\ Cardinality(Running \cap Chunk) <= ChunkSlots
  /\ Cardinality(Running \cap Archive) <= ArchiveSlots

\* Work is conserved: a connected queue at rest has no request waiting that
\* the limits would let go, "a blocked chunk does not block later eligible
\* work" (docs/vault-request-scheduling.md).
NoIdleSlot ==
  ~draining /\ Drains /\ Cardinality(Running) < Slots =>
    \A j \in Jobs : state[j] = "waiting" /\ Eligible(j) =>
      ~IsPriority(j) /\ Cardinality(Running \ Priority) >= NormalSlots

\* "Requests settle once": whatever mixture of answer, timer, denial,
\* cancellation and new connection a request meets.
SettlesOnce == \A j \in Jobs : settled[j] = (IF state[j] = "done" THEN 1 ELSE 0)

\* "Connection replacement cancels the previous generation; late results
\* cannot settle new work": a result is of the connection that is in place.
ResultOfThisConnection ==
  [][\A j \in result' : sent[j] = port]_vars

\* A slot is held only by a request that is with the vault on this connection.
SlotsAreWithTheVault == \A j \in Running : sent[j] = port /\ port # NoPort

\* So the slots are used well: never too many, none idle while a request could
\* go, none held by a request of a connection that is gone.
SlotsHold == LimitsHold /\ NoIdleSlot /\ SlotsAreWithTheVault

\* Nobody starves while a connection stays: every request gets a slot or is
\* settled, however many others of either class keep coming: "three priority
\* requests then one normal request" (docs/vault-request-scheduling.md).
EveryRequestServed == <>[](port # NoPort) => \A j \in Jobs : state[j] = "waiting" ~> state[j] # "waiting"
=============================================================================
