------------------------- MODULE BridgeReceiveQueue -------------------------
(***************************************************************************)
(* The launcher-to-consumer half of the relay bridge                       *)
(* (services/relay-pool/bridge-receive-queue.js with the credit return of  *)
(* app-shim.js): a queue per attachment, a credit window the consumer      *)
(* repays, three priority classes, and frame and byte budgets shared by    *)
(* the attachments of an endpoint and of the tab.                          *)
(*                                                                         *)
(* An action is one call; its loops are unrolled.  "call" names the loop   *)
(* that is running and nothing else moves until it has ended: push goes on *)
(* to "endpoint" and "tab" (enforceBudget) and "flush", grant to "flush".  *)
(***************************************************************************)
EXTENDS Integers, Sequences, FiniteSets, SequencesExt

CONSTANTS
  Attachments, Endpoints,
  EndpointOf,                 \* [Attachments -> Endpoints]
  Frames,                     \* [Attachments -> sets of frames]: what its relay may send
  Streams,                    \* subscriptions and negentropy sessions
  NoStream,
  CreditFrames, CreditBytes,  \* bridgeReceiveCreditFrames/Bytes
  ReserveFrames, ReserveBytes,\* credit kept for controls: 8 frames, 64 KiB
  QueueFrames, QueueBytes,    \* bridgeReceiveQueueFrames/Bytes
  EndpointFrames, EndpointBytes, TabFrames, TabBytes,
  HighTurns, ControlTurns,    \* 3 and 2: the 9:2:1 service
  MaxPush                     \* bound: frames the relay delivers to each attachment

\* prio: 2 high, 1 intermediate, 0 normal.  size: the bytes budgeted while it
\* is queued; out: the bytes it has when it is sent (rewriteRetryFrame shortens
\* a retry).  nostr: frames that respect the reserve.
FrameType == [prio : 0..2, stream : Streams \cup {NoStream},
              size : Nat, out : Nat, nostr : BOOLEAN]

ASSUME BridgeConstants ==
  /\ EndpointOf \in [Attachments -> Endpoints]
  /\ IsFiniteSet(Attachments)
  /\ Frames \in [Attachments -> SUBSET FrameType]
  /\ \A r \in Attachments : \A f \in Frames[r] : f.out <= f.size
  /\ NoStream \notin Streams /\ "normal" \notin Streams \cup {NoStream}
  /\ CreditFrames \in Nat \ {0} /\ CreditBytes \in Nat \ {0}
  /\ ReserveFrames \in 0..(CreditFrames - 1) /\ ReserveBytes \in 0..(CreditBytes - 1)
  /\ QueueFrames \in Nat \ {0} /\ QueueBytes \in Nat
  /\ EndpointFrames \in Nat /\ EndpointBytes \in Nat
  /\ TabFrames \in Nat /\ TabBytes \in Nat
  /\ HighTurns \in Nat /\ ControlTurns \in Nat
  /\ MaxPush \in [Attachments -> Nat]

VARIABLES
  queue,         \* [Attachments -> Seq(items)]: a frame with its number n
  queuedBytes,   \* the counters kept beside queue and pending
  pending,       \* [Attachments -> Seq([size, through])]: sent, not yet repaid
  pendingBytes,
  sequence,      \* frames sent so far
  highStreak, controlStreak,
  fate,          \* [Attachments -> "open", or why the receiver closed]
  pushes,        \* frames the relay delivered so far
  call,          \* [at |-> "none" | "endpoint" | "tab" | "flush", of |-> attachment]
  wire,          \* messages on the port to the consumer
  consumer,      \* [Attachments -> {"open", "closed"}]: the shim's transport
  owed,          \* credit the shim has not returned: [frames, bytes, through]
  back,          \* credit messages on the port to the launcher
  lastOut        \* history: number of the last frame sent per lane

vars == <<queue, queuedBytes, pending, pendingBytes, sequence, highStreak, controlStreak,
          fate, pushes, call, wire, consumer, owed, back, lastOut>>
counters == <<sequence, highStreak, controlStreak, lastOut>>
shim == <<consumer, owed, back>>

Lanes == Streams \cup {"normal"}
Nothing == [frames |-> 0, bytes |-> 0, through |-> 0]
Idle == [at |-> "none"]

Init ==
  /\ queue = [r \in Attachments |-> <<>>]
  /\ queuedBytes = [r \in Attachments |-> 0]
  /\ pending = [r \in Attachments |-> <<>>]
  /\ pendingBytes = [r \in Attachments |-> 0]
  /\ sequence = [r \in Attachments |-> 0]
  /\ highStreak = [r \in Attachments |-> 0]
  /\ controlStreak = [r \in Attachments |-> 0]
  /\ fate = [r \in Attachments |-> "open"]
  /\ pushes = [r \in Attachments |-> 0]
  /\ call = Idle
  /\ wire = [r \in Attachments |-> <<>>]
  /\ consumer = [r \in Attachments |-> "open"]
  /\ owed = [r \in Attachments |-> Nothing]
  /\ back = [r \in Attachments |-> <<>>]
  /\ lastOut = [r \in Attachments |-> [l \in Lanes |-> 0]]

-----------------------------------------------------------------------------
\* Closing: close() of the receiver, and CLOSED to the consumer when the
\* launcher is the one who ends it (dropAttachment, the member's onClose).

CloseReceiver(r, why) ==
  /\ fate' = [fate EXCEPT ![r] = why]
  /\ queue' = [queue EXCEPT ![r] = <<>>]
  /\ pending' = [pending EXCEPT ![r] = <<>>]
  /\ queuedBytes' = [queuedBytes EXCEPT ![r] = 0]
  /\ pendingBytes' = [pendingBytes EXCEPT ![r] = 0]

Drop(r, why) ==
  /\ CloseReceiver(r, why)
  /\ wire' = [wire EXCEPT ![r] = Append(@, [kind |-> "closed"])]

HeldFrames(r) == Len(queue[r]) + Len(pending[r])
HeldBytes(r) == queuedBytes[r] + pendingBytes[r]

\* The isolated-large-frame exception: with nothing outstanding anything fits.
Fits(r, size) ==
  \/ pending[r] = <<>>
  \/ Len(pending[r]) < CreditFrames /\ pendingBytes[r] + size <= CreditBytes

-----------------------------------------------------------------------------
\* push: queue the frame, fail on the attachment's own budget, then enforce the
\* shared ones and flush.

OverOwn(queued, bytes) == Len(queued) > QueueFrames \/ bytes > QueueBytes

Push(r, f) ==
  LET queued == Append(queue[r], [frame |-> f, n |-> pushes[r] + 1])
      bytes == queuedBytes[r] + f.size
      canFlush == Len(queued) = 1 /\ Fits(r, f.size)
  IN  /\ call = Idle
      /\ fate[r] = "open"
      /\ pushes[r] < MaxPush[r]
      /\ pushes' = [pushes EXCEPT ![r] = @ + 1]
      /\ \/ /\ \/ f.size > QueueBytes
               \/ ~canFlush /\ OverOwn(queued, bytes)
            /\ Drop(r, "overflow")
            /\ UNCHANGED call
         \/ /\ f.size <= QueueBytes
            /\ canFlush \/ ~OverOwn(queued, bytes)
            /\ queue' = [queue EXCEPT ![r] = queued]
            /\ queuedBytes' = [queuedBytes EXCEPT ![r] = bytes]
            /\ call' = [at |-> "endpoint", of |-> r]
            /\ UNCHANGED <<pending, pendingBytes, fate, wire>>
      /\ UNCHANGED <<counters, shim>>

\* The receivers a budget counts, and what it allows.
Scope ==
  {x \in Attachments : fate[x] = "open" /\
     (call.at = "endpoint" => EndpointOf[x] = EndpointOf[call.of])}
FrameBudget == IF call.at = "endpoint" THEN EndpointFrames ELSE TabFrames
ByteBudget == IF call.at = "endpoint" THEN EndpointBytes ELSE TabBytes
TotalFrames(S) == SumFunction([x \in S |-> HeldFrames(x)])
TotalBytes(S) == SumFunction([x \in S |-> HeldBytes(x)])
OverFrames(S) == TotalFrames(S) > FrameBudget
OverBytes(S) == TotalBytes(S) > ByteBudget
OverBudget(S) == OverFrames(S) \/ OverBytes(S)

\* The largest holder, by bytes if bytes are over, else by frames.
Victims(S) ==
  {v \in S : /\ HeldFrames(v) > 0
             /\ \A x \in S : IF OverBytes(S) THEN HeldBytes(x) <= HeldBytes(v)
                                             ELSE HeldFrames(x) <= HeldFrames(v)}

Evict ==
  /\ call.at \in {"endpoint", "tab"}
  /\ OverBudget(Scope)
  /\ \E v \in Victims(Scope) : Drop(v, "overflow")
  /\ UNCHANGED <<pushes, call, counters, shim>>

\* Mutant: the tab's budget is never looked at.
NextStageSkippingTab == "flush"

NextStage == IF call.at = "endpoint" THEN "tab" ELSE "flush"

Enforced ==
  /\ call.at \in {"endpoint", "tab"}
  /\ ~OverBudget(Scope) \/ Victims(Scope) = {}
  /\ call' = [call EXCEPT !.at = NextStage]
  /\ UNCHANGED <<queue, queuedBytes, pending, pendingBytes, fate, pushes, wire, counters, shim>>

-----------------------------------------------------------------------------
\* flush: which queued frame goes next.

Item(r, i) == queue[r][i].frame

\* Mutant: a control may pass earlier results of its own stream.
BlockedNever(r, i) == FALSE

\* A frame waits for the earlier ones of its stream.
Blocked(r, i) ==
  /\ Item(r, i).stream # NoStream
  /\ \E k \in 1..(i - 1) : Item(r, k).stream = Item(r, i).stream

FirstOf(S) == {i \in S : \A k \in S : i <= k}

\* receiveCandidates: sets with at most one index each.
High(r) == FirstOf({i \in DOMAIN queue[r] : Item(r, i).prio = 2 /\ ~Blocked(r, i)})
Control(r) == FirstOf({i \in DOMAIN queue[r] : Item(r, i).prio = 1 /\ ~Blocked(r, i)})
Normal(r) == {i \in FirstOf({i \in DOMAIN queue[r] : Item(r, i).prio = 0}) : ~Blocked(r, i)}

LowerTurn(r) ==
  IF Control(r) # {} /\ (Normal(r) = {} \/ controlStreak[r] < ControlTurns)
    THEN Control(r) ELSE Normal(r)
Preferred(r) ==
  IF High(r) # {} /\ (highStreak[r] < HighTurns \/ LowerTurn(r) = {})
    THEN High(r) ELSE LowerTurn(r)

FitsOne(r, S) == \E i \in S : Fits(r, Item(r, i).size)

\* A normal frame whose turn has come holds the line until it fits.
HoldsTheLine(r) ==
  Preferred(r) = Normal(r) /\ pending[r] # <<>> /\ ~FitsOne(r, Normal(r))

\* Credit eligibility, with the reserve that only controls may use unless a
\* normal frame takes its turn against controls that could go.
Eligible(r, i) ==
  LET f == Item(r, i)
      reservedTurn == Preferred(r) = Normal(r) /\ (FitsOne(r, High(r)) \/ FitsOne(r, Control(r)))
  IN  \/ pending[r] = <<>>
      \/ /\ Fits(r, f.size)
         /\ \/ f.prio > 0 \/ reservedTurn \/ ~f.nostr
            \/ /\ Len(pending[r]) < CreditFrames - ReserveFrames
               /\ pendingBytes[r] + f.size <= CreditBytes - ReserveBytes

\* The first eligible of: preferred, high, lower, control, normal.
Selected(r) ==
  LET ranked == <<Preferred(r), High(r), LowerTurn(r), Control(r), Normal(r)>>
      able == {k \in DOMAIN ranked : \E i \in ranked[k] : Eligible(r, i)}
  IN  UNION {ranked[k] : k \in FirstOf(able)}

\* Mutant: the window is charged with the queued size of a shortened retry.
ChargeQueuedSize(f) == f.size

Charge(f) == f.out

LanesOf(f) == {l \in Lanes : l = f.stream \/ (l = "normal" /\ f.prio = 0)}

Raised(streak, cap) == IF streak < cap THEN streak + 1 ELSE streak

Send(r, i) ==
  LET f == Item(r, i)
      n == queue[r][i].n
      through == sequence[r] + 1
  IN  /\ queue' = [queue EXCEPT ![r] = RemoveAt(@, i)]
      /\ queuedBytes' = [queuedBytes EXCEPT ![r] = @ - f.size]
      /\ highStreak' = [highStreak EXCEPT ![r] =
           IF f.prio = 2 THEN Raised(@, HighTurns) ELSE 0]
      /\ controlStreak' = [controlStreak EXCEPT ![r] =
           IF f.prio = 2 THEN @ ELSE IF f.prio = 1 THEN Raised(@, ControlTurns) ELSE 0]
      /\ sequence' = [sequence EXCEPT ![r] = through]
      /\ pending' = [pending EXCEPT ![r] = Append(@, [size |-> Charge(f), through |-> through])]
      /\ pendingBytes' = [pendingBytes EXCEPT ![r] = @ + Charge(f)]
      /\ wire' = [wire EXCEPT ![r] = Append(@, [kind |-> "frame", size |-> f.out, through |-> through])]
      /\ lastOut' = [lastOut EXCEPT ![r] = [l \in Lanes |-> IF l \in LanesOf(f) THEN n ELSE @[l]]]

FlushStep ==
  /\ call.at = "flush"
  /\ LET r == call.of IN
       /\ fate[r] = "open" /\ queue[r] # <<>>
       /\ ~HoldsTheLine(r)
       /\ \E i \in Selected(r) : Send(r, i)
  /\ UNCHANGED <<fate, pushes, call, shim>>

FlushEnd ==
  /\ call.at = "flush"
  /\ LET r == call.of IN
       fate[r] # "open" \/ queue[r] = <<>> \/ HoldsTheLine(r) \/ Selected(r) = {}
  /\ call' = Idle
  /\ UNCHANGED <<queue, queuedBytes, pending, pendingBytes, fate, pushes, wire, counters, shim>>

-----------------------------------------------------------------------------
\* The consumer: app-shim's transport takes a message off the port; a microtask
\* returns the credit of the frames it took.

Take(r) ==
  /\ call = Idle
  /\ wire[r] # <<>>
  /\ wire' = [wire EXCEPT ![r] = Tail(@)]
  /\ LET m == Head(wire[r]) IN
       \/ consumer[r] = "closed" /\ UNCHANGED <<consumer, owed>>
       \/ /\ consumer[r] = "open" /\ m.kind = "frame"
          /\ owed' = [owed EXCEPT ![r] =
               [frames |-> @.frames + 1, bytes |-> @.bytes + m.size, through |-> m.through]]
          /\ UNCHANGED consumer
       \/ /\ consumer[r] = "open" /\ m.kind = "closed"
          /\ consumer' = [consumer EXCEPT ![r] = "closed"]
          /\ owed' = [owed EXCEPT ![r] = Nothing]
  /\ UNCHANGED <<queue, queuedBytes, pending, pendingBytes, fate, pushes, call, counters, back>>

ReturnCredit(r) ==
  /\ call = Idle
  /\ consumer[r] = "open" /\ owed[r].frames > 0
  /\ back' = [back EXCEPT ![r] = Append(@, owed[r])]
  /\ owed' = [owed EXCEPT ![r] = Nothing]
  /\ UNCHANGED <<queue, queuedBytes, pending, pendingBytes, fate, pushes, call, wire, counters, consumer>>

\* The app closes its socket: the transport forgets what it owes, and CLOSE
\* travels behind the credits already posted.
ConsumerClose(r) ==
  /\ call = Idle
  /\ consumer[r] = "open"
  /\ consumer' = [consumer EXCEPT ![r] = "closed"]
  /\ owed' = [owed EXCEPT ![r] = Nothing]
  /\ back' = [back EXCEPT ![r] = Append(@, [close |-> TRUE])]
  /\ UNCHANGED <<queue, queuedBytes, pending, pendingBytes, fate, pushes, call, wire, counters>>

\* Mutant: credit frees the window and nothing is flushed.
GrantedQuietly(r) == Idle

Granted(r) == [at |-> "flush", of |-> r]

\* Bytes of the first k entries of a ledger.
Sizes(s) == [i \in DOMAIN s |-> s[i].size]
PrefixBytes(s, k) == SumFunctionOnSet(Sizes(s), 1..k)

ValidGrant(r, g) ==
  /\ g.frames \in 1..Len(pending[r])
  /\ g.bytes = PrefixBytes(pending[r], g.frames)
  /\ g.through = pending[r][g.frames].through

\* A message from the consumer: credit is checked against the ledger and frees
\* the oldest frames; CLOSE releases the attachment.  Both are ignored once the
\* attachment is gone.
FromConsumer(r) ==
  LET g == Head(back[r]) IN
  /\ call = Idle
  /\ back[r] # <<>>
  /\ back' = [back EXCEPT ![r] = Tail(@)]
  /\ \/ /\ fate[r] # "open"
        /\ UNCHANGED <<queue, queuedBytes, pending, pendingBytes, fate, call, wire>>
     \/ /\ fate[r] = "open" /\ "close" \in DOMAIN g
        /\ Drop(r, "closed")
        /\ UNCHANGED call
     \/ /\ fate[r] = "open" /\ "close" \notin DOMAIN g /\ ~ValidGrant(r, g)
        /\ Drop(r, "badcredit")
        /\ UNCHANGED call
     \/ /\ fate[r] = "open" /\ "close" \notin DOMAIN g /\ ValidGrant(r, g)
        /\ pending' = [pending EXCEPT ![r] = SubSeq(@, g.frames + 1, Len(@))]
        /\ pendingBytes' = [pendingBytes EXCEPT ![r] = @ - g.bytes]
        /\ call' = Granted(r)
        /\ UNCHANGED <<queue, queuedBytes, fate, wire>>
  /\ UNCHANGED <<pushes, counters, consumer, owed>>

\* The relay's side ends: the member's onClose releases the attachment.
RelayClose(r) ==
  /\ call = Idle
  /\ fate[r] = "open"
  /\ Drop(r, "closed")
  /\ UNCHANGED <<pushes, call, counters, shim>>

Next ==
  \/ \E r \in Attachments : \E f \in Frames[r] : Push(r, f)
  \/ Evict \/ Enforced \/ FlushStep \/ FlushEnd
  \/ \E r \in Attachments : \/ Take(r) \/ ReturnCredit(r) \/ ConsumerClose(r)
                            \/ FromConsumer(r) \/ RelayClose(r)

Spec == Init /\ [][Next]_vars

\* Ports deliver, microtasks run, loops end; nobody has to push or to close.
\* Weak fairness is enough: a loop disables the other actions only while it runs.
FairSpec ==
  /\ Spec
  /\ WF_vars(Evict \/ Enforced \/ FlushStep \/ FlushEnd)
  /\ \A r \in Attachments : WF_vars(Take(r) \/ ReturnCredit(r) \/ FromConsumer(r))

-----------------------------------------------------------------------------
(***************************************************************************)
(* Properties.                                                             *)
(***************************************************************************)
Open(r) == fate[r] = "open"
AtRest == call = Idle

\* Credit is conserved: the byte counters agree with the queue and the ledger
\* through shortened retries and grants, and while both ends are open the ledger
\* holds exactly what is on the wire, with the consumer, or on its way back.  So
\* an honest consumer is never cut off for invalid credit, however its grants
\* are batched and whatever the launcher sent meanwhile.
InFlight(r) == {i \in DOMAIN wire[r] : wire[r][i].kind = "frame"}
CreditConserved ==
  \A r \in Attachments :
    /\ fate[r] # "badcredit"
    /\ queuedBytes[r] = SumFunction([i \in DOMAIN queue[r] |-> Item(r, i).size])
    /\ pendingBytes[r] = PrefixBytes(pending[r], Len(pending[r]))
    /\ Open(r) /\ consumer[r] = "open" =>
         /\ Len(pending[r]) = Cardinality(InFlight(r)) + owed[r].frames
              + SumFunction([i \in DOMAIN back[r] |-> back[r][i].frames])
         /\ pendingBytes[r] = SumFunction([i \in InFlight(r) |-> wire[r][i].size]) + owed[r].bytes
              + SumFunction([i \in DOMAIN back[r] |-> back[r][i].bytes])

\* Limits: the sender never has more outstanding than the consumer granted,
\* except one frame that travels alone; and once a call has returned every budget
\* holds, the attachment's own queue, the endpoint's and the tab's totals.
BudgetsHold ==
  /\ \A r \in Attachments :
       /\ Len(pending[r]) <= CreditFrames
       /\ pendingBytes[r] <= CreditBytes \/ Len(pending[r]) = 1
  /\ AtRest =>
       /\ \A r \in Attachments : Len(queue[r]) <= QueueFrames /\ queuedBytes[r] <= QueueBytes
       /\ \A e \in Endpoints :
            LET S == {r \in Attachments : Open(r) /\ EndpointOf[r] = e} IN
              TotalFrames(S) <= EndpointFrames /\ TotalBytes(S) <= EndpointBytes
       /\ LET S == {r \in Attachments : Open(r)} IN
              TotalFrames(S) <= TabFrames /\ TotalBytes(S) <= TabBytes

\* Order: nothing overtakes an earlier frame of its own stream, and history
\* (normal frames) stays first-in first-out, whatever the priorities.
LanesInOrder ==
  \A r \in Attachments : \A i \in DOMAIN queue[r] : \A l \in LanesOf(Item(r, i)) :
    queue[r][i].n > lastOut[r][l]

\* With credit coming back every queued frame is sent or its receiver closed,
\* and a consumer learns of every close of the launcher's side, although only
\* a grant wakes what waits and closes cross frames and credit on the port.
QueueDrains == \A r \in Attachments : queue[r] # <<>> ~> queue[r] = <<>>
ConsumerLearns == \A r \in Attachments : ~Open(r) ~> consumer[r] = "closed"
Delivered == QueueDrains /\ ConsumerLearns
=============================================================================
