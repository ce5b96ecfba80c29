---------------------------- MODULE FileDownload ----------------------------
(***************************************************************************)
(* The download of a file's chunks from relays                             *)
(* (services/file-downloader/index.js): at most two ranges of indexes at a *)
(* time, each asking every relay in batches, a limiter of batches per      *)
(* relay that the ranges share, a total that may become known only with    *)
(* the first chunk, and a second phase that asks for any author's events.  *)
(*                                                                         *)
(* A callback of a relay with all it calls at once is a step.  Events that *)
(* do not parse, and sizes, are left out.                                  *)
(***************************************************************************)
EXTENDS Integers, Sequences, FiniteSets, FiniteSetsExt, SequencesExt

CONSTANTS
  Relays,        \* the relays, in order
  Plans,         \* downloads: [total, known, from, to, cached, holds, others, fallback, strict,
                 \* batch, window], the number of chunks and whether it is known, the
                 \* interval asked for, the chunks in store, what relays hold of the
                 \* hinted authors and of anyone, fallbackToAnyAuthor, abortOnFailure,
                 \* and the sizes of a batch and of a range
  MaxBatches     \* MAX_RELAY_BATCHES

ASSUME DownloadConstants ==
  /\ Relays \in Seq(Range(Relays)) /\ Relays # <<>> /\ \A m, n \in DOMAIN Relays : m # n => Relays[m] # Relays[n]
  /\ MaxBatches \in Nat \ {0}
  /\ \A p \in Plans :
       /\ p.total \in Nat \ {0} /\ p.batch \in Nat \ {0} /\ p.window \in Nat \ {0} /\ p.fallback \in BOOLEAN
       /\ p.from \in Nat /\ p.to \in Nat /\ p.from <= p.to /\ p.to < p.total
       /\ p.cached \subseteq p.from .. p.to
       /\ ~p.known => p.from = 0 /\ p.to = p.total - 1 /\ p.cached = {}
       /\ \A r \in Range(Relays) : p.holds[r] \subseteq p.others[r] /\ p.others[r] \subseteq 0 .. p.total - 1

VARIABLES
  plan,
  d,        \* the download: [running, total, next, begun, count, told, ranges, queue, active,
             \* cancelled]
  have,     \* history: chunks handed on
  missed    \* history: <<relay, index, any author>> of the answers that lacked it

vars == <<plan, d, have, missed>>

RelaySet == Range(Relays)
Place(r) == CHOOSE i \in DOMAIN Relays : Relays[i] = r
Unknown == 0                                    \* totalChunks is null
Discovery == Min({plan.batch * Len(Relays), plan.window})
Less(n) == Max({0, n - 1})
Length(g) == g.end - g.start + 1
Threshold(g) == (3 * Length(g) + 9) \div 10     \* 30 %, rounded up

(***************************************************************************)
(* One range.  s is the whole download; its ranges are named by their      *)
(* first index.                                                            *)
(***************************************************************************)
Of(s, k) == s.ranges[k]
Batches(s) == s.active \cup UNION {Range(s.queue[r]) : r \in RelaySet}
Running(s, k) == {b \in Batches(s) : b.range = k}

\* What a relay may still be asked for, of the hinted authors or of any.
Open(g, r, any) == {i \in g.missing : (i \in g.any) = any /\ i \notin g.tried[r][any]}

\* getBatchIndexes: relays begin at positions of their own and step over those
\* of the others, then take what is in flight elsewhere.  This is where a chunk
\* stands in the order of a relay.
Standing(g, open, r, i) ==
  LET fresh == {j \in open : g.flying[j] = 0}
      position == Cardinality({j \in fresh : j < i})
      turn == (position - Place(r) + 1) % Len(Relays)
  IN  IF i \in fresh THEN <<0, turn, IF position < Place(r) - 1 + turn THEN 1 ELSE 0, position>>
      ELSE <<1, g.flying[i], 0, i>>

Before(x, y) == \E n \in 1 .. 4 : x[n] < y[n] /\ \A m \in 1 .. n - 1 : x[m] = y[m]

Selected(g, r, any) ==
  LET open == Open(g, r, any)
      earlier(i) == {j \in open : Before(Standing(g, open, r, j), Standing(g, open, r, i))}
  IN  {i \in open : Cardinality(earlier(i)) < plan.batch}

\* RelayBatchLimiter
Drain(s, r) ==
  LET free == MaxBatches - Cardinality({b \in s.active : b.relay = r})
      n == Min({free, Len(s.queue[r])})
  IN  [s EXCEPT !.active = @ \cup {s.queue[r][i] : i \in 1 .. n},
                !.queue[r] = SubSeq(@, n + 1, Len(@))]

\* #requestFromRelay
Trying(g, r, any, chosen) ==
  [g EXCEPT !.tried[r][any] = @ \cup chosen,
            !.flying = [i \in DOMAIN @ |-> IF i \in chosen THEN @[i] + 1 ELSE @[i]]]

Request(s, k, r) ==
  LET g == Of(s, k)
      any == Selected(g, r, FALSE) = {}
      chosen == Selected(g, r, any)
      batch == [range |-> k, relay |-> r, indexes |-> chosen, any |-> any, got |-> {}, half |-> FALSE]
  IN  IF \/ ~s.running \/ k \notin DOMAIN s.ranges
         \/ \E b \in Range(s.queue[r]) : b.range = k
         \/ Cardinality({b \in Running(s, k) : b.relay = r}) >= MaxBatches
         \/ chosen = {}
      THEN s
      ELSE Drain([s EXCEPT !.ranges[k] = Trying(g, r, any, chosen), !.queue[r] = Append(@, batch)], r)

\* #scheduleRelays
ScheduleRelays(s, k) ==
  LET asked[n \in 0 .. Len(Relays)] == IF n = 0 THEN s ELSE Request(asked[n - 1], k, Relays[n])
  IN  asked[Len(Relays)]

(***************************************************************************)
(* The ranges of the file.                                                 *)
(***************************************************************************)
NewRange(start, end, max) ==
  [start |-> start, end |-> end, max |-> max, loading |-> TRUE, covered |-> {}, missing |-> {},
   any |-> {}, tried |-> [r \in RelaySet |-> [a \in BOOLEAN |-> {}]], told |-> {},
   flying |-> [i \in start .. max |-> 0]]

\* #rebuildMissingIndexes
Rebuilt(g) == [g EXCEPT !.missing = (g.start .. g.end) \ g.covered]

\* What is in store is covered.
Filled(g) == Rebuilt([g EXCEPT !.loading = FALSE, !.covered = plan.cached \cap (g.start .. g.end)])

\* setTotalChunks of the range
Totalled(g, total) ==
  LET end == Min({g.max, total - 1})
  IN  Rebuilt([g EXCEPT !.end = end, !.covered = @ \cap (0 .. end)])

\* A chunk has come.
Taken(g, i) == [g EXCEPT !.missing = @ \ {i}, !.covered = @ \cup {i}, !.flying[i] = 0]

\* Chunks are sought of any author, or told lost.
Marked(g, again, told) == [g EXCEPT !.any = @ \cup again, !.told = @ \cup told]

Starting(ranges, g) == [k \in DOMAIN ranges \cup {g.start} |-> IF k = g.start THEN g ELSE ranges[k]]

StartNextRange(s) ==
  LET end == Min({s.next + plan.window - 1, plan.to}) IN
  IF ~s.running \/ Cardinality(DOMAIN s.ranges) >= 2 THEN s
  ELSE IF s.total = Unknown
  THEN IF s.begun THEN s
       ELSE [s EXCEPT !.begun = TRUE, !.next = plan.window,
                      !.ranges = Starting(@, NewRange(0, Discovery - 1, plan.window - 1))]
  ELSE IF s.next > plan.to THEN s
  ELSE [s EXCEPT !.begun = TRUE, !.next = end + 1,
                 !.ranges = Starting(@, NewRange(s.next, end, end))]

Finish(s) ==
  [s EXCEPT !.running = FALSE, !.ranges = <<>>, !.active = {}, !.queue = [r \in RelaySet |-> <<>>]]

\* #handleCoverage
Coverage(s, k) == IF Cardinality(Of(s, k).covered) >= Threshold(Of(s, k)) THEN StartNextRange(s) ELSE s

Without(s, k) == [j \in DOMAIN s.ranges \ {k} |-> s.ranges[j]]

\* Mutant: a range that ends starts no other.
RangeFinishedOnly(s, k) ==
  LET rest == [s EXCEPT !.ranges = Without(s, k)]
  IN  IF DOMAIN rest.ranges = {} /\ (rest.total = Unknown \/ rest.next > plan.to) THEN Finish(rest) ELSE rest

\* #handleRangeFinished
RangeFinished(s, k) ==
  LET rest == [s EXCEPT !.ranges = Without(s, k)]
      more == IF DOMAIN rest.ranges = {} THEN StartNextRange(rest)
              ELSE LET o == CHOOSE o \in DOMAIN rest.ranges : TRUE
                   IN  IF rest.ranges[o].loading THEN rest ELSE Coverage(rest, o)
  IN  IF DOMAIN more.ranges = {} /\ (more.total = Unknown \/ more.next > plan.to) THEN Finish(more) ELSE more

\* Mutant: a chunk is given up while a relay is still asked for it.
ExhaustedEarly(s, g, i) ==
  /\ i \in g.missing \ g.told
  /\ s.total # Unknown \/ i = 0
  /\ \A r \in RelaySet : i \in g.tried[r][(i \in g.any)]

Exhausted(s, g, i) ==
  /\ i \in g.missing \ g.told /\ g.flying[i] = 0
  /\ s.total # Unknown \/ i = 0
  /\ \A r \in RelaySet : i \in g.tried[r][(i \in g.any)]

\* The chunks that are sought of any author now, and those that nobody has.
Again(s, k, indexes) ==
  IF plan.fallback THEN {i \in indexes : Exhausted(s, Of(s, k), i) /\ i \notin Of(s, k).any} ELSE {}
Lost(s, k, indexes) == {i \in indexes : Exhausted(s, Of(s, k), i)} \ Again(s, k, indexes)

\* What may be told of the lost: a strict download ends with the first.
Reports(lost) == IF plan.strict /\ lost # {} THEN {{i} : i \in lost} ELSE {lost}

\* #checkExhaustedIndexes, told is one of the reports
CheckExhausted(s, k, indexes, told) ==
  LET again == Again(s, k, indexes)
      marked == [s EXCEPT !.ranges[k] = Marked(@, again, told), !.told = @ \cup told]
  IN  IF plan.strict /\ told # {} THEN Finish(marked) ELSE marked

\* Mutant: a range ends though batches of it are under way.
MaybeFinishEarly(s, k) ==
  IF ~s.running \/ k \notin DOMAIN s.ranges \/ Of(s, k).loading THEN s ELSE RangeFinished(s, k)

\* #maybeFinish
MaybeFinish(s, k) ==
  IF ~s.running \/ k \notin DOMAIN s.ranges \/ Running(s, k) # {} THEN s
  ELSE LET asked == IF Of(s, k).missing = {} THEN s ELSE ScheduleRelays(s, k) IN
       IF Running(asked, k) # {} THEN asked
       ELSE LET lost == Lost(asked, k, Of(asked, k).missing)
                told == IF plan.strict THEN {i \in lost : \A j \in lost : i <= j} ELSE lost
                checked == CheckExhausted(asked, k, Of(asked, k).missing, told)
            IN  IF checked.running THEN RangeFinished(checked, k) ELSE checked

\* setTotalChunks of the downloader
SetTotal(s, k, total) ==
  LET known == [s EXCEPT !.total = total, !.ranges[k] = Totalled(@, total)]
  IN  ScheduleRelays(Coverage(known, k), k)

(***************************************************************************)
(* Steps.                                                                  *)
(***************************************************************************)
Idle == [running |-> TRUE, total |-> IF plan.known THEN plan.total ELSE Unknown, next |-> plan.from,
         begun |-> FALSE, count |-> Cardinality(plan.cached), told |-> {}, ranges |-> <<>>,
         queue |-> [r \in RelaySet |-> <<>>], active |-> {}, cancelled |-> FALSE]

Init ==
  /\ plan \in Plans
  /\ d = IF plan.known /\ Cardinality(plan.cached) = plan.to - plan.from + 1
         THEN [Idle EXCEPT !.running = FALSE] ELSE StartNextRange(Idle)
  /\ have = plan.cached
  /\ missed = {}

\* #loadAndRunRange: the chunks in store are known, and the range runs.
Load(k) ==
  LET loaded == [d EXCEPT !.ranges[k] = Filled(@)] IN
  /\ d.ranges[k].loading
  /\ d' = MaybeFinish(ScheduleRelays(Coverage(loaded, k), k), k)
  /\ UNCHANGED <<plan, have, missed>>

Holds(b) == IF b.any THEN plan.others[b.relay] ELSE plan.holds[b.relay]

\* An event of a batch: #downloadBatch
Receive(b, i) ==
  LET k == b.range
      half == 2 * (Cardinality(b.got) + 1) >= Cardinality(b.indexes)
      heard == [b EXCEPT !.got = @ \cup {i}, !.half = half]
      counted == [d EXCEPT !.active = (@ \ {b}) \cup {heard}]
      asked == IF half /\ ~b.half THEN Request(counted, k, b.relay) ELSE counted
      known == IF asked.total = Unknown THEN SetTotal(asked, k, plan.total) ELSE asked
      taken == [known EXCEPT !.ranges[k] = Taken(@, i), !.count = @ + 1]
  IN
  /\ b \in d.active /\ i \in (b.indexes \cap Holds(b)) \ b.got
  /\ IF i \in Of(known, k).missing
     THEN d' = Coverage(taken, k) /\ have' = have \cup {i}
     ELSE d' = known /\ UNCHANGED have
  /\ UNCHANGED <<plan, missed>>

\* Mutant: a chunk asked of two relays is in flight no more when one answers.
LandedAll(g, left) == [g EXCEPT !.flying = [i \in DOMAIN @ |-> IF i \in left THEN 0 ELSE @[i]]]

Landed(g, left) == [g EXCEPT !.flying = [i \in DOMAIN @ |-> IF i \in left THEN Less(@[i]) ELSE @[i]]]

\* The answer ends: the relay is done, closed, or late.  The first chunk of the
\* batch that is lost may be any, by the order in which the batch took them.
Answered(b) ==
  LET k == b.range
      left == b.indexes \cap d.ranges[k].missing
      freed == Drain([d EXCEPT !.active = @ \ {b}, !.ranges[k] = Landed(@, left)], b.relay)
      checked(told) == CheckExhausted(freed, k, b.indexes, told)
  IN
  /\ b \in d.active
  /\ missed' = missed \cup {<<b.relay, i, b.any>> : i \in left}
  /\ \E told \in Reports(Lost(freed, k, b.indexes)) :
       d' = IF checked(told).running THEN MaybeFinish(ScheduleRelays(checked(told), k), k) ELSE checked(told)
  /\ UNCHANGED <<plan, have>>

\* abort
Cancel ==
  /\ d.running
  /\ d' = [Finish(d) EXCEPT !.cancelled = TRUE]
  /\ UNCHANGED <<plan, have, missed>>

Step ==
  \/ \E k \in DOMAIN d.ranges : Load(k)
  \/ \E b \in d.active : Answered(b) \/ \E i \in b.indexes : Receive(b, i)
Next == Step \/ Cancel

Spec == Init /\ [][Next]_vars

-----------------------------------------------------------------------------
\* The counters follow what they count: every chunk is handed on once, whichever
\* of the answers that hold it come, and what is in flight are the batches,
\* though one that ends skips the chunks that came meanwhile and a total
\* shortens the range.
CountsAgree ==
  /\ d.count = Cardinality(have)
  /\ \A k \in DOMAIN d.ranges : \A i \in d.ranges[k].missing :
       d.ranges[k].flying[i] = Cardinality({b \in Running(d, k) : i \in b.indexes})

\* A chunk is reported missing when every relay has answered without it, also
\* when asked for any author's.
MissingWasAsked ==
  \A i \in d.told : \A r \in RelaySet : <<r, i, plan.fallback>> \in missed

\* A download that ends by itself has each chunk or has reported it.  It is
\* not so when a total that was unknown is learnt while the phase of any
\* author is still to come: the range then ends with chunks that are neither.
EndIsAccounted ==
  ~d.running /\ ~d.cancelled /\ (plan.known \/ ~plan.fallback) =>
    \/ plan.from .. plan.to \subseteq have \cup d.told
    \/ plan.strict /\ d.told # {}
    \/ d.total = Unknown /\ 0 \in d.told

\* A download that runs waits for an answer: each answer is one of a bounded
\* number, so that it ends.
NoStall == d.running => d.active # {} \/ \E k \in DOMAIN d.ranges : d.ranges[k].loading
=============================================================================
