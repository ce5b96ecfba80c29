-------------------------- MODULE AccountCoverage --------------------------
(***************************************************************************)
(* Import of an account's history from a relay (services/account-events.js,*)
(* account-event-pages.js, account-event-coverage.js and                   *)
(* account-coverage-checkpoints.js): groups of kinds scan windows of time  *)
(* page by page, store what they read, and record the completed windows as *)
(* coverage by one shared, batched queue.                                  *)
(*                                                                         *)
(* One account, one relay and one tab that is opened again and again; of   *)
(* other tabs only their reading of records.  Time is counted in seconds   *)
(* and stands still during a session.  Live progress, retired groups and   *)
(* retired kinds are left out.                                             *)
(***************************************************************************)
EXTENDS Integers, Sequences, FiniteSets, FiniteSetsExt, SequencesExt

CONSTANTS
  Kinds, Groups,
  KindsOf,            \* [Groups -> SUBSET Kinds], disjoint
  Events, TimeOf, KindOf,   \* what the relay has
  PageSize,           \* ACCOUNT_PAGE_SIZE
  Overlap,            \* ACCOUNT_OVERLAP_SECONDS
  Clock,              \* the time of each session
  None,
  MaxFaults           \* bound: resets of the database, failed pages and transactions

ASSUME CoverageConstants ==
  /\ IsFiniteSet(Kinds) /\ IsFiniteSet(Events)
  /\ KindsOf \in [Groups -> (SUBSET Kinds) \ {{}}]
  /\ \A g, h \in Groups : g # h => KindsOf[g] \cap KindsOf[h] = {}
  /\ TimeOf \in [Events -> Nat] /\ KindOf \in [Events -> Kinds]
  /\ PageSize \in Nat \ {0} /\ Overlap \in Nat
  /\ Clock \in Seq(Nat) /\ Clock # <<>> /\ \A m, n \in DOMAIN Clock : m <= n => Clock[m] <= Clock[n]
  /\ MaxFaults \in Nat
  /\ None \notin Nat

VARIABLES
  generation,  \* the registry's generation, or None when the database is new
  coverage,    \* [Kinds -> intervals of its row, or None without a row]
  stored,      \* events in the database
  session,     \* the tab's session: an index of Clock
  faults,      \* bounded counter
  clean,       \* history: no fault since the session began
  stage,       \* [Groups -> {"begin", "recent", "backfill"}], where its run is
  step,        \* [Groups -> {"job", "feed", "scan", "flush"}]
  records,     \* [Groups -> the generation of the records it has read, or None]
  jobs,        \* [Groups -> SUBSET windows], still to be scanned
  pending,     \* [Groups -> Seq(windows)], the stack of pages to ask for
  page,        \* [Groups -> [window, got, left], or None], the page asked for
  failed,      \* groups whose scan has thrown and only flushes
  queued,      \* checkpoint requests that nobody has taken
  running,     \* batches taken, in their order
  timer,       \* the 50 ms timer is armed
  failure,     \* a rejected batch that no flush has thrown yet
  barrier,     \* [Groups -> Nat], batches a flush still waits for
  flushing     \* groups in flush, in the order in which they began to wait

database == <<generation, coverage, stored>>
limits == <<session, faults, clean>>
scanning == <<records, jobs, pending, page, failed>>
queue == <<queued, running, timer, failure, barrier, flushing>>
vars == <<database, limits, stage, step, scanning, queue>>

now == Clock[session]
Since == Max({0, now - Overlap})
Window(lo, hi, kinds) == [lo |-> lo, hi |-> hi, kinds |-> kinds]
Cells(intervals) == UNION {i[1]..i[2] : i \in ToSet(intervals)}
Covered(k) == IF coverage[k] = None THEN {} ELSE Cells(coverage[k])

Init ==
  /\ generation = None /\ coverage = [k \in Kinds |-> None] /\ stored = {}
  /\ session = 1 /\ faults = 0 /\ clean = TRUE
  /\ records = [g \in Groups |-> None] /\ jobs = [g \in Groups |-> {}]
  /\ pending = [g \in Groups |-> <<>>] /\ page = [g \in Groups |-> None] /\ failed = {}
  /\ stage = [g \in Groups |-> "begin"] /\ step = [g \in Groups |-> "job"]
  /\ queued = {} /\ running = <<>> /\ timer = FALSE /\ failure = FALSE
  /\ barrier = [g \in Groups |-> 0] /\ flushing = <<>>

\* A flush whose batches are done continues before any other task.
Ready(g) == step[g] = "flush" /\ barrier[g] = 0
Quiet == \A g \in Groups : ~Ready(g)

-----------------------------------------------------------------------------
\* mergeCoverage and missingCoverage.

Touches(last, r) == r[1] <= last[2] + 1

Before(r, s) == r[1] < s[1] \/ (r[1] = s[1] /\ r[2] < s[2])
Sorted(ranges) ==
  CHOOSE s \in [1..Cardinality(ranges) -> ranges] : \A m, n \in DOMAIN s : m < n => Before(s[m], s[n])

\* One more range: it prolongs the last interval or becomes one of its own.
Merged(done, r) ==
  IF done # <<>> /\ Touches(Last(done), r)
  THEN [done EXCEPT ![Len(done)] = <<@[1], Max({@[2], r[2]})>>]
  ELSE Append(done, r)

MergeCoverage(ranges) ==
  LET s == Sorted(ranges)
      merged[n \in 0..Cardinality(ranges)] == IF n = 0 THEN <<>> ELSE Merged(merged[n - 1], s[n])
  IN  merged[Cardinality(ranges)]

Behind(since, i) == Max({since, i[2] + 1})

Gap(a, b) == IF a <= b THEN {<<a, b>>} ELSE {}

\* One more interval: what is missing before it, and where the rest begins.
Passed(seen, i, hi) ==
  IF i[2] < seen.since \/ i[1] > hi THEN seen
  ELSE [since |-> Behind(seen.since, i), gaps |-> seen.gaps \cup Gap(seen.since, i[1] - 1)]

MissingCoverage(intervals, lo, hi) ==
  LET seen[n \in 0..Len(intervals)] ==
        IF n = 0 THEN [since |-> lo, gaps |-> {}] ELSE Passed(seen[n - 1], intervals[n], hi)
      end == seen[Len(intervals)]
  IN  end.gaps \cup Gap(end.since, hi)

-----------------------------------------------------------------------------
\* accountEventPages: one page after the other.

\* What the relay has in a window, and a page of the newest of it.
Matching(w) == {e \in Events : KindOf[e] \in w.kinds /\ TimeOf[e] \in w.lo..w.hi}
Pages(w) ==
  LET all == Matching(w)
  IN  {got \in kSubset(Min({PageSize, Cardinality(all)}), all) :
         \A e \in got, f \in all \ got : TimeOf[e] >= TimeOf[f]}

\* A page is asked for; its events come one by one.
Ask(g, w) == \E got \in Pages(w) : page' = [page EXCEPT ![g] = [window |-> w, got |-> got, left |-> got]]

Full(p) == Cardinality(p.got) >= PageSize
Oldest(p) == Min({TimeOf[e] : e \in p.got})

Middle(p) == Max({p.window.lo, Oldest(p) - 1})

\* A page that is not full is complete, and so is one author, kind and second
\* however many events it has.
Complete(p) == ~Full(p) \/ (p.window.lo = p.window.hi /\ Cardinality(p.window.kinds) = 1)

\* Mutant: a second between the halves is asked for by nobody.
TimeHalvesApart(w, middle) == <<[w EXCEPT !.hi = middle], [w EXCEPT !.lo = Min({w.hi, middle + 2})]>>

TimeHalves(w, middle) == <<[w EXCEPT !.hi = middle], [w EXCEPT !.lo = middle + 1]>>

\* The two parts of a window that are asked for instead, the next one last: the
\* seconds up to the oldest event of the page and the rest, or half of the kinds.
Halves(p) ==
  LET w == p.window
      half == (Cardinality(w.kinds) + 1) \div 2
  IN  IF w.lo < w.hi THEN {TimeHalves(w, Middle(p))}
      ELSE {<<[w EXCEPT !.kinds = @ \ first], [w EXCEPT !.kinds = first]>> : first \in kSubset(half, w.kinds)}

Request(g, w) ==
  [group |-> g, generation |-> records[g], kinds |-> w.kinds, lo |-> w.lo, hi |-> w.hi]

\* persist: one event is committed before the next one is taken.
Persist(g) ==
  /\ Quiet /\ page[g] # None
  /\ \E e \in page[g].left :
       /\ \A f \in page[g].left : TimeOf[f] <= TimeOf[e]
       /\ stored' = stored \cup {e}
       /\ page' = [page EXCEPT ![g].left = @ \ {e}]
  /\ UNCHANGED <<generation, coverage, limits, stage, step, records, jobs, pending, failed, queue>>

\* drain: everything queued becomes one batch behind those before it.
Drain(requests) ==
  /\ queued' = {}
  /\ running' = IF requests = {} THEN running ELSE Append(running, requests)

\* Mutant: a flush does not wait for a batch that is under way.
BarrierIfQueued(requests) == IF requests = {} THEN 0 ELSE Len(running) + 1

\* The batches a flush waits for once it has taken its own.
Barrier(requests) == IF requests = {} THEN Len(running) ELSE Len(running) + 1

\* A flush at its start, and again whenever it finds more requests.
Waits(g, requests) ==
  /\ Drain(requests)
  /\ barrier' = [barrier EXCEPT ![g] = Barrier(requests)]
  /\ flushing' = Append(SelectSeq(flushing, LAMBDA h : h # g), g)

\* The generator goes on: it asks for the next page of the stack, or it has
\* ended and the scan flushes.
GoOn(g, stack, requests) ==
  \/ /\ stack # <<>>
     /\ Ask(g, Last(stack)) /\ pending' = [pending EXCEPT ![g] = Front(stack)]
     /\ step' = [step EXCEPT ![g] = "scan"]
     /\ queued' = requests /\ timer' = (timer \/ requests # queued)
     /\ UNCHANGED <<running, barrier, flushing>>
  \/ /\ stack = <<>>
     /\ page' = [page EXCEPT ![g] = None] /\ pending' = [pending EXCEPT ![g] = <<>>]
     /\ step' = [step EXCEPT ![g] = "flush"]
     /\ timer' = FALSE /\ Waits(g, requests)

\* The page is read: its window is handed to the queue, or divided.
PageRead(g) ==
  /\ Quiet /\ page[g] # None /\ page[g].left = {}
  /\ \/ /\ Complete(page[g])
        /\ GoOn(g, pending[g], queued \cup {Request(g, page[g].window)})
     \/ /\ ~Complete(page[g])
        /\ \E halves \in Halves(page[g]) : GoOn(g, pending[g] \o halves, queued)
  /\ UNCHANGED <<database, limits, stage, records, jobs, failed, failure>>

\* The relay, the pool or the store fails: the scan throws and flushes what it
\* has.  The feed's snapshot is not part of a scan: its run begins again.
PageFails(g) ==
  /\ Quiet /\ page[g] # None /\ faults < MaxFaults
  /\ faults' = faults + 1 /\ clean' = FALSE
  /\ page' = [page EXCEPT ![g] = None] /\ pending' = [pending EXCEPT ![g] = <<>>]
  /\ \/ /\ step[g] = "feed"
        /\ stage' = [stage EXCEPT ![g] = "begin"] /\ step' = [step EXCEPT ![g] = "job"]
        /\ records' = [records EXCEPT ![g] = None] /\ jobs' = [jobs EXCEPT ![g] = {}]
        /\ UNCHANGED <<failed, queue>>
     \/ /\ step[g] = "scan"
        /\ step' = [step EXCEPT ![g] = "flush"]
        /\ failed' = failed \cup {g}
        /\ timer' = FALSE /\ Waits(g, queued)
        /\ UNCHANGED <<stage, records, jobs, failure>>
  /\ UNCHANGED <<database, session>>

-----------------------------------------------------------------------------
\* A group's run: the snapshot of the live feed, the catch-up of the time since
\* the last session, and the backfill of everything older.

\* coverage.read: the registry and the rows are created where they are missing.
Registry == IF generation = None THEN faults ELSE generation
Row(k) == IF coverage[k] = None THEN <<>> ELSE coverage[k]

ReadRecords(g) ==
  /\ generation' = Registry
  /\ coverage' = [k \in Kinds |-> IF k \in KindsOf[g] THEN Row(k) ELSE coverage[k]]
  /\ records' = [records EXCEPT ![g] = Registry]
  /\ UNCHANGED stored

\* combineJobs: kinds with the same bounds share a window.
Combined(g, gaps) ==
  {Window(r[1], r[2], {k \in KindsOf[g] : r \in gaps[k]}) : r \in UNION {gaps[k] : k \in KindsOf[g]}}

CatchupFrom(intervals) == Max({0, Last(intervals)[2] - Overlap})

Catchups(g) ==
  Combined(g, [k \in KindsOf[g] |->
    IF Row(k) # <<>> /\ CatchupFrom(Row(k)) < Since THEN {<<CatchupFrom(Row(k)), Since - 1>>} ELSE {}])

Backlog(g) == Combined(g, [k \in KindsOf[g] |-> MissingCoverage(Row(k), 0, Since - 1)])

\* The catch-up is that of the records as they are read here.
Begin(g) ==
  /\ Quiet /\ stage[g] = "begin"
  /\ ReadRecords(g)
  /\ stage' = [stage EXCEPT ![g] = "recent"] /\ step' = [step EXCEPT ![g] = "feed"]
  /\ Ask(g, Window(Since, now, KindsOf[g]))
  /\ jobs' = [jobs EXCEPT ![g] = Catchups(g)]
  /\ UNCHANGED <<limits, pending, failed, queue>>

\* The newest windows go first.
NextJob(g) ==
  /\ Quiet /\ step[g] = "job" /\ jobs[g] # {}
  /\ \E w \in jobs[g] :
       /\ \A x \in jobs[g] : x.hi <= w.hi
       /\ jobs' = [jobs EXCEPT ![g] = @ \ {w}]
       /\ Ask(g, w)
  /\ step' = [step EXCEPT ![g] = "scan"]
  /\ UNCHANGED <<database, limits, stage, records, pending, failed, queue>>

Backfill(g) ==
  /\ Quiet /\ stage[g] = "recent" /\ step[g] = "job" /\ jobs[g] = {}
  /\ ReadRecords(g)
  /\ stage' = [stage EXCEPT ![g] = "backfill"] /\ jobs' = [jobs EXCEPT ![g] = Backlog(g)]
  /\ UNCHANGED <<limits, step, pending, page, failed, queue>>

-----------------------------------------------------------------------------
\* The checkpoint queue.

TimerFires ==
  /\ Quiet /\ timer
  /\ timer' = FALSE /\ Drain(queued)
  /\ UNCHANGED <<database, limits, stage, step, scanning, failure, barrier, flushing>>

\* Mutant: the generation of the records is not compared.
ObsoleteMissing(batch) == generation = None \/ \E r \in batch, k \in Kinds : k \in r.kinds /\ coverage[k] = None

\* markBatch: one request of an erased database rejects the whole batch.
Obsolete(batch) ==
  \E r \in batch : generation # r.generation \/ \E k \in r.kinds : coverage[k] = None

Marked(batch) ==
  [k \in Kinds |->
     LET ranges == {<<r.lo, r.hi>> : r \in {x \in batch : k \in x.kinds}}
     IN  IF ranges = {} THEN coverage[k] ELSE MergeCoverage(ToSet(coverage[k]) \cup ranges)]

\* A batch is over: those who wait come nearer, and the timer is armed for what
\* was queued meanwhile.
BatchOver ==
  /\ Quiet /\ running # <<>>
  /\ running' = Tail(running)
  /\ barrier' = [g \in Groups |-> Max({0, barrier[g] - 1})]
  /\ timer' = (timer \/ queued # {})
  /\ UNCHANGED <<generation, stored, session, stage, step, scanning, queued, flushing>>

BatchCommits ==
  /\ BatchOver
  /\ ~Obsolete(Head(running))
  /\ coverage' = Marked(Head(running))
  /\ UNCHANGED <<faults, clean, failure>>

BatchRejected ==
  /\ BatchOver
  /\ failure' = TRUE
  /\ \/ /\ Obsolete(Head(running))
        /\ UNCHANGED <<faults, clean>>
     \/ /\ faults < MaxFaults  \* the transaction fails
        /\ faults' = faults + 1 /\ clean' = FALSE
  /\ UNCHANGED coverage

First(g) == Ready(g) /\ \A n \in DOMAIN flushing : Ready(flushing[n]) => \E m \in 1..n : flushing[m] = g

FlushAgain(g) ==
  /\ First(g) /\ queued # {}
  /\ Waits(g, queued)
  /\ UNCHANGED <<database, limits, stage, step, scanning, timer, failure>>

\* A failed backfill reads its records again, any other attempt begins again;
\* with an error of a page that is not worth a retry nothing is left to do.
AfterFailure(g) ==
  {IF stage[g] = "backfill" THEN "recent" ELSE "begin"} \cup {x \in {"backfill"} : g \in failed}

\* The scan is over; or it throws, its own error or that of a rejected batch.
FlushEnds(g) ==
  /\ First(g) /\ queued = {}
  /\ flushing' = SelectSeq(flushing, LAMBDA h : h # g)
  /\ step' = [step EXCEPT ![g] = "job"]
  /\ failure' = FALSE /\ failed' = failed \ {g}
  /\ \/ /\ ~failure /\ g \notin failed
        /\ UNCHANGED <<stage, records, jobs>>
     \/ /\ failure \/ g \in failed
        /\ records' = [records EXCEPT ![g] = None] /\ jobs' = [jobs EXCEPT ![g] = {}]
        /\ \E next \in AfterFailure(g) : stage' = [stage EXCEPT ![g] = next]
  /\ UNCHANGED <<database, limits, pending, page, queued, running, timer, barrier>>

-----------------------------------------------------------------------------
\* The database is erased (owner cleanup in another tab), or the tab ends at
\* any moment and the next session begins later.

Reset ==
  /\ Quiet /\ faults < MaxFaults
  /\ generation' = None /\ coverage' = [k \in Kinds |-> None] /\ stored' = {}
  /\ faults' = faults + 1 /\ clean' = FALSE
  /\ UNCHANGED <<session, stage, step, scanning, queue>>

\* Another tab reads records that are missing since then.
OtherTabReads(g) ==
  /\ generation' = Registry
  /\ coverage' = [k \in Kinds |-> IF k \in KindsOf[g] THEN Row(k) ELSE coverage[k]]
  /\ UNCHANGED <<stored, limits, stage, step, scanning, queue>>

Restart ==
  /\ session < Len(Clock)
  /\ session' = session + 1 /\ clean' = TRUE
  /\ records' = [g \in Groups |-> None] /\ jobs' = [g \in Groups |-> {}]
  /\ pending' = [g \in Groups |-> <<>>] /\ page' = [g \in Groups |-> None] /\ failed' = {}
  /\ stage' = [g \in Groups |-> "begin"] /\ step' = [g \in Groups |-> "job"]
  /\ queued' = {} /\ running' = <<>> /\ timer' = FALSE /\ failure' = FALSE
  /\ barrier' = [g \in Groups |-> 0] /\ flushing' = <<>>
  /\ UNCHANGED <<database, faults>>

\* What the tab does of itself while it runs.
Work ==
  \/ \E g \in Groups : \/ Begin(g) \/ NextJob(g) \/ Backfill(g) \/ Persist(g) \/ PageRead(g)
                       \/ FlushAgain(g) \/ FlushEnds(g)
  \/ TimerFires \/ BatchCommits \/ BatchRejected

Next == Work \/ (\E g \in Groups : PageFails(g) \/ OtherTabReads(g)) \/ Reset \/ Restart

Spec == Init /\ [][Next]_vars

\* A tab that runs goes on with something: an answer of the relay, a task of
\* the database or a timer.
FairSpec == Spec /\ WF_vars(Work)

-----------------------------------------------------------------------------
(***************************************************************************)
(* Properties.                                                             *)
(***************************************************************************)
Held(k, t) == {e \in Events : KindOf[e] = k /\ TimeOf[e] = t}

\* Coverage never speaks of what the database does not hold: every event the
\* relay has for a covered second and kind is stored, whatever crashed, failed
\* or was erased meanwhile - unless one second has more than a page of them,
\* which the code accepts with a warning.
CoverageHonest ==
  \A k \in Kinds : \A t \in Covered(k) :
    Held(k, t) \subseteq stored \/ Cardinality(Held(k, t)) > PageSize

Requests(g) == {r \in queued \cup UNION ToSet(running) : r.group = g}

\* "Scan completion awaits the checkpoint barrier" (docs/nostrdb.md): between
\* its scans a group has no request in the queue or in a batch, whoever took it.
ScanAwaitsQueue == \A g \in Groups : step[g] = "job" => Requests(g) = {}

\* A session in which nothing fails any more leaves no second uncovered,
\* whatever state earlier sessions left behind.
SessionCovers == <>[]clean => <>(\A k \in Kinds : 0..now \subseteq Covered(k))
=============================================================================
