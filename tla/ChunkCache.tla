----------------------------- MODULE ChunkCache -----------------------------
(***************************************************************************)
(* The shared chunk cache (services/idb/browser/queries/chunk-cache.js)    *)
(* and the code of the NostrDB store that feeds it, repairs it and purges  *)
(* it (services/idb/nostrdb/index.js).  The event of a chunk is a row of   *)
(* its owner's database; its bytes are a payload of one shared database.   *)
(* No transaction covers both, a page may close between two of them, and   *)
(* ingestion, deferred repairs, maintenance and purges interleave.         *)
(*                                                                         *)
(* Every transaction of the shared database holds a lock and is one step;  *)
(* so is every transaction of an owner's database.  The content of a chunk *)
(* follows from its root and index, as the root authenticates it.          *)
(***************************************************************************)
EXTENDS Integers, FiniteSets, FiniteSetsExt

CONSTANTS
  Owners, Roots, Hashes,
  Chunks,        \* chunks, numbered in the order of [root, index]
  RootOf, HashOf,
  Size,          \* bytes of a content
  Quota,         \* CHUNK_UNREFERENCED_QUOTA_BYTES
  PurgeBatch,    \* CHUNK_PURGE_BATCH_SIZE
  Plans,         \* what may happen: [adds, references, leavers, deletes, crashes],
                 \* the chunk events that arrive, as [owner, chunk, id], the roots that
                 \* events of an owner may cite, the owners that may become read-only,
                 \* and the bounds of deletions and of pages that close
  Keeper,        \* the task of startGlobalChunkMaintenance
  NoPayload, NoRoot

Adds == UNION {p.adds : p \in Plans}
Workers == Adds \cup {Keeper}

\* A payload's counts, of which one is of the copies, and an owner's root.
Payloads == [copies : Nat, pending : Nat, protected : Nat, pendingProtected : Nat]
RootRecords == [referenced : BOOLEAN, count : Nat, chunks : Nat]

ASSUME ChunkConstants ==
  /\ IsFiniteSet(Owners) /\ IsFiniteSet(Roots) /\ IsFiniteSet(Hashes)
  /\ IsFiniteSet(Chunks) /\ Chunks \subseteq Nat \ {0}
  /\ RootOf \in [Chunks -> Roots] /\ HashOf \in [Chunks -> Hashes] /\ Size \in [Hashes -> Nat]
  /\ Quota \in Nat /\ PurgeBatch \in Nat \ {0}
  /\ NoPayload \notin Payloads /\ NoRoot \notin RootRecords
  /\ \A p \in Plans :
       /\ p.adds \subseteq [owner : Owners, chunk : Chunks, id : Nat \ {0}]
       /\ p.references \subseteq Owners \X Roots /\ p.leavers \subseteq Owners
       /\ p.deletes \in Nat /\ p.crashes \in Nat

VARIABLES
  plan,      \* what may happen
  row,       \* events stores: [Owners -> [Chunks -> id of the event, 0 for none]]
  cites,     \* events stores: <<owner, root>> of the stored events that cite a root
  cache,     \* the shared stores: [payload, copy, assoc, root, totals]
  add,       \* addEvent of a chunk: [Adds -> [pc, n, staged]]
  purge,     \* purgeChunkRoot: [Workers -> [pc, owner, root, force]]
  keep,      \* maintainAllChunkCaches: [pc, owner, todo, item, protect]
  later,     \* hooks that run after a transaction completed
  leaving,   \* owners whose database is gone and whose cache is being cleared
  gone,      \* owners without access
  deletes, crashes

chunkVars == <<plan, row, cites, cache, add, purge, keep, later, leaving, gone, deletes, crashes>>
tasks == <<add, purge, keep, later>>

Count(o, r) == IF <<o, r>> \in cites THEN 1 ELSE 0        \* countBlobReferences
ChunksOf(r) == {c \in Chunks : RootOf[c] = r}
Less(n) == Max({0, n - 1})

(***************************************************************************)
(* Transactions of the shared database, as functions of its stores.        *)
(***************************************************************************)
Contribution(p, h) ==
  IF p = NoPayload \/ p.protected > 0 \/ p.pendingProtected > 0 THEN 0 ELSE Size[h]
ContributionOf(payloads) == [h \in Hashes |-> Contribution(payloads[h], h)]

BytesOf(payloads) == [h \in Hashes |-> IF payloads[h] = NoPayload THEN 0 ELSE Size[h]]

\* Mutant: a payload goes when no stage holds it.
KeptIfStaged(payloads, touched) ==
  [h \in Hashes |-> IF h \in touched /\ payloads[h] # NoPayload /\ payloads[h].pending = 0
                    THEN NoPayload ELSE payloads[h]]

\* Of the payloads touched, one without copies and stages goes.
Kept(payloads, touched) ==
  [h \in Hashes |->
     IF h \in touched /\ payloads[h] # NoPayload /\ payloads[h].copies = 0 /\ payloads[h].pending = 0
     THEN NoPayload ELSE payloads[h]]

\* A total after a function over the payloads touched changed.
Moved(total, before, after, touched) ==
  Max({0, total + SumFunctionOnSet(after, touched) - SumFunctionOnSet(before, touched)})

\* flushPayloads: the counters follow the payloads touched.
Flush(db, payloads, touched) ==
  LET kept == Kept(payloads, touched) IN
  [db EXCEPT
     !.payload = kept,
     !.totals = [bytes |-> Moved(@.bytes, BytesOf(db.payload), BytesOf(kept), touched),
                 unreferenced |-> Moved(@.unreferenced, ContributionOf(db.payload), ContributionOf(kept), touched),
                 copies |-> Max({0, @.copies})]]

OverQuota(h, protect) ==
  /\ cache.payload[h] = NoPayload /\ ~protect
  /\ cache.totals.unreferenced + Size[h] > Quota

Stage(db, h, protect) ==
  LET p == IF db.payload[h] = NoPayload
           THEN [copies |-> 0, pending |-> 0, protected |-> 0, pendingProtected |-> 0]
           ELSE db.payload[h]
      staged == [p EXCEPT !.pending = @ + 1,
                          !.pendingProtected = @ + IF protect THEN 1 ELSE 0]
  IN  Flush(db, [db.payload EXCEPT ![h] = staged], {h})

Unstaged(p, protect) ==
  [p EXCEPT !.pending = Less(@), !.pendingProtected = IF protect THEN Less(@) ELSE @]

AbortStage(db, h, protect) ==
  IF db.payload[h] = NoPayload THEN db
  ELSE Flush(db, [db.payload EXCEPT ![h] = Unstaged(@, protect)], {h})

LessProtected(p) == IF p = NoPayload THEN p ELSE [p EXCEPT !.protected = Less(@)]
LessCopies(p) == IF p = NoPayload THEN p ELSE [p EXCEPT !.copies = Less(@)]

\* updateAssociation with a delta of one: the counts of [owner, root, content]
\* and of the payload, which is protected once for each referenced root.
Linked(db, o, r, h, referenced) ==
  [db EXCEPT !.assoc[o][r][h] = @ + 1,
             !.payload[h].protected = @ + IF db.assoc[o][r][h] = 0 /\ referenced THEN 1 ELSE 0]
Unlinked(db, o, r, h, referenced) ==
  IF db.assoc[o][r][h] = 0 THEN db
  ELSE [db EXCEPT !.assoc[o][r][h] = @ - 1,
                  !.payload[h] = IF db.assoc[o][r][h] = 1 /\ referenced THEN LessProtected(@) ELSE @]

\* Mutant: a copy that goes is still counted.
FewerCopiesNever(db, h) == db

FewerCopies(db, h) == [db EXCEPT !.payload[h] = LessCopies(@)]

CanCommit(db, c) == db.payload[HashOf[c]] # NoPayload

Committed(p, protect) == [Unstaged(p, protect) EXCEPT !.copies = @ + 1]

\* commitChunkCopy
Commit(db, o, c, id, protect) ==
  LET r == RootOf[c]  h == HashOf[c]
      was == db.root[o][r]
      record == IF was = NoRoot THEN [referenced |-> FALSE, count |-> 0, chunks |-> 0] ELSE was
      referenced == record.referenced \/ protect
      first == db.copy[o][c] = 0
      freed == IF first THEN db ELSE Unlinked(FewerCopies(db, h), o, r, h, record.referenced)
      linked == Linked(freed, o, r, h, referenced)
      payloads == [linked.payload EXCEPT ![h] = Committed(@, protect)]
      stored == [linked EXCEPT
        !.payload = db.payload,
        !.copy[o][c] = id,
        !.totals.copies = @ + IF first THEN 1 ELSE 0,
        !.root[o][r] = [referenced |-> referenced,
                        count |-> IF protect /\ ~record.referenced THEN Max({1, record.count}) ELSE record.count,
                        chunks |-> record.chunks + IF first THEN 1 ELSE 0]]
  IN  Flush(stored, payloads, {h})

\* setOwnerRootReferenceCount
SetCount(db, o, r, n) ==
  LET was == db.root[o][r]
      record == [IF was = NoRoot THEN [chunks |-> 0, referenced |-> FALSE, count |-> 0] ELSE was
                 EXCEPT !.count = n, !.referenced = n > 0]
      linked == {h \in Hashes : db.assoc[o][r][h] > 0 /\ db.payload[h] # NoPayload}
      step(p) == [p EXCEPT !.protected = IF n > 0 THEN @ + 1 ELSE Less(@)]
      stored == [db EXCEPT !.root[o][r] = record]
  IN  IF was = NoRoot /\ n = 0 THEN db
      ELSE IF was # NoRoot /\ was.referenced = (n > 0) THEN stored
      ELSE Flush(stored, [h \in Hashes |-> IF h \in linked THEN step(db.payload[h]) ELSE db.payload[h]], linked)

Referenced(db, o, r) == db.root[o][r] # NoRoot /\ db.root[o][r].referenced

\* removeChunkCopy: id is that of the event deleted, 0 when none is given.
RemoveCopy(db, o, c, id) ==
  LET r == RootOf[c]  h == HashOf[c]  was == db.root[o][r]
      less == Unlinked(FewerCopies(db, h), o, r, h, Referenced(db, o, r))
      left == IF was = NoRoot THEN NoRoot
              ELSE IF was.chunks <= 1 /\ ~was.referenced THEN NoRoot
              ELSE [was EXCEPT !.chunks = Less(@)]
  IN  IF db.copy[o][c] = 0 \/ id \notin {0, db.copy[o][c]} THEN db
      ELSE Flush([less EXCEPT !.payload = db.payload, !.copy[o][c] = 0, !.totals.copies = @ - 1,
                              !.root[o][r] = left], less.payload, {h})

\* removeOwnerRootCopies: its transactions keep the lock, and are one step. A
\* link goes with its last copy, or with those that are left at the end.
RemoveRoot(db, o, r) ==
  LET copies == {c \in ChunksOf(r) : db.copy[o][c] # 0}
      number(h) == Cardinality({c \in copies : HashOf[c] = h})
      linked == {h \in Hashes : db.assoc[o][r][h] > 0}
      fewer(p, h) == [p EXCEPT !.copies = Max({0, @ - number(h)}),
                               !.protected = IF h \in linked /\ Referenced(db, o, r) THEN Less(@) ELSE @]
      payloads == [h \in Hashes |-> IF db.payload[h] = NoPayload THEN NoPayload ELSE fewer(db.payload[h], h)]
  IN  Flush([db EXCEPT !.copy[o] = [c \in Chunks |-> IF c \in copies THEN 0 ELSE @[c]],
                       !.assoc[o][r] = [h \in Hashes |-> 0],
                       !.root[o][r] = NoRoot,
                       !.totals.copies = @ - Cardinality(copies)],
            payloads, linked \cup {HashOf[c] : c \in copies})

\* Mutant: only the protection of the stages is dropped.
DropStagesHalf(db, h) == Flush(db, [db.payload EXCEPT ![h] = [@ EXCEPT !.pendingProtected = 0]], {h})

\* reconcileStaleChunkPayloadStages, of one payload
DropStages(db, h) == Flush(db, [db.payload EXCEPT ![h] = [@ EXCEPT !.pending = 0, !.pendingProtected = 0]], {h})

(***************************************************************************)
(* The rows of an owner's database.  A hook unlinks the copy of a deleted  *)
(* event; another counts the references again.                             *)
(***************************************************************************)
Unlink(o, c) == [op |-> "unlink", owner |-> o, chunk |-> c, id |-> row[o][c]]
Recount(o, r) == [op |-> "recount", owner |-> o, root |-> r, n |-> -1]

NoPurge == [pc |-> "none", owner |-> "none", root |-> "none", force |-> FALSE]
Rest == [pc |-> "idle", owner |-> "none", item |-> "none", n |-> 0]

InitChunks ==
  /\ plan \in Plans
  /\ row = [o \in Owners |-> [c \in Chunks |-> 0]]
  /\ cites = {}
  /\ cache = [payload |-> [h \in Hashes |-> NoPayload],
              copy |-> [o \in Owners |-> [c \in Chunks |-> 0]],
              assoc |-> [o \in Owners |-> [r \in Roots |-> [h \in Hashes |-> 0]]],
              root |-> [o \in Owners |-> [r \in Roots |-> NoRoot]],
              totals |-> [bytes |-> 0, unreferenced |-> 0, copies |-> 0]]
  /\ add = [a \in Adds |-> [pc |-> IF a \in plan.adds THEN "new" ELSE "done", n |-> 0]]
  /\ purge = [w \in Workers |-> NoPurge]
  /\ keep = Rest
  /\ later = {}
  /\ leaving = {} /\ gone = {}
  /\ deletes = 0 /\ crashes = 0

store == <<plan, row, cites>>
access == <<leaving, gone>>
bounds == <<deletes, crashes>>

(***************************************************************************)
(* addEvent of a chunk: count the references, record the count, stage the  *)
(* payload, store the event, commit the copy.                              *)
(***************************************************************************)
At(a, pc) == add[a].pc = pc /\ purge[a].pc = "none"
Goes(a, pc) == add' = [add EXCEPT ![a] = [pc |-> pc, n |-> IF pc = "done" THEN 0 ELSE @.n]]

AddCount(a) ==
  /\ At(a, "new") /\ a.owner \notin gone
  /\ add' = [add EXCEPT ![a] = [pc |-> "counted", n |-> Count(a.owner, RootOf[a.chunk])]]
  /\ UNCHANGED <<store, cache, purge, keep, later, access, bounds>>

AddSetCount(a) ==
  /\ At(a, "counted")
  /\ IF a.owner \in gone THEN Goes(a, "done") /\ UNCHANGED cache
     ELSE /\ cache' = SetCount(cache, a.owner, RootOf[a.chunk], add[a].n)
          /\ Goes(a, "stage")
  /\ UNCHANGED <<store, purge, keep, later, access, bounds>>

Protects(a) == add[a].n > 0

AddStage(a) ==
  /\ At(a, "stage")
  /\ IF a.owner \in gone THEN Goes(a, "done") /\ UNCHANGED <<cache, purge>>
     ELSE IF OverQuota(HashOf[a.chunk], Protects(a)) THEN Goes(a, "pressed") /\ UNCHANGED <<cache, purge>>
     ELSE /\ cache' = Stage(cache, HashOf[a.chunk], Protects(a))
          /\ Goes(a, "staged") /\ UNCHANGED purge
  /\ UNCHANGED <<store, keep, later, access, bounds>>

\* purgeOneChunkRootForCapacity: an unreferenced root of any owner makes room.
Candidates == {p \in Owners \X Roots : cache.root[p[1]][p[2]] # NoRoot /\ ~cache.root[p[1]][p[2]].referenced}
Open == {p \in Candidates : p[1] \notin gone}

AddMakeRoom(a) ==
  /\ At(a, "pressed")
  /\ \/ /\ Open = {} /\ Goes(a, "done") /\ UNCHANGED purge
     \/ \E p \in Open :
          /\ purge' = [purge EXCEPT ![a] = [pc |-> "count", owner |-> p[1], root |-> p[2], force |-> TRUE]]
          /\ Goes(a, "stage")
  /\ UNCHANGED <<store, cache, keep, later, access, bounds>>

\* The transaction of the event: stored, in place of an older one of its
\* address; or it was there; or refused, superseded or failed.
AddStore(a) ==
  LET o == a.owner  c == a.chunk IN
  /\ At(a, "staged")
  /\ \/ /\ o \notin gone /\ row[o][c] < a.id
        /\ row' = [row EXCEPT ![o][c] = a.id]
        /\ later' = later \cup (IF row[o][c] # 0 THEN {Unlink(o, c)} ELSE {})
        /\ Goes(a, "stored")
     \/ /\ o \notin gone /\ row[o][c] = a.id
        /\ Goes(a, "stored") /\ UNCHANGED <<row, later>>
     \/ Goes(a, "refused") /\ UNCHANGED <<row, later>>
  /\ UNCHANGED <<plan, cites, cache, purge, keep, access, bounds>>

\* A revoked access throws before the stage is aborted, which stays.
AddCommit(a) ==
  /\ At(a, "stored")
  /\ IF a.owner \in gone THEN Goes(a, "done") /\ UNCHANGED cache
     ELSE IF ~CanCommit(cache, a.chunk) THEN Goes(a, "refused") /\ UNCHANGED cache
     ELSE cache' = Commit(cache, a.owner, a.chunk, a.id, Protects(a)) /\ Goes(a, "done")
  /\ UNCHANGED <<store, purge, keep, later, access, bounds>>

AddAbort(a) ==
  /\ At(a, "refused")
  /\ cache' = AbortStage(cache, HashOf[a.chunk], Protects(a))
  /\ Goes(a, "done")
  /\ UNCHANGED <<store, purge, keep, later, access, bounds>>

(***************************************************************************)
(* Deletions, references and the hooks that follow them.                   *)
(***************************************************************************)
DeleteChunk(o, c) ==
  /\ deletes < plan.deletes /\ row[o][c] # 0
  /\ row' = [row EXCEPT ![o][c] = 0]
  /\ later' = later \cup {Unlink(o, c)}
  /\ deletes' = deletes + 1
  /\ UNCHANGED <<plan, cites, cache, add, purge, keep, access, crashes>>

Cite(p) ==
  /\ p \notin cites /\ p[1] \notin gone
  /\ cites' = cites \cup {p}
  /\ later' = later \cup {Recount(p[1], p[2])}
  /\ UNCHANGED <<plan, row, cache, add, purge, keep, access, bounds>>

Uncite(p) ==
  /\ deletes < plan.deletes /\ p \in cites
  /\ cites' = cites \ {p}
  /\ later' = later \cup {Recount(p[1], p[2])}
  /\ deletes' = deletes + 1
  /\ UNCHANGED <<plan, row, cache, add, purge, keep, access, crashes>>

UnlinkLater(l) ==
  /\ l \in later /\ l.op = "unlink"
  /\ cache' = RemoveCopy(cache, l.owner, l.chunk, l.id)
  /\ later' = later \ {l}
  /\ UNCHANGED <<store, add, purge, keep, access, bounds>>

RecountLater(l) ==
  /\ l \in later /\ l.op = "recount"
  /\ IF l.owner \in gone THEN later' = later \ {l} /\ UNCHANGED cache
     ELSE IF l.n = -1
     THEN later' = (later \ {l}) \cup {[l EXCEPT !.n = Count(l.owner, l.root)]} /\ UNCHANGED cache
     ELSE cache' = SetCount(cache, l.owner, l.root, l.n) /\ later' = later \ {l}
  /\ UNCHANGED <<store, add, purge, keep, access, bounds>>

(***************************************************************************)
(* purgeChunkRoot                                                          *)
(***************************************************************************)
Purges(w, pc) == purge[w].pc = pc
PurgeGoes(w, pc) == purge' = [purge EXCEPT ![w].pc = pc]
PurgeEnds(w) == purge' = [purge EXCEPT ![w] = NoPurge]

PurgeCount(w) ==
  /\ Purges(w, "count")
  /\ IF purge[w].owner \in gone THEN PurgeEnds(w)
     ELSE PurgeGoes(w, IF Count(purge[w].owner, purge[w].root) > 0 THEN "cited" ELSE "uncited")
  /\ UNCHANGED <<store, cache, add, keep, later, access, bounds>>

PurgeSetCount(w) ==
  /\ purge[w].pc \in {"cited", "uncited"}
  /\ IF purge[w].owner \in gone THEN PurgeEnds(w) /\ UNCHANGED cache
     ELSE /\ cache' = SetCount(cache, purge[w].owner, purge[w].root, IF Purges(w, "cited") THEN 1 ELSE 0)
          /\ IF Purges(w, "cited") THEN PurgeEnds(w)
             ELSE PurgeGoes(w, IF purge[w].force THEN "rows" ELSE "check")
  /\ UNCHANGED <<store, add, keep, later, access, bounds>>

PurgeCheck(w) ==
  /\ Purges(w, "check")
  /\ IF <<purge[w].owner, purge[w].root>> \in Candidates THEN PurgeGoes(w, "rows") ELSE PurgeEnds(w)
  /\ UNCHANGED <<store, cache, add, keep, later, access, bounds>>

\* getChunkRecordBatch: the rows of a root that come first
FirstRows(o, r) ==
  LET there == {c \in ChunksOf(r) : row[o][c] # 0}
  IN  {c \in there : Cardinality({b \in there : b < c}) < PurgeBatch}

PurgeRows(w) ==
  LET o == purge[w].owner
      found == FirstRows(o, purge[w].root)
  IN
  /\ Purges(w, "rows")
  /\ IF o \in gone THEN PurgeEnds(w) /\ UNCHANGED <<row, later>>
     ELSE IF found = {} THEN PurgeGoes(w, "copies") /\ UNCHANGED <<row, later>>
     ELSE /\ row' = [row EXCEPT ![o] = [c \in Chunks |-> IF c \in found THEN 0 ELSE @[c]]]
          /\ later' = later \cup {Unlink(o, c) : c \in found}
          /\ UNCHANGED purge
  /\ UNCHANGED <<plan, cites, cache, add, keep, access, bounds>>

PurgeCopies(w) ==
  /\ Purges(w, "copies")
  /\ cache' = RemoveRoot(cache, purge[w].owner, purge[w].root)
  /\ PurgeEnds(w)
  /\ UNCHANGED <<store, add, keep, later, access, bounds>>

(***************************************************************************)
(* maintainChunks and maintainAllChunkCaches.  A look at an item and the   *)
(* repair of it are two steps; items that need none are passed over, and   *)
(* passes of the global and of an owner's timer may be anywhere, so that   *)
(* any item may be next.  A grace period may have gone by at any step.     *)
(***************************************************************************)
KeepAt(pc) == keep.pc = pc /\ purge[Keeper].pc = "none" /\ keep.owner \notin gone
KeepTakes(pc, o, x, n) == keep' = [pc |-> pc, owner |-> o, item |-> x, n |-> n]

\* reconcileOwnerChunks: a copy whose event is absent or another
LookAtLink(o, c) ==
  /\ KeepAt("idle") /\ o \notin gone
  /\ cache.copy[o][c] # 0 /\ row[o][c] # cache.copy[o][c]
  /\ KeepTakes("unlink", o, c, 0)
  /\ UNCHANGED <<store, cache, add, purge, later, access, bounds>>

KeepUnlink ==
  /\ KeepAt("unlink")
  /\ cache' = RemoveCopy(cache, keep.owner, keep.item, 0)
  /\ keep' = Rest
  /\ UNCHANGED <<store, add, purge, later, access, bounds>>

\* an event without payload, or without copy
LookAtRow(o, c) ==
  /\ KeepAt("idle") /\ o \notin gone /\ row[o][c] # 0
  /\ IF ~CanCommit(cache, c) THEN KeepTakes("drop", o, <<c, row[o][c]>>, 0)
     ELSE /\ cache.copy[o][c] # row[o][c]
          /\ KeepTakes("relink", o, <<c, row[o][c]>>, Count(o, RootOf[c]))
  /\ UNCHANGED <<store, cache, add, purge, later, access, bounds>>

KeepRelink ==
  LET c == keep.item[1] IN
  /\ KeepAt("relink")
  /\ cache' = IF CanCommit(cache, c) THEN Commit(cache, keep.owner, c, keep.item[2], keep.n > 0) ELSE cache
  /\ keep' = Rest
  /\ UNCHANGED <<store, add, purge, later, access, bounds>>

\* deleteInvalidChunkRecord
KeepDrop ==
  LET o == keep.owner  c == keep.item[1] IN
  /\ KeepAt("drop")
  /\ IF row[o][c] = keep.item[2]
     THEN row' = [row EXCEPT ![o][c] = 0] /\ later' = later \cup {Unlink(o, c)}
     ELSE UNCHANGED <<row, later>>
  /\ KeepTakes("unlink", o, c, 0)
  /\ UNCHANGED <<plan, cites, cache, add, purge, access, bounds>>

\* a root whose count is another
LookAtRoot(o, r) ==
  /\ KeepAt("idle") /\ o \notin gone
  /\ Count(o, r) # IF cache.root[o][r] = NoRoot THEN 0 ELSE cache.root[o][r].count
  /\ KeepTakes("count", o, r, Count(o, r))
  /\ UNCHANGED <<store, cache, add, purge, later, access, bounds>>

KeepCount ==
  /\ KeepAt("count")
  /\ cache' = SetCount(cache, keep.owner, keep.item, keep.n)
  /\ keep' = Rest
  /\ UNCHANGED <<store, add, purge, later, access, bounds>>

KeepPurge(o, r) ==
  /\ KeepAt("idle") /\ o \notin gone /\ <<o, r>> \in Candidates
  /\ purge' = [purge EXCEPT ![Keeper] = [pc |-> "count", owner |-> o, root |-> r, force |-> FALSE]]
  /\ UNCHANGED <<store, cache, add, keep, later, access, bounds>>

KeepStages(h) ==
  /\ KeepAt("idle") /\ cache.payload[h] # NoPayload /\ cache.payload[h].pending > 0
  /\ cache' = DropStages(cache, h)
  /\ UNCHANGED <<store, add, purge, keep, later, access, bounds>>

\* A revoked access throws, and the pass of the owner ends.
KeepRevoked ==
  /\ keep.pc # "idle" /\ keep.owner \in gone
  /\ keep' = Rest
  /\ UNCHANGED <<store, cache, add, purge, later, access, bounds>>

(***************************************************************************)
(* deleteNostrDb of an account that becomes read-only, then                *)
(* clearOwnerChunkCache, repeated until it succeeded; pages; time.         *)
(***************************************************************************)
Leave(o) ==
  /\ o \in plan.leavers \ gone
  /\ gone' = gone \cup {o} /\ leaving' = leaving \cup {o}
  /\ row' = [row EXCEPT ![o] = [c \in Chunks |-> 0]]
  /\ cites' = {p \in cites : p[1] # o}
  /\ UNCHANGED <<plan, cache, tasks, bounds>>

ClearOwner(o) ==
  /\ o \in leaving
  /\ \/ \E r \in Roots : /\ cache.root[o][r] # NoRoot
                         /\ cache' = RemoveRoot(cache, o, r) /\ UNCHANGED leaving
     \/ /\ \A r \in Roots : cache.root[o][r] = NoRoot
        /\ \E r \in Roots : \E c \in ChunksOf(r) : cache.copy[o][c] # 0 /\ cache' = RemoveRoot(cache, o, r)
        /\ UNCHANGED leaving
     \/ /\ \A r \in Roots : cache.root[o][r] = NoRoot
        /\ \A c \in Chunks : cache.copy[o][c] = 0
        /\ leaving' = leaving \ {o} /\ UNCHANGED cache
  /\ UNCHANGED <<store, tasks, gone, bounds>>

Crash ==
  /\ crashes < plan.crashes
  /\ crashes' = crashes + 1
  /\ add' = [a \in Adds |-> IF add[a].pc = "new" THEN add[a] ELSE [pc |-> "done", n |-> 0]]
  /\ purge' = [w \in Workers |-> NoPurge]
  /\ keep' = Rest
  /\ later' = {}
  /\ UNCHANGED <<store, cache, access, deletes>>

Adding(a) == AddCount(a) \/ AddSetCount(a) \/ AddStage(a) \/ AddMakeRoom(a) \/ AddStore(a) \/ AddCommit(a) \/ AddAbort(a)
Purging(w) == PurgeCount(w) \/ PurgeSetCount(w) \/ PurgeCheck(w) \/ PurgeRows(w) \/ PurgeCopies(w)
Keeping ==
  \/ KeepUnlink \/ KeepRelink \/ KeepDrop \/ KeepCount \/ KeepRevoked
  \/ \E o \in Owners, c \in Chunks : LookAtLink(o, c) \/ LookAtRow(o, c)
  \/ \E o \in Owners, r \in Roots : LookAtRoot(o, r) \/ KeepPurge(o, r)
  \/ \E h \in Hashes : KeepStages(h)
Hooks == \E l \in later : UnlinkLater(l) \/ RecountLater(l)
Users ==
  \/ \E o \in Owners, c \in Chunks : DeleteChunk(o, c)
  \/ \E p \in plan.references : Cite(p) \/ Uncite(p)
  \/ \E o \in Owners : Leave(o)

Work ==
  \/ Hooks \/ Keeping
  \/ \E a \in Adds : Adding(a)
  \/ \E w \in Workers : Purging(w)
  \/ \E o \in Owners : ClearOwner(o)

NextChunks == Users \/ Work \/ Crash

ChunkSpec == InitChunks /\ [][NextChunks]_chunkVars

\* Timers and transactions go on while a page is open; users may stop.
FairChunkSpec == ChunkSpec /\ WF_chunkVars(Work)

-----------------------------------------------------------------------------
Copies(h) == {p \in Owners \X Chunks : HashOf[p[2]] = h /\ cache.copy[p[1]][p[2]] # 0}

\* The counters agree with the copies there are, through any interleaving of
\* replacements, purges, repairs and crashes: flushPayloads applies differences
\* and clamps at zero, so that an error would stay.  A file is marked as in
\* use exactly when its count of references says so.
CountersAgree ==
  /\ cache.totals.bytes = SumFunction(BytesOf(cache.payload))
  /\ cache.totals.unreferenced = SumFunction(ContributionOf(cache.payload))
  /\ cache.totals.copies = Cardinality(UNION {Copies(h) : h \in Hashes})
  /\ \A h \in Hashes : cache.payload[h] # NoPayload => cache.payload[h].copies = Cardinality(Copies(h))
  /\ \A o \in Owners, r \in Roots :
       /\ \A h \in Hashes :
            cache.assoc[o][r][h] = Cardinality({p \in Copies(h) : p[1] = o /\ RootOf[p[2]] = r})
       /\ cache.root[o][r] # NoRoot =>
            /\ cache.root[o][r].referenced = (cache.root[o][r].count > 0)
            /\ cache.root[o][r].chunks = Cardinality({c \in ChunksOf(r) : cache.copy[o][c] # 0})

\* A copy's bytes are there: neither an owner who leaves nor a purge, a repair
\* or an aborted stage takes the payload another owner's copy shares.
CopyHasPayload ==
  \A o \in Owners, c \in Chunks : cache.copy[o][c] # 0 => CanCommit(cache, c)

\* What chunks there are in the two databases agrees.
Agreed ==
  /\ \A o \in Owners, c \in Chunks : cache.copy[o][c] = row[o][c]
  /\ \A h \in Hashes : cache.payload[h] # NoPayload => cache.payload[h].pending = 0
  /\ \A o \in Owners, r \in Roots :
       IF cache.root[o][r] = NoRoot THEN Count(o, r) = 0 ELSE cache.root[o][r].count = Count(o, r)

\* Maintenance repairs in the end whatever crashes and races left, though a
\* repair decides in one transaction and writes in another.
Repaired == <>[]Agreed
=============================================================================
