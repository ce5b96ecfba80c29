-------------------------- MODULE EventStoreProofs --------------------------
(***************************************************************************)
(* Proofs about EventStore: the ledger agrees with the stored requests,    *)
(* what they delete stays out, compaction changes no verdict, what the     *)
(* owner refers to is kept, and the quota counters are those of a recount. *)
(*                                                                         *)
(* Books relates a set of events and a ledger, without counters or rows;   *)
(* Store says it of the record that a transaction transforms.  Each        *)
(* operation of a transaction has a lemma that it keeps Store.  Account    *)
(* does the same for the counters and the classes of foreign events.       *)
(***************************************************************************)
EXTENDS EventStore, DataLemmas

-----------------------------------------------------------------------------
\* The invariant.
EventOK(e) ==
  /\ e.at \in Nat /\ e.id \in Nat \ {0}
  /\ e.kind \in {"copy", "hearsay"} => e.author = Owner
  /\ e.coord # NoCoord => e \in Catalog /\ e.coord[1] = "a" /\ e.coord[2] = e.author
  /\ e.kind = "delete" => e.coord = NoCoord

\* A target is an address of the request's author or an event by that author.
Own(request, t) == (t[1] = "a" /\ t[2] = request.author) \/ t = <<"e", t[2], request.author>>

Complete(request, L) ==
  \A tag \in {u \in request.tags : u[1] = "e" /\ u[2] # request.id} :
    \E t \in {t \in DOMAIN L : \E c \in L[t] : c[1] = request.id} :
      t[2] = tag[2] \/ \E e \in Catalog : e.id = tag[2] /\ t = e.coord

Sound(S, L) ==
  \A t \in DOMAIN L :
    /\ L[t] # {} /\ IsFiniteSet(L[t])
    /\ \A c \in L[t] : \E e \in S :
         c = <<e.id, e.at>> /\ e.kind = "delete" /\ Names(e, t) /\ Own(e, t)

\* Blocked without the maximum.
Blocks(L, e) ==
  \/ <<"e", e.id, e.author>> \in DOMAIN L
  \/ e.coord # NoCoord /\ e.coord \in DOMAIN L /\ \E c \in L[e.coord] : e.at <= c[2]

Books(S, L) ==
  /\ Sound(S, L)
  /\ \A e \in S : EventOK(e) /\ (e.kind = "delete" => Complete(e, L)) /\ ~Blocks(L, e)
  /\ \A e, f \in S : e.id = f.id => e = f

Row(e, apps, ra) == [ev |-> e, apps |-> apps, ra |-> ra]
WithApps(row, apps) == [row EXCEPT !.apps = apps]
Events(R) == {R[i].ev : i \in DOMAIN R}
RowsOK(R) ==
  /\ IsFiniteSet(DOMAIN R)
  /\ \A i \in DOMAIN R : (\E e, apps, ra : R[i] = Row(e, apps, ra)) /\ R[i].ev.id = i

Tx(r, l, c, u, f) == [rows |-> r, ledger |-> l, cache |-> c, usage |-> u, refs |-> f]
IsTx(tx) == \E r, l, c, u, f : tx = Tx(r, l, c, u, f)

\* pending: the request that is applied already and written later.
Store(tx, pending) ==
  /\ IsTx(tx) /\ RowsOK(tx.rows)
  /\ Books(Events(tx.rows) \cup pending, tx.ledger)
  /\ \A e \in pending : e.id \notin DOMAIN tx.rows

-----------------------------------------------------------------------------
\* An address is blocked up to a time when one of its contributions is as late.
LEMMA CutoffReached ==
  ASSUME NEW L, NEW t \in DOMAIN L, L[t] # {}, IsFiniteSet(L[t]), \A c \in L[t] : c[2] \in Nat, NEW at \in Nat
  PROVE  at <= Cutoff(L, t) <=> \E c \in L[t] : at <= c[2]
<1> DEFINE times == {c[2] : c \in L[t]}
<1>1. IsFiniteSet(times)
  <2> DEFINE f == [c \in L[t] |-> c[2]]
  <2>1. times = {f[c] : c \in L[t]} OBVIOUS
  <2> HIDE DEF f, times
  <2> QED BY <2>1, ImageFinite
<1>2. times # {} /\ times \subseteq Int OBVIOUS
<1>3. \A x : x \in times <=> \E c \in L[t] : x = c[2] OBVIOUS
<1> HIDE DEF times
<1>4. Max(times) \in times /\ \A x \in times : x <= Max(times) BY <1>1, <1>2, MaxOf
<1>5. Cutoff(L, t) = Max(times) BY DEF Cutoff, times
<1> QED BY <1>3, <1>4, <1>5, <1>2

\* With the books in order, Blocked is Blocks.
LEMMA SoundCutoffs ==
  ASSUME NEW S, NEW L, Sound(S, L), \A e \in S : EventOK(e), NEW t \in DOMAIN L
  PROVE  L[t] # {} /\ IsFiniteSet(L[t]) /\ \A c \in L[t] : c[2] \in Nat
BY DEF Sound, EventOK

\* In a sound ledger the lookup finds a deletion of an event exactly if some stored request deletes it.
LEMMA BlockedBlocks ==
  ASSUME NEW S, NEW L, Sound(S, L), \A e \in S : EventOK(e), NEW e, e.at \in Nat
  PROVE  Blocked(L, e) <=> Blocks(L, e)
<1>1. CASE e.coord \in DOMAIN L
  <2>1. e.at <= Cutoff(L, e.coord) <=> \E c \in L[e.coord] : e.at <= c[2]
    BY <1>1, SoundCutoffs, CutoffReached
  <2> QED BY <1>1, <2>1 DEF Blocked, Blocks
<1>2. CASE e.coord \notin DOMAIN L BY <1>2 DEF Blocked, Blocks
<1> QED BY <1>1, <1>2

\* What remains of a ledger: the contributions of the other requests, at the
\* targets that have some.
LEMMA WithoutProperties ==
  ASSUME NEW L, NEW requests
  PROVE  /\ \A t : t \in DOMAIN Without(L, requests) <=> t \in DOMAIN L /\ \E c \in L[t] : c[1] \notin requests
         /\ \A t \in DOMAIN Without(L, requests) : \A c :
              c \in Without(L, requests)[t] <=> c \in L[t] /\ c[1] \notin requests
<1> DEFINE left == [t \in DOMAIN L |-> {c \in L[t] : c[1] \notin requests}]
           D == {t \in DOMAIN left : left[t] # {}}
<1>1. Without(L, requests) = Restricted(left, D) BY DEF Without
<1>2. \A t : t \in D <=> t \in DOMAIN L /\ \E c \in L[t] : c[1] \notin requests OBVIOUS
<1>3. D \subseteq DOMAIN left /\ \A t \in D : \A c : c \in left[t] <=> c \in L[t] /\ c[1] \notin requests OBVIOUS
<1> HIDE DEF left, D
<1>4. DOMAIN Restricted(left, D) = D /\ \A t \in D : Restricted(left, D)[t] = left[t]
  BY <1>3 DEF Restricted
<1> QED BY <1>1, <1>2, <1>3, <1>4

\* Deleting events and what the requests among them said keeps the books.
LEMMA Forget ==
  ASSUME NEW S, NEW L, Books(S, L), NEW G,
         NEW requests, requests = {e.id : e \in {f \in S \cap G : f.kind = "delete"}}
  PROVE  Books(S \ G, Without(L, requests))
<1> DEFINE W == Without(L, requests)
<1>0. /\ \A t : t \in DOMAIN W <=> t \in DOMAIN L /\ \E c \in L[t] : c[1] \notin requests
      /\ \A t \in DOMAIN W : \A c : c \in W[t] <=> c \in L[t] /\ c[1] \notin requests
  BY WithoutProperties
<1> HIDE DEF W
<1>1. Sound(S \ G, W)
  <2> SUFFICES ASSUME NEW t \in DOMAIN W
               PROVE  /\ W[t] # {} /\ IsFiniteSet(W[t])
                      /\ \A c \in W[t] : \E e \in S \ G :
                           c = <<e.id, e.at>> /\ e.kind = "delete" /\ Names(e, t) /\ Own(e, t)
    BY DEF Sound
  <2>0. t \in DOMAIN L /\ \E c \in L[t] : c[1] \notin requests BY <1>0
  <2>1. W[t] \subseteq L[t] /\ W[t] # {} /\ t \in DOMAIN L BY <1>0, <2>0
  <2>2. IsFiniteSet(W[t]) BY <2>1, FS_Subset DEF Books, Sound
  <2>3. ASSUME NEW c \in W[t]
        PROVE  \E e \in S \ G : c = <<e.id, e.at>> /\ e.kind = "delete" /\ Names(e, t) /\ Own(e, t)
    <3>1. PICK e \in S : c = <<e.id, e.at>> /\ e.kind = "delete" /\ Names(e, t) /\ Own(e, t)
      BY <2>1 DEF Books, Sound
    <3>2. e.id \notin requests BY <1>0, <3>1
    <3>3. e \notin G BY <3>1, <3>2
    <3> QED BY <3>1, <3>3
  <2> QED BY <2>1, <2>2, <2>3
<1>2. ASSUME NEW e \in S \ G PROVE EventOK(e) /\ (e.kind = "delete" => Complete(e, W)) /\ ~Blocks(W, e)
  <2>1. EventOK(e) /\ ~Blocks(L, e) BY DEF Books
  <2>2. ~Blocks(W, e) BY <2>1, <1>0 DEF Blocks
  <2>3. ASSUME e.kind = "delete" PROVE Complete(e, W)
    <3>1. e.id \notin requests BY DEF Books
    <3>2. Complete(e, L) BY <2>3 DEF Books
    <3>3. ASSUME NEW t \in DOMAIN L, NEW c \in L[t], c[1] = e.id PROVE t \in DOMAIN W /\ c \in W[t]
      BY <3>1, <3>3, <1>0
    <3> QED BY <3>2, <3>3 DEF Complete
  <2> QED BY <2>1, <2>2, <2>3
<1>3. \A e, f \in S \ G : e.id = f.id => e = f BY DEF Books
<1> QED BY <1>1, <1>2, <1>3 DEF Books, W

\* A request is entered for its targets once no event is left that they match.
LEMMA Learn ==
  ASSUME NEW S, NEW L, Books(S, L), NEW request, EventOK(request), request.kind = "delete",
         \A e \in S : e.id # request.id, ~Blocks(L, request),
         NEW targets,
         \A t \in targets : /\ Own(request, t) /\ Names(request, t)
                            /\ t # <<"e", request.id, request.author>>
                            /\ \A e \in S : ~Matches(e, request, t),
         \A tag \in {u \in request.tags : u[1] = "e" /\ u[2] # request.id} :
           \E t \in targets : t[2] = tag[2] \/ \E e \in Catalog : e.id = tag[2] /\ t = e.coord
  PROVE  Books(S \cup {request}, Contributed(L, request, targets))
<1> DEFINE N == Contributed(L, request, targets)
           mine == <<request.id, request.at>>
<1>0. /\ DOMAIN N = DOMAIN L \cup targets
      /\ \A t \in DOMAIN N : N[t] = (IF t \in DOMAIN L THEN L[t] ELSE {}) \cup (IF t \in targets THEN {mine} ELSE {})
  BY DEF Contributed
<1> HIDE DEF N
<1>1. Sound(S \cup {request}, N)
  <2> SUFFICES ASSUME NEW t \in DOMAIN N
               PROVE  /\ N[t] # {} /\ IsFiniteSet(N[t])
                      /\ \A c \in N[t] : \E e \in S \cup {request} :
                           c = <<e.id, e.at>> /\ e.kind = "delete" /\ Names(e, t) /\ Own(e, t)
    BY DEF Sound
  <2>1. t \in DOMAIN L => L[t] # {} /\ IsFiniteSet(L[t]) BY DEF Books, Sound
  <2>2. N[t] # {} BY <1>0, <2>1
  <2>3. IsFiniteSet(N[t])
    <3>1. PICK A : IsFiniteSet(A) /\ A = IF t \in DOMAIN L THEN L[t] ELSE {} BY <2>1, FS_EmptySet
    <3>2. N[t] = A \/ N[t] = A \cup {mine} BY <1>0, <3>1
    <3>3. IsFiniteSet(A \cup {mine}) BY <3>1, FS_AddElement
    <3> QED BY <3>1, <3>2, <3>3
  <2>4. ASSUME NEW c \in N[t]
        PROVE  \E e \in S \cup {request} : c = <<e.id, e.at>> /\ e.kind = "delete" /\ Names(e, t) /\ Own(e, t)
    <3>1. CASE t \in DOMAIN L /\ c \in L[t] BY <3>1 DEF Books, Sound
    <3>2. CASE t \in targets /\ c = mine BY <3>2
    <3> QED BY <1>0, <3>1, <3>2
  <2> QED BY <2>2, <2>3, <2>4
<1>2. ASSUME NEW e \in S PROVE EventOK(e) /\ (e.kind = "delete" => Complete(e, N)) /\ ~Blocks(N, e)
  <2>1. EventOK(e) /\ (e.kind = "delete" => Complete(e, L)) /\ ~Blocks(L, e) BY DEF Books
  <2>2. \A t \in DOMAIN L : t \in DOMAIN N /\ L[t] \subseteq N[t] BY <1>0
  <2>3. e.kind = "delete" => Complete(e, N) BY <2>1, <2>2 DEF Complete
  <2>4. ASSUME <<"e", e.id, e.author>> \in DOMAIN N PROVE FALSE
    <3>1. <<"e", e.id, e.author>> \in targets BY <2>1, <2>4, <1>0 DEF Blocks
    <3>2. Own(request, <<"e", e.id, e.author>>) BY <3>1
    <3>3. e.author = request.author BY <3>2 DEF Own
    <3> QED BY <3>1, <3>3 DEF Matches
  <2>5. ASSUME e.coord # NoCoord, e.coord \in DOMAIN N, NEW c \in N[e.coord], e.at <= c[2] PROVE FALSE
    <3>1. ~(e.coord \in DOMAIN L /\ c \in L[e.coord]) BY <2>1, <2>5 DEF Blocks
    <3>2. e.coord \in targets /\ c = mine BY <3>1, <2>5, <1>0
    <3>3. e.at <= request.at BY <3>2, <2>5
    <3>4. Own(request, e.coord) BY <3>2
    <3>5. e.author = request.author BY <3>4, <2>1, <2>5 DEF Own, EventOK
    <3> QED BY <2>5, <3>2, <3>3, <3>5 DEF Matches
  <2> QED BY <2>1, <2>3, <2>4, <2>5 DEF Blocks
<1>3. EventOK(request) /\ Complete(request, N) /\ ~Blocks(N, request)
  <2>1. \A t \in targets : t \in DOMAIN N /\ mine \in N[t] /\ mine[1] = request.id BY <1>0
  <2>2. Complete(request, N) BY <2>1 DEF Complete
  <2>3. request.coord = NoCoord BY DEF EventOK
  <2>4. <<"e", request.id, request.author>> \notin DOMAIN N BY <1>0 DEF Blocks
  <2> QED BY <2>2, <2>3, <2>4 DEF Blocks
<1>4. \A e, f \in S \cup {request} : e.id = f.id => e = f BY DEF Books
<1> QED BY <1>1, <1>2, <1>3, <1>4 DEF Books, N

-----------------------------------------------------------------------------
\* What the operations of a transaction do to rows and ledger; the counters,
\* the classes and the references they also change do not matter here.
LEMMA ClassifyTx ==
  ASSUME NEW tx, IsTx(tx), NEW ids
  PROVE  /\ IsTx(Classify(tx, ids))
         /\ Classify(tx, ids).rows = tx.rows /\ Classify(tx, ids).ledger = tx.ledger
<1>1. PICK r, l, c, u, f : tx = Tx(r, l, c, u, f) BY DEF IsTx
<1> DEFINE foreign == {i \in ids \cap DOMAIN tx.rows : Foreign(tx.rows[i].ev)}
      toCache == {i \in foreign \ DOMAIN tx.cache : ~Referenced(tx, tx.rows[i].ev)}
      toPublic == {i \in foreign \cap DOMAIN tx.cache : Referenced(tx, tx.rows[i].ev)}
      moved == Cardinality(toCache) - Cardinality(toPublic)
      left == [i \in (DOMAIN tx.cache \cup toCache) \ toPublic |-> IF i \in DOMAIN tx.cache THEN tx.cache[i] ELSE now]
<1>3. Classify(tx, ids) = [tx EXCEPT !.usage.public = @ - moved, !.usage.cache = @ + moved,
                 !.cache = left] BY <1>1 DEF Classify, Tx
<1> HIDE DEF left, moved, toPublic, toCache, foreign
<1>2. PICK u2 : Classify(tx, ids) = Tx(r, l, left, u2, f) BY <1>1, <1>3 DEF Tx
<1>4. IsTx(Classify(tx, ids)) BY <1>2 DEF IsTx
<1>5. Classify(tx, ids).rows = r /\ Classify(tx, ids).ledger = l BY <1>2 DEF Tx
<1>6. tx.rows = r /\ tx.ledger = l BY <1>1 DEF Tx
<1> QED BY <1>4, <1>5, <1>6

\* A deletion takes rows away, and the contributions of the requests among them.
LEMMA DeletedTx ==
  ASSUME NEW tx, IsTx(tx), NEW ids
  PROVE  /\ IsTx(Deleted(tx, ids))
         /\ Deleted(tx, ids).rows = Restricted(tx.rows, DOMAIN tx.rows \ ids)
         /\ Deleted(tx, ids).ledger = Without(tx.ledger, {i \in ids \cap DOMAIN tx.rows : tx.rows[i].ev.kind = "delete"})
<1>1. PICK r, l, c, u, f : tx = Tx(r, l, c, u, f) BY DEF IsTx
<1> DEFINE gone == ids \cap DOMAIN tx.rows
      requests == {i \in gone : tx.rows[i].ev.kind = "delete"}
      cached == gone \cap DOMAIN tx.cache
      refs == UNION {OwnerRefs(tx.rows[i].ev) : i \in gone}
      pub == Count(tx, gone \ cached, "public")
      priv == Count(tx, gone \ cached, "private")
      n == Cardinality(cached)
      R == Restricted(tx.rows, DOMAIN tx.rows \ gone)
      C == Restricted(tx.cache, DOMAIN tx.cache \ gone)
      L == Without(tx.ledger, requests)
<1>3. Deleted(tx, ids) = [tx EXCEPT !.rows = R,
                 !.cache = C,
                 !.usage.public = @ - pub,
                 !.usage.private = @ - priv,
                 !.usage.cache = @ - n,
                 !.refs = @ \cup refs,
                 !.ledger = L] BY <1>1 DEF Deleted, Tx
<1>4. DOMAIN tx.rows \ gone = DOMAIN tx.rows \ ids OBVIOUS
<1>5. R = Restricted(tx.rows, DOMAIN tx.rows \ ids) BY <1>4
<1>6. L = Without(tx.ledger, {i \in ids \cap DOMAIN tx.rows : tx.rows[i].ev.kind = "delete"}) OBVIOUS
<1> HIDE DEF gone, requests, cached, refs, pub, priv, n, R, C, L
<1>2. PICK u2, f2 : Deleted(tx, ids) = Tx(R, L, C, u2, f2) BY <1>1, <1>3 DEF Tx
<1>7. IsTx(Deleted(tx, ids)) BY <1>2 DEF IsTx
<1>8. Deleted(tx, ids).rows = R /\ Deleted(tx, ids).ledger = L BY <1>2 DEF Tx
<1> QED BY <1>7, <1>8, <1>5, <1>6

\* Writing an event adds its row.
LEMMA PutTx ==
  ASSUME NEW tx, IsTx(tx), NEW row
  PROVE  /\ IsTx(Put(tx, row))
         /\ Put(tx, row).rows = [i \in DOMAIN tx.rows \cup {row.ev.id} |-> IF i = row.ev.id THEN row ELSE tx.rows[i]]
         /\ Put(tx, row).ledger = tx.ledger
<1>1. PICK r, l, c, u, f : tx = Tx(r, l, c, u, f) BY DEF IsTx
<1> DEFINE R == [i \in DOMAIN tx.rows \cup {row.ev.id} |-> IF i = row.ev.id THEN row ELSE tx.rows[i]]
           category == Category(row.ev)
           refs == OwnerRefs(row.ev)
           put == [tx EXCEPT !.rows = R, !.usage[category] = @ + 1, !.refs = @ \cup refs]
<1>2. Put(tx, row) = Classify(put, {row.ev.id}) BY <1>1 DEF Put, Tx
<1>6. tx.usage = u /\ tx.refs = f BY <1>1 DEF Tx
<1> DEFINE U == [u EXCEPT ![category] = u[category] + 1]
<1>3. put = Tx(R, l, c, U, f \cup refs)
  <2>1. put = [tx EXCEPT !.rows = R, !.usage = U, !.refs = f \cup refs]
    <3> HIDE DEF R, category, refs
    <3> QED BY <1>6
  <2> HIDE DEF R, refs, U, put
  <2> QED BY <1>1, <2>1 DEF Tx
<1> HIDE DEF put, R
<1>4. IsTx(put) /\ put.rows = R /\ put.ledger = l BY <1>3 DEF IsTx, Tx
<1>5. tx.ledger = l BY <1>1 DEF Tx
<1> QED BY <1>2, <1>4, <1>5, ClassifyTx DEF R

\* A claim leaves the events as they are.
LEMMA ClaimedTx ==
  ASSUME NEW tx, IsTx(tx), NEW ids, NEW app
  PROVE  /\ IsTx(Claimed(tx, ids, app))
         /\ DOMAIN Claimed(tx, ids, app).rows = DOMAIN tx.rows
         /\ \A i \in DOMAIN tx.rows : \/ Claimed(tx, ids, app).rows[i] = tx.rows[i]
                                      \/ \E apps : Claimed(tx, ids, app).rows[i] = WithApps(tx.rows[i], apps)
         /\ Claimed(tx, ids, app).ledger = tx.ledger
<1>1. PICK r, l, c, u, f : tx = Tx(r, l, c, u, f) BY DEF IsTx
<1> DEFINE C == Claimed(tx, ids, app)
<1>7. PICK R : C = [tx EXCEPT !.rows = R] BY Zenon DEF Claimed
<1>2. C = Tx(C.rows, l, c, u, f)
  <2> HIDE DEF C
  <2> QED BY <1>1, <1>7 DEF Tx
<1>3. DOMAIN C.rows = DOMAIN tx.rows BY <1>1 DEF Claimed, Tx
<1>4. \A i \in DOMAIN tx.rows : C.rows[i] = tx.rows[i] \/ \E apps : C.rows[i] = WithApps(tx.rows[i], apps)
  BY <1>1 DEF Claimed, Tx, WithApps
<1> HIDE DEF C
<1>5. IsTx(C) BY <1>2 DEF IsTx
<1>6. C.ledger = tx.ledger BY <1>1, <1>2 DEF Tx
<1> QED BY <1>3, <1>4, <1>5, <1>6 DEF C

\* A request replaces the ledger after its victims went.
LEMMA AppliedTx ==
  ASSUME NEW tx, IsTx(tx), NEW request
  PROVE  LET victims == {i \in DOMAIN tx.rows : \E t \in Targets(tx, request) : Matches(tx.rows[i].ev, request, t)}
             left == Deleted(tx, victims)
         IN  IF request.kind = "delete"
               THEN /\ IsTx(Applied(tx, request)) /\ Applied(tx, request).rows = left.rows
                    /\ Applied(tx, request).ledger = Contributed(left.ledger, request, Targets(tx, request))
               ELSE Applied(tx, request) = tx
<1> DEFINE victims == {i \in DOMAIN tx.rows : \E t \in Targets(tx, request) : Matches(tx.rows[i].ev, request, t)}
           left == Deleted(tx, victims)
           L == Contributed(left.ledger, request, Targets(tx, request))
<1>1. IsTx(left) BY DeletedTx
<1>2. CASE request.kind = "delete"
  <2>1. PICK r, l, c, u, f : left = Tx(r, l, c, u, f) BY <1>1 DEF IsTx
  <2>2. Applied(tx, request) = [left EXCEPT !.ledger = L]
    <3>1. left.ledger = l BY <2>1 DEF Tx
    <3> QED BY <1>2, <2>1 DEF Applied, Tx
  <2> HIDE DEF victims, left, L
  <2>3. Applied(tx, request) = Tx(r, L, c, u, f) BY <2>1, <2>2 DEF Tx
  <2>4. IsTx(Applied(tx, request)) BY <2>3 DEF IsTx
  <2>5. Applied(tx, request).rows = left.rows /\ Applied(tx, request).ledger = L BY <2>1, <2>3 DEF Tx
  <2> USE DEF victims, left, L
  <2> QED BY <1>2, <2>4, <2>5
<1>3. CASE request.kind # "delete" BY <1>3 DEF Applied
<1> QED BY <1>2, <1>3

-----------------------------------------------------------------------------
\* Store is kept by each of them.
LEMMA DeletedStore ==
  ASSUME NEW tx, NEW pending, Store(tx, pending), NEW ids
  PROVE  Store(Deleted(tx, ids), pending)
<1> DEFINE R == tx.rows
           gone == ids \cap DOMAIN R
           requests == {i \in gone : R[i].ev.kind = "delete"}
           G == {R[i].ev : i \in gone}
           S == Events(R) \cup pending
           Q == Restricted(R, DOMAIN R \ ids)
<1>1. IsTx(tx) /\ RowsOK(R) /\ Books(S, tx.ledger) /\ \A e \in pending : e.id \notin DOMAIN R BY DEF Store
<1>2. /\ IsTx(Deleted(tx, ids)) /\ Deleted(tx, ids).rows = Q
      /\ Deleted(tx, ids).ledger = Without(tx.ledger, requests)
  BY <1>1, DeletedTx
<1>3. DOMAIN Q = DOMAIN R \ ids /\ \A i \in DOMAIN Q : Q[i] = R[i] BY DEF Restricted
<1>4. requests = {e.id : e \in {f \in S \cap G : f.kind = "delete"}}
  <2>1. ASSUME NEW i \in requests PROVE \E e \in S \cap G : e.kind = "delete" /\ i = e.id
    <3>1. R[i].ev \in S \cap G /\ R[i].ev.id = i BY <1>1 DEF Events, RowsOK
    <3> QED BY <3>1
  <2>2. ASSUME NEW e \in S \cap G, e.kind = "delete" PROVE e.id \in requests
    <3>1. PICK i \in gone : e = R[i].ev OBVIOUS
    <3> QED BY <2>2, <3>1, <1>1 DEF RowsOK
  <2> QED BY <2>1, <2>2
<1>5. Events(Q) \cup pending = S \ G
  <2>1. ASSUME NEW e \in Events(Q) PROVE e \in S \ G
    <3>1. PICK i \in DOMAIN Q : e = Q[i].ev BY DEF Events
    <3>2. i \in DOMAIN R /\ i \notin ids /\ e = R[i].ev /\ e.id = i BY <3>1, <1>3, <1>1 DEF RowsOK
    <3>3. \A f \in G : f.id \in ids BY <1>1 DEF RowsOK
    <3> QED BY <3>2, <3>3 DEF Events
  <2>2. ASSUME NEW e \in pending PROVE e \in S \ G
    <3>1. \A f \in G : f.id \in DOMAIN R BY <1>1 DEF RowsOK
    <3> QED BY <3>1, <1>1
  <2>3. ASSUME NEW e \in S \ G, e \notin pending PROVE e \in Events(Q)
    <3>1. PICK i \in DOMAIN R : e = R[i].ev BY <2>3 DEF Events
    <3>2. i \in DOMAIN Q /\ Q[i].ev = e BY <3>1, <1>3, <2>3
    <3> QED BY <3>2 DEF Events
  <2> QED BY <2>1, <2>2, <2>3
<1> HIDE DEF G, S, requests, Q, R
<1>6. Books(Events(Q) \cup pending, Without(tx.ledger, requests)) BY <1>1, <1>4, <1>5, Forget
<1>7. RowsOK(Q)
  <2>1. IsFiniteSet(DOMAIN Q) BY <1>1, <1>3, FS_Subset DEF RowsOK
  <2> QED BY <2>1, <1>1, <1>3 DEF RowsOK
<1> QED BY <1>1, <1>2, <1>3, <1>6, <1>7 DEF Store

\* Each target of a request is one of its author's, which a tag names, and not
\* the request; and no tag is without a target.
LEMMA TargetsProperties ==
  ASSUME NEW tx, Store(tx, {}), NEW request
  PROVE  /\ \A t \in Targets(tx, request) :
              Own(request, t) /\ Names(request, t) /\ t # <<"e", request.id, request.author>>
         /\ \A tag \in {u \in request.tags : u[1] = "e" /\ u[2] # request.id} :
              \E t \in Targets(tx, request) : t[2] = tag[2] \/ \E e \in Catalog : e.id = tag[2] /\ t = e.coord
<1>1. ASSUME NEW i \in DOMAIN tx.rows
      PROVE  tx.rows[i].ev.id = i /\ EventOK(tx.rows[i].ev)
  BY DEF Store, RowsOK, Books, Events
<1>2. ASSUME NEW i, i # request.id
      PROVE  LET t == EventTarget(tx, request, i)
             IN  /\ Own(request, t) /\ t # <<"e", request.id, request.author>>
                 /\ \/ t = <<"e", i, request.author>>
                    \/ \E e \in Catalog : e.id = i /\ t = e.coord
  <2>1. CASE i \in DOMAIN tx.rows /\ tx.rows[i].ev.author = request.author /\ tx.rows[i].ev.coord # NoCoord
    <3>1. EventTarget(tx, request, i) = tx.rows[i].ev.coord BY <2>1 DEF EventTarget
    <3>2. LET e == tx.rows[i].ev IN e \in Catalog /\ e.id = i /\ e.coord[1] = "a" /\ e.coord[2] = request.author
      BY <1>1, <2>1 DEF EventOK
    <3> QED BY <3>1, <3>2 DEF Own
  <2>2. CASE ~(i \in DOMAIN tx.rows /\ tx.rows[i].ev.author = request.author /\ tx.rows[i].ev.coord # NoCoord)
    BY <2>2, <1>2 DEF EventTarget, Own
  <2> QED BY <2>1, <2>2
<1>3. ASSUME NEW t \in Targets(tx, request)
      PROVE  Own(request, t) /\ Names(request, t) /\ t # <<"e", request.id, request.author>>
  <2>1. CASE t \in request.tags /\ t[1] = "a" /\ t[2] = request.author
    BY <2>1 DEF Own, Names
  <2>2. CASE \E u \in request.tags : u[1] = "e" /\ u[2] # request.id /\ t = EventTarget(tx, request, u[2])
    <3>1. PICK u \in request.tags : u[1] = "e" /\ u[2] # request.id /\ t = EventTarget(tx, request, u[2]) BY <2>2
    <3> QED BY <3>1, <1>2 DEF Names
  <2> QED BY <2>1, <2>2 DEF Targets
<1>4. ASSUME NEW tag \in request.tags, tag[1] = "e", tag[2] # request.id
      PROVE  \E t \in Targets(tx, request) : t[2] = tag[2] \/ \E e \in Catalog : e.id = tag[2] /\ t = e.coord
  <2>1. EventTarget(tx, request, tag[2]) \in Targets(tx, request) BY <1>4 DEF Targets
  <2> QED BY <2>1, <1>2, <1>4
<1> QED BY <1>3, <1>4

\* A request that is not blocked itself is applied.
LEMMA AppliedStore ==
  ASSUME NEW tx, Store(tx, {}), NEW request, EventOK(request), request.id \notin DOMAIN tx.rows,
         ~Blocks(tx.ledger, request)
  PROVE  Store(Applied(tx, request), {request})
<1> DEFINE targets == Targets(tx, request)
           victims == {i \in DOMAIN tx.rows : \E t \in targets : Matches(tx.rows[i].ev, request, t)}
           left == Deleted(tx, victims)
<1>1. IsTx(tx) /\ RowsOK(tx.rows) /\ Books(Events(tx.rows), tx.ledger) BY DEF Store
<1>2. \A e \in Events(tx.rows) : e.id \in DOMAIN tx.rows BY <1>1 DEF RowsOK, Events
<1>3. CASE request.kind = "delete"
  <2>1. /\ IsTx(Applied(tx, request)) /\ Applied(tx, request).rows = left.rows
        /\ Applied(tx, request).ledger = Contributed(left.ledger, request, targets)
    BY <1>1, <1>3, AppliedTx
  <2>2. Store(left, {}) BY DeletedStore
  <2>3. /\ DOMAIN left.rows = DOMAIN tx.rows \ victims /\ \A i \in DOMAIN left.rows : left.rows[i] = tx.rows[i]
        /\ left.ledger = Without(tx.ledger, {i \in victims \cap DOMAIN tx.rows : tx.rows[i].ev.kind = "delete"})
    <3>1. left.rows = Restricted(tx.rows, DOMAIN tx.rows \ victims) BY <1>1, DeletedTx
    <3>2. left.ledger = Without(tx.ledger, {i \in victims \cap DOMAIN tx.rows : tx.rows[i].ev.kind = "delete"})
      BY <1>1, DeletedTx
    <3> HIDE DEF left, victims
    <3> QED BY <3>1, <3>2 DEF Restricted
  <2>4. ~Blocks(left.ledger, request)
    <3> HIDE DEF left, victims
    <3>1. PICK gone : left.ledger = Without(tx.ledger, gone) BY <2>3
    <3> QED BY <3>1, WithoutProperties DEF Blocks
  <2>5. \A e \in Events(left.rows), t \in targets : ~Matches(e, request, t)
    <3> SUFFICES ASSUME NEW i \in DOMAIN left.rows, NEW t \in targets, Matches(left.rows[i].ev, request, t) PROVE FALSE
      BY DEF Events
    <3>1. i \in DOMAIN tx.rows /\ i \notin victims /\ left.rows[i] = tx.rows[i] BY <2>3
    <3> QED BY <3>1
  <2> HIDE DEF left, victims, targets
  <2>6. Books(Events(left.rows), left.ledger) /\ \A e \in Events(left.rows) : e.id \in DOMAIN left.rows
    BY <2>2 DEF Store, RowsOK, Events
  <2>7. request.id \notin DOMAIN left.rows BY <2>3
  <2>8. \A e \in Events(left.rows) : e.id # request.id BY <2>6, <2>7
  <2>9. /\ \A t \in targets :
             /\ Own(request, t) /\ Names(request, t)
             /\ t # <<"e", request.id, request.author>>
             /\ \A e \in Events(left.rows) : ~Matches(e, request, t)
        /\ \A tag \in {u \in request.tags : u[1] = "e" /\ u[2] # request.id} :
             \E t \in targets : t[2] = tag[2] \/ \E e \in Catalog : e.id = tag[2] /\ t = e.coord
    BY <2>5, TargetsProperties DEF targets
  <2>10. Books(Events(left.rows) \cup {request}, Contributed(left.ledger, request, targets))
    BY <1>3, <2>4, <2>6, <2>8, <2>9, Learn
  <2> QED BY <2>1, <2>2, <2>7, <2>10 DEF Store
<1>4. CASE request.kind # "delete"
  <2>1. Applied(tx, request) = tx BY <1>1, <1>4, AppliedTx
  <2>2. Books(Events(tx.rows) \cup {request}, tx.ledger) BY <1>1, <1>2, <1>4 DEF Books, Sound
  <2> QED BY <1>1, <2>1, <2>2 DEF Store
<1> QED BY <1>3, <1>4

\* What was pending is written.
LEMMA PutStore ==
  ASSUME NEW tx, NEW e, Store(tx, {e}), NEW apps, NEW ra
  PROVE  Store(Put(tx, Row(e, apps, ra)), {})
<1> DEFINE row == Row(e, apps, ra)
           Q == [i \in DOMAIN tx.rows \cup {e.id} |-> IF i = e.id THEN row ELSE tx.rows[i]]
<1>1. IsTx(tx) /\ RowsOK(tx.rows) /\ Books(Events(tx.rows) \cup {e}, tx.ledger) /\ e.id \notin DOMAIN tx.rows BY DEF Store
<1>2. row.ev = e BY DEF Row
<1> HIDE DEF row
<1>3. IsTx(Put(tx, row)) /\ Put(tx, row).rows = Q /\ Put(tx, row).ledger = tx.ledger BY <1>1, <1>2, PutTx
<1>4. /\ DOMAIN Q = DOMAIN tx.rows \cup {e.id} /\ Q[e.id] = row
      /\ \A i \in DOMAIN tx.rows : Q[i] = tx.rows[i]
  BY <1>1
<1> HIDE DEF Q
<1>5. Events(Q) = Events(tx.rows) \cup {e}
  <2>1. \A i \in DOMAIN Q : Q[i].ev \in Events(tx.rows) \cup {e} BY <1>2, <1>4 DEF Events
  <2>2. \A i \in DOMAIN tx.rows : tx.rows[i].ev \in Events(Q) BY <1>4 DEF Events
  <2>3. e \in Events(Q) BY <1>2, <1>4 DEF Events
  <2> QED BY <2>1, <2>2, <2>3 DEF Events
<1>6. RowsOK(Q)
  <2>1. IsFiniteSet(DOMAIN Q) BY <1>1, <1>4, FS_AddElement DEF RowsOK
  <2> QED BY <2>1, <1>1, <1>2, <1>4 DEF RowsOK, row
<1> QED BY <1>1, <1>3, <1>5, <1>6 DEF Store, row

\* The same events in rows with other applications are the same books.
LEMMA SameEvents ==
  ASSUME NEW R, RowsOK(R), NEW Q, DOMAIN Q = DOMAIN R,
         \A i \in DOMAIN R : Q[i] = R[i] \/ \E apps : Q[i] = WithApps(R[i], apps)
  PROVE  RowsOK(Q) /\ Events(Q) = Events(R) /\ \A i \in DOMAIN Q : Q[i].ev = R[i].ev
<1>1. ASSUME NEW i \in DOMAIN R PROVE (\E e, apps, ra : Q[i] = Row(e, apps, ra)) /\ Q[i].ev = R[i].ev
  <2>1. PICK e, apps, ra : R[i] = Row(e, apps, ra) BY DEF RowsOK
  <2>2. PICK apps2 : Q[i] = Row(e, apps2, ra) BY <2>1 DEF Row, WithApps
  <2>3. Q[i].ev = e /\ R[i].ev = e BY <2>1, <2>2 DEF Row
  <2> QED BY <2>2, <2>3
<1> QED BY <1>1 DEF RowsOK, Events

\* Changing only the applications of rows keeps a transaction sound.
LEMMA AppsStore ==
  ASSUME NEW tx, Store(tx, {}), NEW new, IsTx(new), new.ledger = tx.ledger, DOMAIN new.rows = DOMAIN tx.rows,
         \A i \in DOMAIN tx.rows : new.rows[i] = tx.rows[i] \/ \E apps : new.rows[i] = WithApps(tx.rows[i], apps)
  PROVE  Store(new, {})
<1> DEFINE Q == new.rows
           R == tx.rows
<1>1. RowsOK(R) /\ DOMAIN Q = DOMAIN R /\ \A i \in DOMAIN R : Q[i] = R[i] \/ \E apps : Q[i] = WithApps(R[i], apps)
  BY DEF Store
<1> HIDE DEF Q, R
<1>2. RowsOK(Q) /\ Events(Q) = Events(R) BY <1>1, SameEvents
<1> QED BY <1>2 DEF Q, R, Store

\* Claims of applications and their end leave the books alone.
LEMMA ClaimedStore ==
  ASSUME NEW tx, Store(tx, {}), NEW ids, NEW app
  PROVE  Store(Claimed(tx, ids, app), {})
<1> DEFINE C == Claimed(tx, ids, app)
<1>1. /\ IsTx(C) /\ C.ledger = tx.ledger /\ DOMAIN C.rows = DOMAIN tx.rows
      /\ \A i \in DOMAIN tx.rows : C.rows[i] = tx.rows[i] \/ \E apps : C.rows[i] = WithApps(tx.rows[i], apps)
  BY ClaimedTx DEF Store
<1> HIDE DEF C
<1>2. Store(C, {}) BY <1>1, AppsStore
<1> QED BY <1>2 DEF C

\* An uninstallation takes the application off the rows it keeps.
LEMMA DisownedStore ==
  ASSUME NEW tx, Store(tx, {}), NEW ids, NEW app
  PROVE  Store(Disowned(tx, ids, app), {})
<1>1. PICK r, l, c, u, f : tx = Tx(r, l, c, u, f) BY DEF Store, IsTx
<1> DEFINE C == Disowned(tx, ids, app)
<1>7. PICK R : C = [tx EXCEPT !.rows = R] BY Zenon DEF Disowned
<1>2. C = Tx(C.rows, l, c, u, f)
  <2> HIDE DEF C
  <2> QED BY <1>1, <1>7 DEF Tx
<1>3. DOMAIN C.rows = DOMAIN tx.rows BY <1>1 DEF Disowned, Tx
<1>4. \A i \in DOMAIN tx.rows : C.rows[i] = tx.rows[i] \/ \E apps : C.rows[i] = WithApps(tx.rows[i], apps)
  BY <1>1 DEF Disowned, Tx, WithApps
<1> HIDE DEF C
<1>5. IsTx(C) BY <1>2 DEF IsTx
<1>6. C.ledger = tx.ledger BY <1>1, <1>2 DEF Tx
<1>8. Store(C, {}) BY <1>3, <1>4, <1>5, <1>6, AppsStore
<1> QED BY <1>8 DEF C

\* A deletion blocks nothing more.
LEMMA DeletedBlocks ==
  ASSUME NEW tx, IsTx(tx), NEW ids, NEW e, ~Blocks(tx.ledger, e)
  PROVE  ~Blocks(Deleted(tx, ids).ledger, e)
<1> DEFINE requests == {i \in ids \cap DOMAIN tx.rows : tx.rows[i].ev.kind = "delete"}
<1>1. Deleted(tx, ids).ledger = Without(tx.ledger, requests) BY DeletedTx
<1> HIDE DEF requests
<1> QED BY <1>1, WithoutProperties DEF Blocks

\* The whole body of add keeps the books, whatever it decides.
LEMMA AddedStore ==
  ASSUME NEW tx, Store(tx, {}), NEW e, EventOK(e), NEW app, NEW force, NEW consumed
  PROVE  Store(Added(tx, e, app, force, consumed), {})
<1> DEFINE rivals == Rivals(tx, e)
           loses == ~force /\ \E i \in rivals : ~WinsAddress(e, tx.rows[i].ev)
           apps == AppsOf(e, {app} \cup UNION {tx.rows[i].apps : i \in rivals})
           tx1 == Deleted(tx, rivals)
           tx2 == Applied(tx1, e)
           tx3 == Deleted(tx2, consumed)
           tx4 == Put(tx3, Row(e, apps, now))
<1>1. \/ Added(tx, e, app, force, consumed) = Claimed(tx, {e.id}, app)
      \/ Added(tx, e, app, force, consumed) = tx
      \/ Added(tx, e, app, force, consumed) = Claimed(tx, rivals, app)
      \/ /\ Added(tx, e, app, force, consumed) = tx4
         /\ e.id \notin DOMAIN tx.rows /\ ~Blocked(tx.ledger, e)
  BY DEF Added, Row
<1>2. ASSUME e.id \notin DOMAIN tx.rows, ~Blocked(tx.ledger, e) PROVE Store(tx4, {})
  <2>1. IsTx(tx) BY DEF Store
  <2>2. ~Blocks(tx.ledger, e) BY <1>2, BlockedBlocks DEF Store, Books, EventOK
  <2>3. Store(tx1, {}) /\ ~Blocks(tx1.ledger, e)
    <3> HIDE DEF rivals
    <3> QED BY <2>1, <2>2, DeletedStore, DeletedBlocks
  <2>4. e.id \notin DOMAIN tx1.rows
    <3>1. tx1.rows = Restricted(tx.rows, DOMAIN tx.rows \ rivals) BY <2>1, DeletedTx
    <3> HIDE DEF tx1, rivals
    <3> QED BY <3>1, <1>2 DEF Restricted
  <2> HIDE DEF tx1
  <2>5. Store(tx2, {e}) BY <2>3, <2>4, AppliedStore
  <2> HIDE DEF tx2
  <2>6. Store(tx3, {e}) BY <2>5, DeletedStore
  <2> HIDE DEF tx3, apps
  <2> QED BY <2>6, PutStore
<1>3. Store(Claimed(tx, {e.id}, app), {}) /\ Store(Claimed(tx, rivals, app), {})
  <2> HIDE DEF rivals
  <2> QED BY ClaimedStore
<1> HIDE DEF tx4, rivals
<1> QED BY <1>1, <1>2, <1>3

\* Reclassifying at the end of a transaction keeps it sound: neither rows nor ledger change.
LEMMA ReconciledStore ==
  ASSUME NEW tx, Store(tx, {})
  PROVE  Store(Reconciled(tx), {})
<1>1. PICK ids : Reconciled(tx) = Classify(tx, ids) BY DEF Reconciled
<1>2. IsTx(tx) BY DEF Store
<1> QED BY <1>1, <1>2, ClassifyTx DEF Store

-----------------------------------------------------------------------------
\* What a compaction selects.
Selection(infos, at) == [selected |-> infos, targets |-> UNION {x.targets : x \in infos}, at |-> at]

\* Times and ids order the requests: of some there is a latest.
Ordered(infos) ==
  /\ IsFiniteSet(infos)
  /\ \A x \in infos : x.event.at \in Nat /\ x.event.id \in Nat
  /\ \A x, y \in infos : x.event.id = y.event.id => x = y

\* The latest of several requests is one of them.
LEMMA LatestIn ==
  ASSUME NEW infos, Ordered(infos), infos # {}
  PROVE  Latest(infos) \in infos
<1> DEFINE at == [x \in infos |-> x.event.at]
           id == [x \in infos |-> x.event.id]
           times == {at[x] : x \in infos}
           late == {x \in infos : at[x] = Max(times)}
           ids == {id[x] : x \in late}
<1>1. times # {} /\ times \subseteq Int /\ IsFiniteSet(times)
  <2>1. \A x \in infos : at[x] \in Nat BY DEF Ordered
  <2> HIDE DEF at
  <2> QED BY <2>1, ImageFinite DEF Ordered
<1>2. Max(times) \in times /\ \A n \in times : n <= Max(times)
  <2> HIDE DEF times
  <2> QED BY <1>1, MaxOf
<1>3. ids # {} /\ ids \subseteq Int /\ IsFiniteSet(ids)
  <2>1. \A x \in infos : id[x] \in Nat BY DEF Ordered
  <2>2. late # {} /\ late \subseteq infos BY <1>2
  <2>3. IsFiniteSet(late) BY <2>2, FS_Subset DEF Ordered
  <2> HIDE DEF id, late
  <2>4. IsFiniteSet(ids) BY <2>3, ImageFinite
  <2> QED BY <2>1, <2>2, <2>4
<1>4. Max(ids) \in ids /\ \A n \in ids : n <= Max(ids)
  <2> HIDE DEF ids
  <2> QED BY <1>3, MaxOf
<1>5. PICK x \in infos : x.event.at = Max(times) /\ x.event.id = Max(ids) BY <1>4
<1>6. ASSUME NEW y \in infos \ {x} PROVE Older(y.event, x.event)
  <2>1. y.event.at \in times /\ y.event.at <= x.event.at BY <1>2, <1>5
  <2>2. y.event.at \in Nat /\ x.event.at \in Nat /\ y.event.id \in Nat /\ x.event.id \in Nat BY DEF Ordered
  <2>3. y.event.id # x.event.id BY DEF Ordered
  <2>4. ASSUME y.event.at = x.event.at PROVE y.event.id <= x.event.id
    <3>1. y \in late BY <2>4, <1>5
    <3>2. y.event.id \in ids BY <3>1
    <3> QED BY <3>2, <1>4, <1>5
  <2> HIDE DEF times, ids, late
  <2> QED BY <2>1, <2>2, <2>3, <2>4 DEF Older
<1> QED BY <1>5, <1>6 DEF Latest

\* Requests are added with all of their targets, and the time stays.
LEMMA AddInfosSelects ==
  ASSUME NEW old, NEW at, NEW infos, Ordered(infos)
  PROVE  \E some \in SUBSET infos : AddInfos(Selection(old, at), infos) = Selection(old \cup some, at)
<1> DEFINE base == Selection(old, at)
           V == {Selection(old \cup some, at) : some \in SUBSET infos}
           F == [x \in infos |-> [q \in V |-> AddInfo(q, x)]]
           c == [T \in SUBSET infos |-> Latest(T)]
           g == CHOOSE g : g = [s \in SUBSET infos |->
                  IF s = {} THEN base ELSE AddInfo(g[s \ {Latest(s)}], Latest(s))]
<1>1. AddInfos(base, infos) = g[infos] BY DEF AddInfos, MapThenFoldSet
<1>2. base \in V
  <2>1. base = Selection(old \cup {}, at) BY DEF Selection
  <2> QED BY <2>1
<1>3. \A x \in infos, q \in V : F[x][q] = AddInfo(q, x) /\ F[x][q] \in V
  <2> SUFFICES ASSUME NEW x \in infos, NEW some \in SUBSET infos
               PROVE  AddInfo(Selection(old \cup some, at), x) \in V
    OBVIOUS
  <2>1. \/ AddInfo(Selection(old \cup some, at), x) = Selection(old \cup some, at)
        \/ AddInfo(Selection(old \cup some, at), x) = Selection(old \cup (some \cup {x}), at)
    <3> DEFINE q == Selection(old \cup some, at)
    <3> DEFINE A == old \cup (some \cup {x})
               B == UNION {y.targets : y \in A}
               C == q.targets
               p == [q EXCEPT !.selected = A]
    <3>1. AddInfo(q, x) = q \/ AddInfo(q, x) = [q EXCEPT !.selected = @ \cup {x}, !.targets = @ \cup x.targets]
      BY DEF AddInfo
    <3>2. q.selected \cup {x} = A /\ C \cup x.targets = B BY DEF Selection
    <3>3. q = [selected |-> old \cup some, targets |-> C, at |-> at] BY DEF Selection
    <3>5. Selection(A, at) = [selected |-> A, targets |-> B, at |-> at] BY DEF Selection
    <3>8. [q EXCEPT !.selected = @ \cup {x}, !.targets = @ \cup x.targets] = [p EXCEPT !.targets = B] BY <3>2, <3>3
    <3> HIDE DEF A, B, C, q
    <3>6. p = [selected |-> A, targets |-> C, at |-> at] BY <3>3
    <3> HIDE DEF p
    <3>7. [p EXCEPT !.targets = B] = Selection(A, at) BY <3>6, <3>5
    <3>4. [q EXCEPT !.selected = @ \cup {x}, !.targets = @ \cup x.targets] = Selection(A, at) BY <3>7, <3>8
    <3> USE DEF A, q
    <3> QED BY <3>1, <3>4
  <2>2. some \cup {x} \in SUBSET infos OBVIOUS
  <2> QED BY <2>1, <2>2
<1>4. \A T \in SUBSET infos : T # {} => c[T] = Latest(T) /\ c[T] \in T
  <2> SUFFICES ASSUME NEW T \in SUBSET infos, T # {} PROVE Latest(T) \in T OBVIOUS
  <2>1. Ordered(T) BY FS_Subset DEF Ordered
  <2> QED BY <2>1, LatestIn
<1> HIDE DEF base, V, F, c
<1>5. PICK h : FoldOf(h, infos, V, base, F, c)
  <2>1. IsFiniteSet(infos) BY DEF Ordered
  <2>2. Chooses(c, infos) /\ Steps(F, infos, V) BY <1>3, <1>4 DEF Chooses, Steps
  <2> QED BY <1>2, <2>1, <2>2, FoldExists
<1>6. \A T \in SUBSET infos : h[T] = IF T = {} THEN base ELSE AddInfo(h[T \ {Latest(T)}], Latest(T))
  <2> SUFFICES ASSUME NEW T \in SUBSET infos, T # {} PROVE F[c[T]][h[T \ {c[T]}]] = AddInfo(h[T \ {c[T]}], c[T])
    BY <1>4, <1>5 DEF FoldOf
  <2>1. c[T] \in infos /\ h[T \ {c[T]}] \in V BY <1>4, <1>5 DEF FoldOf
  <2> QED BY <2>1, <1>3
<1>7. h = [s \in SUBSET infos |-> IF s = {} THEN base ELSE AddInfo(h[s \ {Latest(s)}], Latest(s))]
  BY <1>5, <1>6 DEF FoldOf
<1>8. g = [s \in SUBSET infos |-> IF s = {} THEN base ELSE AddInfo(g[s \ {Latest(s)}], Latest(s))] BY <1>7
<1> HIDE DEF g
<1>9. SUBSET infos \subseteq {T \in SUBSET infos : g[T] \in V}
  <2> DEFINE C == {T \in SUBSET infos : g[T] \in V}
  <2>1. {} \in C BY <1>2, <1>8
  <2>2. ASSUME NEW T \in SUBSET infos, T # {}, T \ {Latest(T)} \in C PROVE T \in C
    <3>1. g[T] = AddInfo(g[T \ {Latest(T)}], Latest(T)) BY <1>8, <2>2
    <3>2. g[T \ {Latest(T)}] \in V /\ Latest(T) \in infos BY <2>2, <1>4
    <3> QED BY <3>1, <3>2, <1>3
  <2>3. \A T \in SUBSET infos : T # {} => \E x \in T : (T \ {x} \in C => T \in C) BY <2>2, <1>4
  <2>4. C \in SUBSET SUBSET infos /\ IsFiniteSet(infos) BY DEF Ordered
  <2> HIDE DEF C
  <2>5. SUBSET infos \subseteq C BY <2>1, <2>3, <2>4, Induct
  <2> QED BY <2>5 DEF C
<1>10. g[infos] \in V BY <1>9
<1> QED BY <1>1, <1>10 DEF base, V

\* What is signed: all the targets of requests of the owner's, at a time that
\* is that of every request with an address among them.
Chosen(p) ==
  /\ p.at \in Nat /\ p.targets = UNION {x.targets : x \in p.selected}
  /\ \A x \in p.selected : /\ x.event.kind = "delete" /\ x.event.author = Owner
                           /\ HasAddress(x) => x.event.at = p.at

\* The fold over a group, and then over the requests without addresses.
LEMMA SelectionCases ==
  ASSUME NEW infos, Ordered(infos), NEW p \in SelectDeletionCompaction(infos)
  PROVE  \E some \in SUBSET infos, at \in {x.event.at : x \in infos} \cup {Never} :
           /\ p = Selection(some, at)
           /\ \A x \in some : HasAddress(x) => x.event.at = at
<1> DEFINE addressed == {x \in infos : HasAddress(x)}
           group(at) == {x \in addressed : x.event.at = at}
           times == {x.event.at : x \in addressed}
<1>1. PICK q : /\ p = AddInfos(q, infos \ addressed)
               /\ \/ q = Nothing(Never)
                  \/ \E at \in times : q = AddInfos(Nothing(at), group(at))
  BY DEF SelectDeletionCompaction
<1>2. \A T \in SUBSET infos : Ordered(T) BY FS_Subset DEF Ordered
<1>3. \A at : Nothing(at) = Selection({}, at) BY DEF Nothing, Selection
<1>4. PICK old \in SUBSET addressed, at \in times \cup {Never} :
        q = Selection(old, at) /\ \A x \in old : x.event.at = at
  <2>1. CASE q = Nothing(Never)
    <3>1. q = Selection({}, Never) BY <2>1, <1>3
    <3> QED BY <3>1
  <2>2. CASE \E at \in times : q = AddInfos(Nothing(at), group(at))
    <3>1. PICK at \in times : q = AddInfos(Nothing(at), group(at)) BY <2>2
    <3>2. group(at) \in SUBSET infos OBVIOUS
    <3>3. Ordered(group(at)) BY <3>2, <1>2
    <3>4. q = AddInfos(Selection({}, at), group(at)) BY <3>1, <1>3
    <3> HIDE DEF group
    <3>5. PICK some \in SUBSET group(at) : q = Selection({} \cup some, at) BY <3>3, <3>4, AddInfosSelects
    <3>6. {} \cup some = some OBVIOUS
    <3>7. q = Selection(some, at) BY <3>5, <3>6
    <3>8. some \in SUBSET addressed /\ \A x \in some : x.event.at = at BY DEF group
    <3> QED BY <3>1, <3>7, <3>8
  <2> QED BY <1>1, <2>1, <2>2
<1>5. PICK some \in SUBSET (infos \ addressed) : p = Selection(old \cup some, at)
  <2> DEFINE rest == infos \ addressed
  <2>1. Ordered(rest) BY <1>2
  <2>2. p = AddInfos(Selection(old, at), rest) BY <1>1, <1>4
  <2> HIDE DEF rest
  <2>3. \E some \in SUBSET rest : p = Selection(old \cup some, at) BY <2>1, <2>2, AddInfosSelects
  <2> QED BY <2>3 DEF rest
<1>6. \A x \in old \cup some : HasAddress(x) => x.event.at = at BY <1>4
<1>7. old \cup some \in SUBSET infos /\ at \in {x.event.at : x \in infos} \cup {Never} OBVIOUS
<1> QED BY <1>5, <1>6, <1>7

\* The time of the new request is that of its group, or no earlier than any.
LEMMA SignableChosen ==
  ASSUME NEW infos, Ordered(infos), now \in Nat, NEW p \in SelectDeletionCompaction(infos),
         \A x \in infos : x.event.kind = "delete" /\ x.event.author = Owner
  PROVE  Chosen(Signable(p))
<1>1. PICK some \in SUBSET infos, at \in {x.event.at : x \in infos} \cup {Never} :
        p = Selection(some, at) /\ \A x \in some : HasAddress(x) => x.event.at = at
  BY SelectionCases
<1>2. p.at = at /\ p.selected = some BY <1>1 DEF Selection
<1>3. \A time : [p EXCEPT !.at = time] = Selection(some, time) BY <1>1 DEF Selection
<1>4. Signable(p) = Selection(some, IF at # Never THEN at ELSE LatestTime(p)) BY <1>2, <1>3 DEF Signable
<1>5. ASSUME NEW time \in Nat, at # Never => time = at, at = Never => \A x \in some : ~HasAddress(x)
      PROVE  Chosen(Selection(some, time))
  <2>1. /\ Selection(some, time).at = time /\ Selection(some, time).selected = some
        /\ Selection(some, time).targets = UNION {x.targets : x \in some}
    BY DEF Selection
  <2>2. \A x \in some : HasAddress(x) => x.event.at = time BY <1>1, <1>5
  <2> QED BY <2>1, <2>2 DEF Chosen
<1>6. CASE at # Never
  <2>1. at \in Nat BY <1>6 DEF Ordered
  <2> QED BY <1>4, <1>5, <1>6, <2>1
<1>7. CASE at = Never
  <2> DEFINE f == [x \in some |-> x.event.at]
             times == {f[x] : x \in some} \cup {now}
  <2>1. IsFiniteSet(some) BY FS_Subset DEF Ordered
  <2>2. times \subseteq Int /\ times # {} BY <1>1 DEF Ordered
  <2>3. IsFiniteSet(times)
    <3> DEFINE ats == {f[x] : x \in some}
    <3>1. IsFiniteSet(ats)
      <4> HIDE DEF f
      <4> QED BY <2>1, ImageFinite
    <3> HIDE DEF ats
    <3>2. IsFiniteSet(ats \cup {now}) BY <3>1, FS_AddElement
    <3> QED BY <3>2 DEF ats
  <2>4. LatestTime(p) = Max(times)
    <3>1. {now} \cup {x.event.at : x \in p.selected} = times BY <1>2
    <3> QED BY <3>1 DEF LatestTime
  <2>5. times \subseteq Nat BY DEF Ordered
  <2> HIDE DEF times
  <2>6. LatestTime(p) \in Nat BY <2>2, <2>3, <2>4, <2>5, MaxOf
  <2>7. \A x \in some : ~HasAddress(x)
    <3>1. \A x \in some : x.event.at \in Nat BY DEF Ordered
    <3> QED BY <1>1, <1>7, <3>1, StoreConstants
  <2> QED BY <1>4, <1>5, <1>7, <2>6, <2>7
<1> QED BY <1>6, <1>7

-----------------------------------------------------------------------------
\* The inductive invariant.
Kept == RowsOK(rows) /\ Books(Events(rows), ledger)
JobsOK == jobs = [j \in Jobs |-> jobs[j]] /\ (jobs.compact # Idle => Chosen(jobs.compact))
IInv == world \in Worlds /\ now \in Nat /\ Kept /\ JobsOK

\* A transaction begins with the rows and the ledger as they are.
LEMMA BeginStore ==
  ASSUME Kept
  PROVE  Store(Begin, {}) /\ Begin.rows = rows /\ Begin.ledger = ledger
<1>1. Begin = Tx(rows, ledger, cache, usage, {}) BY DEF Begin, Tx
<1> QED BY <1>1 DEF Store, IsTx, Tx, Kept

\* A transaction that is saved leaves sound rows and ledger.
LEMMA MutateKept ==
  ASSUME NEW tx, Store(tx, {}), Mutate(tx)
  PROVE  \E new : Store(new, {}) /\ rows' = new.rows /\ ledger' = new.ledger
BY ReconciledStore DEF Mutate, Save

\* Events that may arrive, and those that compaction signs, are well-formed.
LEMMA CatalogOK ==
  ASSUME world \in Worlds
  PROVE  \A e \in Catalog : EventOK(e)
BY StoreConstants DEF Catalog, EventOK

\* The request that compaction writes is an event like any other.
LEMMA MergedOK ==
  ASSUME NEW i \in MergedIds, NEW p, Chosen(p)
  PROVE  EventOK(Merged(i, p))
BY StoreConstants DEF EventOK, Merged, Chosen

\* Every world begins with sound books: no routine under way, the ledger built from the rows.
LEMMA InitIInv == Init => IInv
<1> SUFFICES ASSUME Init PROVE IInv OBVIOUS
<1> DEFINE old == world.legacy
           f == [e \in old |-> e.id]
           pick(i) == CHOOSE e \in old : e.id = i
<1>1. world \in Worlds /\ now \in Nat BY DEF Init
<1>2. /\ old \subseteq Catalog /\ IsFiniteSet(Catalog)
      /\ \A e \in old : e.kind # "delete"
  BY <1>1, StoreConstants DEF Catalog
<1>3. \A i \in {e.id : e \in old} : pick(i) \in old /\ pick(i).id = i OBVIOUS
<1>4. rows = [i \in {e.id : e \in old} |-> [ev |-> pick(i), apps |-> {}, ra |-> 0]] BY DEF Init
<1>5. DOMAIN rows = {e.id : e \in old} BY <1>4
<1>6. IsFiniteSet(DOMAIN rows)
  <2>1. {e.id : e \in old} = {f[e] : e \in old} OBVIOUS
  <2>2. IsFiniteSet(old) BY <1>2, FS_Subset
  <2> HIDE DEF f, old
  <2>3. IsFiniteSet({f[e] : e \in old}) BY <2>2, ImageFinite
  <2> QED BY <1>5, <2>1, <2>3
<1>7. \A i \in DOMAIN rows : rows[i] = Row(pick(i), {}, 0) BY <1>4, <1>5 DEF Row
<1> HIDE DEF pick
<1>8. \A i \in DOMAIN rows : rows[i].ev = pick(i) BY <1>7 DEF Row
<1>9. RowsOK(rows) BY <1>3, <1>5, <1>6, <1>7, <1>8 DEF RowsOK
<1>10. Events(rows) \subseteq old BY <1>3, <1>5, <1>8 DEF Events
<1>11. DOMAIN ledger = {} BY DEF Init
<1>12. Books(Events(rows), ledger)
  <2>1. Sound(Events(rows), ledger) BY <1>11 DEF Sound
  <2>2. \A e \in Events(rows) : EventOK(e) /\ e.kind # "delete" /\ ~Blocks(ledger, e)
    BY <1>1, <1>2, <1>10, <1>11, CatalogOK DEF Blocks
  <2>3. \A e, g \in Events(rows) : e.id = g.id => e = g
    BY <1>1, <1>2, <1>10, StoreConstants DEF Catalog
  <2> QED BY <2>1, <2>2, <2>3 DEF Books
<1>13. JobsOK BY DEF Init, JobsOK, Jobs
<1> QED BY <1>1, <1>9, <1>12, <1>13 DEF IInv, Kept

\* The catalogue is the same after a step, and so is what the books mean.
LEMMA KeptStep ==
  ASSUME world' = world, NEW tx, Store(tx, {}), rows' = tx.rows, ledger' = tx.ledger
  PROVE  Kept'
<1>1. RowsOK(rows') /\ Books(Events(rows'), ledger') BY DEF Store
<1>2. Catalog' = Catalog BY DEF Catalog
<1>3. Sound(Events(rows), ledger)' BY <1>1, <1>2 DEF Books, Sound, Names, Own
<1>4. (\A e \in Events(rows) : EventOK(e))' BY <1>1, <1>2 DEF Books, EventOK
<1>5. (\A e \in Events(rows) : e.kind = "delete" => Complete(e, ledger))' BY <1>1, <1>2 DEF Books, Complete
<1>6. (\A e \in Events(rows) : ~Blocks(ledger, e))' BY <1>1 DEF Books, Blocks
<1>7. (\A e, f \in Events(rows) : e.id = f.id => e = f)' BY <1>1 DEF Books
<1>8. RowsOK(rows)' BY <1>1 DEF RowsOK, Row
<1> QED BY <1>3, <1>4, <1>5, <1>6, <1>7, <1>8 DEF Kept, Books

-----------------------------------------------------------------------------
\* Each action changes rows and ledger as an operation that keeps the books, or
\* not at all.
Moved == \E new : Store(new, {}) /\ rows' = new.rows /\ ledger' = new.ledger

\* Jobs other than a compaction leave what a compaction holds, or end it.
JobsStay == jobs' = [j \in Jobs |-> jobs'[j]] /\ (jobs'.compact = jobs.compact \/ jobs'.compact = Idle)

\* What is known of the routines under way goes on while the rows they chose stay as chosen.
LEMMA JobsStayOK == ASSUME JobsOK, JobsStay PROVE JobsOK'
BY DEF JobsOK, JobsStay, Chosen, HasAddress

\* A step that touches neither rows nor ledger is a sound move.
LEMMA StillMoved == ASSUME Kept, UNCHANGED <<rows, ledger>> PROVE Moved
BY BeginStore DEF Moved

\* Saving a sound transaction is a sound move.
LEMMA MutateMoved ==
  ASSUME NEW tx, Store(tx, {}), Mutate(tx)
  PROVE  Moved
BY MutateKept DEF Moved

\* Removing events is a sound move.
LEMMA DeletedMoved ==
  ASSUME Kept, NEW ids, Mutate(Deleted(Begin, ids))
  PROVE  Moved
BY BeginStore, DeletedStore, MutateMoved

\* Adding an event, refused, replaced or stored, is a sound move (addEvent).
LEMMA AddEventMoved ==
  ASSUME Kept, NEW e, EventOK(e), NEW app, NEW force, NEW consumed, AddEvent(e, app, force, consumed)
  PROVE  Moved
<1>1. Store(Begin, {}) BY BeginStore
<1>2. Store(Added(Begin, e, app, force, consumed), {}) BY <1>1, AddedStore
<1>3. Mutate(Added(Begin, e, app, force, consumed)) BY DEF AddEvent
<1> QED BY <1>2, <1>3, MutateMoved

\* Starting a routine other than the compaction leaves the compaction's choice as it is.
LEMMA StartsStay ==
  ASSUME JobsOK, NEW j \in Jobs \ {"compact"}, NEW data, Starts(j, data)
  PROVE  JobsStay
BY DEF JobsOK, JobsStay, Starts, Jobs

\* The end of a routine leaves what the others chose.
LEMMA EndsStay ==
  ASSUME JobsOK, NEW j \in Jobs, Ends(j)
  PROVE  JobsStay
BY DEF JobsOK, JobsStay, Ends, Jobs

\* A step that touches no routine leaves what they chose.
LEMMA SameJobsStay == ASSUME JobsOK, UNCHANGED jobs PROVE JobsStay
BY DEF JobsOK, JobsStay

\* Some job's data changes.
LEMMA OtherJobStay ==
  ASSUME JobsOK, NEW j \in Jobs \ {"compact"}, NEW data, jobs' = [jobs EXCEPT ![j] = data]
  PROVE  JobsStay
BY DEF JobsOK, JobsStay, Jobs

\* What applications do moves the store soundly.
LEMMA ApplicationsMoved ==
  ASSUME IInv, Applications
  PROVE  world' = world /\ now' = now /\ Moved /\ JobsStay
<1> USE DEF IInv
<1>1. ASSUME NEW e \in Catalog, NEW app, NEW force, Add(e, app, force) PROVE world' = world /\ now' = now /\ Moved /\ JobsStay
  <2>1. Moved BY <1>1, CatalogOK, AddEventMoved DEF Add
  <2>2. JobsStay BY <1>1, SameJobsStay DEF Add, memory
  <2> QED BY <1>1, <2>1, <2>2 DEF Add
<1>2. ASSUME NEW targets, RemoveTargets(targets) PROVE world' = world /\ now' = now /\ Moved /\ JobsStay
  <2>1. Moved BY <1>2, DeletedMoved DEF RemoveTargets
  <2>2. JobsStay BY <1>2, SameJobsStay DEF RemoveTargets, memory
  <2> QED BY <1>2, <2>1, <2>2 DEF RemoveTargets
<1>3. ASSUME NEW i, NEW app, QueueAppClaim(i, app) PROVE world' = world /\ now' = now /\ Moved /\ JobsStay
  BY <1>3, StillMoved, SameJobsStay DEF QueueAppClaim, stores
<1>4. ASSUME NEW i, Touch(i) PROVE world' = world /\ now' = now /\ Moved /\ JobsStay
  BY <1>4, StillMoved, SameJobsStay DEF Touch, stores
<1>5. ASSUME NEW app, Uninstall(app) PROVE world' = world /\ now' = now /\ Moved /\ JobsStay
  <2>1. JobsStay BY <1>5, StartsStay DEF Uninstall, Jobs
  <2> QED BY <1>5, <2>1, StillMoved DEF Uninstall, stores
<1> QED BY <1>1, <1>2, <1>3, <1>4, <1>5 DEF Applications

\* Pages of preparation change the counters and the classes.
LEMMA PreparePageMoved == ASSUME Kept, PreparePage PROVE UNCHANGED <<rows, ledger>>
<1>1. Begin = Tx(rows, ledger, cache, usage, {}) BY DEF Begin, Tx
<1>2. \A u : [Begin EXCEPT !.usage = u] = Tx(rows, ledger, cache, u, {}) BY <1>1 DEF Tx
<1>3. ASSUME NEW i PROVE Counted(i).rows = rows /\ Counted(i).ledger = ledger
  <2>1. \E u : Counted(i) = Classify([Begin EXCEPT !.usage = u], {i}) BY Zenon DEF Counted
  <2>2. PICK u, tx : Counted(i) = Classify(tx, {i}) /\ tx = Tx(rows, ledger, cache, u, {}) BY <1>2, <2>1
  <2>3. IsTx(tx) /\ tx.rows = rows /\ tx.ledger = ledger BY <2>2 DEF IsTx, Tx
  <2>4. Classify(tx, {i}).rows = rows /\ Classify(tx, {i}).ledger = ledger BY <2>3, ClassifyTx
  <2> QED BY <2>2, <2>4
<1>4. PICK tx : Save(tx) /\ (\/ \E u : tx = [Begin EXCEPT !.usage = u]
                            \/ \E i : tx = Counted(i))
  BY DEF PreparePage
<1>5. tx.rows = rows /\ tx.ledger = ledger
  <2>1. \A u : Tx(rows, ledger, cache, u, {}).rows = rows /\ Tx(rows, ledger, cache, u, {}).ledger = ledger BY DEF Tx
  <2> QED BY <1>2, <1>3, <1>4, <2>1
<1> QED BY <1>4, <1>5 DEF Save

\* What compaction selects from the stored requests is ordered.
LEMMA InfosOrdered ==
  ASSUME Kept
  PROVE  LET infos == {Info(r) : r \in Compactable}
         IN  Ordered(infos) /\ \A x \in infos : x.event.kind = "delete" /\ x.event.author = Owner
<1> DEFINE f == [r \in Compactable |-> Info(r)]
           infos == {f[r] : r \in Compactable}
<1>1. Compactable \subseteq DOMAIN rows BY DEF Compactable, RequestsOfOwner
<1>2. IsFiniteSet(Compactable) BY <1>1, FS_Subset DEF Kept, RowsOK
<1>3. IsFiniteSet(infos)
  <2> HIDE DEF f
  <2> QED BY <1>2, ImageFinite
<1>4. \A r \in Compactable : /\ f[r].event = rows[r].ev /\ rows[r].ev.id = r /\ EventOK(rows[r].ev)
                             /\ rows[r].ev.kind = "delete" /\ rows[r].ev.author = Owner
  BY <1>1 DEF Info, Compactable, RequestsOfOwner, Kept, RowsOK, Books, Events
<1>5. infos = {Info(r) : r \in Compactable} OBVIOUS
<1> HIDE DEF f
<1>6. Ordered(infos) BY <1>3, <1>4 DEF Ordered, EventOK
<1>7. \A x \in infos : x.event.kind = "delete" /\ x.event.author = Owner BY <1>4
<1> QED BY <1>5, <1>6, <1>7

\* What the compaction chooses to merge is what the rows say at that time.
LEMMA CompactSelectKept ==
  ASSUME IInv, CompactSelect
  PROVE  world' = world /\ now' = now /\ Moved /\ JobsOK'
<1> DEFINE infos == {Info(r) : r \in Compactable}
<1> USE DEF IInv
<1>1. PICK p \in SelectDeletionCompaction(infos) : Starts("compact", Signable(p)) BY DEF CompactSelect
<1>2. Chosen(Signable(p))
  <2>1. Ordered(infos) /\ \A x \in infos : x.event.kind = "delete" /\ x.event.author = Owner BY InfosOrdered
  <2> HIDE DEF infos
  <2> QED BY <1>1, <2>1, SignableChosen
<1>3. JobsOK'
  <2> DEFINE q == Signable(p)
  <2>1. jobs' = [jobs EXCEPT !["compact"] = q] BY <1>1 DEF Starts
  <2> HIDE DEF q
  <2>2. jobs' = [j \in Jobs |-> jobs'[j]] /\ jobs'.compact = q BY <2>1 DEF JobsOK, Jobs
  <2>3. Chosen(jobs'.compact) BY <1>2, <2>2 DEF q
  <2>4. Chosen(jobs.compact)' BY <2>3 DEF Chosen, HasAddress
  <2> QED BY <2>2, <2>4 DEF JobsOK
<1>4. UNCHANGED <<world, now, rows, ledger>> BY DEF CompactSelect, stores
<1> QED BY <1>3, <1>4, StillMoved

\* Writing the merged request and deleting those it stands for is a sound move.
LEMMA CompactSaveMoved ==
  ASSUME IInv, CompactSave
  PROVE  world' = world /\ now' = now /\ Moved /\ JobsStay
<1> USE DEF IInv
<1>1. PICK i \in MergedIds : AddEvent(Merged(i, jobs.compact), NoApp, FALSE, Consumed(jobs.compact))
  BY DEF CompactSave, Lowest
<1>2. Chosen(jobs.compact) BY DEF CompactSave, JobsOK
<1>3. Moved
  <2>1. EventOK(Merged(i, jobs.compact)) BY <1>2, MergedOK
  <2> QED BY <1>1, <2>1, AddEventMoved
<1>4. JobsStay BY EndsStay DEF CompactSave, Jobs
<1> QED BY <1>3, <1>4 DEF CompactSave

\* Pruning and expiry move the store soundly.
LEMMA PruneMoved ==
  ASSUME IInv, PruneSelect \/ PruneDelete \/ ExpireSelect \/ ExpireDelete
  PROVE  world' = world /\ now' = now /\ Moved /\ JobsStay
<1> USE DEF IInv
<1>1. CASE PruneSelect
  <2>1. PICK data : Starts("prune", data) BY <1>1 DEF PruneSelect
  <2>2. JobsStay BY <2>1, StartsStay DEF Jobs
  <2> QED BY <1>1, <2>2, StillMoved DEF PruneSelect, stores
<1>2. CASE PruneDelete
  <2>1. JobsStay BY <1>2, EndsStay DEF PruneDelete, Jobs
  <2> QED BY <1>2, <2>1, DeletedMoved DEF PruneDelete
<1>3. CASE ExpireSelect
  <2>1. PICK data : Starts("expire", data) BY <1>3 DEF ExpireSelect
  <2>2. JobsStay BY <2>1, StartsStay DEF Jobs
  <2> QED BY <1>3, <2>2, StillMoved DEF ExpireSelect, stores
<1>4. CASE ExpireDelete
  <2>1. JobsStay BY <1>4, EndsStay DEF ExpireDelete, Jobs
  <2>2. PICK ids : Mutate(Deleted(Begin, ids)) BY <1>4 DEF ExpireDelete
  <2>3. Moved BY <2>2, DeletedMoved
  <2> QED BY <1>4, <2>1, <2>3 DEF ExpireDelete
<1> QED BY <1>1, <1>2, <1>3, <1>4

\* Dropping requests that only strangers brought moves the store soundly.
LEMMA HearsayMoved ==
  ASSUME IInv, HearsayScan \/ HearsayCheck \/ HearsayDelete
  PROVE  world' = world /\ now' = now /\ Moved /\ JobsStay
<1> USE DEF IInv
<1>1. CASE HearsayScan
  <2>1. PICK data : Starts("hearsay", data) BY <1>1 DEF HearsayScan
  <2>2. JobsStay BY <2>1, StartsStay DEF Jobs
  <2> QED BY <1>1, <2>2, StillMoved DEF HearsayScan, stores
<1>2. CASE HearsayCheck
  <2>1. Ends("hearsay") \/ \E data : jobs' = [jobs EXCEPT !["hearsay"] = data] BY <1>2 DEF HearsayCheck
  <2>2. JobsStay BY <2>1, EndsStay, OtherJobStay DEF Jobs
  <2> QED BY <1>2, <2>2, StillMoved DEF HearsayCheck, stores
<1>3. CASE HearsayDelete
  <2>1. \E data : jobs' = [jobs EXCEPT !["hearsay"] = data] BY <1>3 DEF HearsayDelete
  <2>2. JobsStay BY <2>1, OtherJobStay DEF Jobs
  <2> QED BY <1>3, <2>2, DeletedMoved DEF HearsayDelete
<1> QED BY <1>1, <1>2, <1>3

\* Uninstalling an application moves the store soundly.
LEMMA UninstallMoved ==
  ASSUME IInv, PurgeUnclaimedPage \/ CollectAppRows \/ DeleteAppRows
  PROVE  world' = world /\ now' = now /\ Moved /\ JobsStay
<1> USE DEF IInv
<1>1. CASE PurgeUnclaimedPage
  <2>1. JobsStay BY <1>1, SameJobsStay DEF PurgeUnclaimedPage, memory
  <2>2. PICK ids : Mutate(Deleted(Begin, ids)) BY <1>1 DEF PurgeUnclaimedPage
  <2>3. Moved BY <2>2, DeletedMoved
  <2> QED BY <1>1, <2>1, <2>3 DEF PurgeUnclaimedPage
<1>2. CASE CollectAppRows
  <2>1. Ends("uninstall") \/ \E ids : jobs' = [jobs EXCEPT !.uninstall.ids = ids, !.uninstall.collected = TRUE]
    BY <1>2 DEF CollectAppRows
  <2>2. JobsStay
    <3>1. CASE Ends("uninstall") BY <3>1, EndsStay DEF Jobs
    <3>2. CASE \E ids : jobs' = [jobs EXCEPT !.uninstall.ids = ids, !.uninstall.collected = TRUE]
      BY <3>2 DEF JobsOK, JobsStay, Jobs
    <3> QED BY <2>1, <3>1, <3>2
  <2> QED BY <1>2, <2>2, StillMoved DEF CollectAppRows, stores
<1>3. CASE DeleteAppRows
  <2>1. jobs' = [jobs EXCEPT !.uninstall.ids = {}, !.uninstall.collected = FALSE] BY <1>3 DEF DeleteAppRows
  <2>2. JobsStay BY <2>1 DEF JobsOK, JobsStay, Jobs
  <2>3. PICK ids, app, gone : Mutate(Deleted(Disowned(Begin, ids, app), gone)) BY <1>3 DEF DeleteAppRows
  <2>4. Moved BY <2>3, BeginStore, DisownedStore, DeletedStore, MutateMoved
  <2> QED BY <1>3, <2>2, <2>4 DEF DeleteAppRows
<1> QED BY <1>1, <1>2, <1>3

\* Late claims and touches of applications move the store soundly.
LEMMA ClaimsMoved ==
  ASSUME IInv, FlushAppClaims \/ WriteAppClaims \/ FlushTouches
  PROVE  world' = world /\ now' = now /\ Moved /\ JobsStay
<1> USE DEF IInv
<1>1. CASE FlushAppClaims
  <2>1. JobsStay BY <1>1, StartsStay DEF FlushAppClaims, Jobs
  <2> QED BY <1>1, <2>1, StillMoved DEF FlushAppClaims, stores
<1>2. CASE WriteAppClaims
  <2>1. JobsStay BY <1>2, EndsStay DEF WriteAppClaims, Jobs
  <2>2. /\ DOMAIN rows' = DOMAIN rows /\ ledger' = ledger
        /\ \A i \in DOMAIN rows : \E apps : rows'[i] = WithApps(rows[i], apps)
    BY <1>2 DEF WriteAppClaims, WithApps
  <2>3. Store(Tx(rows', ledger, cache, usage, {}), {})
    <3> DEFINE new == Tx(rows', ledger, cache, usage, {})
    <3>1. IsTx(new) /\ new.rows = rows' /\ new.ledger = ledger BY DEF IsTx, Tx
    <3> HIDE DEF new
    <3>2. Store(new, {}) BY <2>2, <3>1, BeginStore, AppsStore
    <3> QED BY <3>2 DEF new
  <2>4. Moved BY <2>2, <2>3 DEF Moved, Tx
  <2> QED BY <1>2, <2>1, <2>4 DEF WriteAppClaims
<1>3. CASE FlushTouches
  BY <1>3, StillMoved, SameJobsStay DEF FlushTouches
<1> QED BY <1>1, <1>2, <1>3

\* Eviction moves the store soundly.
LEMMA EvictMoved ==
  ASSUME IInv, Review \/ EvictBatch \/ EvictMore
  PROVE  world' = world /\ now' = now /\ Moved /\ JobsStay
<1> USE DEF IInv
<1>1. CASE Review
  <2>1. (\E data : jobs' = [jobs EXCEPT !["evict"] = data]) \/ UNCHANGED jobs BY <1>1 DEF Review
  <2>2. JobsStay BY <2>1, OtherJobStay, SameJobsStay DEF Jobs
  <2> QED BY <1>1, <2>2, StillMoved DEF Review, stores
<1>2. CASE EvictBatch
  <2>1. \E data : jobs' = [jobs EXCEPT !["evict"] = data] BY <1>2 DEF EvictBatch
  <2>2. JobsStay BY <2>1, OtherJobStay DEF Jobs
  <2>3. PICK ids : Mutate(Deleted(Begin, ids)) BY <1>2 DEF EvictBatch
  <2>4. Moved BY <2>3, DeletedMoved
  <2> QED BY <1>2, <2>2, <2>4 DEF EvictBatch
<1>3. CASE EvictMore
  <2>1. Ends("evict") \/ \E data : jobs' = [jobs EXCEPT !["evict"] = data] BY <1>3 DEF EvictMore
  <2>2. JobsStay BY <2>1, EndsStay, OtherJobStay DEF Jobs
  <2> QED BY <1>3, <2>2, StillMoved DEF EvictMore, stores
<1> QED BY <1>1, <1>2, <1>3

\* Every step keeps the invariant.
LEMMA NextIInv == IInv /\ [Next]_vars => IInv'
<1> SUFFICES ASSUME IInv, [Next]_vars PROVE IInv' OBVIOUS
<1> USE DEF IInv
<1>1. ASSUME world' = world, now' \in Nat, Moved, JobsOK' PROVE IInv'
  <2>1. Kept' BY <1>1, KeptStep DEF Moved
  <2> QED BY <1>1, <2>1
<1>2. ASSUME world' = world, now' \in Nat, Moved, JobsStay PROVE IInv'
  BY <1>1, <1>2, JobsStayOK
<1>3. CASE Applications BY <1>2, <1>3, ApplicationsMoved
<1>4. CASE Maintenance
  <2>1. CASE PreparePage
    <3>1. Moved BY <2>1, PreparePageMoved, StillMoved
    <3>2. JobsStay BY <2>1, SameJobsStay DEF PreparePage, memory
    <3> QED BY <1>2, <2>1, <3>1, <3>2 DEF PreparePage
  <2>2. CASE CompactSelect BY <1>1, <2>2, CompactSelectKept
  <2>3. CASE CompactSave BY <1>2, <2>3, CompactSaveMoved
  <2>4. CASE PruneSelect \/ PruneDelete \/ ExpireSelect \/ ExpireDelete BY <1>2, <2>4, PruneMoved
  <2>5. CASE HearsayScan \/ HearsayCheck \/ HearsayDelete BY <1>2, <2>5, HearsayMoved
  <2>6. CASE PurgeUnclaimedPage \/ CollectAppRows \/ DeleteAppRows BY <1>2, <2>6, UninstallMoved
  <2>7. CASE FlushAppClaims \/ WriteAppClaims \/ FlushTouches BY <1>2, <2>7, ClaimsMoved
  <2>8. CASE Review \/ EvictBatch \/ EvictMore BY <1>2, <2>8, EvictMoved
  <2>9. CASE \E j \in Jobs : Fail(j)
    <3>1. JobsStay BY <2>9, EndsStay DEF Fail
    <3>2. Moved BY <2>9, StillMoved DEF Fail, stores
    <3> QED BY <1>2, <2>9, <3>1, <3>2 DEF Fail
  <2> QED BY <1>4, <2>1, <2>2, <2>3, <2>4, <2>5, <2>6, <2>7, <2>8, <2>9 DEF Maintenance
<1>5. CASE Tick
  <2>1. Moved /\ JobsStay BY <1>5, StillMoved, SameJobsStay DEF Tick, stores, memory
  <2> QED BY <1>2, <1>5, <2>1 DEF Tick
<1>6. CASE Reload
  <2>1. JobsStay BY <1>6 DEF Reload, JobsStay, Jobs
  <2>2. Moved BY <1>6, StillMoved DEF Reload, stores
  <2> QED BY <1>2, <1>6, <2>1, <2>2 DEF Reload
<1>7. CASE UNCHANGED vars
  <2>1. Moved /\ JobsStay BY <1>7, StillMoved, SameJobsStay DEF vars, stores, memory
  <2> QED BY <1>2, <1>7, <2>1 DEF vars
<1> QED BY <1>3, <1>4, <1>5, <1>6, <1>7 DEF Next

\* The books are in order in every state.
THEOREM BooksInOrder == Spec => []IInv
BY InitIInv, NextIInv, PTL DEF Spec

\* LedgerAgrees: the deletions store says what the stored requests say, through
\* every deletion, replacement, compaction and pruning of events and requests.
THEOREM LedgerAlwaysAgrees == Spec => []LedgerAgrees
<1>1. IInv => LedgerAgrees
  <2> SUFFICES ASSUME IInv PROVE LedgerAgrees OBVIOUS
  <2>1. RowsOK(rows) /\ Books(Events(rows), ledger) BY DEF IInv, Kept
  <2>2. ASSUME NEW t \in DOMAIN ledger, NEW c \in ledger[t]
        PROVE  c[1] \in DOMAIN rows /\ LET r == rows[c[1]].ev IN r.kind = "delete" /\ r.at = c[2] /\ Names(r, t)
    <3>1. PICK e \in Events(rows) : c = <<e.id, e.at>> /\ e.kind = "delete" /\ Names(e, t) BY <2>1 DEF Books, Sound
    <3>2. PICK i \in DOMAIN rows : e = rows[i].ev BY DEF Events
    <3>3. c[1] = i /\ c[2] = e.at BY <2>1, <3>1, <3>2 DEF RowsOK
    <3> QED BY <3>1, <3>2, <3>3
  <2>3. ASSUME NEW i \in DOMAIN rows, rows[i].ev.kind = "delete",
               NEW tag \in {u \in rows[i].ev.tags : u[1] = "e" /\ u[2] # i}
        PROVE  \E t \in RowsOf(i) : t[2] = tag[2] \/ \E e \in Catalog : e.id = tag[2] /\ t = e.coord
    <3>1. Complete(rows[i].ev, ledger) /\ rows[i].ev.id = i BY <2>1, <2>3 DEF Books, Events, RowsOK
    <3> QED BY <3>1 DEF Complete, RowsOf
  <2> QED BY <2>2, <2>3 DEF LedgerAgrees
<1> QED BY <1>1, BooksInOrder, PTL

\* DeletedStaysOut: no event that a stored request deletes is in the store.
THEOREM DeletedAlwaysStaysOut == Spec => []DeletedStaysOut
<1>1. IInv => DeletedStaysOut
  <2> SUFFICES ASSUME IInv, NEW i \in DOMAIN rows PROVE ~Blocked(ledger, rows[i].ev) BY DEF DeletedStaysOut
  <2>1. Books(Events(rows), ledger) /\ rows[i].ev \in Events(rows) BY DEF IInv, Kept, Events
  <2> QED BY <2>1, BlockedBlocks DEF Books, EventOK
<1> QED BY <1>1, BooksInOrder, PTL

\* ProtectedKept: eviction, the unclaimed sweep and an uninstallation look at the
\* owner's references in the transaction that deletes.
THEOREM ProtectedAlwaysKept == Spec => ProtectedKept
<1>1. ASSUME EvictBatch \/ PurgeUnclaimedPage \/ DeleteAppRows, NEW i \in DOMAIN rows, Referenced(Begin, rows[i].ev)
      PROVE  i \in DOMAIN rows'
  <2>1. Begin = Tx(rows, ledger, cache, usage, {}) BY DEF Begin, Tx
  <2>2. IsTx(Begin) /\ Begin.rows = rows BY <2>1 DEF IsTx, Tx
  <2>3. ASSUME NEW tx, IsTx(tx), DOMAIN tx.rows = DOMAIN rows, NEW ids, i \notin ids, Mutate(Deleted(tx, ids))
        PROVE  i \in DOMAIN rows'
    <3>1. IsTx(Deleted(tx, ids)) /\ Deleted(tx, ids).rows = Restricted(tx.rows, DOMAIN tx.rows \ ids) BY <2>3, DeletedTx
    <3>2. rows' = Deleted(tx, ids).rows BY <2>3, <3>1, ClassifyTx DEF Mutate, Save, Reconciled
    <3> QED BY <2>3, <3>1, <3>2 DEF Restricted
  <2>4. CASE EvictBatch
    <3> DEFINE ids == {a[2] : a \in {b \in jobs.evict.batch : Evictable(b)}}
    <3>1. Mutate(Deleted(Begin, ids)) BY <2>4 DEF EvictBatch
    <3>2. i \notin ids BY <1>1 DEF Evictable
    <3> HIDE DEF ids
    <3> QED BY <2>2, <2>3, <3>1, <3>2
  <2>5. CASE PurgeUnclaimedPage
    <3>1. PICK page : Mutate(Deleted(Begin, {r \in page : Unclaimed(r) /\ ~Referenced(Begin, rows[r].ev)}))
      BY <2>5 DEF PurgeUnclaimedPage
    <3> DEFINE ids == {r \in page : Unclaimed(r) /\ ~Referenced(Begin, rows[r].ev)}
    <3>2. i \notin ids BY <1>1
    <3>3. Mutate(Deleted(Begin, ids)) BY <3>1
    <3> HIDE DEF ids
    <3> QED BY <2>2, <2>3, <3>2, <3>3
  <2>6. CASE DeleteAppRows
    <3> DEFINE app == jobs.uninstall.app
               some == jobs.uninstall.ids \cap DOMAIN rows
               ids == {r \in some : Unowned(r, app)}
               tx == Disowned(Begin, some, app)
    <3>1. Mutate(Deleted(tx, ids)) BY <2>6 DEF DeleteAppRows
    <3>2. i \notin ids BY <1>1 DEF Unowned
    <3>3. PICK R : tx = [Begin EXCEPT !.rows = R] BY Zenon DEF Disowned
    <3>4. DOMAIN tx.rows = DOMAIN rows BY <2>1 DEF Disowned, Tx
    <3> HIDE DEF ids, tx
    <3>5. tx = Tx(R, ledger, cache, usage, {}) BY <2>1, <3>3 DEF Tx
    <3>6. IsTx(tx) BY <3>5 DEF IsTx
    <3> QED BY <2>3, <3>1, <3>2, <3>4, <3>6
  <2> QED BY <1>1, <2>4, <2>5, <2>6
<1>2. EvictBatch \/ PurgeUnclaimedPage \/ DeleteAppRows =>
        \A i \in DOMAIN rows : Referenced(Begin, rows[i].ev) => i \in DOMAIN rows'
  BY <1>1
<1> QED BY <1>2, PTL DEF ProtectedKept

-----------------------------------------------------------------------------
\* What a compaction signs, while the requests it chose still say the same.
Confirmed(p) == Chosen(p) /\ \A x \in p.selected : StillSays(x)

\* Each of its targets is in the ledger, by a request of the owner's that is
\* chosen; and addresses are there up to the time that is signed.
LEMMA ChosenTargets ==
  ASSUME Kept, NEW p, Confirmed(p)
  PROVE  /\ \A t \in p.targets :
              /\ t \in DOMAIN ledger /\ ((t[1] = "a" /\ t[2] = Owner) \/ t = <<"e", t[2], Owner>>)
              /\ t[1] = "a" => \E c \in ledger[t] : c[2] = p.at
         /\ \A t \in DOMAIN ledger : \A c \in ledger[t] : c[1] \in Consumed(p) =>
              t \in p.targets /\ (t[1] = "a" => c[2] = p.at)
         /\ \A i \in Consumed(p) : i \in DOMAIN rows /\ rows[i].ev.kind = "delete"
<1>1. Books(Events(rows), ledger) /\ RowsOK(rows) BY DEF Kept
<1>2. ASSUME NEW x \in p.selected
      PROVE  LET i == x.event.id
             IN  /\ i \in DOMAIN rows /\ rows[i].ev = x.event /\ x.event \in Events(rows)
                 /\ RowsOf(i) = x.targets /\ x.event.kind = "delete" /\ x.event.author = Owner
                 /\ HasAddress(x) => x.event.at = p.at
  BY DEF Confirmed, Chosen, StillSays, Events
<1>3. ASSUME NEW t \in DOMAIN ledger, NEW c \in ledger[t], NEW x \in p.selected, c[1] = x.event.id
      PROVE  /\ t \in x.targets /\ c = <<x.event.id, x.event.at>> /\ Own(x.event, t)
             /\ t[1] = "a" => c[2] = p.at
  <2>1. PICK e \in Events(rows) : c = <<e.id, e.at>> /\ Own(e, t) BY <1>1 DEF Books, Sound
  <2>2. e = x.event BY <1>1, <1>2, <1>3, <2>1 DEF Books
  <2>3. t \in x.targets BY <1>2, <1>3 DEF RowsOf
  <2>4. t[1] = "a" => HasAddress(x) BY <2>3 DEF HasAddress
  <2> QED BY <1>2, <2>1, <2>2, <2>3, <2>4
<1>4. p.targets = UNION {x.targets : x \in p.selected} BY DEF Confirmed, Chosen
<1>5. ASSUME NEW t \in p.targets
      PROVE  /\ t \in DOMAIN ledger /\ ((t[1] = "a" /\ t[2] = Owner) \/ t = <<"e", t[2], Owner>>)
             /\ t[1] = "a" => \E c \in ledger[t] : c[2] = p.at
  <2>1. PICK x \in p.selected : t \in x.targets BY <1>4
  <2>2. t \in RowsOf(x.event.id) BY <1>2, <2>1
  <2>3. t \in DOMAIN ledger /\ \E c \in ledger[t] : c[1] = x.event.id BY <2>2 DEF RowsOf
  <2>4. PICK c \in ledger[t] : c[1] = x.event.id BY <2>3
  <2> QED BY <1>2, <1>3, <2>3, <2>4 DEF Own
<1>6. ASSUME NEW t \in DOMAIN ledger, NEW c \in ledger[t], c[1] \in Consumed(p)
      PROVE  t \in p.targets /\ (t[1] = "a" => c[2] = p.at)
  <2>1. PICK x \in p.selected : c[1] = x.event.id BY <1>6 DEF Consumed
  <2> QED BY <1>3, <1>4, <2>1
<1>7. \A i \in Consumed(p) : i \in DOMAIN rows /\ rows[i].ev.kind = "delete" BY <1>2 DEF Consumed
<1> QED BY <1>5, <1>6, <1>7

\* The signed request says what was chosen: an event it names is not stored, so
\* that no target stands for an address that was not there.
LEMMA MergedTargets ==
  ASSUME Kept, NEW p, Confirmed(p), NEW i, ~Blocked(ledger, Merged(i, p)), NEW tx, DOMAIN tx.rows = DOMAIN rows,
         \A r \in DOMAIN rows : tx.rows[r] = rows[r]
  PROVE  Targets(tx, Merged(i, p)) = p.targets
<1> DEFINE m == Merged(i, p)
           T == {t \in m.tags : t[1] = "a" /\ t[2] = m.author}
           U == {EventTarget(tx, m, t[2]) : t \in {u \in m.tags : u[1] = "e" /\ u[2] # m.id}}
<1>0. m.id = i /\ m.author = Owner /\ m.tags = {TagOf(t) : t \in p.targets} BY DEF Merged
<1>1. Targets(tx, m) = T \cup U BY DEF Targets
<1>2. \A t \in p.targets : t \in DOMAIN ledger /\ ((t[1] = "a" /\ t[2] = Owner) \/ t = <<"e", t[2], Owner>>)
  BY ChosenTargets
<1>3. \A r \in DOMAIN rows : rows[r].ev.id = r /\ ~Blocks(ledger, rows[r].ev) BY DEF Kept, Books, Events, RowsOK
<1>4. ASSUME NEW t \in p.targets, t[1] # "a"
      PROVE  TagOf(t) = <<"e", t[2]>> /\ EventTarget(tx, m, t[2]) = t /\ t[2] # i
  <2>1. t = <<"e", t[2], Owner>> /\ t \in DOMAIN ledger BY <1>2, <1>4
  <2>2. ~(t[2] \in DOMAIN rows /\ rows[t[2]].ev.author = Owner)
    <3> SUFFICES ASSUME t[2] \in DOMAIN rows, rows[t[2]].ev.author = Owner PROVE FALSE OBVIOUS
    <3>1. rows[t[2]].ev.id = t[2] /\ ~Blocks(ledger, rows[t[2]].ev) BY <1>3
    <3>2. t = <<"e", rows[t[2]].ev.id, rows[t[2]].ev.author>> BY <2>1, <3>1
    <3> QED BY <2>1, <3>1, <3>2 DEF Blocks
  <2>3. EventTarget(tx, m, t[2]) = t BY <1>0, <2>1, <2>2 DEF EventTarget
  <2>4. t[2] # i BY <1>0, <2>1 DEF Blocked
  <2> QED BY <2>1, <2>3, <2>4 DEF TagOf
<1>5. ASSUME NEW t \in p.targets, t[1] = "a" PROVE TagOf(t) = t /\ t[2] = Owner
  <2>1. t[1] # "e" BY <1>5
  <2>2. t # <<"e", t[2], Owner>> BY <2>1
  <2> QED BY <1>2, <2>1, <2>2 DEF TagOf
<1>6. ASSUME NEW t \in p.targets PROVE t \in T \cup U
  <2>1. CASE t[1] = "a" BY <1>0, <1>5, <2>1
  <2>2. CASE t[1] # "a"
    <3>1. <<"e", t[2]>> \in {u \in m.tags : u[1] = "e" /\ u[2] # m.id} BY <1>0, <1>4, <2>2
    <3> QED BY <1>4, <2>2, <3>1
  <2> QED BY <2>1, <2>2
<1>7. ASSUME NEW t \in T PROVE t \in p.targets
  <2>1. PICK u \in p.targets : t = TagOf(u) BY <1>0
  <2>2. u[1] = "a" BY <1>4, <2>1
  <2> QED BY <1>5, <2>1, <2>2
<1>8. ASSUME NEW t \in U PROVE t \in p.targets
  <2>1. PICK u \in p.targets : TagOf(u)[1] = "e" /\ t = EventTarget(tx, m, TagOf(u)[2]) BY <1>0
  <2>2. u[1] # "a" BY <1>5, <2>1
  <2>3. TagOf(u)[2] = u[2] BY <1>4, <2>2
  <2> QED BY <1>4, <2>1, <2>2, <2>3
<1> HIDE DEF m, T, U
<1> QED BY <1>1, <1>6, <1>7, <1>8 DEF m

\* Where nothing is deleted, nothing changes.
LEMMA DeletedNone ==
  ASSUME NEW tx, IsTx(tx), \A t \in DOMAIN tx.ledger : tx.ledger[t] # {}
  PROVE  LET left == Deleted(tx, {})
         IN  /\ IsTx(left) /\ DOMAIN left.rows = DOMAIN tx.rows /\ \A r \in DOMAIN tx.rows : left.rows[r] = tx.rows[r]
             /\ \A t : t \in DOMAIN left.ledger <=> t \in DOMAIN tx.ledger
             /\ \A t \in DOMAIN tx.ledger : \A c : c \in left.ledger[t] <=> c \in tx.ledger[t]
<1> DEFINE left == Deleted(tx, {})
<1>1. IsTx(left) /\ left.rows = Restricted(tx.rows, DOMAIN tx.rows \ {}) BY DeletedTx
<1>2. left.ledger = Without(tx.ledger, {})
  <2>1. left.ledger = Without(tx.ledger, {r \in {} \cap DOMAIN tx.rows : tx.rows[r].ev.kind = "delete"}) BY DeletedTx
  <2>2. {r \in {} \cap DOMAIN tx.rows : tx.rows[r].ev.kind = "delete"} = {} OBVIOUS
  <2> QED BY <2>1, <2>2
<1> HIDE DEF left
<1>3. DOMAIN left.rows = DOMAIN tx.rows /\ \A r \in DOMAIN tx.rows : left.rows[r] = tx.rows[r]
  BY <1>1 DEF Restricted
<1>4. \A t : t \in DOMAIN left.ledger <=> t \in DOMAIN tx.ledger BY <1>2, WithoutProperties
<1>5. \A t \in DOMAIN left.ledger : \A c : c \in left.ledger[t] <=> c \in tx.ledger[t] BY <1>2, WithoutProperties
<1> QED BY <1>1, <1>3, <1>4, <1>5 DEF left

\* Saved, it takes the place of what it consumes in the ledger.
LEMMA CompactedLedger ==
  ASSUME Kept, NEW p, Confirmed(p), NEW i, EventOK(Merged(i, p)), i \notin DOMAIN rows, ~Blocked(ledger, Merged(i, p)),
         NEW app
  PROVE  LET L == Added(Begin, Merged(i, p), app, FALSE, Consumed(p)).ledger
         IN  /\ \A t : t \in DOMAIN L <=> t \in DOMAIN ledger
             /\ \A t \in DOMAIN L : \A c : c \in L[t] <=>
                  (c \in ledger[t] /\ c[1] \notin Consumed(p)) \/ (t \in p.targets /\ c = <<i, p.at>>)
<1> DEFINE m == Merged(i, p)
           tx1 == Deleted(Begin, Rivals(Begin, m))
           targets == Targets(tx1, m)
           victims == {r \in DOMAIN tx1.rows : \E t \in targets : Matches(tx1.rows[r].ev, m, t)}
           left == Deleted(tx1, victims)
           tx2 == Applied(tx1, m)
           tx3 == Deleted(tx2, Consumed(p))
<1>0. /\ m.id = i /\ m.author = Owner /\ m.at = p.at /\ m.kind = "delete" /\ m.coord = NoCoord
  BY DEF Merged
<1>1. Store(Begin, {}) /\ IsTx(Begin) /\ Begin.rows = rows /\ Begin.ledger = ledger BY BeginStore DEF Store
<1>2. Rivals(Begin, m) = {} BY <1>0 DEF Rivals
<1>3. Books(Events(rows), ledger) /\ RowsOK(rows) BY DEF Kept
<1>4. PICK row : Added(Begin, m, app, FALSE, Consumed(p)) = Put(tx3, row)
  <2>1. m.id \notin DOMAIN Begin.rows /\ ~Blocked(Begin.ledger, m) BY <1>0, <1>1
  <2> QED BY <1>2, <2>1 DEF Added
<1>5. /\ IsTx(tx1) /\ DOMAIN tx1.rows = DOMAIN rows /\ \A r \in DOMAIN rows : tx1.rows[r] = rows[r]
      /\ \A t : t \in DOMAIN tx1.ledger <=> t \in DOMAIN ledger
      /\ \A t \in DOMAIN ledger : \A c : c \in tx1.ledger[t] <=> c \in ledger[t]
  <2>1. \A t \in DOMAIN ledger : ledger[t] # {} BY <1>3 DEF Books, Sound
  <2> QED BY <1>1, <1>2, <2>1, DeletedNone
<1>6. targets = p.targets
  <2> HIDE DEF tx1
  <2> QED BY <1>5, MergedTargets
<1>7. victims = {}
  <2> SUFFICES ASSUME NEW r \in DOMAIN rows, NEW t \in p.targets, Matches(rows[r].ev, m, t) PROVE FALSE
    BY <1>5, <1>6
  <2>1. ~Blocks(ledger, rows[r].ev) /\ EventOK(rows[r].ev) BY <1>3 DEF Books, Events
  <2>2. t \in DOMAIN ledger /\ (t[1] = "a" => \E c \in ledger[t] : c[2] = p.at) BY ChosenTargets
  <2> QED BY <1>0, <2>1, <2>2 DEF Matches, Blocks, EventOK
<1>8. /\ IsTx(left) /\ DOMAIN left.rows = DOMAIN rows /\ \A r \in DOMAIN rows : left.rows[r] = rows[r]
      /\ \A t : t \in DOMAIN left.ledger <=> t \in DOMAIN ledger
      /\ \A t \in DOMAIN ledger : \A c : c \in left.ledger[t] <=> c \in ledger[t]
  <2>1. \A t \in DOMAIN ledger : ledger[t] # {} BY <1>3 DEF Books, Sound
  <2>2. \A t \in DOMAIN tx1.ledger : tx1.ledger[t] # {} BY <1>5, <2>1
  <2> HIDE DEF tx1
  <2>3. left = Deleted(tx1, {}) BY <1>7
  <2> HIDE DEF left
  <2> QED BY <1>5, <2>2, <2>3, DeletedNone
<1>9. /\ IsTx(tx2) /\ tx2.rows = left.rows /\ tx2.ledger = Contributed(left.ledger, m, p.targets)
  <2> HIDE DEF tx1, m
  <2> QED BY <1>0, <1>5, <1>6, AppliedTx
<1>10. \A t \in p.targets : t \in DOMAIN ledger BY ChosenTargets
<1>11. /\ \A t : t \in DOMAIN tx2.ledger <=> t \in DOMAIN ledger
       /\ \A t \in DOMAIN ledger : \A c : c \in tx2.ledger[t] <=> c \in ledger[t] \/ (t \in p.targets /\ c = <<i, p.at>>)
  <2> HIDE DEF left, tx2, m
  <2> QED BY <1>0, <1>8, <1>9, <1>10 DEF Contributed
<1>12. tx3.ledger = Without(tx2.ledger, Consumed(p))
  <2> DEFINE requests == {r \in Consumed(p) \cap DOMAIN tx2.rows : tx2.rows[r].ev.kind = "delete"}
  <2>1. \A r \in Consumed(p) : r \in DOMAIN rows /\ rows[r].ev.kind = "delete" BY ChosenTargets
  <2> HIDE DEF tx2, left
  <2>2. requests = Consumed(p) BY <1>8, <1>9, <2>1
  <2>3. tx3.ledger = Without(tx2.ledger, requests) BY <1>9, DeletedTx
  <2> QED BY <2>2, <2>3
<1>13. Added(Begin, m, app, FALSE, Consumed(p)).ledger = tx3.ledger
  <2>1. IsTx(tx3)
    <3> HIDE DEF tx2
    <3> QED BY <1>9, DeletedTx
  <2> HIDE DEF tx3
  <2> QED BY <1>4, <2>1, PutTx
<1>14. i \notin Consumed(p) BY ChosenTargets
<1>15. \A t \in DOMAIN ledger : \A c \in ledger[t] : c[1] \in Consumed(p) => t \in p.targets BY ChosenTargets
<1>16. \A t \in DOMAIN ledger : ledger[t] # {} BY <1>3 DEF Books, Sound
<1> HIDE DEF tx2, tx3
<1>17. \A t : t \in DOMAIN tx3.ledger <=> t \in DOMAIN ledger
  <2>1. \A t : t \in DOMAIN tx3.ledger <=> t \in DOMAIN tx2.ledger /\ \E c \in tx2.ledger[t] : c[1] \notin Consumed(p)
    BY <1>12, WithoutProperties
  <2>2. ASSUME NEW t \in DOMAIN ledger PROVE \E c \in tx2.ledger[t] : c[1] \notin Consumed(p)
    <3>1. CASE t \in p.targets
      <4>1. <<i, p.at>> \in tx2.ledger[t] BY <1>11, <3>1
      <4> QED BY <1>14, <4>1
    <3>2. CASE t \notin p.targets
      <4>1. PICK c : c \in ledger[t] BY <1>16
      <4> QED BY <1>11, <1>15, <3>2, <4>1
    <3> QED BY <3>1, <3>2
  <2> QED BY <1>11, <2>1, <2>2
<1>18. \A t \in DOMAIN tx3.ledger : \A c : c \in tx3.ledger[t] <=>
         (c \in ledger[t] /\ c[1] \notin Consumed(p)) \/ (t \in p.targets /\ c = <<i, p.at>>)
  <2>1. \A t \in DOMAIN tx3.ledger : \A c : c \in tx3.ledger[t] <=> c \in tx2.ledger[t] /\ c[1] \notin Consumed(p)
    BY <1>12, WithoutProperties
  <2>2. <<i, p.at>>[1] = i OBVIOUS
  <2> QED BY <1>11, <1>14, <1>17, <2>1, <2>2
<1> QED BY <1>13, <1>17, <1>18

\* CompactionKeepsVerdicts: a saved compaction blocks what was blocked, and
\* nothing else, when what it consumes is still stored with the same targets.
THEOREM CompactionAlwaysKeepsVerdicts == Spec => CompactionKeepsVerdicts
<1>1. ASSUME IInv, CompactSave, \A info \in jobs.compact.selected : StillSays(info), NEW e \in Catalog
      PROVE  Blocked(ledger', e) <=> Blocked(ledger, e)
  <2> DEFINE p == jobs.compact
  <2>1. PICK i \in MergedIds : AddEvent(Merged(i, p), NoApp, FALSE, Consumed(p)) BY <1>1 DEF CompactSave, Lowest
  <2> DEFINE m == Merged(i, p)
             tx == Added(Begin, m, NoApp, FALSE, Consumed(p))
  <2>2. Kept /\ Confirmed(p) /\ EventOK(m) BY <1>1, MergedOK DEF IInv, JobsOK, Confirmed, CompactSave
  <2>3. Store(Begin, {}) /\ Begin.rows = rows /\ Begin.ledger = ledger BY <2>2, BeginStore
  <2>4. Store(tx, {}) BY <2>2, <2>3, AddedStore
  <2>5. ledger' = tx.ledger
    <3>1. Mutate(tx) BY <2>1 DEF AddEvent
    <3> HIDE DEF tx
    <3> QED BY <2>4, <3>1, ClassifyTx DEF Mutate, Save, Reconciled, Store
  <2>6. m.id = i /\ m.coord = NoCoord BY DEF Merged
  <2>7. EventOK(e) BY <1>1, CatalogOK DEF IInv
  <2>8. CASE i \in DOMAIN rows \/ Blocked(ledger, m)
    <3>1. tx = Begin \/ tx = Claimed(Begin, {m.id}, NoApp) BY <2>3, <2>6, <2>8 DEF Added
    <3>2. tx.ledger = ledger
      <4> HIDE DEF tx
      <4> QED BY <2>3, <3>1, ClaimedTx DEF Store
    <3> QED BY <2>5, <3>2
  <2>9. CASE i \notin DOMAIN rows /\ ~Blocked(ledger, m)
    <3>1. /\ \A t : t \in DOMAIN tx.ledger <=> t \in DOMAIN ledger
          /\ \A t \in DOMAIN tx.ledger : \A c : c \in tx.ledger[t] <=>
               (c \in ledger[t] /\ c[1] \notin Consumed(p)) \/ (t \in p.targets /\ c = <<i, p.at>>)
      <4> HIDE DEF p
      <4> QED BY <2>2, <2>9, CompactedLedger
    <3>2. Blocked(tx.ledger, e) <=> Blocks(tx.ledger, e)
      <4> HIDE DEF tx
      <4> QED BY <2>4, <2>7, BlockedBlocks DEF Store, Books, EventOK
    <3>3. Blocked(ledger, e) <=> Blocks(ledger, e) BY <2>2, <2>7, BlockedBlocks DEF Kept, Books, EventOK
    <3> HIDE DEF tx, p
    <3>4. ASSUME NEW t \in DOMAIN ledger, t[1] = "a", NEW c \in ledger[t], e.at <= c[2]
          PROVE  \E d \in tx.ledger[t] : e.at <= d[2]
      <4>1. CASE c[1] \in Consumed(p)
        <5>1. t \in p.targets /\ c[2] = p.at BY <2>2, <3>4, <4>1, ChosenTargets
        <5>2. <<i, p.at>> \in tx.ledger[t] BY <3>1, <5>1
        <5> QED BY <3>4, <5>1, <5>2
      <4>2. CASE c[1] \notin Consumed(p) BY <3>1, <3>4, <4>2
      <4> QED BY <4>1, <4>2
    <3>5. ASSUME NEW t \in DOMAIN ledger, t[1] = "a", NEW d \in tx.ledger[t], e.at <= d[2]
          PROVE  \E c \in ledger[t] : e.at <= c[2]
      <4>1. CASE d \in ledger[t] BY <3>5, <4>1
      <4>2. CASE t \in p.targets /\ d = <<i, p.at>>
        <5>1. \E c \in ledger[t] : c[2] = p.at BY <2>2, <3>5, <4>2, ChosenTargets
        <5> QED BY <3>5, <4>2, <5>1
      <4> QED BY <3>1, <4>1, <4>2
    <3>6. Blocks(tx.ledger, e) <=> Blocks(ledger, e)
      <4>1. e.coord # NoCoord => e.coord[1] = "a" BY <2>7 DEF EventOK
      <4> QED BY <3>1, <3>4, <3>5, <4>1 DEF Blocks
    <3> QED BY <2>5, <3>2, <3>3, <3>6
  <2> QED BY <2>8, <2>9
<1>2. IInv => (CompactSave /\ (\A info \in jobs.compact.selected : StillSays(info)) =>
                 \A e \in Catalog : Blocked(ledger', e) <=> Blocked(ledger, e))
  BY <1>1
<1> QED BY <1>2, BooksInOrder, PTL DEF CompactionKeepsVerdicts

-----------------------------------------------------------------------------
\* The counters.  Of is what Count counts.  Tally says that the counters are the
\* sizes of what they count among the rows S, of which C are cache.
Of(R, S, category) == {i \in S \cap DOMAIN R : Category(R[i].ev) = category}
Totals(public, private, cached, phase, after) ==
  [public |-> public, private |-> private, cache |-> cached, phase |-> phase, after |-> after]
IsUsage(u) == u = Totals(u.public, u.private, u.cache, u.phase, u.after)

Tally(R, C, S, u) ==
  /\ IsFiniteSet(DOMAIN R) /\ S \subseteq DOMAIN R /\ C \subseteq S
  /\ \A i \in DOMAIN R : Foreign(R[i].ev) => Category(R[i].ev) = "public"
  /\ \A i \in C : Foreign(R[i].ev)
  /\ u.public = Cardinality(Of(R, S \ C, "public"))
  /\ u.private = Cardinality(Of(R, S, "private"))
  /\ u.cache = Cardinality(C)

\* Who refers to an event, once all references are in the index.
RefersTo(R, e) == \E i \in DOMAIN R : OwnerRefs(R[i].ev) \cap Refs(e) # {}
Right(R, C, i) == i \in C <=> ~RefersTo(R, R[i].ev)

\* The foreign rows S are classified as they should, but for those whose
\* references changed: f are the changes.
Settled(R, C, S, f) == \A i \in S : Foreign(R[i].ev) => Right(R, C, i) \/ Refs(R[i].ev) \cap f # {}

\* The size of a set after some members leave and others come.
LEMMA Exchanged ==
  ASSUME NEW X, IsFiniteSet(X), NEW A \in SUBSET X, NEW B, IsFiniteSet(B), B \cap X = {}
  PROVE  /\ IsFiniteSet((X \ A) \cup B)
         /\ Cardinality((X \ A) \cup B) = Cardinality(X) - (Cardinality(A) - Cardinality(B))
<1>1. IsFiniteSet(X \ A) /\ Cardinality(X \ A) = Cardinality(X) - Cardinality(X \cap A) BY FS_Difference
<1>2. X \cap A = A OBVIOUS
<1>3. /\ IsFiniteSet((X \ A) \cup B)
      /\ Cardinality((X \ A) \cup B) = Cardinality(X \ A) + Cardinality(B) - Cardinality((X \ A) \cap B)
  BY <1>1, FS_Union
<1>4. (X \ A) \cap B = {} OBVIOUS
<1>5. IsFiniteSet(A) BY FS_Subset
<1>6. /\ Cardinality(X) \in Nat /\ Cardinality(A) \in Nat /\ Cardinality(B) \in Nat
      /\ Cardinality((X \ A) \cap B) = 0
  BY <1>4, <1>5, FS_CardinalityType, FS_EmptySet
<1>7. Cardinality(X \ A) = Cardinality(X) - Cardinality(A) BY <1>1, <1>2
<1>8. Cardinality((X \ A) \cup B) = Cardinality(X) - Cardinality(A) + Cardinality(B) - 0 BY <1>3, <1>6, <1>7
<1>9. Cardinality((X \ A) \cup B) = Cardinality(X) - (Cardinality(A) - Cardinality(B)) BY ONLY <1>6, <1>8
<1> QED BY <1>3, <1>9

\* Moving the foreign rows A to the cache and B out of it.
LEMMA TallyMoved ==
  ASSUME NEW R, NEW C, NEW S, NEW u, Tally(R, C, S, u),
         NEW A \in SUBSET (S \ C), \A i \in A : Foreign(R[i].ev), NEW B \in SUBSET C,
         NEW v, v.public = u.public - (Cardinality(A) - Cardinality(B)), v.private = u.private,
         v.cache = u.cache + (Cardinality(A) - Cardinality(B))
  PROVE  Tally(R, (C \cup A) \ B, S, v)
<1> DEFINE D == (C \cup A) \ B
           X == Of(R, S \ C, "public")
           Y == Of(R, S \ D, "public")
<1>1. IsFiniteSet(S) /\ IsFiniteSet(C) /\ IsFiniteSet(A) /\ IsFiniteSet(B)
  <2>1. IsFiniteSet(S) BY FS_Subset DEF Tally
  <2>2. C \subseteq S /\ A \subseteq S /\ B \subseteq S BY DEF Tally
  <2> QED BY <2>1, <2>2, FS_Subset
<1>2. IsFiniteSet(X)
  <2>1. X \subseteq S BY DEF Of
  <2> QED BY <2>1, <1>1, FS_Subset
<1>3. A \subseteq X /\ B \cap X = {} /\ Y = (X \ A) \cup B
  BY DEF Tally, Of
<1>4. D = (C \ B) \cup A OBVIOUS
<1>5. A \cap C = {} OBVIOUS
<1>6. /\ Cardinality(X) \in Nat /\ Cardinality(C) \in Nat /\ Cardinality(A) \in Nat /\ Cardinality(B) \in Nat
  BY <1>1, <1>2, FS_CardinalityType
<1>9. D \subseteq S /\ \A i \in D : Foreign(R[i].ev) BY DEF Tally
<1> HIDE DEF X, Y, D
<1>7. Cardinality(Y) = Cardinality(X) - (Cardinality(A) - Cardinality(B)) BY <1>1, <1>2, <1>3, Exchanged
<1>8. Cardinality(D) = Cardinality(C) - (Cardinality(B) - Cardinality(A)) BY <1>1, <1>4, <1>5, Exchanged
<1>10. v.public = Cardinality(Y) /\ v.cache = Cardinality(D)
  <2>1. u.public = Cardinality(X) /\ u.cache = Cardinality(C) BY DEF Tally, X
  <2> QED BY <2>1, <1>6, <1>7, <1>8
<1> QED BY <1>9, <1>10 DEF Tally, Y, D

\* Rows that go, cached or not.
LEMMA TallyWithout ==
  ASSUME NEW R, NEW C, NEW u, Tally(R, C, DOMAIN R, u), NEW gone \in SUBSET DOMAIN R,
         NEW Q, DOMAIN Q = DOMAIN R \ gone, \A i \in DOMAIN Q : Q[i] = R[i],
         NEW v, v.public = u.public - Cardinality(Of(R, gone \ C, "public")),
         v.private = u.private - Cardinality(Of(R, gone \ C, "private")),
         v.cache = u.cache - Cardinality(gone \cap C)
  PROVE  Tally(Q, C \ gone, DOMAIN Q, v)
<1> DEFINE X(cat) == Of(R, DOMAIN R \ C, cat)
           Y(cat) == Of(R, gone \ C, cat)
<1>1. IsFiniteSet(DOMAIN R) /\ IsFiniteSet(C) BY FS_Subset DEF Tally
<1>2. ASSUME NEW cat
      PROVE  Cardinality(Of(Q, DOMAIN Q \ (C \ gone), cat)) = Cardinality(X(cat)) - Cardinality(Y(cat))
  <2>1. Of(Q, DOMAIN Q \ (C \ gone), cat) = X(cat) \ Y(cat) BY DEF Of
  <2>2. X(cat) \cap Y(cat) = Y(cat) /\ X(cat) \subseteq DOMAIN R BY DEF Of
  <2> HIDE DEF X, Y
  <2>3. IsFiniteSet(X(cat)) BY <1>1, <2>2, FS_Subset
  <2>4. Cardinality(X(cat) \ Y(cat)) = Cardinality(X(cat)) - Cardinality(X(cat) \cap Y(cat)) BY <2>3, FS_Difference
  <2> QED BY <2>1, <2>2, <2>4
<1>3. X("private") = Of(R, DOMAIN R, "private") /\ Of(Q, DOMAIN Q \ (C \ gone), "private") = Of(Q, DOMAIN Q, "private")
  BY DEF Tally, Of
<1>4. Cardinality(C \ gone) = Cardinality(C) - Cardinality(gone \cap C)
  <2>1. Cardinality(C \ gone) = Cardinality(C) - Cardinality(C \cap gone) BY <1>1, FS_Difference
  <2>2. C \cap gone = gone \cap C OBVIOUS
  <2> QED BY <2>1, <2>2
<1>5. /\ v.public = Cardinality(Of(Q, DOMAIN Q \ (C \ gone), "public"))
      /\ v.private = Cardinality(Of(Q, DOMAIN Q, "private")) /\ v.cache = Cardinality(C \ gone)
  <2>1. /\ u.public = Cardinality(X("public")) /\ u.private = Cardinality(X("private")) /\ u.cache = Cardinality(C)
    BY <1>3 DEF Tally
  <2>2. Cardinality(Of(Q, DOMAIN Q \ (C \ gone), "public")) = Cardinality(X("public")) - Cardinality(Y("public"))
    BY <1>2
  <2>3. Cardinality(Of(Q, DOMAIN Q, "private")) = Cardinality(X("private")) - Cardinality(Y("private"))
    BY <1>2, <1>3
  <2> QED BY <2>1, <2>2, <2>3, <1>4
<1>6. IsFiniteSet(DOMAIN Q) BY <1>1, FS_Subset
<1>7. /\ C \ gone \subseteq DOMAIN Q /\ \A i \in C \ gone : Foreign(Q[i].ev)
      /\ \A i \in DOMAIN Q : Foreign(Q[i].ev) => Category(Q[i].ev) = "public"
  BY DEF Tally
<1> QED BY <1>5, <1>6, <1>7 DEF Tally

\* One more row is counted.
LEMMA TallyWith ==
  ASSUME NEW R, NEW C, NEW S, NEW u, Tally(R, C, S, u), NEW i \in DOMAIN R, i \notin S, NEW v,
         v.public = u.public + (IF Category(R[i].ev) = "public" THEN 1 ELSE 0),
         v.private = u.private + (IF Category(R[i].ev) = "private" THEN 1 ELSE 0),
         v.cache = u.cache
  PROVE  Tally(R, C, S \cup {i}, v)
<1>1. ASSUME NEW T \in SUBSET DOMAIN R, i \notin T, NEW cat
      PROVE  /\ Cardinality(Of(R, T \cup {i}, cat)) = Cardinality(Of(R, T, cat)) + (IF Category(R[i].ev) = cat THEN 1 ELSE 0)
             /\ Cardinality(Of(R, T, cat)) \in Nat
  <2> DEFINE X == Of(R, T, cat)
  <2>1. X \subseteq DOMAIN R /\ i \notin X BY <1>1 DEF Of
  <2>2. Of(R, T \cup {i}, cat) = IF Category(R[i].ev) = cat THEN X \cup {i} ELSE X BY DEF Of
  <2> HIDE DEF X
  <2>3. IsFiniteSet(X) BY <2>1, FS_Subset DEF Tally
  <2>4. Cardinality(X \cup {i}) = Cardinality(X) + 1 /\ Cardinality(X) \in Nat BY <2>1, <2>3, FS_AddElement, FS_CardinalityType
  <2> QED BY <2>2, <2>4 DEF X
<1>2. (S \cup {i}) \ C = (S \ C) \cup {i} /\ S \ C \in SUBSET DOMAIN R /\ S \in SUBSET DOMAIN R BY DEF Tally
<1>3. v.public = Cardinality(Of(R, (S \cup {i}) \ C, "public")) BY <1>1, <1>2 DEF Tally
<1>4. v.private = Cardinality(Of(R, S \cup {i}, "private")) BY <1>1, <1>2 DEF Tally
<1> QED BY <1>2, <1>3, <1>4 DEF Tally

\* The counters look at the events of the rows S only.
LEMMA TallySame ==
  ASSUME NEW R, NEW C, NEW S, NEW u, Tally(R, C, S, u), NEW Q, IsFiniteSet(DOMAIN Q), DOMAIN R \subseteq DOMAIN Q,
         \A i \in DOMAIN R : Q[i].ev = R[i].ev, NEW v, v.public = u.public, v.private = u.private, v.cache = u.cache,
         \A i \in DOMAIN Q \ DOMAIN R : Foreign(Q[i].ev) => Category(Q[i].ev) = "public"
  PROVE  Tally(Q, C, S, v)
<1>1. \A T \in SUBSET DOMAIN R : \A cat : Of(Q, T, cat) = Of(R, T, cat) BY DEF Of
<1>2. S \ C \in SUBSET DOMAIN R /\ S \in SUBSET DOMAIN R BY DEF Tally
<1> QED BY <1>1, <1>2 DEF Tally

\* The rows that Classify takes to the cache and out of it.
ForeignAmong(tx, ids) == {i \in ids \cap DOMAIN tx.rows : Foreign(tx.rows[i].ev)}
ToCache(tx, ids) == {i \in ForeignAmong(tx, ids) \ DOMAIN tx.cache : ~Referenced(tx, tx.rows[i].ev)}
ToPublic(tx, ids) == {i \in ForeignAmong(tx, ids) \cap DOMAIN tx.cache : Referenced(tx, tx.rows[i].ev)}
ToMove(tx, ids) == Cardinality(ToCache(tx, ids)) - Cardinality(ToPublic(tx, ids))

Shifted(u, n) == Totals(u.public - n, u.private, u.cache + n, u.phase, u.after)

\* What Classify makes of the cache and the counters.
LEMMA ClassifyUsage ==
  ASSUME NEW r, NEW l, NEW c, NEW u, NEW f, IsUsage(u), NEW tx, tx = Tx(r, l, c, u, f), NEW ids
  PROVE  \E d : /\ Classify(tx, ids) = Tx(r, l, d, Shifted(u, ToMove(tx, ids)), f)
                /\ DOMAIN d = (DOMAIN c \cup ToCache(tx, ids)) \ ToPublic(tx, ids)
<1> DEFINE toCache == ToCache(tx, ids)
           toPublic == ToPublic(tx, ids)
           moved == ToMove(tx, ids)
           left == [i \in (DOMAIN c \cup toCache) \ toPublic |-> IF i \in DOMAIN c THEN c[i] ELSE now]
<1>0. tx.rows = r /\ tx.cache = c /\ tx.usage = u BY DEF Tx
<1>1. Classify(tx, ids) = [tx EXCEPT !.usage.public = @ - moved, !.usage.cache = @ + moved, !.cache = left]
  BY <1>0 DEF Classify, ToMove, ToCache, ToPublic, ForeignAmong
<1> HIDE DEF toCache, toPublic, moved
<1>2. DOMAIN left = (DOMAIN c \cup toCache) \ toPublic OBVIOUS
<1> HIDE DEF left
<1> DEFINE x == tx.usage.public - moved
           y == tx.usage.cache + moved
           v == [u EXCEPT !.public = x, !.cache = y]
<1>3. Classify(tx, ids) = [tx EXCEPT !.usage.public = x, !.usage.cache = y, !.cache = left] BY <1>1
<1>4. v = Shifted(u, moved)
  <2>1. x = u.public - moved /\ y = u.cache + moved BY <1>0
  <2> HIDE DEF x, y
  <2>2. u = Totals(u.public, u.private, u.cache, u.phase, u.after) BY DEF IsUsage
  <2>3. [u EXCEPT !.public = x] = Totals(x, u.private, u.cache, u.phase, u.after) BY <2>2 DEF Totals
  <2>4. [Totals(x, u.private, u.cache, u.phase, u.after) EXCEPT !.cache = y] = Totals(x, u.private, y, u.phase, u.after)
    BY DEF Totals
  <2>5. v = [[u EXCEPT !.public = x] EXCEPT !.cache = y] OBVIOUS
  <2>6. v = Totals(x, u.private, y, u.phase, u.after) BY <2>3, <2>4, <2>5, Zenon
  <2> HIDE DEF v
  <2> QED BY <2>1, <2>6 DEF Shifted
<1>5. tx = Tx(r, l, c, u, f) OBVIOUS
<1> HIDE DEF x, y
<1>6. Classify(tx, ids) = Tx(r, l, left, v, f) BY ONLY <1>3, <1>5 DEF Tx
<1> HIDE DEF v
<1> QED BY <1>2, <1>4, <1>6 DEF toCache, toPublic, moved

\* Classifying events among the rows S keeps the count of S, puts those events
\* where they belong, and leaves the others where they are.
LEMMA ClassifyTally ==
  ASSUME NEW r, NEW l, NEW c, NEW u, NEW f, NEW tx, tx = Tx(r, l, c, u, f), IsUsage(u), u.phase # "records",
         NEW S, Tally(r, DOMAIN c, S, u), NEW ids, ids \cap DOMAIN r \subseteq S
  PROVE  \E d, v : /\ Classify(tx, ids) = Tx(r, l, d, v, f)
                   /\ IsUsage(v) /\ v.phase = u.phase /\ v.after = u.after
                   /\ Tally(r, DOMAIN d, S, v)
                   /\ \A i \in S : Foreign(r[i].ev) =>
                        IF i \in ids THEN Right(r, DOMAIN d, i) ELSE i \in DOMAIN d <=> i \in DOMAIN c
<1> DEFINE foreign == ForeignAmong(tx, ids)
           toCache == ToCache(tx, ids)
           toPublic == ToPublic(tx, ids)
           moved == ToMove(tx, ids)
           D == (DOMAIN c \cup toCache) \ toPublic
           v == Shifted(u, moved)
<1>2. PICK d : Classify(tx, ids) = Tx(r, l, d, v, f) /\ DOMAIN d = D
  BY ClassifyUsage
<1>3. /\ v.public = u.public - moved /\ v.private = u.private /\ v.cache = u.cache + moved
      /\ v.phase = u.phase /\ v.after = u.after /\ IsUsage(v)
  BY DEF Shifted, Totals, IsUsage
<1> HIDE DEF v
<1>4. tx.usage = u /\ tx.rows = r /\ tx.cache = c BY DEF Tx
<1>10. /\ foreign = {j \in ids \cap DOMAIN r : Foreign(r[j].ev)}
       /\ toCache = {i \in foreign \ DOMAIN c : ~Referenced(tx, r[i].ev)}
       /\ toPublic = {i \in foreign \cap DOMAIN c : Referenced(tx, r[i].ev)}
       /\ moved = Cardinality(toCache) - Cardinality(toPublic)
  BY <1>4 DEF ForeignAmong, ToCache, ToPublic, ToMove
<1> HIDE DEF foreign, toCache, toPublic, moved
<1>5. \A i \in foreign : Referenced(tx, r[i].ev) <=> RefersTo(r, r[i].ev)
  BY <1>4, <1>10 DEF Referenced, Indexed, RefersTo
<1>6. toCache \in SUBSET (S \ DOMAIN c) /\ (\A i \in toCache : Foreign(r[i].ev)) /\ toPublic \in SUBSET DOMAIN c BY <1>10
<1>7. ASSUME NEW i \in S, Foreign(r[i].ev)
      PROVE  IF i \in ids THEN Right(r, D, i) ELSE i \in D <=> i \in DOMAIN c
  <2>1. i \in DOMAIN r BY DEF Tally
  <2>2. CASE i \in ids
    <3>1. i \in foreign BY <1>7, <1>10, <2>1, <2>2
    <3>2. i \in D <=> ~Referenced(tx, r[i].ev) BY <1>10, <3>1
    <3> QED BY <1>5, <2>2, <3>1, <3>2 DEF Right
  <2>3. CASE i \notin ids BY <1>10, <2>3
  <2> QED BY <2>2, <2>3
<1>8. Tally(r, D, S, v) BY <1>3, <1>6, <1>10, TallyMoved
<1> QED BY <1>2, <1>3, <1>7, <1>8

\* A transaction of a prepared store whose counters are right and whose
\* references account for every event that is not classified as it should be.
Account(tx) ==
  /\ IsTx(tx) /\ IsUsage(tx.usage) /\ tx.usage.phase = "ready"
  /\ Tally(tx.rows, DOMAIN tx.cache, DOMAIN tx.rows, tx.usage)
  /\ Settled(tx.rows, DOMAIN tx.cache, DOMAIN tx.rows, tx.refs)

\* A row that goes takes its references away, and no others.
LEMMA SettledWithout ==
  ASSUME NEW R, NEW C, NEW f, Settled(R, C, DOMAIN R, f), NEW gone \in SUBSET DOMAIN R,
         NEW Q, DOMAIN Q = DOMAIN R \ gone, \A i \in DOMAIN Q : Q[i] = R[i]
  PROVE  Settled(Q, C \ gone, DOMAIN Q, f \cup UNION {OwnerRefs(R[i].ev) : i \in gone})
<1> DEFINE h == f \cup UNION {OwnerRefs(R[i].ev) : i \in gone}
<1> SUFFICES ASSUME NEW i \in DOMAIN Q, Foreign(Q[i].ev), Refs(Q[i].ev) \cap h = {} PROVE Right(Q, C \ gone, i)
  BY DEF Settled
<1>1. i \in DOMAIN R /\ i \notin gone /\ Q[i] = R[i] OBVIOUS
<1>2. Refs(R[i].ev) \cap f = {} BY <1>1
<1>3. Right(R, C, i) BY <1>1, <1>2 DEF Settled
<1>4. ASSUME NEW j \in gone PROVE OwnerRefs(R[j].ev) \cap Refs(R[i].ev) = {} BY <1>1
<1>5. RefersTo(Q, R[i].ev) <=> RefersTo(R, R[i].ev)
  <2>1. \A j \in DOMAIN Q : j \in DOMAIN R /\ Q[j] = R[j] OBVIOUS
  <2>2. \A j \in DOMAIN R : j \in gone \/ j \in DOMAIN Q OBVIOUS
  <2> HIDE DEF h
  <2> QED BY <1>4, <2>1, <2>2 DEF RefersTo
<1> QED BY <1>1, <1>3, <1>5 DEF Right

\* Deleting events takes them off the counters of their categories.
LEMMA DeletedAccount ==
  ASSUME NEW tx, Account(tx), NEW ids
  PROVE  Account(Deleted(tx, ids))
<1>1. PICK r, l, c, u, f : tx = Tx(r, l, c, u, f) BY DEF Account, IsTx
<1>2. tx.rows = r /\ tx.ledger = l /\ tx.cache = c /\ tx.usage = u /\ tx.refs = f BY <1>1 DEF Tx
<1> DEFINE gone == ids \cap DOMAIN r
      requests == {i \in gone : r[i].ev.kind = "delete"}
      cached == gone \cap DOMAIN c
      refs == UNION {OwnerRefs(r[i].ev) : i \in gone}
      pub == Cardinality(Of(r, gone \ cached, "public"))
      priv == Cardinality(Of(r, gone \ cached, "private"))
      n == Cardinality(cached)
      R == Restricted(r, DOMAIN r \ gone)
      C == Restricted(c, DOMAIN c \ gone)
      L == Without(l, requests)
      v == Totals(u.public - pub, u.private - priv, u.cache - n, u.phase, u.after)
<1>3. Count(tx, gone \ cached, "public") = pub /\ Count(tx, gone \ cached, "private") = priv
  BY <1>2 DEF Count, Of
<1>4. Deleted(tx, ids) = [tx EXCEPT !.rows = R, !.cache = C,
                 !.usage.public = @ - pub, !.usage.private = @ - priv, !.usage.cache = @ - n,
                 !.refs = @ \cup refs, !.ledger = L]
  BY <1>2, <1>3 DEF Deleted
<1>5. /\ DOMAIN R = DOMAIN r \ gone /\ \A i \in DOMAIN R : R[i] = r[i]
      /\ DOMAIN C = DOMAIN c \ gone
  BY DEF Restricted
<1>6. gone \in SUBSET DOMAIN r /\ cached = gone \cap DOMAIN c /\ gone \ cached = gone \ DOMAIN c OBVIOUS
<1>7. Settled(R, DOMAIN c \ gone, DOMAIN R, f \cup refs)
  <2>1. Settled(r, DOMAIN c, DOMAIN r, f) BY <1>2 DEF Account
  <2> HIDE DEF gone, R
  <2> QED BY <1>5, <1>6, <2>1, SettledWithout
<1> HIDE DEF R, C, L, refs, gone, cached, pub, priv, n
<1>8. Deleted(tx, ids) = Tx(R, L, C, v, f \cup refs)
  <2>1. u = Totals(u.public, u.private, u.cache, u.phase, u.after) BY <1>2 DEF Account, IsUsage
  <2> DEFINE x == tx.usage.public - pub
             y == tx.usage.private - priv
             z == tx.usage.cache - n
             h == tx.refs \cup refs
             w == [u EXCEPT !.public = x, !.private = y, !.cache = z]
  <2>2. Deleted(tx, ids) = [tx EXCEPT !.rows = R, !.cache = C, !.usage.public = x, !.usage.private = y,
                                      !.usage.cache = z, !.refs = h, !.ledger = L]
    BY <1>4
  <2>3. x = u.public - pub /\ y = u.private - priv /\ z = u.cache - n /\ h = f \cup refs BY <1>2
  <2> HIDE DEF x, y, z, h
  <2>4. w = v
    <3>1. [u EXCEPT !.public = x] = Totals(x, u.private, u.cache, u.phase, u.after) BY <2>1 DEF Totals
    <3>2. [Totals(x, u.private, u.cache, u.phase, u.after) EXCEPT !.private = y] = Totals(x, y, u.cache, u.phase, u.after)
      BY DEF Totals
    <3>3. [Totals(x, y, u.cache, u.phase, u.after) EXCEPT !.cache = z] = Totals(x, y, z, u.phase, u.after) BY DEF Totals
    <3>4. w = [[[u EXCEPT !.public = x] EXCEPT !.private = y] EXCEPT !.cache = z] OBVIOUS
    <3>5. w = Totals(x, y, z, u.phase, u.after) BY <3>1, <3>2, <3>3, <3>4, Zenon
    <3> HIDE DEF w
    <3> QED BY <2>3, <3>5
  <2> HIDE DEF v
  <2>5. Deleted(tx, ids) = Tx(R, L, C, w, h) BY <1>1, <2>2 DEF Tx
  <2> HIDE DEF w
  <2> QED BY <2>3, <2>4, <2>5
<1>9. v.public = u.public - pub /\ v.private = u.private - priv /\ v.cache = u.cache - n /\ v.phase = u.phase /\ IsUsage(v)
  BY DEF Totals, IsUsage
<1> HIDE DEF v
<1>10. Tally(R, DOMAIN c \ gone, DOMAIN R, v)
  <2>1. Tally(r, DOMAIN c, DOMAIN r, u) BY <1>2 DEF Account
  <2>2. /\ v.public = u.public - Cardinality(Of(r, gone \ DOMAIN c, "public"))
        /\ v.private = u.private - Cardinality(Of(r, gone \ DOMAIN c, "private"))
        /\ v.cache = u.cache - Cardinality(gone \cap DOMAIN c)
    BY <1>6, <1>9 DEF pub, priv, n
  <2> QED BY <1>5, <1>6, <2>1, <2>2, TallyWithout
<1>11. LET t == Tx(R, L, C, v, f \cup refs)
       IN IsTx(t) /\ t.rows = R /\ t.cache = C /\ t.usage = v /\ t.refs = f \cup refs
  BY DEF Tx, IsTx
<1>12. v.phase = "ready" BY <1>2, <1>9 DEF Account
<1> QED BY <1>5, <1>7, <1>8, <1>9, <1>10, <1>11, <1>12 DEF Account

\* Writing an event counts it in its category and puts it in its class.
LEMMA PutAccount ==
  ASSUME NEW tx, Account(tx), NEW row, row.ev.id \notin DOMAIN tx.rows,
         Foreign(row.ev) => Category(row.ev) = "public"
  PROVE  Account(Put(tx, row))
<1>1. PICK r, l, c, u, f : tx = Tx(r, l, c, u, f) BY DEF Account, IsTx
<1>2. tx.rows = r /\ tx.ledger = l /\ tx.cache = c /\ tx.usage = u /\ tx.refs = f BY <1>1 DEF Tx
<1> DEFINE e == row.ev
           id == row.ev.id
           R == [i \in DOMAIN r \cup {id} |-> IF i = id THEN row ELSE r[i]]
           category == Category(row.ev)
           refs == OwnerRefs(row.ev)
           U == [u EXCEPT ![category] = @ + 1]
           h == f \cup refs
           put == Tx(R, l, c, U, h)
<1>3. Put(tx, row) = Classify([tx EXCEPT !.rows = R, !.usage[category] = @ + 1, !.refs = @ \cup refs], {id})
  BY <1>2 DEF Put
<1>4. [tx EXCEPT !.rows = R, !.usage[category] = @ + 1, !.refs = @ \cup refs] = put
  <2>1. [tx EXCEPT !.rows = R, !.usage[category] = @ + 1, !.refs = @ \cup refs] = [tx EXCEPT !.rows = R, !.usage = U, !.refs = h]
    <3> HIDE DEF R, category, refs
    <3> QED BY <1>2
  <2> HIDE DEF R, refs, U, h
  <2> DEFINE t == [tx EXCEPT !.rows = R, !.usage = U, !.refs = h]
  <2>2. t = [tx EXCEPT !.rows = R, !.usage = U, !.refs = h] OBVIOUS
  <2> HIDE DEF t
  <2>3. t = put BY ONLY <1>1, <2>2 DEF Tx, put
  <2> HIDE DEF put
  <2> QED BY <2>1, <2>2, <2>3
<1>5. /\ U.public = u.public + (IF category = "public" THEN 1 ELSE 0)
      /\ U.private = u.private + (IF category = "private" THEN 1 ELSE 0)
      /\ U.cache = u.cache /\ U.phase = u.phase /\ IsUsage(U)
  <2>0. u = Totals(u.public, u.private, u.cache, u.phase, u.after) BY <1>2 DEF Account, IsUsage
  <2>1. u.public \in Nat /\ u.private \in Nat
    <3>1. Tally(r, DOMAIN c, DOMAIN r, u) BY <1>2 DEF Account
    <3>2. \A S \in SUBSET DOMAIN r : \A cat : IsFiniteSet(Of(r, S, cat)) BY <3>1, FS_Subset DEF Tally, Of
    <3>3. \A S \in SUBSET DOMAIN r : \A cat : Cardinality(Of(r, S, cat)) \in Nat BY <3>2, FS_CardinalityType
    <3>4. DOMAIN r \ DOMAIN c \in SUBSET DOMAIN r /\ DOMAIN r \in SUBSET DOMAIN r OBVIOUS
    <3> QED BY <3>1, <3>3, <3>4 DEF Tally
  <2>2. CASE category = "public"
    <3> DEFINE x == u.public + 1
    <3>1. U = [u EXCEPT !.public = x] BY <2>2
    <3> HIDE DEF U, category, x
    <3>2. U = Totals(x, u.private, u.cache, u.phase, u.after) BY <2>0, <3>1 DEF Totals
    <3>3. U.public = x /\ U.private = u.private /\ U.cache = u.cache /\ U.phase = u.phase /\ IsUsage(U)
      BY <3>2 DEF Totals, IsUsage
    <3> QED BY <2>1, <2>2, <3>3 DEF x
  <2>3. CASE category = "private"
    <3> DEFINE x == u.private + 1
    <3>1. U = [u EXCEPT !.private = x] BY <2>3
    <3> HIDE DEF U, category, x
    <3>2. U = Totals(u.public, x, u.cache, u.phase, u.after) BY <2>0, <3>1 DEF Totals
    <3>3. U.private = x /\ U.public = u.public /\ U.cache = u.cache /\ U.phase = u.phase /\ IsUsage(U)
      BY <3>2 DEF Totals, IsUsage
    <3> QED BY <2>1, <2>3, <3>3 DEF x
  <2>4. category = "public" \/ category = "private" BY DEF Category
  <2> QED BY <2>2, <2>3, <2>4
<1>6. DOMAIN R = DOMAIN r \cup {id} /\ R[id] = row /\ \A i \in DOMAIN r : R[i] = r[i] BY <1>2
<1> HIDE DEF U, R, category, refs, put, h, id
<1>7. Tally(R, DOMAIN c, DOMAIN R, U)
  <2>1. Tally(r, DOMAIN c, DOMAIN r, u) BY <1>2 DEF Account
  <2>2. IsFiniteSet(DOMAIN R) BY <1>6, <2>1, FS_AddElement DEF Tally
  <2>3. \A i \in DOMAIN R \ DOMAIN r : Foreign(R[i].ev) => Category(R[i].ev) = "public" BY <1>6
  <2>4. Tally(R, DOMAIN c, DOMAIN r, u) BY <1>6, <2>1, <2>2, <2>3, TallySame
  <2>5. id \in DOMAIN R /\ id \notin DOMAIN r /\ Category(R[id].ev) = category BY <1>2, <1>6 DEF id, category
  <2> QED BY <1>5, <1>6, <2>4, <2>5, TallyWith
<1>8. U.phase = "ready" /\ U.phase # "records" BY <1>2, <1>5 DEF Account
<1>9. PICK d, v : /\ Classify(put, {id}) = Tx(R, l, d, v, h)
                  /\ IsUsage(v) /\ v.phase = U.phase /\ v.after = U.after
                  /\ Tally(R, DOMAIN d, DOMAIN R, v)
                  /\ \A i \in DOMAIN R : Foreign(R[i].ev) =>
                       IF i \in {id} THEN Right(R, DOMAIN d, i) ELSE i \in DOMAIN d <=> i \in DOMAIN c
  <2>1. {id} \cap DOMAIN R \subseteq DOMAIN R /\ put = Tx(R, l, c, U, h) BY DEF put
  <2> QED BY <1>5, <1>7, <1>8, <2>1, ClassifyTally
<1>10. Settled(R, DOMAIN d, DOMAIN R, h)
  <2> SUFFICES ASSUME NEW i \in DOMAIN R, Foreign(R[i].ev), Refs(R[i].ev) \cap h = {}, i # id PROVE Right(R, DOMAIN d, i)
    BY <1>9 DEF Settled
  <2>1. i \in DOMAIN r /\ R[i] = r[i] /\ Refs(r[i].ev) \cap f = {} BY <1>6 DEF h
  <2>2. Right(r, DOMAIN c, i) BY <1>2, <2>1 DEF Account, Settled
  <2>3. OwnerRefs(R[id].ev) \cap Refs(R[i].ev) = {} BY <1>6 DEF h, refs
  <2>4. RefersTo(R, R[i].ev) <=> RefersTo(r, r[i].ev) BY <1>6, <2>1, <2>3 DEF RefersTo
  <2>5. i \in DOMAIN d <=> i \in DOMAIN c BY <1>9
  <2> QED BY <2>2, <2>4, <2>5 DEF Right
<1>11. Put(tx, row) = Tx(R, l, d, v, h) BY <1>3, <1>4, <1>9 DEF id
<1>12. LET t == Tx(R, l, d, v, h)
       IN IsTx(t) /\ t.rows = R /\ t.cache = d /\ t.usage = v /\ t.refs = h
  BY DEF Tx, IsTx
<1> QED BY <1>8, <1>9, <1>10, <1>11, <1>12 DEF Account

\* The counters do not look at the applications of a row.
LEMMA AppsAccount ==
  ASSUME NEW tx, Account(tx), NEW new, IsTx(new), new.cache = tx.cache, new.usage = tx.usage, new.refs = tx.refs,
         DOMAIN new.rows = DOMAIN tx.rows, \A i \in DOMAIN tx.rows : new.rows[i].ev = tx.rows[i].ev
  PROVE  Account(new)
<1> DEFINE R == tx.rows
           Q == new.rows
           C == DOMAIN tx.cache
           u == tx.usage
           f == tx.refs
<1>1. Tally(R, C, DOMAIN R, u) /\ Settled(R, C, DOMAIN R, f) BY DEF Account
<1>2. DOMAIN Q = DOMAIN R /\ \A i \in DOMAIN R : Q[i].ev = R[i].ev OBVIOUS
<1> HIDE DEF R, Q, C, u, f
<1>3. Tally(Q, C, DOMAIN Q, u)
  <2>1. IsFiniteSet(DOMAIN Q) /\ DOMAIN R \subseteq DOMAIN Q /\ DOMAIN Q \ DOMAIN R = {} BY <1>1, <1>2 DEF Tally
  <2> QED BY <1>1, <1>2, <2>1, TallySame
<1>4. Settled(Q, C, DOMAIN Q, f)
  <2>1. \A i \in DOMAIN R : RefersTo(Q, Q[i].ev) <=> RefersTo(R, R[i].ev) BY <1>2 DEF RefersTo
  <2> QED BY <1>1, <1>2, <2>1 DEF Settled, Right
<1> QED BY <1>3, <1>4 DEF Account, Q, C, u, f

\* Claims of applications leave the counters right.
LEMMA ClaimedAccount ==
  ASSUME NEW tx, Account(tx), RowsOK(tx.rows), NEW ids, NEW app
  PROVE  Account(Claimed(tx, ids, app))
<1>1. PICK r, l, c, u, f : tx = Tx(r, l, c, u, f) BY DEF Account, IsTx
<1> DEFINE C == Claimed(tx, ids, app)
<1>2. PICK R : C = [tx EXCEPT !.rows = R] BY Zenon DEF Claimed
<1>3. /\ DOMAIN C.rows = DOMAIN tx.rows
      /\ \A i \in DOMAIN tx.rows : C.rows[i] = tx.rows[i] \/ \E apps : C.rows[i] = WithApps(tx.rows[i], apps)
  BY ClaimedTx DEF Account
<1> HIDE DEF C
<1>4. IsTx(C) /\ C.cache = tx.cache /\ C.usage = tx.usage /\ C.refs = tx.refs BY <1>1, <1>2 DEF Tx, IsTx
<1> DEFINE Q == C.rows
           P == tx.rows
<1>5. /\ RowsOK(P) /\ DOMAIN Q = DOMAIN P
      /\ \A i \in DOMAIN P : Q[i] = P[i] \/ \E apps : Q[i] = WithApps(P[i], apps)
  BY <1>3
<1> HIDE DEF Q, P
<1>6. \A i \in DOMAIN Q : Q[i].ev = P[i].ev BY <1>5, SameEvents
<1>7. Account(C) BY <1>4, <1>5, <1>6, AppsAccount DEF Q, P
<1> QED BY <1>7 DEF C

\* And so does their end.
LEMMA DisownedAccount ==
  ASSUME NEW tx, Account(tx), RowsOK(tx.rows), NEW ids, NEW app
  PROVE  Account(Disowned(tx, ids, app))
<1>1. PICK r, l, c, u, f : tx = Tx(r, l, c, u, f) BY DEF Account, IsTx
<1> DEFINE C == Disowned(tx, ids, app)
<1>2. PICK R : C = [tx EXCEPT !.rows = R] BY Zenon DEF Disowned
<1>3. /\ DOMAIN C.rows = DOMAIN tx.rows
      /\ \A i \in DOMAIN tx.rows : C.rows[i] = tx.rows[i] \/ \E apps : C.rows[i] = WithApps(tx.rows[i], apps)
  BY <1>1 DEF Disowned, Tx, WithApps
<1> HIDE DEF C
<1>4. IsTx(C) /\ C.cache = tx.cache /\ C.usage = tx.usage /\ C.refs = tx.refs BY <1>1, <1>2 DEF Tx, IsTx
<1> DEFINE Q == C.rows
           P == tx.rows
<1>5. /\ RowsOK(P) /\ DOMAIN Q = DOMAIN P
      /\ \A i \in DOMAIN P : Q[i] = P[i] \/ \E apps : Q[i] = WithApps(P[i], apps)
  BY <1>3
<1> HIDE DEF Q, P
<1>6. \A i \in DOMAIN Q : Q[i].ev = P[i].ev BY <1>5, SameEvents
<1>7. Account(C) BY <1>4, <1>5, <1>6, AppsAccount DEF Q, P
<1> QED BY <1>7 DEF C

\* A request changes the counters by the deletion of its victims.
LEMMA AppliedAccount ==
  ASSUME NEW tx, Account(tx), NEW request
  PROVE  Account(Applied(tx, request)) /\ DOMAIN Applied(tx, request).rows \subseteq DOMAIN tx.rows
<1> DEFINE victims == {i \in DOMAIN tx.rows : \E t \in Targets(tx, request) : Matches(tx.rows[i].ev, request, t)}
           left == Deleted(tx, victims)
           L == Contributed(left.ledger, request, Targets(tx, request))
<1>1. Account(left) BY DeletedAccount
<1>2. IsTx(tx) BY DEF Account
<1>3. DOMAIN left.rows \subseteq DOMAIN tx.rows
  <2>1. left.rows = Restricted(tx.rows, DOMAIN tx.rows \ victims) BY <1>2, DeletedTx
  <2> HIDE DEF left, victims
  <2> QED BY <2>1 DEF Restricted
<1>4. CASE request.kind = "delete"
  <2>1. PICK r, l, c, u, f : left = Tx(r, l, c, u, f) BY <1>1 DEF Account, IsTx
  <2>2. Applied(tx, request) = [left EXCEPT !.ledger = L]
    <3>1. left.ledger = l BY <2>1 DEF Tx
    <3> QED BY <1>4, <2>1 DEF Applied, Tx
  <2> HIDE DEF victims, left, L
  <2> DEFINE t == Applied(tx, request)
  <2>3. t = Tx(r, L, c, u, f) BY <2>1, <2>2 DEF Tx
  <2> HIDE DEF t
  <2>6. t.rows = r /\ t.cache = c /\ t.usage = u /\ t.refs = f BY <2>3 DEF Tx
  <2>7. left.rows = r /\ left.cache = c /\ left.usage = u /\ left.refs = f BY <2>1 DEF Tx
  <2>4. IsTx(t) /\ t.rows = left.rows /\ t.cache = left.cache /\ t.usage = left.usage /\ t.refs = left.refs
    BY <2>3, <2>6, <2>7 DEF IsTx
  <2>5. Account(t) BY <1>1, <2>4, AppsAccount
  <2> QED BY <1>3, <2>4, <2>5 DEF t
<1>5. CASE request.kind # "delete" BY <1>5 DEF Applied
<1> QED BY <1>4, <1>5

\* The body of add leaves the counters right, whatever it decides.
LEMMA AddedAccount ==
  ASSUME NEW tx, Account(tx), RowsOK(tx.rows), NEW e, Foreign(e) => Category(e) = "public",
         NEW app, NEW force, NEW consumed
  PROVE  Account(Added(tx, e, app, force, consumed))
<1> DEFINE rivals == Rivals(tx, e)
           apps == AppsOf(e, {app} \cup UNION {tx.rows[i].apps : i \in rivals})
           tx1 == Deleted(tx, rivals)
           tx2 == Applied(tx1, e)
           tx3 == Deleted(tx2, consumed)
           tx4 == Put(tx3, Row(e, apps, now))
<1>1. \/ Added(tx, e, app, force, consumed) = Claimed(tx, {e.id}, app)
      \/ Added(tx, e, app, force, consumed) = tx
      \/ Added(tx, e, app, force, consumed) = Claimed(tx, rivals, app)
      \/ Added(tx, e, app, force, consumed) = tx4 /\ e.id \notin DOMAIN tx.rows
  BY DEF Added, Row
<1>2. ASSUME e.id \notin DOMAIN tx.rows PROVE Account(tx4)
  <2>0. \A t, ids : IsTx(t) => DOMAIN Deleted(t, ids).rows \subseteq DOMAIN t.rows
    <3> SUFFICES ASSUME NEW t, NEW ids, IsTx(t) PROVE DOMAIN Deleted(t, ids).rows \subseteq DOMAIN t.rows OBVIOUS
    <3>1. Deleted(t, ids).rows = Restricted(t.rows, DOMAIN t.rows \ ids) BY DeletedTx
    <3> QED BY <3>1 DEF Restricted
  <2>1. Account(tx1) /\ DOMAIN tx1.rows \subseteq DOMAIN tx.rows
    <3> HIDE DEF rivals
    <3> QED BY <2>0, DeletedAccount DEF Account
  <2> HIDE DEF tx1
  <2>2. Account(tx2) /\ DOMAIN tx2.rows \subseteq DOMAIN tx1.rows BY <2>1, AppliedAccount
  <2> HIDE DEF tx2
  <2>3. Account(tx3) /\ DOMAIN tx3.rows \subseteq DOMAIN tx2.rows BY <2>0, <2>2, DeletedAccount DEF Account
  <2> DEFINE row == Row(e, apps, now)
  <2>4. row.ev = e BY DEF Row
  <2> HIDE DEF tx3, apps, row
  <2>5. row.ev.id \notin DOMAIN tx3.rows BY <1>2, <2>1, <2>2, <2>3, <2>4
  <2>6. Account(Put(tx3, row)) BY <2>3, <2>4, <2>5, PutAccount
  <2> QED BY <2>6 DEF row
<1>3. Account(Claimed(tx, {e.id}, app)) /\ Account(Claimed(tx, rivals, app))
  <2> HIDE DEF rivals
  <2> QED BY ClaimedAccount
<1> HIDE DEF tx4, rivals
<1> QED BY <1>1, <1>2, <1>3

\* The end of a transaction settles what its references left open.
LEMMA ReconciledAccount ==
  ASSUME NEW tx, Account(tx)
  PROVE  LET new == Reconciled(tx)
         IN  /\ IsUsage(new.usage) /\ new.usage.phase = "ready"
             /\ Tally(new.rows, DOMAIN new.cache, DOMAIN new.rows, new.usage)
             /\ Settled(new.rows, DOMAIN new.cache, DOMAIN new.rows, {})
<1>1. PICK r, l, c, u, f : tx = Tx(r, l, c, u, f) BY DEF Account, IsTx
<1>2. tx.rows = r /\ tx.cache = c /\ tx.usage = u /\ tx.refs = f BY <1>1 DEF Tx
<1> DEFINE ids == {i \in DOMAIN r : Refs(r[i].ev) \cap f # {}}
<1>3. Reconciled(tx) = Classify(tx, ids) BY <1>2 DEF Reconciled
<1>4. /\ IsUsage(u) /\ u.phase = "ready" /\ u.phase # "records" /\ Tally(r, DOMAIN c, DOMAIN r, u)
      /\ Settled(r, DOMAIN c, DOMAIN r, f)
  BY <1>2 DEF Account
<1>5. ids \cap DOMAIN r \subseteq DOMAIN r /\ \A i \in DOMAIN r : i \notin ids => Refs(r[i].ev) \cap f = {} OBVIOUS
<1> HIDE DEF ids
<1>6. PICK d, v : /\ Classify(tx, ids) = Tx(r, l, d, v, f)
                  /\ IsUsage(v) /\ v.phase = u.phase /\ v.after = u.after
                  /\ Tally(r, DOMAIN d, DOMAIN r, v)
                  /\ \A i \in DOMAIN r : Foreign(r[i].ev) =>
                       IF i \in ids THEN Right(r, DOMAIN d, i) ELSE i \in DOMAIN d <=> i \in DOMAIN c
  BY <1>1, <1>4, <1>5, ClassifyTally
<1>7. Settled(r, DOMAIN d, DOMAIN r, {}) BY <1>4, <1>5, <1>6 DEF Settled, Right
<1>8. LET t == Tx(r, l, d, v, f) IN t.rows = r /\ t.cache = d /\ t.usage = v BY DEF Tx
<1> QED BY <1>2, <1>3, <1>4, <1>6, <1>7, <1>8

-----------------------------------------------------------------------------
\* The counters between transactions: while the store is prepared they are those
\* of the rows that have been counted.
CountedRows(R, u) ==
  IF u.phase = "records" THEN {} ELSE IF u.phase = "classify" THEN {i \in DOMAIN R : i <= u.after} ELSE DOMAIN R

UsageSound(R, C, u) ==
  /\ IsUsage(u) /\ u.phase \in {"records", "classify", "ready"} /\ (u.phase # "ready" => u.after \in Nat)
  /\ Tally(R, C, CountedRows(R, u), u) /\ Settled(R, C, CountedRows(R, u), {})

UsageOK == UsageSound(rows, DOMAIN cache, usage)

\* Foreign events are public: personal copies are the owner's.
LEMMA ForeignPublic ==
  ASSUME Kept
  PROVE  /\ IsFiniteSet(DOMAIN rows)
         /\ \A i \in DOMAIN rows : i \in Nat \ {0} /\ (Foreign(rows[i].ev) => Category(rows[i].ev) = "public")
<1>1. \A i \in DOMAIN rows : rows[i].ev.id = i /\ EventOK(rows[i].ev) BY DEF Kept, RowsOK, Books, Events
<1> QED BY <1>1 DEF Kept, RowsOK, EventOK, Foreign, Category

\* Nothing is counted at first.
LEMMA InitUsage == Init => UsageOK
<1> SUFFICES ASSUME Init PROVE UsageOK OBVIOUS
<1>1. IsFiniteSet(DOMAIN rows) /\ \A i \in DOMAIN rows : Foreign(rows[i].ev) => Category(rows[i].ev) = "public"
  BY InitIInv, ForeignPublic DEF IInv
<1>2. usage = Totals(0, 0, 0, "records", 0) /\ DOMAIN cache = {} BY DEF Init, Totals
<1> DEFINE u == usage
<1>3. /\ IsUsage(u) /\ u.phase = "records" /\ u.after = 0 /\ u.public = 0 /\ u.private = 0 /\ u.cache = 0
  BY <1>2 DEF IsUsage, Totals
<1> HIDE DEF u
<1>4. CountedRows(rows, u) = {} BY <1>3 DEF CountedRows
<1>5. \A cat : Of(rows, {} \ {}, cat) = {} /\ Of(rows, {}, cat) = {} BY DEF Of
<1>6. Tally(rows, {}, {}, u) BY <1>1, <1>3, <1>5, FS_EmptySet DEF Tally
<1>7. Settled(rows, {}, {}, {}) BY DEF Settled
<1>8. UsageSound(rows, {}, u) BY <1>3, <1>4, <1>6, <1>7 DEF UsageSound
<1> QED BY <1>2, <1>8 DEF UsageOK, u

\* A transaction of a prepared store begins with the right counters.
LEMMA BeginAccount ==
  ASSUME UsageOK, usage.phase = "ready", Kept
  PROVE  Account(Begin) /\ RowsOK(Begin.rows)
<1>1. Begin = Tx(rows, ledger, cache, usage, {}) BY DEF Begin, Tx
<1> DEFINE t == Begin
<1>2. /\ IsTx(t) /\ t.rows = rows /\ t.cache = cache /\ t.usage = usage /\ t.refs = {} BY <1>1 DEF IsTx, Tx
<1> HIDE DEF t
<1>3. CountedRows(rows, usage) = DOMAIN rows BY DEF CountedRows
<1>4. Account(t) /\ RowsOK(t.rows) BY <1>2, <1>3 DEF UsageOK, UsageSound, Account, Kept
<1> QED BY <1>4 DEF t

\* Saving a transaction with the right counters.
LEMMA MutateUsage ==
  ASSUME NEW tx, Account(tx), Mutate(tx)
  PROVE  UsageOK'
<1> DEFINE new == Reconciled(tx)
<1>1. rows' = new.rows /\ cache' = new.cache /\ usage' = new.usage BY DEF Mutate, Save
<1>2. /\ IsUsage(new.usage) /\ new.usage.phase = "ready"
      /\ Tally(new.rows, DOMAIN new.cache, DOMAIN new.rows, new.usage)
      /\ Settled(new.rows, DOMAIN new.cache, DOMAIN new.rows, {})
  BY ReconciledAccount
<1> HIDE DEF new
<1>3. CountedRows(new.rows, new.usage) = DOMAIN new.rows BY <1>2 DEF CountedRows
<1>4. UsageSound(new.rows, DOMAIN new.cache, new.usage) BY <1>2, <1>3 DEF UsageSound
<1> QED BY <1>1, <1>4 DEF UsageOK

\* Each step is a transaction, a page of the preparation, or leaves events,
\* classes and counters as they are.
Untouched ==
  /\ usage' = usage /\ DOMAIN cache' = DOMAIN cache /\ DOMAIN rows' = DOMAIN rows
  /\ \A i \in DOMAIN rows : rows'[i].ev = rows[i].ev

Transaction ==
  \/ \E ids : Mutate(Deleted(Begin, ids))
  \/ \E ids, app, gone : Mutate(Deleted(Disowned(Begin, ids, app), gone))
  \/ \E e, app, force, consumed : EventOK(e) /\ Mutate(Added(Begin, e, app, force, consumed))

\* A step that touches no store.
LEMMA StoresUntouched == ASSUME UNCHANGED stores PROVE Untouched
BY DEF Untouched, stores

\* Transactions of applications.
LEMMA ApplicationSteps ==
  ASSUME IInv, Applications
  PROVE  Transaction \/ Untouched
<1> USE DEF IInv
<1>1. ASSUME NEW e \in Catalog, NEW app, NEW force, Add(e, app, force) PROVE Transaction
  BY <1>1, CatalogOK DEF Add, AddEvent, Transaction
<1>2. ASSUME NEW targets, RemoveTargets(targets) PROVE Transaction
  BY <1>2 DEF RemoveTargets, Transaction
<1>3. ASSUME NEW i, NEW app, QueueAppClaim(i, app) PROVE Untouched
  BY <1>3, StoresUntouched DEF QueueAppClaim
<1>4. ASSUME NEW i, Touch(i) PROVE Untouched
  BY <1>4, StoresUntouched DEF Touch
<1>5. ASSUME NEW app, Uninstall(app) PROVE Untouched
  BY <1>5, StoresUntouched DEF Uninstall
<1> QED BY <1>1, <1>2, <1>3, <1>4, <1>5 DEF Applications

\* Transactions of the maintenance.
LEMMA MaintenanceSteps ==
  ASSUME IInv, Maintenance
  PROVE  Transaction \/ PreparePage \/ Untouched
<1> USE DEF IInv
<1>1. CASE CompactSave
  <2>1. PICK i \in MergedIds : AddEvent(Merged(i, jobs.compact), NoApp, FALSE, Consumed(jobs.compact))
    BY <1>1 DEF CompactSave, Lowest
  <2>2. EventOK(Merged(i, jobs.compact)) BY <1>1, MergedOK DEF CompactSave, JobsOK
  <2> QED BY <2>1, <2>2 DEF AddEvent, Transaction
<1>2. CASE PruneDelete \/ ExpireDelete \/ HearsayDelete \/ PurgeUnclaimedPage
  <2>1. \E ids : Mutate(Deleted(Begin, ids))
    BY <1>2 DEF PruneDelete, ExpireDelete, HearsayDelete, PurgeUnclaimedPage
  <2> QED BY <2>1 DEF Transaction
<1>3. CASE DeleteAppRows
  <2>1. \E ids, app, gone : Mutate(Deleted(Disowned(Begin, ids, app), gone)) BY <1>3 DEF DeleteAppRows
  <2> QED BY <2>1 DEF Transaction
<1>4. CASE EvictBatch
  <2>1. \E ids : Mutate(Deleted(Begin, ids)) BY <1>4 DEF EvictBatch
  <2> QED BY <2>1 DEF Transaction
<1>5. CASE WriteAppClaims
  <2>1. /\ DOMAIN rows' = DOMAIN rows /\ usage' = usage /\ cache' = cache
        /\ \A i \in DOMAIN rows : \E apps : rows'[i] = WithApps(rows[i], apps)
    BY <1>5 DEF WriteAppClaims, WithApps
  <2> DEFINE Q == rows'
             R == rows
  <2>2. RowsOK(R) /\ DOMAIN Q = DOMAIN R /\ \A i \in DOMAIN R : Q[i] = R[i] \/ \E apps : Q[i] = WithApps(R[i], apps)
    BY <2>1 DEF Kept
  <2> HIDE DEF Q, R
  <2>3. \A i \in DOMAIN Q : Q[i].ev = R[i].ev BY <2>2, SameEvents
  <2> QED BY <2>1, <2>3 DEF Untouched, Q, R
<1>6. CASE FlushTouches
  <2>1. DOMAIN cache' = DOMAIN cache /\ rows' = rows /\ usage' = usage BY <1>6 DEF FlushTouches
  <2> QED BY <2>1 DEF Untouched
<1>7. CASE CompactSelect \/ PruneSelect \/ ExpireSelect \/ HearsayScan \/ HearsayCheck
  BY <1>7, StoresUntouched DEF CompactSelect, PruneSelect, ExpireSelect, HearsayScan, HearsayCheck
<1>8. CASE CollectAppRows \/ FlushAppClaims \/ Review \/ EvictMore \/ \E j \in Jobs : Fail(j)
  BY <1>8, StoresUntouched DEF CollectAppRows, FlushAppClaims, Review, EvictMore, Fail
<1> QED BY <1>1, <1>2, <1>3, <1>4, <1>5, <1>6, <1>7, <1>8 DEF Maintenance

\* Every transaction keeps the counters right.
LEMMA TransactionUsage ==
  ASSUME IInv, UsageOK, Transaction
  PROVE  UsageOK'
<1>0. usage.phase = "ready" /\ Kept BY DEF Transaction, Mutate, IInv
<1>1. Account(Begin) /\ RowsOK(Begin.rows) BY <1>0, BeginAccount
<1>2. ASSUME NEW ids, Mutate(Deleted(Begin, ids)) PROVE UsageOK'
  BY <1>1, <1>2, DeletedAccount, MutateUsage
<1>3. ASSUME NEW ids, NEW app, NEW gone, Mutate(Deleted(Disowned(Begin, ids, app), gone)) PROVE UsageOK'
  <2>1. Account(Disowned(Begin, ids, app)) BY <1>1, DisownedAccount
  <2>2. Account(Deleted(Disowned(Begin, ids, app), gone)) BY <2>1, DeletedAccount
  <2> QED BY <1>3, <2>2, MutateUsage
<1>4. ASSUME NEW e, NEW app, NEW force, NEW consumed, EventOK(e), Mutate(Added(Begin, e, app, force, consumed))
      PROVE  UsageOK'
  <2>1. Foreign(e) => Category(e) = "public" BY <1>4 DEF EventOK, Foreign, Category
  <2>2. Account(Added(Begin, e, app, force, consumed)) BY <1>1, <2>1, AddedAccount
  <2> QED BY <1>4, <2>2, MutateUsage
<1> QED BY <1>2, <1>3, <1>4 DEF Transaction

\* Events and classes as they were have the counters they had.
LEMMA UntouchedUsage ==
  ASSUME UsageOK, Untouched, IsFiniteSet(DOMAIN rows)
  PROVE  UsageOK'
<1> DEFINE R == rows
           Q == rows'
           C == DOMAIN cache
           u == usage
           S == CountedRows(R, u)
<1>1. UsageSound(R, C, u) BY DEF UsageOK
<1>2. DOMAIN Q = DOMAIN R /\ \A i \in DOMAIN R : Q[i].ev = R[i].ev BY DEF Untouched
<1>3. C = DOMAIN cache' /\ u = usage' /\ IsFiniteSet(DOMAIN R) BY DEF Untouched
<1> HIDE DEF R, Q, C, u
<1>4. S = CountedRows(Q, u) BY <1>2 DEF CountedRows
<1> HIDE DEF S
<1>5. Tally(R, C, S, u) /\ Settled(R, C, S, {}) BY <1>1 DEF UsageSound, S
<1>6. Tally(Q, C, S, u)
  <2>1. IsFiniteSet(DOMAIN Q) /\ DOMAIN R \subseteq DOMAIN Q /\ DOMAIN Q \ DOMAIN R = {} BY <1>2, <1>3
  <2> QED BY <1>2, <1>5, <2>1, TallySame
<1>7. Settled(Q, C, S, {})
  <2>1. S \subseteq DOMAIN R BY <1>5 DEF Tally
  <2>2. \A i \in DOMAIN R : RefersTo(Q, Q[i].ev) <=> RefersTo(R, R[i].ev) BY <1>2 DEF RefersTo
  <2> QED BY <1>2, <1>5, <2>1, <2>2 DEF Settled, Right
<1>8. UsageSound(Q, C, u) BY <1>1, <1>4, <1>6, <1>7 DEF UsageSound
<1> QED BY <1>3, <1>8 DEF UsageOK, Q

\* The next row of a page is the first that is not counted.
LEMMA NextCounted ==
  ASSUME Kept, NEW i \in Lowest(1, NextRow), usage.after \in Nat
  PROVE  /\ i \in DOMAIN rows /\ i \in Nat /\ ~(i <= usage.after)
         /\ {j \in DOMAIN rows : j <= i} = {j \in DOMAIN rows : j <= usage.after} \cup {i}
<1>1. IsFiniteSet(DOMAIN rows) /\ \A j \in DOMAIN rows : j \in Nat BY ForeignPublic
<1> DEFINE below == {j \in NextRow : j < i}
<1>2. i \in NextRow /\ Cardinality(below) < 1 BY DEF Lowest
<1>3. i \in DOMAIN rows /\ i > usage.after BY <1>2 DEF NextRow
<1>4. below = {}
  <2>1. below \subseteq DOMAIN rows BY DEF NextRow
  <2> HIDE DEF below
  <2>2. IsFiniteSet(below) BY <1>1, <2>1, FS_Subset
  <2>3. Cardinality(below) = 0 BY <1>2, <2>2, FS_CardinalityType
  <2> QED BY <2>2, <2>3, FS_EmptySet
<1>5. ASSUME NEW j \in DOMAIN rows, j <= i, j # i PROVE j <= usage.after
  <2>1. j \notin NextRow BY <1>1, <1>3, <1>4, <1>5
  <2> QED BY <1>1, <2>1 DEF NextRow
<1>6. ASSUME NEW j \in DOMAIN rows, j <= usage.after PROVE j <= i BY <1>1, <1>3, <1>6
<1>7. ~(i <= usage.after) BY <1>1, <1>3
<1> QED BY <1>1, <1>3, <1>5, <1>6, <1>7

\* The counters of the same rows in another phase.
LEMMA PhaseUsage ==
  ASSUME Kept, UsageOK, UNCHANGED rows, DOMAIN cache' = DOMAIN cache, IsUsage(usage'),
         usage'.phase \in {"records", "classify", "ready"}, usage'.phase # "ready" => usage'.after \in Nat,
         usage'.public = usage.public, usage'.private = usage.private, usage'.cache = usage.cache,
         CountedRows(rows, usage') = CountedRows(rows, usage)
  PROVE  UsageOK'
<1> DEFINE v == usage'
           R == rows
           C == DOMAIN cache
           S == CountedRows(rows, usage)
<1>1. Tally(R, C, S, usage) /\ Settled(R, C, S, {}) BY DEF UsageOK, UsageSound
<1>2. /\ IsUsage(v) /\ v.phase \in {"records", "classify", "ready"} /\ (v.phase # "ready" => v.after \in Nat)
      /\ CountedRows(R, v) = S /\ v.public = usage.public /\ v.private = usage.private /\ v.cache = usage.cache
      /\ R = rows' /\ C = DOMAIN cache'
  OBVIOUS
<1> HIDE DEF v, R, C, S
<1>3. Tally(R, C, S, v) BY <1>1, <1>2 DEF Tally
<1>4. UsageSound(R, C, v) BY <1>1, <1>2, <1>3 DEF UsageSound
<1> QED BY <1>2, <1>4 DEF UsageOK, v

\* A page of the preparation counts one more row, or goes to the next phase
\* when none is left.
LEMMA PreparePageUsage ==
  ASSUME IInv, UsageOK, PreparePage
  PROVE  UsageOK'
<1>0. Kept /\ usage.phase \in {"records", "classify"} /\ usage.after \in Nat /\ IsUsage(usage)
  BY DEF PreparePage, UsageOK, UsageSound, IInv
<1>1. Begin = Tx(rows, ledger, cache, usage, {}) BY DEF Begin, Tx
<1>2. \A j \in DOMAIN rows : j \in Nat \ {0} BY <1>0, ForeignPublic
<1>3. usage = Totals(usage.public, usage.private, usage.cache, usage.phase, usage.after) BY <1>0 DEF IsUsage
<1>4. CASE NextRow = {}
  <2> DEFINE phase == IF usage.phase = "records" THEN "classify" ELSE "ready"
             v == Totals(usage.public, usage.private, usage.cache, phase, 0)
             tx == [Begin EXCEPT !.usage.phase = IF @ = "records" THEN "classify" ELSE "ready", !.usage.after = 0]
  <2>1. Save(tx) BY <1>4 DEF PreparePage
  <2>2. tx = Tx(rows, ledger, cache, v, {})
    <3>1. Begin.usage = usage BY <1>1 DEF Tx
    <3>2. tx = [Begin EXCEPT !.usage.phase = phase, !.usage.after = 0] BY <3>1
    <3> DEFINE w == [usage EXCEPT !.phase = phase, !.after = 0]
    <3> HIDE DEF tx, phase
    <3>3. tx = Tx(rows, ledger, cache, w, {}) BY ONLY <1>1, <3>2 DEF Tx
    <3>4. [usage EXCEPT !.phase = phase] = Totals(usage.public, usage.private, usage.cache, phase, usage.after)
      BY <1>3 DEF Totals
    <3>5. [Totals(usage.public, usage.private, usage.cache, phase, usage.after) EXCEPT !.after = 0] = v BY DEF Totals
    <3>6. w = [[usage EXCEPT !.phase = phase] EXCEPT !.after = 0] OBVIOUS
    <3> HIDE DEF v, w
    <3>7. w = v BY <3>4, <3>5, <3>6, Zenon
    <3> QED BY <3>3, <3>7
  <2>3. rows' = rows /\ cache' = cache /\ usage' = v
    <3> HIDE DEF tx, v
    <3> QED BY <2>1, <2>2 DEF Save, Tx
  <2>4. /\ IsUsage(v) /\ v.phase = phase /\ v.after = 0
        /\ v.public = usage.public /\ v.private = usage.private /\ v.cache = usage.cache
    BY DEF Totals, IsUsage
  <2>5. CountedRows(rows, v) = CountedRows(rows, usage)
    <3> HIDE DEF v
    <3>1. CASE usage.phase = "records"
      <4>1. v.phase = "classify" BY <2>4, <3>1
      <4>2. {i \in DOMAIN rows : i <= v.after} = {} BY <1>2, <2>4
      <4> QED BY <3>1, <4>1, <4>2 DEF CountedRows
    <3>2. CASE usage.phase = "classify"
      <4>1. v.phase = "ready" BY <2>4, <3>2
      <4>2. {i \in DOMAIN rows : i <= usage.after} = DOMAIN rows BY <1>0, <1>2, <1>4 DEF NextRow
      <4> QED BY <3>2, <4>1, <4>2 DEF CountedRows
    <3> QED BY <1>0, <3>1, <3>2
  <2>6. v.phase \in {"records", "classify", "ready"} /\ (v.phase # "ready" => v.after \in Nat) BY <2>4
  <2> HIDE DEF v, phase, tx
  <2> QED BY <1>0, <2>3, <2>4, <2>5, <2>6, PhaseUsage
<1>5. CASE NextRow # {}
  <2>1. PICK i \in Lowest(1, NextRow) : Save(IF usage.phase = "records" THEN [Begin EXCEPT !.usage.after = i] ELSE Counted(i))
    BY <1>5 DEF PreparePage
  <2>2. /\ i \in DOMAIN rows /\ i \in Nat /\ ~(i <= usage.after)
        /\ {j \in DOMAIN rows : j <= i} = {j \in DOMAIN rows : j <= usage.after} \cup {i}
    BY <1>0, NextCounted
  <2>3. CASE usage.phase = "records"
    <3> DEFINE v == Totals(usage.public, usage.private, usage.cache, usage.phase, i)
               tx == [Begin EXCEPT !.usage.after = i]
    <3>1. [usage EXCEPT !.after = i] = v BY <1>3 DEF Totals
    <3>2. Save(tx) BY <2>1, <2>3
    <3> DEFINE w == [usage EXCEPT !.after = i]
    <3>5. tx = [Begin EXCEPT !.usage.after = i] OBVIOUS
    <3> HIDE DEF tx
    <3>6. tx = Tx(rows, ledger, cache, w, {}) BY ONLY <1>1, <3>5 DEF Tx
    <3> HIDE DEF w, v
    <3>3. rows' = rows /\ cache' = cache /\ usage' = v
      BY <3>1, <3>2, <3>6 DEF Save, Tx, w
    <3>4. /\ IsUsage(v) /\ v.phase = usage.phase /\ v.after = i
          /\ v.public = usage.public /\ v.private = usage.private /\ v.cache = usage.cache
      BY DEF Totals, IsUsage, v
    <3>7. CountedRows(rows, v) = CountedRows(rows, usage) BY <2>3, <3>4 DEF CountedRows
    <3> QED BY <1>0, <2>2, <3>3, <3>4, <3>7, PhaseUsage
  <2>4. CASE usage.phase = "classify"
    <3> DEFINE category == Category(rows[i].ev)
               U == [usage EXCEPT ![category] = @ + 1, !.after = i]
               put == Tx(rows, ledger, cache, U, {})
               S == CountedRows(rows, usage)
               C == DOMAIN cache
    <3>1. Counted(i) = Classify(put, {i})
      <4>1. Counted(i) = Classify([Begin EXCEPT !.usage[category] = @ + 1, !.usage.after = i], {i}) BY DEF Counted
      <4>2. Begin.usage = usage BY <1>1 DEF Tx
      <4> DEFINE n == Begin.usage[category] + 1
                 t == [Begin EXCEPT !.usage[category] = n, !.usage.after = i]
                 w == [usage EXCEPT ![category] = n, !.after = i]
      <4>3. Counted(i) = Classify(t, {i}) BY <4>1
      <4>4. w = U BY <4>2
      <4>5. t = [Begin EXCEPT !.usage[category] = n, !.usage.after = i] OBVIOUS
      <4> HIDE DEF n, t, category
      <4>6. t = Tx(rows, ledger, cache, w, {}) BY ONLY <1>1, <4>5 DEF Tx
      <4> HIDE DEF w, U
      <4> QED BY <4>3, <4>4, <4>6
    <3>2. /\ U.public = usage.public + (IF category = "public" THEN 1 ELSE 0)
          /\ U.private = usage.private + (IF category = "private" THEN 1 ELSE 0)
          /\ U.cache = usage.cache /\ U.phase = "classify" /\ U.after = i /\ IsUsage(U)
      <4>1. usage.public \in Nat /\ usage.private \in Nat
        <5>1. Tally(rows, C, S, usage) BY DEF UsageOK, UsageSound
        <5>2. \A T \in SUBSET DOMAIN rows : \A cat : IsFiniteSet(Of(rows, T, cat)) BY <5>1, FS_Subset DEF Tally, Of
        <5>3. \A T \in SUBSET DOMAIN rows : \A cat : Cardinality(Of(rows, T, cat)) \in Nat BY <5>2, FS_CardinalityType
        <5>4. S \ C \in SUBSET DOMAIN rows /\ S \in SUBSET DOMAIN rows BY <5>1 DEF Tally
        <5> QED BY <5>1, <5>3, <5>4 DEF Tally
      <4>2. CASE category = "public"
        <5> DEFINE x == usage.public + 1
        <5>1. U = [usage EXCEPT !.public = x, !.after = i] BY <4>2
        <5> HIDE DEF U, category, x
        <5>2. U = Totals(x, usage.private, usage.cache, usage.phase, i)
          <6>1. [usage EXCEPT !.public = x] = Totals(x, usage.private, usage.cache, usage.phase, usage.after)
            BY <1>3 DEF Totals
          <6>2. [Totals(x, usage.private, usage.cache, usage.phase, usage.after) EXCEPT !.after = i]
                  = Totals(x, usage.private, usage.cache, usage.phase, i)
            BY DEF Totals
          <6>3. U = [[usage EXCEPT !.public = x] EXCEPT !.after = i] BY <5>1
          <6> QED BY <6>1, <6>2, <6>3, Zenon
        <5>3. /\ U.public = x /\ U.private = usage.private /\ U.cache = usage.cache /\ U.phase = usage.phase
              /\ U.after = i /\ IsUsage(U)
          BY <5>2 DEF Totals, IsUsage
        <5> QED BY <2>4, <4>1, <4>2, <5>3 DEF x
      <4>3. CASE category = "private"
        <5> DEFINE x == usage.private + 1
        <5>1. U = [usage EXCEPT !.private = x, !.after = i] BY <4>3
        <5> HIDE DEF U, category, x
        <5>2. U = Totals(usage.public, x, usage.cache, usage.phase, i)
          <6>1. [usage EXCEPT !.private = x] = Totals(usage.public, x, usage.cache, usage.phase, usage.after)
            BY <1>3 DEF Totals
          <6>2. [Totals(usage.public, x, usage.cache, usage.phase, usage.after) EXCEPT !.after = i]
                  = Totals(usage.public, x, usage.cache, usage.phase, i)
            BY DEF Totals
          <6>3. U = [[usage EXCEPT !.private = x] EXCEPT !.after = i] BY <5>1
          <6> QED BY <6>1, <6>2, <6>3, Zenon
        <5>3. /\ U.private = x /\ U.public = usage.public /\ U.cache = usage.cache /\ U.phase = usage.phase
              /\ U.after = i /\ IsUsage(U)
          BY <5>2 DEF Totals, IsUsage
        <5> QED BY <2>4, <4>1, <4>3, <5>3 DEF x
      <4>4. category = "public" \/ category = "private" BY DEF Category
      <4> QED BY <4>2, <4>3, <4>4
    <3>3. S = {j \in DOMAIN rows : j <= usage.after} BY <2>4 DEF CountedRows
    <3> HIDE DEF U
    <3>4. CountedRows(rows, U) = S \cup {i} BY <2>2, <3>2, <3>3 DEF CountedRows
    <3>5. i \notin S BY <2>2, <3>3
    <3>6. Tally(rows, C, S, usage) /\ Settled(rows, C, S, {}) BY DEF UsageOK, UsageSound
    <3> HIDE DEF S, C
    <3>7. Tally(rows, C, S \cup {i}, U) BY <2>2, <3>2, <3>5, <3>6, TallyWith
    <3>8. put = Tx(rows, ledger, cache, U, {}) OBVIOUS
    <3> HIDE DEF put
    <3>9. PICK d, v : /\ Classify(put, {i}) = Tx(rows, ledger, d, v, {})
                      /\ IsUsage(v) /\ v.phase = U.phase /\ v.after = U.after
                      /\ Tally(rows, DOMAIN d, S \cup {i}, v)
                      /\ \A j \in S \cup {i} : Foreign(rows[j].ev) =>
                           IF j \in {i} THEN Right(rows, DOMAIN d, j) ELSE j \in DOMAIN d <=> j \in DOMAIN cache
      <4>1. U.phase # "records" /\ {i} \cap DOMAIN rows \subseteq S \cup {i} BY <3>2
      <4>2. Tally(rows, DOMAIN cache, S \cup {i}, U) BY <3>7 DEF C
      <4> QED BY <3>2, <3>8, <4>1, <4>2, ClassifyTally
    <3>10. Settled(rows, DOMAIN d, S \cup {i}, {}) BY <3>6, <3>9 DEF Settled, Right, C
    <3>11. CountedRows(rows, v) = S \cup {i} BY <3>2, <3>4, <3>9 DEF CountedRows
    <3>12. UsageSound(rows, DOMAIN d, v) BY <2>2, <3>2, <3>9, <3>10, <3>11 DEF UsageSound
    <3>13. rows' = rows /\ cache' = d /\ usage' = v
      <4>1. Save(Counted(i)) BY <2>1, <2>4
      <4>2. Save(Tx(rows, ledger, d, v, {})) BY <3>1, <3>9, <4>1
      <4> QED BY <4>2 DEF Save, Tx
    <3> QED BY <3>12, <3>13 DEF UsageOK
  <2> QED BY <1>0, <2>3, <2>4
<1> QED BY <1>4, <1>5

\* The counters are right in every state.
LEMMA NextUsage == IInv /\ UsageOK /\ [Next]_vars => UsageOK'
<1> SUFFICES ASSUME IInv, UsageOK, [Next]_vars PROVE UsageOK' OBVIOUS
<1>1. Transaction \/ PreparePage \/ Untouched
  BY ApplicationSteps, MaintenanceSteps, StoresUntouched DEF Next, Tick, Reload, vars
<1>2. IsFiniteSet(DOMAIN rows) BY DEF IInv, Kept, RowsOK
<1> QED BY <1>1, <1>2, TransactionUsage, PreparePageUsage, UntouchedUsage

\* UsageIsContent: once ready, the counters are those of a recount, and exactly
\* the foreign events that nothing of the owner refers to are cache.
THEOREM UsageAlwaysContent == Spec => []UsageIsContent
<1>1. UsageOK => UsageIsContent
  <2> SUFFICES ASSUME UsageOK, usage.phase = "ready"
               PROVE  /\ DOMAIN cache = {i \in DOMAIN rows : Foreign(rows[i].ev) /\ ~Referenced(Begin, rows[i].ev)}
                      /\ usage.cache = Cardinality(DOMAIN cache)
                      /\ usage.private = Count(Begin, DOMAIN rows, "private")
                      /\ usage.public = Count(Begin, DOMAIN rows \ DOMAIN cache, "public")
    BY DEF UsageIsContent
  <2>1. CountedRows(rows, usage) = DOMAIN rows BY DEF CountedRows
  <2>2. Tally(rows, DOMAIN cache, DOMAIN rows, usage) /\ Settled(rows, DOMAIN cache, DOMAIN rows, {})
    BY <2>1 DEF UsageOK, UsageSound
  <2>3. Begin.rows = rows /\ Begin.usage = usage BY DEF Begin
  <2>4. \A e : Foreign(e) => (Referenced(Begin, e) <=> RefersTo(rows, e))
    BY <2>3 DEF Referenced, Indexed, RefersTo
  <2>5. \A i \in DOMAIN rows : Foreign(rows[i].ev) => (i \in DOMAIN cache <=> ~Referenced(Begin, rows[i].ev))
    BY <2>2, <2>4 DEF Settled, Right
  <2>6. DOMAIN cache = {i \in DOMAIN rows : Foreign(rows[i].ev) /\ ~Referenced(Begin, rows[i].ev)}
    BY <2>2, <2>5 DEF Tally
  <2>7. \A ids : \A cat : Count(Begin, ids, cat) = Cardinality(Of(rows, ids, cat)) BY <2>3 DEF Count, Of
  <2> QED BY <2>2, <2>6, <2>7 DEF Tally
<1>2. Init /\ [][Next]_vars => []UsageOK BY InitUsage, NextUsage, BooksInOrder, PTL DEF Spec
<1> QED BY <1>1, <1>2, PTL DEF Spec
=============================================================================
