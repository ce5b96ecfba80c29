---------------------------- MODULE MCEventStore ----------------------------
(***************************************************************************)
(* Five small worlds, each with the events that one part of the store is   *)
(* about: deletion requests, quotas, applications, personal copies.        *)
(***************************************************************************)
EXTENDS EventStore

CONSTANTS owner, other, x, wiki

MyX == <<"a", owner, x>>
Event(id, author, kind, coord, at, tags, expires) ==
  [id |-> id, author |-> author, kind |-> kind, coord |-> coord, at |-> at, tags |-> tags, expires |-> expires]
World(events, old, apps, days, work) ==
  [events |-> events, legacy |-> {e \in events : e.id \in old}, apps |-> apps, days |-> days, jobs |-> work]

\* Versions of one address and requests for one of them, for the address, for
\* an event that has not come, and for another request.
Deletions == World({
  Event(1, owner, "note", MyX, 0, {}, Never),
  Event(2, owner, "note", MyX, 1, {}, Never),
  Event(3, owner, "delete", NoCoord, 0, {<<"e", 1>>}, Never),
  Event(4, owner, "delete", NoCoord, 0, {MyX}, Never),
  Event(5, owner, "delete", NoCoord, 1, {<<"e", 2>>, <<"e", 3>>}, Never)}, {1}, {}, 1, 2)

\* A request that goes while the owner signs, and comes again when its event is
\* stored: its target is then the address.
Again == World({
  Event(1, owner, "note", MyX, 1, {}, Never),
  Event(3, owner, "delete", NoCoord, 0, {<<"e", 1>>}, Never),
  Event(4, owner, "delete", NoCoord, 0, {MyX}, Never)}, {}, {}, 0, 1)

\* Foreign events, of which the owner cites one for a while.
Quotas == World({
  Event(1, other, "note", NoCoord, 0, {}, Never),
  Event(2, other, "note", <<"a", other, x>>, 0, {}, 2),
  Event(3, owner, "note", NoCoord, 0, {<<"e", 1>>, <<"a", other, x>>}, 1),
  Event(4, other, "delete", NoCoord, 0, {<<"e", 1>>}, Never)}, {1, 3}, {}, 1, 1)

\* Data of an application, of the owner's and cited by the owner.
Installed == World({
  Event(1, owner, "app", MyX, 0, {}, Never),
  Event(2, owner, "app", MyX, 1, {}, Never),
  Event(3, other, "app", NoCoord, 0, {}, Never),
  Event(4, owner, "note", NoCoord, 0, {<<"e", 3>>}, Never)}, {3}, {wiki}, 1, 1)

\* A hearsay copy, a copy that cites it, and a copy at its address.
Copies == World({
  Event(1, owner, "hearsay", MyX, 2, {}, Never),
  Event(2, owner, "copy", NoCoord, 0, {<<"h", 1>>}, Never),
  Event(3, owner, "copy", MyX, 1, {}, Never)}, {}, {}, 2, 2)

MCWorlds == {Deletions, Again, Quotas, Installed, Copies}
=============================================================================
