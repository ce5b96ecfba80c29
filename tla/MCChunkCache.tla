---------------------------- MODULE MCChunkCache ----------------------------
(***************************************************************************)
(* Two owners and two files that have a content in common, in five plans:  *)
(* a chunk that arrives in two versions, one that is deleted and cited     *)
(* while a page closes, an owner who leaves another that shares her bytes, *)
(* files that do not fit together, and a file of two chunks, cited or not, *)
(* that is purged one row at a time.                                       *)
(***************************************************************************)
EXTENDS ChunkCache

CONSTANTS alice, bob, file, other, bytes, more

MCRootOf == <<file, other, other, other>>
MCHashOf == <<bytes, bytes, more, bytes>>
MCSize == [h \in Hashes |-> 1]

Arrives(o, c, i) == [owner |-> o, chunk |-> c, id |-> i]
Plan == [adds |-> {}, references |-> {}, leavers |-> {}, deletes |-> 0, crashes |-> 0]

Versions == [Plan EXCEPT !.adds = {Arrives(alice, 1, 1), Arrives(alice, 1, 2)}, !.deletes = 1, !.crashes = 1]
Cited == [Plan EXCEPT !.adds = {Arrives(alice, 1, 1)}, !.references = {<<alice, file>>}, !.deletes = 1, !.crashes = 1]
Shared == [Plan EXCEPT !.adds = {Arrives(alice, 1, 1), Arrives(bob, 2, 1)}, !.references = {<<alice, file>>},
                       !.leavers = {bob}]
Pressed == [Plan EXCEPT !.adds = {Arrives(alice, 1, 1), Arrives(bob, 3, 1)}, !.references = {<<alice, file>>}]

Batches == [Plan EXCEPT !.adds = {Arrives(bob, 2, 1), Arrives(bob, 4, 1)}, !.references = {<<bob, other>>}]

MCPlans == {Versions, Cited, Shared, Pressed, Batches}
=============================================================================
