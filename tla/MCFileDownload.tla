--------------------------- MODULE MCFileDownload ---------------------------
(***************************************************************************)
(* Two relays and six downloads: the total unknown, two phases of the      *)
(* authors over one and two ranges, chunks in store with failure at the    *)
(* first missing one, an interval in batches of two, and both an unknown   *)
(* total and two phases.                                                   *)
(***************************************************************************)
EXTENDS FileDownload, TLC

CONSTANTS near, far

MCRelays == <<near, far>>
Held(a, b) == near :> a @@ far :> b

Base == [total |-> 4, known |-> TRUE, from |-> 0, to |-> 3, cached |-> {}, holds |-> Held({0, 1, 2}, {0}),
         others |-> Held({0, 1, 2}, {0, 1, 2}), fallback |-> FALSE, strict |-> FALSE, batch |-> 1, window |-> 2]

MCPlans == {
  [Base EXCEPT !.known = FALSE, !.total = 5, !.to = 4, !.window = 3],
  [Base EXCEPT !.holds = Held({0, 1}, {}), !.others = Held({0, 1, 2}, {2, 3}), !.fallback = TRUE],
  [Base EXCEPT !.cached = {1}, !.strict = TRUE],
  [Base EXCEPT !.from = 1, !.window = 3, !.batch = 2, !.fallback = TRUE],
  [Base EXCEPT !.known = FALSE, !.batch = 2, !.window = 3, !.strict = TRUE],
  [Base EXCEPT !.known = FALSE, !.total = 3, !.to = 2, !.fallback = TRUE]}
=============================================================================
