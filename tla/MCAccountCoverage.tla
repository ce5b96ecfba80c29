-------------------------- MODULE MCAccountCoverage --------------------------
(***************************************************************************)
(* Two groups of kinds in two sessions of a tab: a second that fills a     *)
(* page, a window that has to be divided, a gap between the sessions.      *)
(***************************************************************************)
EXTENDS AccountCoverage

CONSTANTS k1, k2, k3, g1, g2, e1, e2, e3, e4

MCKindsOf == (g1 :> {k1, k2}) @@ (g2 :> {k3})
MCTimeOf == (e1 :> 0) @@ (e2 :> 0) @@ (e3 :> 2) @@ (e4 :> 3)
MCKindOf == (e1 :> k1) @@ (e2 :> k1) @@ (e3 :> k1) @@ (e4 :> k3)
MCClock == <<2, 4>>
=============================================================================
