------------------------- MODULE MCAccessScheduler -------------------------
(***************************************************************************)
(* Accesses over two stores by one app and the launcher itself, one of     *)
(* each class and in the shapes that conflict: a foreground write, normal  *)
(* writes in two lanes, a recovery planning read that an intent preempts,  *)
(* and upkeep.                                                             *)
(***************************************************************************)
EXTENDS AccessScheduler

CONSTANTS fg,       \* foreground write of events by the app
          nw, nc,   \* normal writes in one lane: both stores, coverage
          sw,       \* normal write of events in the launcher's own lane
          rd,       \* background planning read of events
          mt,       \* maintenance write of coverage
          app, system, events, coverage, write

MCClassOf == [j \in Jobs |->
  CASE j = fg -> "foreground" [] j \in {nw, nc, sw} -> "normal"
    [] j = rd -> "background" [] OTHER -> "maintenance"]
MCAppOf == [j \in Jobs |-> IF j \in {fg, nw, nc} THEN app ELSE system]
MCStoresOf == [j \in Jobs |->
  CASE j = nw -> {events, coverage} [] j \in {nc, mt} -> {coverage} [] OTHER -> {events}]
MCReaders == {rd}
MCPreemptible == {rd}
MCIntentStores == [i \in Intents |-> {events}]
=============================================================================
