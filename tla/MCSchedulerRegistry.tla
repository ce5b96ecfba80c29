------------------------ MODULE MCSchedulerRegistry ------------------------
(***************************************************************************)
(* Three writes, two of which share "events" and one of which needs both   *)
(* stores, a foreground intent, and one reset of the owner's database.     *)
(***************************************************************************)
EXTENDS SchedulerRegistry

CONSTANTS ingest, publish, upkeep, write, events, coverage

MCStoresOf == [j \in Jobs |-> IF j = upkeep THEN {events, coverage} ELSE {events}]
=============================================================================
