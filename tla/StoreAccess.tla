---------------------------- MODULE StoreAccess ----------------------------
(***************************************************************************)
(* What the access scheduler of NostrDB promises to its callers, with no   *)
(* queue, class, lane or cursor in it (docs/nostrdb.md, "Concurrency"):    *)
(* an access runs only while no running access shares a store with it,     *)
(* and an access that was withdrawn before it started never runs.          *)
(***************************************************************************)
CONSTANTS Jobs,      \* the accesses
          StoresOf   \* the object stores each access declares

VARIABLE phase       \* [Jobs -> {"out", "waiting", "running"}]

Clash(j, k) == StoresOf[j] \cap StoresOf[k] # {}

Init == phase = [j \in Jobs |-> "out"]

Submit(j) ==
  /\ phase[j] = "out"
  /\ phase' = [phase EXCEPT ![j] = "waiting"]

Start(j) ==
  /\ phase[j] = "waiting"
  /\ \A k \in Jobs : phase[k] = "running" => ~Clash(j, k)
  /\ phase' = [phase EXCEPT ![j] = "running"]

Finish(j) ==
  /\ phase[j] = "running"
  /\ phase' = [phase EXCEPT ![j] = "out"]

\* An abort withdraws one waiting access, a reset all of them.
Withdraw(S) ==
  /\ \A j \in S : phase[j] = "waiting"
  /\ phase' = [j \in Jobs |-> IF j \in S THEN "out" ELSE phase[j]]

Next ==
  \/ \E j \in Jobs : Submit(j) \/ Start(j) \/ Finish(j)
  \/ \E S \in SUBSET Jobs : Withdraw(S)

Spec == Init /\ [][Next]_phase
=============================================================================
