------------------------ MODULE MCConnectionRecovery ------------------------
(***************************************************************************)
(* Two buckets for one relay URL of one host.                              *)
(***************************************************************************)
EXTENDS ConnectionRecovery

CONSTANTS b1, b2, relay, server

MCUrlOf == [b \in Buckets |-> relay]
MCHostOf == [x \in Urls |-> server]
=============================================================================
