----------------------- MODULE MCBridgeReceiveQueue -----------------------
(***************************************************************************)
(* Two attachments of different endpoints: r1 gets every class of frame,   *)
(* r2 one frame, under a tab budget that both together can exceed.         *)
(***************************************************************************)
EXTENDS BridgeReceiveQueue, TLC

CONSTANTS r1, r2, app, vault, sub, Pushes

Frame(prio, stream, size, out) ==
  [prio |-> prio, stream |-> stream, size |-> size, out |-> out, nostr |-> TRUE]

MCEndpointOf == (r1 :> app) @@ (r2 :> vault)
MCMaxPush == (r1 :> Pushes) @@ (r2 :> 1)

\* r1: a high OK, an event and the CLOSED of one subscription (a retry that
\* shrinks when it is sent), and an oversized history frame.
MCFrames ==
  (r1 :> {Frame(2, NoStream, 1, 1), Frame(0, sub, 1, 1), Frame(1, sub, 2, 1),
          Frame(0, NoStream, 5, 5)})
  @@ (r2 :> {Frame(0, NoStream, 2, 2)})
=============================================================================
