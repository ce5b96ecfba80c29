------------------------ MODULE MCVaultRequestQueue ------------------------
(***************************************************************************)
(* Instances: two small requests and two chunks (priority work), an        *)
(* archive (normal work), over two connections.                            *)
(***************************************************************************)
EXTENDS VaultRequestQueue

CONSTANTS sign1, sign2, chunk1, chunk2, archive, port1, port2
=============================================================================
