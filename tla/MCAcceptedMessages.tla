------------------------ MODULE MCAcceptedMessages ------------------------
(***************************************************************************)
(* Two tabs over one storage that has room for one of two requests.        *)
(***************************************************************************)
EXTENDS AcceptedMessages

CONSTANTS tab1, tab2, feed, wiki

\* feed may become too old, wiki stays until somebody decides.
MCMaxAge == [k \in Keys |-> IF k = feed THEN Lifetime + 1 ELSE 0]
=============================================================================
