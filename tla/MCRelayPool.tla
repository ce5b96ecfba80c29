----------------------------- MODULE MCRelayPool -----------------------------
(***************************************************************************)
(* Small instances of RelayPool: two members, at most two connections at a *)
(* time, three made in all, one subscription a connection and two queued   *)
(* frames a member.  The crowds keep what interacts together and the state *)
(* space small.                                                            *)
(***************************************************************************)
EXTENDS RelayPool

CONSTANTS m1, m2, r1, e1, e2, k1, k2

MCAuthorOf == [e \in Events |-> k1]

Nothing == [join |-> Members, raws |-> {}, negs |-> {}, posts |-> {}, auths |-> {}, made |-> 3]

MCCrowds == {
  \* both publish the same event
  [Nothing EXCEPT !.posts = Members \X {e1}],
  \* one publishes, the other subscribes
  [Nothing EXCEPT !.posts = {<<m1, e1>>}, !.raws = {<<m2, r1>>}, !.made = 2],
  \* one publishes while the other authenticates
  [Nothing EXCEPT !.posts = {<<m1, e1>>}, !.auths = {<<m2, k2>>}, !.made = 2],
  \* one authenticates as two identities, maybe at once
  [Nothing EXCEPT !.auths = {m1} \X {k1, k2}, !.made = 2],
  \* both authenticate as the same identity
  [Nothing EXCEPT !.auths = Members \X {k1}, !.made = 2],
  \* one authenticates, the other subscribes
  [Nothing EXCEPT !.auths = {<<m1, k1>>}, !.raws = {<<m2, r1>>}],
  \* both subscribe
  [Nothing EXCEPT !.raws = Members \X {r1}],
  \* one negotiates, the other subscribes
  [Nothing EXCEPT !.negs = {m1}, !.raws = {<<m2, r1>>}, !.made = 2]}

\* One member publishes two events.
MCTwoPosts == {[Nothing EXCEPT !.posts = {m1} \X Events, !.made = 2]}
=============================================================================
