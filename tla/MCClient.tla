------------------------------ MODULE MCClient ------------------------------
(***************************************************************************)
(* A small instance of Client for TLC.                                     *)
(***************************************************************************)
EXTENDS Client

CONSTANTS p1, p2, alice, bob, app1, app2

\* The same subscription by two clients.
MCRequests ==
  {[proxy |-> "us1", client |-> c, topics |-> {"t1"}, caps |-> {"subscribe"}, expose |-> 1] :
     c \in {app1, app2}}

MCReplies == {[nodes |-> 1, refresh |-> 0, expires |-> 1]}

\* Two users whose tokens name one client id.
MCTokens == {[user |-> alice, client |-> app1], [user |-> bob, client |-> app1]}
=============================================================================
