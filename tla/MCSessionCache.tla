--------------------------- MODULE MCSessionCache ---------------------------
(***************************************************************************)
(* Small instances of SessionCache for TLC.                                *)
(***************************************************************************)
EXTENDS SessionCache, FiniteSets, TLC

CONSTANTS p1, p2, p3

Requesting(topic, cap, expose) ==
  [proxy |-> "us1", client |-> "c1", topics |-> {topic}, caps |-> {cap},
   expose |-> expose]

\* Two commands of one user on one topic, and a subscription that wants a
\* second node.
SubscribeOne == Requesting("t1", "subscribe", 1)
SubscribeTwo == Requesting("t1", "subscribe", 2)
PublishOne == Requesting("t1", "publish", 1)

MCRequests == {SubscribeOne, SubscribeTwo, PublishOne}
MCOneRequest == {SubscribeTwo}

\* One node, with a refresh date that passes, and two nodes, with dates beyond
\* the bound of the clock.
ShortReply == [nodes |-> 1, refresh |-> 0, expires |-> 1]
FullReply == [nodes |-> 2, refresh |-> 2, expires |-> 2]

MCReplies == {ShortReply, FullReply}
MCShortReplies == {ShortReply}

MCSymmetry == Permutations({p1, p2, p3})
=============================================================================
