---------------------------- MODULE SessionTypes ----------------------------
(***************************************************************************)
(* What a proxy session is and when a cached one may be used instead of a  *)
(* new one: the pure part of internal/session.                             *)
(*                                                                         *)
(* A request is the argument list of GetOrCreateSession.  A session is     *)
(* what the proxy answered, kept with the request it was created for, as   *)
(* CachedSession keeps it in ~/.mump2p/session.json.  Dates are numbers of *)
(* time units; a date that does not parse is one that lies in the past.    *)
(***************************************************************************)
EXTENDS Integers, Sequences

CONSTANTS
  Request,  \* records [proxy, client, topics, caps, expose]
  Reply     \* what a proxy may answer: [nodes, refresh, expires], where the
            \* two dates are relative to the moment of the answer

\* --expose-amount is a uint32; the other fields are only compared.
ASSUME RequestAssumption == Request # {} /\ \A r \in Request : r.expose \in Nat

\* CreateSession turns an answer without nodes into an error, so a reply that
\* reaches the cache names one node at least.
ASSUME ReplyAssumption ==
  \A a \in Reply : a.nodes \in Nat \ {0} /\ a.refresh \in Int /\ a.expires \in Int

Session == [req : Request, nodes : Nat \ {0}, refresh : Int, expires : Int]

\* The session the proxy makes for request r when it answers a at time t.
Granted(r, a, t) ==
  [req |-> r, nodes |-> a.nodes, refresh |-> t + a.refresh, expires |-> t + a.expires]

\* The request of a process slot in which nothing runs: of no significance.
SomeRequest == CHOOSE r \in Request : TRUE

-----------------------------------------------------------------------------

\* Mutant of Matches: whose session it is does not matter.
MatchesAnyClient(c, r) == c.proxy = r.proxy /\ c.caps = r.caps /\ r.topics \subseteq c.topics

\* The cached request c covers the new request r.
Matches(c, r) ==
  /\ c.proxy = r.proxy
  /\ c.client = r.client
  /\ c.caps = r.caps
  /\ r.topics \subseteq c.topics

IsExpired(s, t) == t > s.expires

NeedsRefresh(s, t) == t > s.refresh

Covers(s, r) == r.expose > 0 => s.nodes >= r.expose

\* isUsable, for a session that was read.
Serves(s, r, t) ==
  /\ Matches(s.req, r)
  /\ ~IsExpired(s, t)
  /\ ~NeedsRefresh(s, t)
  /\ Covers(s, r)
=============================================================================
