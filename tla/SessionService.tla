--------------------------- MODULE SessionService ---------------------------
(***************************************************************************)
(* What GetOrCreateSession promises to its callers, with no file, no lock  *)
(* and no order of steps: a caller that waits is given a session that      *)
(* serves its request at the moment it is given, or the one session that   *)
(* the proxy created for this very call, or an error.                      *)
(***************************************************************************)
EXTENDS SessionTypes

CONSTANT Process

VARIABLES
  now,       \* the time
  sessions,  \* the sessions the proxy has created, in order
  req,       \* req[p]: the request of p's call
  got,       \* got[p]: the session p has been given or has had created
             \* (its index in sessions), 0 if none
  answer     \* answer[p]: "idle", "waiting", "reused", "created" or "error"

vars == <<now, sessions, req, got, answer>>

Init ==
  /\ now = 0
  /\ sessions = << >>
  /\ req = [p \in Process |-> SomeRequest]
  /\ got = [p \in Process |-> 0]
  /\ answer = [p \in Process |-> "idle"]

\* p calls GetOrCreateSession.
Ask(p) ==
  /\ answer[p] = "idle"
  /\ \E r \in Request : req' = [req EXCEPT ![p] = r]
  /\ answer' = [answer EXCEPT ![p] = "waiting"]
  /\ UNCHANGED <<now, sessions, got>>

\* The proxy creates a session for p, once in a call.
Open(p) ==
  /\ answer[p] = "waiting" /\ got[p] = 0
  /\ \E a \in Reply : sessions' = Append(sessions, Granted(req[p], a, now))
  /\ got' = [got EXCEPT ![p] = Len(sessions')]
  /\ UNCHANGED <<now, req, answer>>

\* p is given a session created for an earlier call; p created none itself.
Reuse(p) ==
  /\ answer[p] = "waiting" /\ got[p] = 0
  /\ \E i \in 1..Len(sessions) :
        /\ Serves(sessions[i], req[p], now)
        /\ got' = [got EXCEPT ![p] = i]
  /\ answer' = [answer EXCEPT ![p] = "reused"]
  /\ UNCHANGED <<now, sessions, req>>

\* p is given the session that was created for it.
Deliver(p) ==
  /\ answer[p] = "waiting" /\ got[p] # 0
  /\ answer' = [answer EXCEPT ![p] = "created"]
  /\ UNCHANGED <<now, sessions, req, got>>

\* The call fails; a session created for it is lost.
Fail(p) ==
  /\ answer[p] = "waiting"
  /\ answer' = [answer EXCEPT ![p] = "error"]
  /\ got' = [got EXCEPT ![p] = 0]
  /\ UNCHANGED <<now, sessions, req>>

\* The process of the call ends, with its answer or without.
Leave(p) ==
  /\ answer[p] # "idle"
  /\ answer' = [answer EXCEPT ![p] = "idle"]
  /\ req' = [req EXCEPT ![p] = SomeRequest]
  /\ got' = [got EXCEPT ![p] = 0]
  /\ UNCHANGED <<now, sessions>>

Tick ==
  /\ now' = now + 1
  /\ UNCHANGED <<sessions, req, got, answer>>

Next ==
  \/ \E p \in Process : Ask(p) \/ Open(p) \/ Reuse(p) \/ Deliver(p) \/ Fail(p) \/ Leave(p)
  \/ Tick

Spec == Init /\ [][Next]_vars
=============================================================================
