-------------------------------- MODULE Client --------------------------------
(***************************************************************************)
(* Login, logout and the commands that use a session, together: the token  *)
(* file of internal/auth beside the session cache of internal/session.     *)
(*                                                                         *)
(* publish and subscribe load the token first (cmd/publish.go:85,          *)
(* cmd/subscribe.go:91) and then call GetOrCreateSession for the client id *)
(* the token names: its client_id claim, the client that requested it, and *)
(* its subject only if there is no such claim (token.go:69).  The tokens   *)
(* of two users may name one client id.  With --disable-auth there is no   *)
(* token, and --client-id names the client.  login replaces the token and  *)
(* leaves the cache alone; logout removes the token and then the cache.    *)
(* Two files, no lock common to both.  How a token is granted, refreshed   *)
(* and saved is module Auth; here it stands for its user and client id.    *)
(***************************************************************************)
EXTENDS SessionCache

CONSTANTS
  Token,       \* the tokens login may save: records [user, client]
  NoToken,     \* the token when there is none
  FlagClient,  \* the client ids given with --disable-auth --client-id
  NoUser,      \* on whose behalf such a command runs
  MaxLogins    \* bound: logins in a behaviour

\* What a command asks the proxy with: a token, or none and a client id.
Bearer == Token \union {[user |-> NoUser, client |-> c] : c \in FlagClient}

ASSUME TokenAssumption == NoToken \notin Bearer
ASSUME LoginsAssumption == MaxLogins \in Nat

VARIABLES
  token,    \* the token on file, NoToken if there is none
  loaded,   \* loaded[p]: what p asks with, once it has loaded a token
  leaving,  \* logout has removed the token and not yet the cache
  logins,   \* logins so far
  logouts,  \* logouts so far
  era,      \* era[p]: the logouts there had been when p loaded its token
  made,     \* made[i]: what session i was created with, and the era of its process
  late      \* the last logout was killed half-way, or a process from before it
            \* has written the cache since

tokenVars == <<token, leaving, logins, logouts, late>>
clientVars == <<vars, tokenVars, loaded, era, made>>

ClientInit ==
  /\ Init
  /\ token = NoToken /\ leaving = FALSE /\ logins = 0 /\ logouts = 0 /\ late = FALSE
  /\ loaded = [p \in Process |-> NoToken] /\ era = [p \in Process |-> 0] /\ made = << >>

\* A command starts and loads the token; without one it ends at once.
LoadToken(p) ==
  /\ pc[p] = "idle" /\ loaded[p] = NoToken /\ token # NoToken /\ calls < MaxCalls
  /\ loaded' = [loaded EXCEPT ![p] = token] /\ era' = [era EXCEPT ![p] = logouts]
  /\ UNCHANGED <<vars, tokenVars, made>>

\* With --disable-auth it takes the client id of its command line instead.
SkipAuth(p) ==
  /\ pc[p] = "idle" /\ loaded[p] = NoToken /\ calls < MaxCalls
  /\ \E b \in Bearer \ Token : loaded' = [loaded EXCEPT ![p] = b]
  /\ era' = [era EXCEPT ![p] = logouts]
  /\ UNCHANGED <<vars, tokenVars, made>>

\* It asks for a session, as the client its token names.
CallAs(p) ==
  /\ loaded[p] # NoToken
  /\ Call(p) /\ req'[p].client = loaded[p].client
  /\ UNCHANGED <<tokenVars, loaded, era, made>>

\* The rest of GetOrCreateSession.
StepOn(p) ==
  /\ Step(p) \/ LockFails(p)
  /\ made' = IF sessions' = sessions THEN made
             ELSE Append(made, [token |-> loaded[p], era |-> era[p]])
  /\ late' = (late \/ (file'.kind = "session" /\ file' # file /\ era[p] # logouts))
  /\ UNCHANGED <<token, leaving, logins, logouts, loaded, era>>

\* The process ends; its memory is gone.
Ends(p) ==
  /\ Exit(p) \/ Crash(p)
  /\ loaded' = [loaded EXCEPT ![p] = NoToken] /\ era' = [era EXCEPT ![p] = 0]
  /\ UNCHANGED <<tokenVars, made>>

\* login saves the token of the user who has confirmed it.
Login ==
  /\ logins < MaxLogins /\ logins' = logins + 1
  /\ token' \in Token
  /\ UNCHANGED <<vars, leaving, logouts, late, loaded, era, made>>

\* Mutant of RemoveToken: logout removes the token only.
RemoveTokenOnly ==
  /\ token # NoToken /\ ~leaving
  /\ token' = NoToken /\ logouts' = logouts + 1 /\ late' = FALSE
  /\ UNCHANGED <<vars, leaving, logins, loaded, era, made>>

\* logout removes the token, and ends there if that fails ...
RemoveToken ==
  /\ token # NoToken /\ ~leaving
  /\ token' = NoToken /\ leaving' = TRUE /\ logouts' = logouts + 1
  /\ UNCHANGED <<vars, logins, late, loaded, era, made>>

\* ... and then the cache, whether or not there is one.
LogoutInvalidates ==
  /\ leaving /\ leaving' = FALSE /\ late' = FALSE
  /\ InvalidateSession \/ (file = Absent /\ UNCHANGED vars)
  /\ UNCHANGED <<token, logins, logouts, loaded, era, made>>

\* It is killed in between; another logout then fails for want of a token.
LogoutKilled ==
  /\ "crash" \in Fault /\ leaving /\ leaving' = FALSE /\ late' = TRUE
  /\ UNCHANGED <<vars, token, logins, logouts, loaded, era, made>>

ClientNext ==
  \/ \E p \in Process : LoadToken(p) \/ SkipAuth(p) \/ CallAs(p) \/ StepOn(p) \/ Ends(p)
  \/ Login \/ RemoveToken \/ LogoutInvalidates \/ LogoutKilled
  \/ Tick /\ UNCHANGED <<tokenVars, loaded, era, made>>

\* The fairness of SessionCache: nobody has to log in or out or start a command.
ClientSpec == ClientInit /\ [][ClientNext]_clientVars /\ Fairness

-----------------------------------------------------------------------------
(* Properties.                                                             *)

\* A command only ever uses a session that was created for the client id it
\* asks with, although login leaves the sessions of other clients in the cache
\* and the token may have been replaced meanwhile; and what is returned to it as
\* a new session was created with its own token.  A session it finds may be one
\* that another user's token has paid for, if both tokens name one client id:
\* matches compares nothing else (store.go:107).
OwnClientSession ==
  \A p \in Process :
    /\ result[p] \in {"reused", "created"} =>
         made[got[p]].token.client = loaded[p].client
    /\ result[p] = "created" => made[got[p]].token = loaded[p]

\* A logout leaves no session behind: what the cache holds after it was made by
\* a command that has loaded its token since, unless logout was killed half-way or
\* a command from before it has written the cache (the two removals, their order).
LogoutForgets ==
  ~leaving /\ ~late /\ file.kind = "session" => made[file.id].era = logouts

-----------------------------------------------------------------------------
(* What makes them inductive, beside the invariant of SessionCache.        *)

\* The record of the sessions: with what and when each was made.
Origins ==
  /\ made \in Seq([token : Bearer, era : Nat]) /\ Len(made) = Len(sessions)
  /\ \A i \in 1..Len(sessions) : made[i].token.client = sessions[i].req.client

\* A call is made for the client id of p's token, and so is the session it holds;
\* the one it has created was created with that token.
Owned ==
  /\ token \in Token \union {NoToken} /\ loaded \in [Process -> Bearer \union {NoToken}]
  /\ \A p \in Process :
       /\ pc[p] # "idle" => loaded[p] # NoToken /\ req[p].client = loaded[p].client
       /\ got[p] # 0 => sessions[got[p]].req.client = req[p].client
       /\ result[p] \in {"reused", "created"} => got[p] # 0
       /\ pc[p] = "reply" \/ result[p] = "created" => made[got[p]].token = loaded[p]

\* A session that p is about to put into the file was made in the era of p.
Eras ==
  /\ logouts \in Nat /\ era \in [Process -> Nat]
  /\ \A p \in Process : pc[p] \in InHand => made[got[p]].era = era[p]
=============================================================================
