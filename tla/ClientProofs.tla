---------------------------- MODULE ClientProofs ----------------------------
(***************************************************************************)
(* Theorems about Client, for any users, processes, requests and faults,   *)
(* and any number of logins and logouts.                                   *)
(***************************************************************************)
EXTENDS Client, SessionCacheProofs, SequenceTheorems

-----------------------------------------------------------------------------
(* The session cache below.                                                *)

\* What a step does to the cache is a step of SessionCache.
LEMMA CacheSteps == [ClientNext]_clientVars => [Next]_vars
<1> SUFFICES ASSUME [ClientNext]_clientVars PROVE [Next]_vars
  OBVIOUS
<1>1. CASE \E p \in Process : LoadToken(p) \/ SkipAuth(p) \/ CallAs(p) \/ StepOn(p) \/ Ends(p)
  BY <1>1 DEF LoadToken, SkipAuth, CallAs, StepOn, Ends, Next
<1>2. CASE Login \/ RemoveToken \/ LogoutKilled
  BY <1>2 DEF Login, RemoveToken, LogoutKilled
<1>3. CASE LogoutInvalidates
  BY <1>3 DEF LogoutInvalidates, Next
<1>4. CASE Tick /\ UNCHANGED <<tokenVars, loaded, era, made>>
  BY <1>4 DEF Next
<1>5. CASE UNCHANGED clientVars
  BY <1>5 DEF clientVars
<1>6. QED
  BY <1>1, <1>2, <1>3, <1>4, <1>5 DEF ClientNext

\* Whatever users do with their tokens, the cache behaves as SessionCache says,
\* so that what is proved there holds beside login and logout, too (auth.go:37).
THEOREM CacheUnchanged == ClientSpec => Spec
<1>1. ClientInit => Init
  BY DEF ClientInit
<1>2. QED
  BY <1>1, CacheSteps, PTL DEF ClientSpec, Spec

LEMMA CacheParts == TypeOK /\ CallState /\ [ClientNext]_clientVars => TypeOK' /\ CallState'
BY CacheSteps, TypeStep, CallStep

-----------------------------------------------------------------------------
(* Whose session it is.                                                    *)

\* The proxy makes a session for the request of p.
LEMMA Granting ==
  ASSUME TypeOK, NEW p \in Process, ProxyGrants(p)
  PROVE  /\ Len(sessions) \in Nat /\ Len(sessions') = Len(sessions) + 1 /\ sessions' # sessions
         /\ sessions'[Len(sessions) + 1].req = req[p]
         /\ got'[p] = Len(sessions) + 1 /\ pc'[p] = "reply"
<1>1. PICK a \in Reply : sessions' = Append(sessions, Granted(req[p], a, now))
  BY DEF ProxyGrants
<1>2. Granted(req[p], a, now) \in Session /\ Granted(req[p], a, now).req = req[p]
  BY GrantedType DEF TypeOK, Granted
<1>3. /\ Len(sessions) \in Nat /\ Len(sessions') = Len(sessions) + 1
      /\ sessions'[Len(sessions) + 1] = Granted(req[p], a, now)
  BY <1>1, <1>2, AppendProperties, LenProperties DEF TypeOK
<1>4. QED
  BY <1>2, <1>3 DEF ProxyGrants, TypeOK

\* Steps of p leave what other processes hold.
LEMMA NotOthers ==
  ASSUME TypeOK, NEW p \in Process, NEW q \in Process, q # p,
         Call(p) \/ Step(p) \/ LockFails(p) \/ Exit(p) \/ Crash(p)
  PROVE  pc'[q] = pc[q] /\ req'[q] = req[q] /\ got'[q] = got[q] /\ result'[q] = result[q]
BY DEF TypeOK, Call, Step, FastHit, FastMiss, Lock, Reread, SlowHit, SlowMiss, ProxyGrants,
       ProxyRefuses, ReplyLost, ReplyArrives, Truncate, Write, SaveFails, Unlock, LockFails,
       Exit, Crash, Gone

\* What a step of GetOrCreateSession does to what its process holds.
LEMMA OwnStep ==
  ASSUME TypeOK, CallState, NEW p \in Process, Step(p) \/ LockFails(p)
  PROVE  /\ pc[p] # "idle" /\ req'[p] = req[p]
         /\ \/ /\ got'[p] = got[p]
               /\ result'[p] \in {result[p], "error"} \/ got[p] # 0
            \/ got'[p] = 0 /\ result'[p] = "error"
            \/ /\ FastHit(p) \/ SlowHit(p)
               /\ got'[p] \in 1..Len(sessions) /\ sessions' = sessions
               /\ sessions[got'[p]].req.client = req[p].client
            \/ ProxyGrants(p)
<1>1. CASE FastHit(p) \/ SlowHit(p)
  <2>1. seen[p] \in FileContent /\ seen[p].kind = "session"
    BY <1>1 DEF FastHit, SlowHit, Usable, TypeOK
  <2>2. seen[p].id \in 1..Len(sessions)
    BY <2>1 DEF FileContent, Absent, Torn, Holding
  <2>3. sessions[seen[p].id].req.client = req[p].client
    BY <1>1 DEF FastHit, SlowHit, Usable, Serves, Matches
  <2>4. got'[p] = seen[p].id
    BY <1>1 DEF FastHit, SlowHit, TypeOK
  <2>5. QED
    BY <1>1, <2>2, <2>3, <2>4 DEF FastHit, SlowHit
<1>2. CASE ProxyGrants(p)
  BY <1>2 DEF ProxyGrants
<1>3. CASE FastMiss(p) \/ Lock(p) \/ Reread(p) \/ SlowMiss(p) \/ LockFails(p)
  BY <1>3 DEF FastMiss, Lock, Reread, SlowMiss, LockFails
<1>4. CASE Truncate(p) \/ Write(p) \/ SaveFails(p) \/ Unlock(p)
  BY <1>4 DEF Truncate, Write, SaveFails, Unlock
<1>5. CASE ProxyRefuses(p) \/ ReplyLost(p) \/ ReplyArrives(p)
  BY <1>5 DEF ProxyRefuses, ReplyLost, ReplyArrives, CallState, TypeOK
<1>6. QED
  BY <1>1, <1>2, <1>3, <1>4, <1>5 DEF Step

\* The record grows with the sessions, by what p asked with.
LEMMA MadeGrows ==
  ASSUME TypeOK, Origins, Owned, Eras, [ClientNext]_clientVars
  PROVE  /\ made' \in Seq([token : Bearer, era : Nat]) /\ Len(made') = Len(sessions')
         /\ \A i \in 1..Len(sessions) : made'[i] = made[i]
<1> DEFINE Origin == [token : Bearer, era : Nat]
<1>1. made \in Seq(Origin) /\ Len(made) = Len(sessions) /\ Len(made) \in Nat
  BY LenProperties DEF Origins
<1>2. CASE UNCHANGED <<sessions, made>>
  BY <1>1, <1>2
<1>3. ASSUME NEW p \in Process, StepOn(p), sessions' # sessions PROVE ProxyGrants(p)
  BY <1>3 DEF StepOn, Step, FastHit, FastMiss, Lock, Reread, SlowHit, SlowMiss, ProxyRefuses,
              ReplyLost, ReplyArrives, Truncate, Write, SaveFails, Unlock, LockFails
<1>4. ASSUME NEW p \in Process, StepOn(p), sessions' # sessions
      PROVE  /\ made' \in Seq(Origin) /\ Len(made') = Len(sessions')
             /\ \A i \in 1..Len(sessions) : made'[i] = made[i]
  <2>1. Len(sessions') = Len(sessions) + 1
    BY <1>3, <1>4, Granting
  <2>2. pc[p] # "idle"
    BY <1>3, <1>4 DEF ProxyGrants
  <2>3. loaded[p] \in Bearer /\ era[p] \in Nat
    BY <2>2 DEF Owned, Eras, Bearer
  <2>4. /\ made' = Append(made, [token |-> loaded[p], era |-> era[p]])
        /\ [token |-> loaded[p], era |-> era[p]] \in Origin
    BY <1>4, <2>3 DEF StepOn
  <2>5. /\ made' \in Seq(Origin) /\ Len(made') = Len(made) + 1
        /\ \A i \in 1..Len(made) : made'[i] = made[i]
    BY <1>1, <2>4, AppendProperties
  <2>6. QED
    BY <1>1, <2>1, <2>5
<1>5. ASSUME NEW p \in Process, StepOn(p), sessions' = sessions PROVE UNCHANGED <<sessions, made>>
  BY <1>5 DEF StepOn
<1>6. ASSUME ~ \E p \in Process : StepOn(p) PROVE UNCHANGED <<sessions, made>>
  BY <1>6 DEF ClientNext, LoadToken, SkipAuth, CallAs, Call, Ends, Exit, Crash, Gone, Login,
              RemoveToken, LogoutInvalidates, InvalidateSession, LogoutKilled, Tick, clientVars, vars
<1>7. QED
  BY <1>2, <1>4, <1>5, <1>6

\* What the record says of the session that p is granted.
LEMMA GrantRecorded ==
  ASSUME TypeOK, Origins, Owned, Eras, NEW p \in Process, StepOn(p), ProxyGrants(p)
  PROVE  made'[Len(sessions) + 1].token = loaded[p] /\ made'[Len(sessions) + 1].era = era[p]
<1> DEFINE Origin == [token : Bearer, era : Nat]
<1>1. pc[p] # "idle" /\ sessions' # sessions
  BY Granting DEF ProxyGrants
<1>2. [token |-> loaded[p], era |-> era[p]] \in Origin
  BY <1>1 DEF Owned, Eras, Bearer
<1>3. made' = Append(made, [token |-> loaded[p], era |-> era[p]])
  BY <1>1 DEF StepOn
<1>4. made \in Seq(Origin) /\ Len(made) = Len(sessions)
  BY DEF Origins
<1>5. made'[Len(made) + 1] = [token |-> loaded[p], era |-> era[p]]
  BY <1>2, <1>3, <1>4, AppendProperties
<1>6. QED
  BY <1>4, <1>5

LEMMA OriginsStep ==
  ASSUME TypeOK, Origins, Owned, Eras, [ClientNext]_clientVars
  PROVE  Origins'
<1>1. /\ made' \in Seq([token : Bearer, era : Nat]) /\ Len(made') = Len(sessions')
      /\ \A i \in 1..Len(sessions) : made'[i] = made[i]
  BY MadeGrows
<1>2. \A i \in 1..Len(sessions) : made'[i].token.client = sessions'[i].req.client
  BY <1>1, CacheSteps, SessionsKept DEF Origins
<1>3. Len(sessions) \in Nat
  BY LenProperties DEF TypeOK
<1>4. ASSUME NEW p \in Process, StepOn(p), ProxyGrants(p) PROVE Origins'
  <2>1. /\ Len(sessions') = Len(sessions) + 1
        /\ sessions'[Len(sessions) + 1].req = req[p]
    BY <1>4, Granting
  <2>2. made'[Len(sessions) + 1].token.client = req[p].client
    <3>1. pc[p] # "idle"
      BY <1>4 DEF ProxyGrants
    <3>2. made'[Len(sessions) + 1].token = loaded[p]
      BY <1>4, GrantRecorded
    <3>3. QED
      BY <3>1, <3>2 DEF Owned
  <2>3. \A i \in 1..Len(sessions') : i \in 1..Len(sessions) \/ i = Len(sessions) + 1
    BY <1>3, <2>1
  <2>4. QED
    BY <1>1, <1>2, <2>1, <2>2, <2>3 DEF Origins
<1>5. ASSUME ~ \E p \in Process : StepOn(p) /\ ProxyGrants(p) PROVE Origins'
  <2>1. sessions' = sessions
    BY <1>5 DEF ClientNext, LoadToken, SkipAuth, CallAs, Call, Ends, Exit, Crash, Gone, Login,
       RemoveToken, LogoutInvalidates, InvalidateSession, LogoutKilled, Tick, clientVars, vars,
       StepOn, Step, FastHit, FastMiss, Lock, Reread, SlowHit, SlowMiss, ProxyRefuses,
       ReplyLost, ReplyArrives, Truncate, Write, SaveFails, Unlock, LockFails
  <2>2. QED
    BY <1>1, <1>2, <2>1 DEF Origins
<1>6. QED
  BY <1>4, <1>5

\* Owned, of one process.
Owns(q) ==
  /\ pc[q] # "idle" => loaded[q] # NoToken /\ req[q].client = loaded[q].client
  /\ got[q] # 0 => sessions[got[q]].req.client = req[q].client
  /\ result[q] \in {"reused", "created"} => got[q] # 0
  /\ pc[q] = "reply" \/ result[q] = "created" => made[got[q]].token = loaded[q]

LEMMA OwnsStill ==
  ASSUME TypeOK, CallState, Origins, Owned, Eras, [ClientNext]_clientVars,
         NEW q \in Process, Owns(q),
         pc'[q] = pc[q], req'[q] = req[q], got'[q] = got[q], result'[q] = result[q],
         pc[q] # "idle" => loaded'[q] = loaded[q]
  PROVE  Owns(q)'
<1>1. got[q] # 0 => got[q] \in 1..Len(sessions)
  BY DEF TypeOK
<1>2. got[q] # 0 => sessions'[got[q]] = sessions[got[q]] /\ made'[got[q]] = made[got[q]]
  BY <1>1, CacheSteps, SessionsKept, MadeGrows
<1>3. pc[q] = "reply" \/ result[q] = "created" => pc[q] # "idle" /\ got[q] # 0
  BY DEF CallState, Owns
<1>4. QED
  BY <1>2, <1>3 DEF Owns

LEMMA OwnedStep ==
  ASSUME TypeOK, CallState, Origins, Owned, Eras, [ClientNext]_clientVars
  PROVE  Owned'
<1>1. [Next]_vars
  BY CacheSteps
<1>2. \A q \in Process : Owns(q)
  BY DEF Owned, Owns
<1>3. token \in Token \union {NoToken} /\ loaded \in [Process -> Bearer \union {NoToken}]
  BY DEF Owned
<1>4. token' \in Token \union {NoToken} /\ loaded' \in [Process -> Bearer \union {NoToken}]
  BY <1>3 DEF Bearer, ClientNext, LoadToken, SkipAuth, CallAs, StepOn, Ends, Login, RemoveToken, LogoutInvalidates,
              LogoutKilled, tokenVars, clientVars
<1>5. ASSUME NEW q \in Process, UNCHANGED <<pc, req, got, result>>,
             pc[q] # "idle" => loaded'[q] = loaded[q]
      PROVE  Owns(q)'
  BY <1>2, <1>5, OwnsStill
<1>6. ASSUME NEW p \in Process, LoadToken(p) \/ SkipAuth(p) PROVE \A q \in Process : Owns(q)'
  BY <1>3, <1>5, <1>6 DEF LoadToken, SkipAuth, vars
<1>7. ASSUME NEW p \in Process, NEW q \in Process, q # p, CallAs(p) \/ StepOn(p) \/ Ends(p)
      PROVE  Owns(q)'
  <2>1. Call(p) \/ Step(p) \/ LockFails(p) \/ Exit(p) \/ Crash(p)
    BY <1>7 DEF CallAs, StepOn, Ends
  <2>2. pc'[q] = pc[q] /\ req'[q] = req[q] /\ got'[q] = got[q] /\ result'[q] = result[q]
    BY <1>7, <2>1, NotOthers
  <2>3. loaded'[q] = loaded[q]
    BY <1>3, <1>7 DEF CallAs, StepOn, Ends
  <2>4. QED
    BY <1>2, <2>2, <2>3, OwnsStill
<1>8. ASSUME NEW p \in Process, CallAs(p) PROVE Owns(p)'
  <2>1. got[p] = 0 /\ result[p] = "none"
    BY <1>8 DEF CallAs, Call, CallState
  <2>2. /\ got'[p] = 0 /\ result'[p] = "none" /\ pc'[p] = "check"
        /\ loaded'[p] # NoToken /\ req'[p].client = loaded'[p].client
    BY <1>8, <2>1 DEF CallAs, Call, TypeOK
  <2>3. QED
    BY <2>2 DEF Owns
<1>9. ASSUME NEW p \in Process, StepOn(p) PROVE Owns(p)'
  <2>1. /\ Step(p) \/ LockFails(p)
        /\ loaded' = loaded /\ Owns(p)
    BY <1>2, <1>9 DEF StepOn
  <2>2. /\ pc[p] # "idle" /\ req'[p] = req[p]
        /\ loaded'[p] # NoToken /\ req'[p].client = loaded'[p].client
    BY <2>1, OwnStep DEF Owns
  <2>3. pc'[p] = "reply" \/ result'[p] = "created" =>
           ProxyGrants(p) \/ (got'[p] = got[p] /\ (pc[p] = "reply" \/ result[p] = "created"))
    BY <2>1 DEF Step, FastHit, FastMiss, Lock, Reread, SlowHit, SlowMiss, ProxyRefuses,
       ReplyLost, ReplyArrives, Truncate, Write, SaveFails, Unlock, LockFails, AfterReturn, TypeOK
  <2>4. CASE ProxyGrants(p)
    <3>1. /\ Len(sessions) \in Nat /\ got'[p] = Len(sessions) + 1
          /\ sessions'[got'[p]].req = req[p]
      BY <2>4, Granting
    <3>2. got'[p] # 0
      BY <3>1
    <3>3. made'[got'[p]].token = loaded'[p]
      BY <1>9, <2>1, <2>4, <3>1, GrantRecorded
    <3>4. QED
      BY <2>2, <3>1, <3>2, <3>3 DEF Owns
  <2>5. CASE ~ProxyGrants(p)
    <3>1. got[p] # 0 => sessions'[got[p]] = sessions[got[p]] /\ made'[got[p]] = made[got[p]]
      <4>1. got[p] # 0 => got[p] \in 1..Len(sessions)
        BY DEF TypeOK
      <4>2. QED
        BY <1>1, <4>1, SessionsKept, MadeGrows
    <3>2. pc[p] = "reply" \/ result[p] = "created" => got[p] # 0
      BY <2>1 DEF CallState, Owns
    <3>3. pc'[p] = "reply" \/ result'[p] = "created" => made'[got'[p]].token = loaded'[p]
      BY <2>1, <2>3, <2>5, <3>1, <3>2 DEF Owns
    <3>4. CASE got'[p] = got[p] /\ (result'[p] \in {result[p], "error"} \/ got[p] # 0)
      BY <2>1, <2>2, <3>1, <3>3, <3>4 DEF Owns
    <3>5. CASE got'[p] = 0 /\ result'[p] = "error"
      BY <2>2, <3>3, <3>5 DEF Owns
    <3>6. CASE /\ got'[p] \in 1..Len(sessions) /\ sessions' = sessions
               /\ sessions[got'[p]].req.client = req[p].client
      <4>1. got'[p] # 0
        BY <3>6
      <4>2. QED
        BY <2>2, <3>3, <3>6, <4>1 DEF Owns
    <3>7. QED
      BY <2>1, <2>5, <3>4, <3>5, <3>6, OwnStep
  <2>6. QED
    BY <2>4, <2>5
<1>10. ASSUME NEW p \in Process, Ends(p) PROVE Owns(p)'
  <2>1. pc'[p] = "idle" /\ got'[p] = 0 /\ result'[p] = "none"
    BY <1>10 DEF Ends, Exit, Crash, Gone, TypeOK
  <2>2. QED
    BY <2>1 DEF Owns
<1>11. ASSUME \/ Login \/ RemoveToken \/ LogoutInvalidates \/ LogoutKilled \/ UNCHANGED clientVars
              \/ Tick /\ UNCHANGED <<tokenVars, loaded, era, made>>
       PROVE  \A q \in Process : Owns(q)'
  <2>1. UNCHANGED <<pc, req, got, result, loaded>>
    BY <1>11 DEF Login, RemoveToken, LogoutInvalidates, LogoutKilled, clientVars, vars, Tick,
                 InvalidateSession
  <2>2. QED
    BY <1>5, <2>1
<1>12. \A q \in Process : Owns(q)'
  BY <1>6, <1>7, <1>8, <1>9, <1>10, <1>11 DEF ClientNext
<1>13. QED
  BY <1>4, <1>12 DEF Owned, Owns

LEMMA OwnedIsOwn == TypeOK /\ CallState /\ Origins /\ Owned => OwnClientSession
<1> SUFFICES ASSUME TypeOK, CallState, Origins, Owned, NEW p \in Process,
                    result[p] \in {"reused", "created"}
             PROVE  /\ made[got[p]].token.client = loaded[p].client
                    /\ result[p] = "created" => made[got[p]].token = loaded[p]
  BY DEF OwnClientSession
<1>1. pc[p] # "idle"
  BY DEF CallState
<1>2. got[p] \in 1..Len(sessions)
  BY DEF Owned, TypeOK
<1>3. made[got[p]].token.client = sessions[got[p]].req.client
  BY <1>2 DEF Origins
<1>4. QED
  BY <1>1, <1>2, <1>3 DEF Owned

LEMMA CacheHolds == ClientSpec => [](TypeOK /\ CallState)
BY CacheUnchanged, IInvHolds, PTL DEF IInv

-----------------------------------------------------------------------------
(* What a logout leaves behind.                                            *)

\* Eras, of one process.
Era(q) == pc[q] \in InHand => made[got[q]].era = era[q]

\* Only a save fills the file, and it leaves the sessions alone.
LEMMA FilledByWrite ==
  ASSUME TypeOK, NEW p \in Process, Step(p) \/ LockFails(p), file' # file, file'.kind = "session"
  PROVE  Write(p) /\ file' = Holding(got[p]) /\ sessions' = sessions
<1>1. Truncate(p) \/ Write(p)
  BY DEF Step, FastHit, FastMiss, Lock, Reread, SlowHit, SlowMiss, ProxyGrants, ProxyRefuses,
         ReplyLost, ReplyArrives, SaveFails, Unlock, LockFails
<1>2. ~Truncate(p)
  BY DEF Truncate, Torn
<1>3. QED
  BY <1>1, <1>2 DEF Write, Absent

LEMMA EraStep ==
  ASSUME TypeOK, CallState, Origins, Owned, Eras, [ClientNext]_clientVars
  PROVE  Eras'
<1>1. logouts \in Nat /\ era \in [Process -> Nat] /\ \A q \in Process : Era(q)
  BY DEF Eras, Era
<1>2. logouts' \in Nat /\ era' \in [Process -> Nat]
  <2>1. CASE \E p \in Process : SkipAuth(p)
    BY <1>1, <2>1 DEF SkipAuth, tokenVars
  <2>2. CASE \E p \in Process : LoadToken(p) \/ CallAs(p) \/ StepOn(p) \/ Ends(p)
    BY <1>1, <2>2 DEF LoadToken, CallAs, StepOn, Ends, tokenVars
  <2>3. CASE Login \/ RemoveToken \/ LogoutInvalidates \/ LogoutKilled
    BY <1>1, <2>3 DEF Login, RemoveToken, LogoutInvalidates, LogoutKilled
  <2>4. CASE (Tick /\ UNCHANGED <<tokenVars, loaded, era, made>>) \/ UNCHANGED clientVars
    BY <1>1, <2>4 DEF tokenVars, clientVars
  <2>5. QED
    BY <2>1, <2>2, <2>3, <2>4 DEF ClientNext
<1>3. \A q \in Process : pc[q] \in InHand => got[q] \in 1..Len(sessions)
  BY LenProperties DEF TypeOK, CallState, InHand
<1>4. ASSUME NEW q \in Process, pc[q] # "idle" => era'[q] = era[q],
             \/ pc'[q] = pc[q]
             \/ pc[q] = "reply" /\ pc'[q] = "truncate"
             \/ pc[q] = "truncate" /\ pc'[q] = "write",
             got'[q] = got[q]
      PROVE  Era(q)'
  BY <1>1, <1>3, <1>4, MadeGrows DEF Era, InHand
<1>5. ASSUME NEW q \in Process, UNCHANGED <<pc, got>>, pc[q] # "idle" => era'[q] = era[q]
      PROVE  Era(q)'
  BY <1>4, <1>5
<1>6. ASSUME NEW p \in Process, LoadToken(p) \/ SkipAuth(p) PROVE \A q \in Process : Era(q)'
  BY <1>1, <1>5, <1>6 DEF LoadToken, SkipAuth, vars
<1>7. ASSUME NEW p \in Process, NEW q \in Process, q # p, CallAs(p) \/ StepOn(p) \/ Ends(p)
      PROVE  Era(q)'
  <2>1. Call(p) \/ Step(p) \/ LockFails(p) \/ Exit(p) \/ Crash(p)
    BY <1>7 DEF CallAs, StepOn, Ends
  <2>2. pc'[q] = pc[q] /\ got'[q] = got[q]
    BY <1>7, <2>1, NotOthers
  <2>3. era'[q] = era[q]
    BY <1>1, <1>7 DEF CallAs, StepOn, Ends
  <2>4. QED
    BY <1>4, <2>2, <2>3
<1>8. ASSUME NEW p \in Process, CallAs(p) \/ Ends(p) PROVE Era(p)'
  <2>1. pc'[p] \in {"check", "idle"}
    BY <1>8 DEF CallAs, Call, Ends, Exit, Crash, Gone, TypeOK
  <2>2. QED
    BY <2>1 DEF Era, InHand
<1>9. ASSUME NEW p \in Process, StepOn(p) PROVE Era(p)'
  <2>1. CASE ProxyGrants(p)
    <3>1. got'[p] = Len(sessions) + 1
      BY <2>1, Granting
    <3>2. made'[got'[p]].era = era[p] /\ era' = era
      BY <1>9, <2>1, <3>1, GrantRecorded DEF StepOn
    <3>3. QED
      BY <3>2 DEF Era
  <2>2. CASE ReplyArrives(p) \/ Truncate(p)
    <3>1. got'[p] = got[p] /\ era' = era
      BY <1>9, <2>2 DEF ReplyArrives, Truncate, StepOn
    <3>2. \/ pc[p] = "reply" /\ pc'[p] = "truncate"
          \/ pc[p] = "truncate" /\ pc'[p] = "write"
          \/ pc'[p] = "done"
      <4>1. CASE ReplyArrives(p)
        BY <4>1 DEF ReplyArrives, TypeOK
      <4>2. CASE Truncate(p)
        BY <4>2 DEF Truncate, TypeOK
      <4>3. QED
        BY <2>2, <4>1, <4>2
    <3>3. CASE pc'[p] = "done"
      BY <3>3 DEF Era, InHand
    <3>4. QED
      BY <1>4, <3>1, <3>2, <3>3
  <2>3. CASE ~(ProxyGrants(p) \/ ReplyArrives(p) \/ Truncate(p))
    <3>1. pc'[p] \notin {"reply", "truncate", "write"}
      BY <1>9, <2>3 DEF StepOn, Step, FastHit, FastMiss, Lock, Reread, SlowHit, SlowMiss,
         ProxyRefuses, ReplyLost, Write, SaveFails, Unlock, LockFails, AfterReturn, TypeOK
    <3>2. QED
      BY <3>1 DEF Era, InHand
  <2>4. QED
    BY <2>1, <2>2, <2>3
<1>10. ASSUME \/ Login \/ RemoveToken \/ LogoutInvalidates \/ LogoutKilled \/ UNCHANGED clientVars
              \/ Tick /\ UNCHANGED <<tokenVars, loaded, era, made>>
       PROVE  \A q \in Process : Era(q)'
  <2>1. UNCHANGED <<pc, got, era>>
    BY <1>10 DEF Login, RemoveToken, LogoutInvalidates, LogoutKilled, clientVars, vars, Tick,
                 InvalidateSession
  <2>2. QED
    BY <1>5, <2>1
<1>11. \A q \in Process : Era(q)'
  BY <1>6, <1>7, <1>8, <1>9, <1>10 DEF ClientNext
<1>12. QED
  BY <1>2, <1>11 DEF Eras, Era

LEMMA ForgetsStep ==
  ASSUME TypeOK, CallState, Origins, Owned, Eras, LogoutForgets, [ClientNext]_clientVars
  PROVE  LogoutForgets'
<1>1. file.kind = "session" => file.id \in 1..Len(sessions)
  BY DEF TypeOK, FileContent, Absent, Torn, Holding
<1>2. file.kind = "session" => made'[file.id] = made[file.id]
  BY <1>1, MadeGrows
<1>3. CASE file' = file /\ logouts' = logouts /\ leaving' = leaving /\ (late => late')
  BY <1>2, <1>3 DEF LogoutForgets
<1>4. ASSUME NEW p \in Process, StepOn(p), file' # file, file'.kind = "session", ~late'
      PROVE  made'[file'.id].era = logouts'
  <2>1. Write(p) /\ file' = Holding(got[p]) /\ sessions' = sessions
    BY <1>4, FilledByWrite DEF StepOn
  <2>2. made[got[p]].era = era[p] /\ made' = made
    BY <1>4, <2>1 DEF Write, Eras, StepOn, InHand
  <2>3. era[p] = logouts /\ logouts' = logouts
    BY <1>4 DEF StepOn
  <2>4. QED
    BY <2>1, <2>2, <2>3 DEF Holding
<1>5. CASE \E p \in Process : StepOn(p)
  <2>1. logouts' = logouts /\ leaving' = leaving /\ (late => late')
    BY <1>5 DEF StepOn
  <2>2. QED
    BY <1>3, <1>4, <1>5, <2>1 DEF LogoutForgets
<1>6. CASE RemoveToken \/ LogoutKilled
  BY <1>6 DEF RemoveToken, LogoutKilled, LogoutForgets
<1>7. CASE LogoutInvalidates
  <2>1. file' = Absent
    BY <1>7 DEF LogoutInvalidates, InvalidateSession, vars
  <2>2. QED
    BY <2>1 DEF LogoutForgets, Absent
<1>8. CASE \E p \in Process : LoadToken(p) \/ SkipAuth(p) \/ CallAs(p) \/ Ends(p)
  <2>1. file' = file /\ logouts' = logouts /\ leaving' = leaving /\ late' = late
    BY <1>8 DEF LoadToken, SkipAuth, CallAs, Call, Ends, Exit, Crash, Gone, tokenVars, vars
  <2>2. QED
    BY <1>3, <2>1
<1>9. CASE Login \/ UNCHANGED clientVars \/ (Tick /\ UNCHANGED <<tokenVars, loaded, era, made>>)
  <2>1. file' = file /\ logouts' = logouts /\ leaving' = leaving /\ late' = late
    BY <1>9 DEF Login, Tick, tokenVars, clientVars, vars
  <2>2. QED
    BY <1>3, <2>1
<1>10. CASE \E p \in Process : LoadToken(p) \/ SkipAuth(p) \/ CallAs(p) \/ StepOn(p) \/ Ends(p)
  BY <1>5, <1>8, <1>10
<1>11. QED
  BY <1>6, <1>7, <1>9, <1>10 DEF ClientNext

-----------------------------------------------------------------------------

LEMMA RecordHolds == ClientSpec => [](TypeOK /\ CallState /\ Origins /\ Owned /\ Eras)
<1>1. ClientInit => Origins /\ Owned /\ Eras
  <2>1. ASSUME ClientInit PROVE made = << >> /\ sessions = << >>
    BY <2>1 DEF ClientInit, Init
  <2>2. << >> \in Seq([token : Bearer, era : Nat])
    BY EmptySeq
  <2>3. ClientInit => Origins
    BY <2>1, <2>2 DEF Origins
  <2>4. ClientInit => Owned /\ Eras
    BY DEF ClientInit, Init, Owned, Eras, InHand
  <2>5. QED
    BY <2>3, <2>4
<1>2. TypeOK /\ CallState /\ Origins /\ Owned /\ Eras /\ [ClientNext]_clientVars
        => Origins' /\ Owned' /\ Eras'
  BY OriginsStep, OwnedStep, EraStep
<1>3. QED
  BY <1>1, <1>2, CacheHolds, PTL DEF ClientSpec

\* A command uses only sessions created for the client id its token (or its
\* command line) names, and returns as new only one created with that token,
\* whoever logs in meanwhile and whatever fails (store.go:107, token.go:69).
THEOREM SessionIsTheClients == ClientSpec => []OwnClientSession
BY RecordHolds, OwnedIsOwn, PTL

\* A logout that is not killed leaves no session to commands that come after it,
\* however many logins and logouts there have been (auth.go:69).
THEOREM LogoutLeavesNothing == ClientSpec => []LogoutForgets
<1>1. ClientInit => LogoutForgets
  BY DEF ClientInit, Init, LogoutForgets, Absent
<1>2. TypeOK /\ CallState /\ Origins /\ Owned /\ Eras /\ LogoutForgets /\ [ClientNext]_clientVars
        => LogoutForgets'
  BY ForgetsStep
<1>3. QED
  BY <1>1, <1>2, RecordHolds, PTL DEF ClientSpec
=============================================================================
