------------------------- MODULE SessionCacheProofs -------------------------
(***************************************************************************)
(* Theorems about SessionCache, for every set of processes, requests,      *)
(* replies and faults and every bound.                                     *)
(***************************************************************************)
EXTENDS SessionCache, TLAPS

\* A session that the proxy grants is a session.
LEMMA GrantedType ==
  ASSUME NEW r \in Request, NEW a \in Reply, NEW t \in Nat
  PROVE  Granted(r, a, t) \in Session
BY ReplyAssumption DEF Granted, Session

LEMMA SomeRequestType == SomeRequest \in Request
BY RequestAssumption DEF SomeRequest

\* Sessions are never forgotten: what a file or a process may refer to stays
\* referable when the proxy creates another one.
LEMMA AppendSession ==
  ASSUME NEW s \in Seq(Session), NEW e \in Session
  PROVE  /\ Append(s, e) \in Seq(Session)
         /\ Len(Append(s, e)) = Len(s) + 1
         /\ Len(s) \in Nat
         /\ 1..Len(s) \subseteq 1..Len(Append(s, e))
         /\ 0..Len(s) \subseteq 0..Len(Append(s, e))
         /\ Len(Append(s, e)) \in 0..Len(Append(s, e))
         /\ \A i \in 1..Len(s) : Append(s, e)[i] = s[i]
OBVIOUS

LEMMA FileContentGrows ==
  ASSUME TypeOK, NEW e \in Session, sessions' = Append(sessions, e)
  PROVE  FileContent \subseteq FileContent'
<1>1. 1..Len(sessions) \subseteq 1..Len(sessions')
  BY AppendSession DEF TypeOK
<1>2. QED
  BY <1>1 DEF FileContent, Absent, Torn, Holding

-----------------------------------------------------------------------------

LEMMA TypeInit == Init => TypeOK
<1> SUFFICES ASSUME Init PROVE TypeOK
  OBVIOUS
<1>1. file \in FileContent /\ seen \in [Process -> FileContent]
  BY DEF Init, FileContent
<1>2. sessions \in Seq(Session) /\ 0 \in 0..Len(sessions)
  BY DEF Init
<1>3. QED
  BY <1>1, <1>2, SomeRequestType DEF Init, TypeOK, Label

LEMMA TypeStep == TypeOK /\ CallState /\ [Next]_vars => TypeOK'
<1> SUFFICES ASSUME TypeOK, CallState, [Next]_vars PROVE TypeOK'
  OBVIOUS
<1>s. sessions' = sessions => FileContent' = FileContent
  BY DEF FileContent, Absent, Torn, Holding
<1>a. Absent \in FileContent /\ Torn \in FileContent
  BY DEF FileContent
<1>0. Len(sessions) \in Nat /\ 0 \in 0..Len(sessions)
  BY DEF TypeOK
<1>1. ASSUME NEW p \in Process, Call(p) PROVE TypeOK'
  BY <1>1, <1>s DEF TypeOK, Call, Label
<1>2. ASSUME NEW p \in Process, FastHit(p) \/ SlowHit(p) PROVE TypeOK'
  <2>1. seen[p] \in FileContent /\ seen[p].kind = "session"
    BY <1>2 DEF TypeOK, FastHit, SlowHit, Usable
  <2>2. seen[p].id \in 0..Len(sessions)
    BY <2>1, <1>0 DEF FileContent, Absent, Torn, Holding
  <2>3. got' \in [Process -> 0..Len(sessions')]
    BY <1>2, <2>2 DEF TypeOK, FastHit, SlowHit
  <2>4. file' \in FileContent' /\ seen' \in [Process -> FileContent']
    BY <1>2, <1>s, <1>a DEF TypeOK, FastHit, SlowHit
  <2>5. QED
    BY <1>2, <2>3, <2>4 DEF TypeOK, FastHit, SlowHit, Label
<1>3. ASSUME NEW p \in Process, FastMiss(p) \/ SlowMiss(p) PROVE TypeOK'
  <2>1. file' \in FileContent' /\ seen' \in [Process -> FileContent']
    BY <1>3, <1>s, <1>a DEF TypeOK, FastMiss, SlowMiss
  <2>2. QED
    BY <1>3, <2>1 DEF TypeOK, FastMiss, SlowMiss, Label
<1>4. ASSUME NEW p \in Process, Lock(p) \/ LockFails(p) \/ Unlock(p) PROVE TypeOK'
  BY <1>4, <1>s DEF TypeOK, Lock, LockFails, Unlock, Label
<1>5. ASSUME NEW p \in Process, Reread(p) PROVE TypeOK'
  BY <1>5, <1>s DEF TypeOK, Reread, Label
<1>6. ASSUME NEW p \in Process, ProxyGrants(p) PROVE TypeOK'
  <2>1. PICK a \in Reply : sessions' = Append(sessions, Granted(req[p], a, now))
    BY <1>6 DEF ProxyGrants
  <2>2. Granted(req[p], a, now) \in Session
    BY GrantedType DEF TypeOK
  <2>3. /\ sessions' \in Seq(Session)
        /\ 0..Len(sessions) \subseteq 0..Len(sessions')
        /\ Len(sessions') \in 0..Len(sessions')
    BY <2>1, <2>2, AppendSession DEF TypeOK
  <2>4. FileContent \subseteq FileContent'
    BY <2>1, <2>2, FileContentGrows
  <2>5. file' \in FileContent' /\ seen' \in [Process -> FileContent']
    BY <1>6, <2>4 DEF TypeOK, ProxyGrants
  <2>6. got' \in [Process -> 0..Len(sessions')]
    BY <1>6, <2>3 DEF TypeOK, ProxyGrants
  <2>7. QED
    BY <1>6, <2>3, <2>5, <2>6 DEF TypeOK, ProxyGrants, Label
<1>7. ASSUME NEW p \in Process, ProxyRefuses(p) \/ ReplyLost(p) \/ ReplyArrives(p)
      PROVE  TypeOK'
  <2>1. file' \in FileContent' /\ seen' \in [Process -> FileContent']
    BY <1>7, <1>s DEF TypeOK, ProxyRefuses, ReplyLost, ReplyArrives
  <2>2. got' \in [Process -> 0..Len(sessions')]
    BY <1>7, <1>0 DEF TypeOK, ProxyRefuses, ReplyLost, ReplyArrives
  <2>3. pc' \in [Process -> Label]
    BY <1>7 DEF TypeOK, ProxyRefuses, ReplyLost, ReplyArrives, AfterReturn, Label
  <2>4. QED
    BY <1>7, <2>1, <2>2, <2>3 DEF TypeOK, ProxyRefuses, ReplyLost, ReplyArrives
<1>8. ASSUME NEW p \in Process, Truncate(p) \/ SaveFails(p) PROVE TypeOK'
  <2>1. file' \in FileContent' /\ seen' \in [Process -> FileContent']
    BY <1>8, <1>s, <1>a DEF TypeOK, Truncate, SaveFails
  <2>2. QED
    BY <1>8, <2>1 DEF TypeOK, Truncate, SaveFails, Label
<1>9. ASSUME NEW p \in Process, Write(p) PROVE TypeOK'
  <2>1. got[p] \in 1..Len(sessions)
    BY <1>9, <1>0 DEF CallState, TypeOK, Write
  <2>2. Holding(got[p]) \in FileContent
    BY <2>1 DEF FileContent
  <2>3. file' \in FileContent' /\ seen' \in [Process -> FileContent']
    BY <1>9, <1>s, <1>a, <2>2 DEF TypeOK, Write
  <2>4. QED
    BY <1>9, <2>3 DEF TypeOK, Write, Label
<1>10. ASSUME NEW p \in Process, Exit(p) \/ Crash(p) PROVE TypeOK'
  <2>1. Gone(p) /\ lock' \in Process \cup {NoProcess} /\ spoilt' \in BOOLEAN
    BY <1>10 DEF Exit, Crash, TypeOK
  <2>2. file' \in FileContent' /\ seen' \in [Process -> FileContent']
    BY <2>1, <1>s, <1>a DEF TypeOK, Gone
  <2>3. got' \in [Process -> 0..Len(sessions')]
    BY <2>1, <1>0 DEF TypeOK, Gone
  <2>4. QED
    BY <2>1, <2>2, <2>3, SomeRequestType DEF TypeOK, Gone, Label
<1>11. ASSUME InvalidateSession PROVE TypeOK'
  BY <1>11, <1>s, <1>a DEF TypeOK, InvalidateSession
<1>12. ASSUME Tick PROVE TypeOK'
  BY <1>12, <1>s DEF TypeOK, Tick
<1>13. CASE UNCHANGED vars
  BY <1>13, <1>s DEF TypeOK, vars
<1>14. QED
  BY <1>1, <1>2, <1>3, <1>4, <1>5, <1>6, <1>7, <1>8, <1>9, <1>10, <1>11, <1>12, <1>13
     DEF Next, Step

-----------------------------------------------------------------------------

\* Only the step of p moves p: what a call holds follows from how far it is.
LEMMA CallStep == TypeOK /\ CallState /\ [Next]_vars => CallState'
<1> SUFFICES ASSUME TypeOK, CallState, [Next]_vars PROVE CallState'
  OBVIOUS
<1> USE DEF TypeOK, CallState
<1>1. ASSUME NEW p \in Process, Call(p) \/ Reread(p) PROVE CallState'
  BY <1>1 DEF Call, Reread
<1>2. ASSUME NEW p \in Process, FastHit(p) \/ SlowHit(p) PROVE CallState'
  BY <1>2 DEF FastHit, SlowHit
<1>3. ASSUME NEW p \in Process, FastMiss(p) \/ SlowMiss(p) PROVE CallState'
  BY <1>3 DEF FastMiss, SlowMiss
<1>4. ASSUME NEW p \in Process, Lock(p) \/ LockFails(p) \/ Unlock(p) PROVE CallState'
  BY <1>4 DEF Lock, LockFails, Unlock
<1>5. ASSUME NEW p \in Process, ProxyGrants(p) PROVE CallState'
  <2>1. PICK a \in Reply : sessions' = Append(sessions, Granted(req[p], a, now))
    BY <1>5 DEF ProxyGrants
  <2>2. Granted(req[p], a, now) \in Session
    BY GrantedType
  <2>3. Len(sessions') # 0
    BY <2>1, <2>2, AppendSession
  <2>4. QED
    BY <1>5, <2>3 DEF ProxyGrants
<1>6. ASSUME NEW p \in Process, ProxyRefuses(p) \/ ReplyLost(p) \/ ReplyArrives(p)
      PROVE  CallState'
  BY <1>6 DEF ProxyRefuses, ReplyLost, ReplyArrives, AfterReturn
<1>7. ASSUME NEW p \in Process, Truncate(p) \/ SaveFails(p) \/ Write(p) PROVE CallState'
  BY <1>7 DEF Truncate, SaveFails, Write
<1>8. ASSUME NEW p \in Process, Exit(p) \/ Crash(p) PROVE CallState'
  BY <1>8 DEF Exit, Crash, Gone
<1>9. CASE InvalidateSession \/ Tick \/ UNCHANGED vars
  BY <1>9 DEF InvalidateSession, Tick, vars
<1>10. QED
  BY <1>1, <1>2, <1>3, <1>4, <1>5, <1>6, <1>7, <1>8, <1>9 DEF Next, Step

-----------------------------------------------------------------------------

\* The flock changes hands only through the free state.
LEMMA LockStep == TypeOK /\ LockDiscipline /\ [Next]_vars => LockDiscipline'
<1> SUFFICES ASSUME TypeOK, LockDiscipline, [Next]_vars PROVE LockDiscipline'
  OBVIOUS
<1> USE ProcessAssumption DEF TypeOK, LockDiscipline, Locked, Creating
<1>1. ASSUME NEW p \in Process, Call(p) \/ Reread(p) PROVE LockDiscipline'
  BY <1>1 DEF Call, Reread
<1>2. ASSUME NEW p \in Process, FastHit(p) \/ SlowHit(p) PROVE LockDiscipline'
  BY <1>2 DEF FastHit, SlowHit
<1>3. ASSUME NEW p \in Process, FastMiss(p) \/ SlowMiss(p) PROVE LockDiscipline'
  BY <1>3 DEF FastMiss, SlowMiss
<1>4. ASSUME NEW p \in Process, Lock(p) \/ LockFails(p) \/ Unlock(p) PROVE LockDiscipline'
  BY <1>4 DEF Lock, LockFails, Unlock
<1>5. ASSUME NEW p \in Process, ProxyGrants(p) PROVE LockDiscipline'
  BY <1>5 DEF ProxyGrants
<1>6. ASSUME NEW p \in Process, ProxyRefuses(p) \/ ReplyLost(p) \/ ReplyArrives(p)
      PROVE  LockDiscipline'
  BY <1>6 DEF ProxyRefuses, ReplyLost, ReplyArrives, AfterReturn
<1>7. ASSUME NEW p \in Process, Truncate(p) \/ SaveFails(p) \/ Write(p) PROVE LockDiscipline'
  BY <1>7 DEF Truncate, SaveFails, Write
<1>8. ASSUME NEW p \in Process, Exit(p) \/ Crash(p) PROVE LockDiscipline'
  BY <1>8 DEF Exit, Crash, Gone
<1>9. CASE InvalidateSession \/ Tick \/ UNCHANGED vars
  BY <1>9 DEF InvalidateSession, Tick, vars
<1>10. QED
  BY <1>1, <1>2, <1>3, <1>4, <1>5, <1>6, <1>7, <1>8, <1>9 DEF Next, Step

-----------------------------------------------------------------------------

\* A session that does not serve a request will not serve it later either.
LEMMA ServesOnlyEarlier ==
  ASSUME NEW s \in Session, NEW r \in Request, NEW t \in Nat, NEW u \in Nat,
         t <= u, Serves(s, r, u)
  PROVE  Serves(s, r, t)
BY DEF Session, Serves, IsExpired, NeedsRefresh

\* A file that does not serve q's request does so neither after a step that
\* lets it be, empties it or removes it, whatever the clock and the proxy do.
LEMMA UnusableStays ==
  ASSUME TypeOK, TypeOK', NEW q \in Process, ~Usable(file, req[q]),
         req'[q] = req[q],
         file' \in {file, Absent, Torn},
         now' >= now,
         \A i \in 1..Len(sessions) : sessions'[i] = sessions[i]
  PROVE  ~Usable(file, req[q])'
<1>1. CASE file'.kind # "session"
  BY <1>1 DEF Usable
<1>2. CASE file'.kind = "session"
  <2>1. file' = file
    BY <1>2 DEF Absent, Torn
  <2>2. file.id \in 1..Len(sessions)
    BY <1>2, <2>1 DEF TypeOK, FileContent, Absent, Torn, Holding
  <2>3. sessions[file.id] \in Session /\ sessions'[file'.id] = sessions[file.id]
    BY <2>1, <2>2 DEF TypeOK
  <2>4. ~Serves(sessions[file.id], req[q], now)
    BY <1>2, <2>1 DEF Usable
  <2>5. now \in Nat /\ now' \in Nat /\ now <= now' /\ req[q] \in Request
    BY DEF TypeOK
  <2>6. ~Serves(sessions[file.id], req[q], now')
    BY <2>3, <2>4, <2>5, ServesOnlyEarlier
  <2>7. QED
    BY <2>3, <2>6 DEF Usable
<1>3. QED
  BY <1>1, <1>2

\* Every step of the system appends to the proxy's sessions or leaves them,
\* and does not turn the clock back.
LEMMA SessionsKept ==
  ASSUME TypeOK, [Next]_vars
  PROVE  /\ now' >= now
         /\ \A i \in 1..Len(sessions) : sessions'[i] = sessions[i]
<1>1. ASSUME NEW p \in Process, ProxyGrants(p)
      PROVE  now' >= now /\ \A i \in 1..Len(sessions) : sessions'[i] = sessions[i]
  <2>1. PICK a \in Reply : sessions' = Append(sessions, Granted(req[p], a, now))
    BY <1>1 DEF ProxyGrants
  <2>2. Granted(req[p], a, now) \in Session
    BY GrantedType DEF TypeOK
  <2>3. \A i \in 1..Len(sessions) : sessions'[i] = sessions[i]
    BY <2>1, <2>2, AppendSession DEF TypeOK
  <2>4. QED
    BY <1>1, <2>3 DEF ProxyGrants, TypeOK
<1>2. ASSUME ~\E p \in Process : ProxyGrants(p)
      PROVE  sessions' = sessions /\ now' >= now
  BY <1>2 DEF TypeOK, Next, vars, Step, Call, FastHit, FastMiss, Lock, LockFails,
     Reread, SlowHit, SlowMiss, ProxyRefuses, ReplyLost, ReplyArrives, Truncate,
     Write, SaveFails, Unlock, Exit, Crash, Gone, InvalidateSession, Tick
<1>3. QED
  BY <1>1, <1>2

-----------------------------------------------------------------------------

\* The file changes only by logout or by the two halves of a save, and these
\* are taken by the holder of the lock.
LEMMA FileStep ==
  ASSUME TypeOK, LockDiscipline, [Next]_vars, file' # file
  PROVE  \/ InvalidateSession
         \/ \E p \in Process : lock = p /\ (Truncate(p) \/ Write(p))
<1>1. InvalidateSession \/ \E p \in Process : Truncate(p) \/ Write(p)
  BY DEF Next, vars, Step, Call, FastHit, FastMiss, Lock, LockFails, Reread, SlowHit,
     SlowMiss, ProxyGrants, ProxyRefuses, ReplyLost, ReplyArrives, SaveFails, Unlock,
     Exit, Crash, Gone, Tick
<1>2. ASSUME NEW p \in Process, Truncate(p) \/ Write(p) PROVE lock = p
  BY <1>2 DEF LockDiscipline, Locked, Truncate, Write
<1>3. QED
  BY <1>1, <1>2

\* Nobody but the holder of the lock moves its call.
LEMMA RecheckStep ==
  TypeOK /\ LockDiscipline /\ RecheckCurrent /\ [Next]_vars => RecheckCurrent'
<1> SUFFICES ASSUME TypeOK, LockDiscipline, RecheckCurrent, [Next]_vars,
                    NEW q \in Process, pc'[q] = "recheck"
             PROVE  file' = Absent \/ file' = seen'[q]
  BY DEF RecheckCurrent
<1>1. Reread(q) \/ (pc[q] = "recheck" /\ seen'[q] = seen[q])
  BY DEF TypeOK, Next, vars, Step, Call, FastHit, FastMiss, Lock, LockFails, Reread,
     SlowHit, SlowMiss, ProxyGrants, ProxyRefuses, ReplyLost, ReplyArrives, AfterReturn,
     Truncate, Write, SaveFails, Unlock, Exit, Crash, Gone, InvalidateSession, Tick
<1>2. CASE Reread(q)
  BY <1>2 DEF Reread, TypeOK
<1>3. CASE pc[q] = "recheck" /\ seen'[q] = seen[q]
  <2>1. lock = q
    BY <1>3 DEF LockDiscipline, Locked
  <2>2. CASE file' = file
    BY <1>3, <2>2 DEF RecheckCurrent
  <2>3. CASE file' # file
    <3>1. InvalidateSession \/ Truncate(q) \/ Write(q)
      BY <2>1, <2>3, FileStep
    <3>2. QED
      BY <1>3, <3>1 DEF InvalidateSession, Truncate, Write
  <2>4. QED
    BY <2>2, <2>3
<1>4. QED
  BY <1>1, <1>2, <1>3

\* A process creates either because it has just found under the lock that the
\* file does not serve it, or it was creating before.
LEMMA CreateStep ==
  TypeOK /\ TypeOK' /\ LockDiscipline /\ RecheckCurrent /\ CreatesOnlyWhenUnusable
    /\ [Next]_vars => CreatesOnlyWhenUnusable'
<1> SUFFICES ASSUME TypeOK, TypeOK', LockDiscipline, RecheckCurrent,
                    CreatesOnlyWhenUnusable, [Next]_vars,
                    NEW q \in Process, lock' = q, pc'[q] \in Creating
             PROVE  ~Usable(file, req[q])'
  BY DEF CreatesOnlyWhenUnusable
<1>1. \/ SlowMiss(q)
      \/ lock = q /\ pc[q] \in Creating /\ req'[q] = req[q]
  BY ProcessAssumption
     DEF TypeOK, Creating, Next, vars, Step, Call, FastHit, FastMiss, Lock, LockFails,
     Reread, SlowHit, SlowMiss, ProxyGrants, ProxyRefuses, ReplyLost, ReplyArrives,
     AfterReturn, Truncate, Write, SaveFails, Unlock, Exit, Crash, Gone,
     InvalidateSession, Tick, LockDiscipline, Locked
<1>2. now' >= now /\ \A i \in 1..Len(sessions) : sessions'[i] = sessions[i]
  BY SessionsKept
<1>3. CASE SlowMiss(q)
  <2>1. file = Absent \/ file = seen[q]
    BY <1>3 DEF SlowMiss, RecheckCurrent
  <2>2. ~Usable(file, req[q])
    BY <1>3, <2>1 DEF SlowMiss, Usable, Absent
  <2>3. QED
    BY <1>2, <1>3, <2>2, UnusableStays DEF SlowMiss
<1>4. CASE lock = q /\ pc[q] \in Creating /\ req'[q] = req[q]
  <2>1. ~Usable(file, req[q])
    BY <1>4 DEF CreatesOnlyWhenUnusable
  <2>2. file' \in {file, Absent, Torn}
    <3>1. file' # file => InvalidateSession \/ Truncate(q) \/ Write(q)
      BY <1>4, FileStep
    <3>2. ~Write(q)
      BY DEF TypeOK, Write, Creating
    <3>3. QED
      BY <3>1, <3>2 DEF InvalidateSession, Truncate
  <2>3. QED
    BY <1>2, <1>4, <2>1, <2>2, UnusableStays
<1>5. QED
  BY <1>1, <1>3, <1>4

\* A session that the proxy creates has a higher number than all before, and
\* while its creator holds the lock nobody else puts one into the file.
LEMMA PendingStep ==
  TypeOK /\ CallState' /\ LockDiscipline /\ PendingNewer /\ [Next]_vars => PendingNewer'
<1> SUFFICES ASSUME TypeOK, CallState', LockDiscipline, PendingNewer, [Next]_vars,
                    NEW q \in Process, lock' = q,
                    pc'[q] \in {"reply", "truncate", "write"}
             PROVE  got'[q] > file'.id
  BY DEF PendingNewer
<1>1. \/ ProxyGrants(q)
      \/ lock = q /\ pc[q] \in {"reply", "truncate", "write"} /\ got'[q] = got[q]
  BY ProcessAssumption
     DEF TypeOK, Next, vars, Step, Call, FastHit, FastMiss, Lock, LockFails,
     Reread, SlowHit, SlowMiss, ProxyGrants, ProxyRefuses, ReplyLost, ReplyArrives,
     AfterReturn, Truncate, Write, SaveFails, Unlock, Exit, Crash, Gone,
     InvalidateSession, Tick, LockDiscipline, Locked
<1>2. CASE ProxyGrants(q)
  <2>1. PICK a \in Reply : sessions' = Append(sessions, Granted(req[q], a, now))
    BY <1>2 DEF ProxyGrants
  <2>2. Granted(req[q], a, now) \in Session
    BY GrantedType DEF TypeOK
  <2>3. Len(sessions') = Len(sessions) + 1 /\ Len(sessions) \in Nat
    BY <2>1, <2>2, AppendSession DEF TypeOK
  <2>4. file.id \in 0..Len(sessions)
    BY <2>3 DEF TypeOK, FileContent, Absent, Torn, Holding
  <2>5. QED
    BY <1>2, <2>3, <2>4 DEF TypeOK, ProxyGrants
<1>3. CASE lock = q /\ pc[q] \in {"reply", "truncate", "write"} /\ got'[q] = got[q]
  <2>1. CASE file' = file
    BY <1>3, <2>1 DEF PendingNewer
  <2>2. CASE file' # file
    <3>1. InvalidateSession \/ Truncate(q) \/ Write(q)
      BY <1>3, <2>2, FileStep
    <3>2. ~Write(q)
      BY DEF TypeOK, Write
    <3>3. file'.id = 0
      BY <3>1, <3>2 DEF InvalidateSession, Truncate, Absent, Torn
    <3>4. got'[q] # 0 /\ got'[q] \in Nat
      BY <1>3 DEF CallState, TypeOK
    <3>5. QED
      BY <3>3, <3>4
  <2>3. QED
    BY <2>1, <2>2
<1>4. QED
  BY <1>1, <1>2, <1>3

-----------------------------------------------------------------------------

\* The invariant is inductive.
LEMMA IInvHolds == Spec => []IInv
<1>1. Init => IInv
  <2>1. Init => TypeOK
    BY TypeInit
  <2>2. Init => CallState /\ RecheckCurrent /\ CreatesOnlyWhenUnusable /\ PendingNewer
    BY ProcessAssumption
       DEF Init, CallState, RecheckCurrent, CreatesOnlyWhenUnusable, PendingNewer
  <2>3. Init => LockDiscipline
    BY DEF Init, LockDiscipline, Locked
  <2>4. QED
    BY <2>1, <2>2, <2>3 DEF IInv
<1>2. IInv /\ [Next]_vars => IInv'
  BY TypeStep, CallStep, LockStep, RecheckStep, CreateStep, PendingStep DEF IInv
<1>3. QED
  BY <1>1, <1>2, PTL DEF Spec

\* Whatever the file, a process or a result refers to is a session that the
\* proxy created: store.go never hands out or caches a session it has not got.
THEOREM TypeCorrect == Spec => []TypeOK
BY IInvHolds, PTL DEF IInv

\* The flock of acquireLock is held by one process at most, and by none that
\* has returned from GetOrCreateSession or is outside it.
THEOREM LockIsHeldAndReleased == Spec => []LockDiscipline
BY IInvHolds, PTL DEF IInv

\* The second look at the cache stays valid while the lock is held: a process
\* asks the proxy for a session and saves it only while the file still holds
\* none that would serve.
THEOREM CreationIsJustified == Spec => []CreatesOnlyWhenUnusable
BY IInvHolds, PTL DEF IInv

\* A save replaces a session by one created later, never by an older one.
THEOREM CacheNeverGoesBack == Spec => []InstallsNewer
<1>1. IInv => InstallsNewer
  BY DEF IInv, LockDiscipline, Locked, PendingNewer, InstallsNewer
<1>2. QED
  BY <1>1, IInvHolds, PTL

-----------------------------------------------------------------------------
(* The lock as a single flight, until more than a refusal goes wrong.       *)

\* Until a lock has failed or a process was killed, who creates has the lock.
LEMMA HolderStep ==
  ASSUME ~spoilt', IInv, NewestCached, [Next]_vars,
         NEW q \in Process, pc'[q] \in Creating
  PROVE  /\ lock' = q
         /\ \/ pc[q] = "recheck" /\ SlowMiss(q)
            \/ pc[q] \in Creating /\ lock = q
<1> USE DEF IInv, TypeOK, Creating, Locked
<1>1. pc[q] \in Creating \/ SlowMiss(q)
  BY DEF Next, vars, Step, Call, FastHit, FastMiss, Lock, LockFails, Reread, SlowHit,
     SlowMiss, ProxyGrants, ProxyRefuses, ReplyLost, ReplyArrives, AfterReturn,
     Truncate, Write, SaveFails, Unlock, Exit, Crash, Gone, InvalidateSession, Tick
<1>2. SlowMiss(q) => pc[q] = "recheck"
  BY DEF SlowMiss
<1>3. lock = q
  BY <1>1, <1>2 DEF NewestCached, LockDiscipline
<1>4. lock' = q
  BY <1>1, <1>3, ProcessAssumption
     DEF Next, vars, Step, Call, FastHit, FastMiss, Lock, LockFails, Reread, SlowHit,
     SlowMiss, ProxyGrants, ProxyRefuses, ReplyLost, ReplyArrives, AfterReturn,
     Truncate, Write, SaveFails, Unlock, Exit, Crash, Gone, InvalidateSession, Tick,
     LockDiscipline
<1>5. QED
  BY <1>1, <1>2, <1>3, <1>4

\* The newest session stays in the file until the next one is made, and that
\* one stays with its creator until it is in the file.
LEMMA NewestStep ==
  ASSUME ~spoilt', IInv, IInv', NewestCached, [Next]_vars
  PROVE  NewestCached'
<1> USE DEF IInv, TypeOK
<1>h. \A p \in Process : pc'[p] \in Creating => lock' = p
  BY HolderStep
<1>u. \A p, q \in Process : pc[p] \in InHand /\ pc[q] \in InHand => p = q
  BY DEF NewestCached, Creating, InHand
<1>l. Len(sessions) \in Nat /\ (sessions = << >> <=> Len(sessions) = 0)
  OBVIOUS
<1>1. ASSUME NEW p \in Process, ProxyGrants(p) PROVE NewestCached'
  <2>1. pc' = [pc EXCEPT ![p] = "reply"] /\ got' = [got EXCEPT ![p] = Len(sessions')]
    BY <1>1 DEF ProxyGrants
  <2>2. \A q \in Process : pc'[q] \in InHand => q = p
    BY <1>h, <2>1 DEF InHand, Creating
  <2>3. \A q \in Process : pc'[q] \in InHand => got'[q] = Len(sessions')
    BY <2>1, <2>2
  <2>4. \A q \in Process : pc'[q] # "write"
    BY <2>1, <2>2 DEF InHand
  <2>5. pc'[p] \in InHand
    BY <2>1 DEF InHand
  <2>6. QED
    BY <1>h, <2>3, <2>4, <2>5 DEF NewestCached
<1>2. ASSUME NEW p \in Process, Truncate(p) PROVE NewestCached'
  <2>1. /\ pc[p] \in InHand /\ pc'[p] \in InHand
        /\ file' = Torn /\ sessions' = sessions /\ got' = got
        /\ \A q \in Process : pc'[q] \in InHand => pc[q] \in InHand
    BY <1>2 DEF Truncate, InHand
  <2>2. QED
    BY <1>h, <2>1 DEF NewestCached
<1>3. ASSUME NEW p \in Process, Write(p) PROVE NewestCached'
  <2>1. /\ file = Torn /\ got[p] = Len(sessions) /\ file' = Holding(Len(sessions))
        /\ sessions' = sessions /\ got' = got
    BY <1>3 DEF Write, NewestCached, InHand, Torn, Absent
  <2>2. \A q \in Process : pc'[q] \in InHand => q = p
    BY <1>3, <1>u DEF Write, InHand
  <2>3. \A q \in Process : pc'[q] \notin InHand
    BY <1>3, <2>2 DEF Write, InHand
  <2>4. QED
    BY <1>h, <2>1, <2>3 DEF NewestCached, InHand
<1>4. ASSUME NEW p \in Process, ReplyArrives(p) PROVE NewestCached'
  <2>1. lock = p
    BY <1>4 DEF ReplyArrives, NewestCached, Creating
  <2>2. /\ pc[p] \in InHand /\ pc'[p] = "truncate"
        /\ file' = file /\ sessions' = sessions /\ got' = got
        /\ \A q \in Process : q # p => pc'[q] = pc[q]
    BY <1>4, <2>1 DEF ReplyArrives, InHand
  <2>3. QED
    BY <1>h, <2>2 DEF NewestCached, InHand
<1>5. ASSUME ~\E p \in Process :
                ProxyGrants(p) \/ Truncate(p) \/ Write(p) \/ ReplyArrives(p)
      PROVE  NewestCached'
  <2>1. file' = file /\ sessions' = sessions
    BY <1>5
       DEF Next, vars, Step, Call, FastHit, FastMiss, Lock, LockFails, Reread, SlowHit,
       SlowMiss, ProxyRefuses, ReplyLost, SaveFails, Unlock, Exit, Crash, Gone,
       InvalidateSession, Tick
  <2>2. \A q \in Process : pc[q] \in InHand => pc'[q] = pc[q] /\ got'[q] = got[q]
    BY <1>5
       DEF Next, vars, Step, Call, FastHit, FastMiss, Lock, LockFails, Reread, SlowHit,
       SlowMiss, ProxyRefuses, ReplyLost, SaveFails, Unlock, Exit, Crash, Gone,
       InvalidateSession, Tick, InHand
  <2>3. \A q \in Process : pc'[q] \in InHand => pc[q] = pc'[q]
    BY <1>5
       DEF Next, vars, Step, Call, FastHit, FastMiss, Lock, LockFails, Reread, SlowHit,
       SlowMiss, ProxyRefuses, ReplyLost, AfterReturn, SaveFails, Unlock, Exit, Crash,
       Gone, InvalidateSession, Tick, InHand
  <2>4. QED
    BY <1>h, <2>1, <2>2, <2>3 DEF NewestCached, InHand
<1>6. QED
  BY <1>1, <1>2, <1>3, <1>4, <1>5

\* The file holds the newest session whenever the lock holder looks for one to
\* use, so that what it finds unusable is the newest.
LEMMA NewestSuffices == IInv /\ (~spoilt => NewestCached) => NoSpareSession
<1> SUFFICES ASSUME IInv, NewestCached, NEW p \in Process, pc[p] = "request",
                    sessions # << >>
             PROVE  ~Serves(sessions[Len(sessions)], req[p], now)
  BY DEF NoSpareSession
<1>1. lock = p
  BY DEF NewestCached, Creating
<1>2. file = Holding(Len(sessions))
  BY <1>1 DEF NewestCached, InHand, Creating
<1>3. ~Usable(file, req[p])
  BY <1>1 DEF IInv, CreatesOnlyWhenUnusable, Creating
<1>4. QED
  BY <1>2, <1>3 DEF Usable, Holding

\* What has gone wrong cannot be undone.
LEMMA SpoiltStays == IInv /\ [Next]_vars /\ spoilt => spoilt'
BY DEF Next, vars, Step, Call, FastHit, FastMiss, Lock, LockFails, Reread, SlowHit,
       SlowMiss, ProxyGrants, ProxyRefuses, ReplyLost, ReplyArrives, Truncate, Write,
       SaveFails, Unlock, Exit, Crash, Gone, InvalidateSession, Tick

\* acquireLock does what the comment above GetOrCreateSession says it is for:
\* until a lock, a save or an answer of the proxy has failed, somebody has logged
\* out or a process was killed, no process asks for a session while the newest
\* one made for anybody would serve it.
THEOREM LockSparesSessions == Spec => []NoSpareSession
<1>1. Init => NewestCached
  BY DEF Init, NewestCached, Creating, InHand
<1>2. IInv /\ IInv' /\ (~spoilt => NewestCached) /\ [Next]_vars => (~spoilt' => NewestCached')
  BY NewestStep, SpoiltStays
<1>3. QED
  BY <1>1, <1>2, IInvHolds, NewestSuffices, PTL DEF Spec

-----------------------------------------------------------------------------
(* SessionCache implements SessionService.                                 *)

\* What the caller of p has been told, as SessionService sees it.
Told ==
  [p \in Process |-> IF pc[p] = "idle" THEN "idle"
                     ELSE IF result[p] = "none" THEN "waiting" ELSE result[p]]

LEMMA ServiceInit == Init => Service!Init
<1> SUFFICES ASSUME Init PROVE Service!Init
  OBVIOUS
<1>1. SomeRequest = Service!SomeRequest
  BY DEF SomeRequest, Service!SomeRequest
<1>2. Told = [p \in Process |-> "idle"]
  BY DEF Init, Told
<1>3. QED
  BY <1>1, <1>2 DEF Init, Service!Init, Told

LEMMA ServiceStep == IInv /\ [Next]_vars => [Service!Next]_(Service!vars)
<1> SUFFICES ASSUME IInv, [Next]_vars PROVE Service!Next \/ UNCHANGED Service!vars
  OBVIOUS
<1> USE DEF Service!vars, IInv
<1>1. ASSUME NEW p \in Process, Call(p) PROVE Service!Next
  <2>1. Told[p] = "idle" /\ Told' = [Told EXCEPT ![p] = "waiting"]
    BY <1>1 DEF Call, Told, CallState, TypeOK
  <2>2. Service!Ask(p)
    BY <1>1, <2>1 DEF Service!Ask, Call, Told
  <2>3. QED
    BY <2>2 DEF Service!Next
<1>2. ASSUME NEW p \in Process, FastHit(p) \/ SlowHit(p) PROVE Service!Next
  <2>1. /\ Told[p] = "waiting" /\ got[p] = 0
        /\ Told' = [Told EXCEPT ![p] = "reused"]
    BY <1>2 DEF FastHit, SlowHit, Told, CallState, TypeOK
  <2>2. seen[p] \in FileContent /\ seen[p].kind = "session"
    BY <1>2 DEF TypeOK, FastHit, SlowHit, Usable
  <2>3. seen[p].id \in 1..Len(sessions)
    BY <2>2 DEF FileContent, Absent, Torn, Holding
  <2>4. Service!Serves(sessions[seen[p].id], req[p], now)
    BY <1>2 DEF FastHit, SlowHit, Usable, Serves, Service!Serves, Matches,
       Service!Matches, IsExpired, Service!IsExpired, NeedsRefresh,
       Service!NeedsRefresh, Covers, Service!Covers
  <2>5. Service!Reuse(p)
    BY <1>2, <2>1, <2>3, <2>4 DEF Service!Reuse, FastHit, SlowHit, Told
  <2>6. QED
    BY <2>5 DEF Service!Next
<1>3. ASSUME NEW p \in Process,
             \/ FastMiss(p) \/ SlowMiss(p) \/ Lock(p) \/ LockFails(p) \/ Reread(p)
             \/ Truncate(p) \/ Write(p) \/ SaveFails(p) \/ Unlock(p)
      PROVE  UNCHANGED Service!vars
  <2>1. Told' = Told
    BY <1>3 DEF FastMiss, SlowMiss, Lock, LockFails, Reread, Truncate, Write,
       SaveFails, Unlock, Told, TypeOK
  <2>2. QED
    BY <1>3, <2>1 DEF FastMiss, SlowMiss, Lock, LockFails, Reread, Truncate, Write,
       SaveFails, Unlock, Told
<1>4. ASSUME NEW p \in Process, ProxyGrants(p) PROVE Service!Next
  <2>1. Told[p] = "waiting" /\ got[p] = 0 /\ Told' = Told
    BY <1>4 DEF ProxyGrants, Told, CallState, TypeOK
  <2>2. \E a \in Reply : sessions' = Append(sessions, Service!Granted(req[p], a, now))
    BY <1>4 DEF ProxyGrants, Granted, Service!Granted
  <2>3. Service!Open(p)
    BY <1>4, <2>1, <2>2 DEF Service!Open, ProxyGrants, Told
  <2>4. QED
    BY <2>3 DEF Service!Next
<1>5. ASSUME NEW p \in Process, ReplyArrives(p) PROVE Service!Next
  <2>1. /\ Told[p] = "waiting" /\ got[p] # 0
        /\ Told' = [Told EXCEPT ![p] = "created"]
    BY <1>5 DEF ReplyArrives, Told, CallState, TypeOK
  <2>2. Service!Deliver(p)
    BY <1>5, <2>1 DEF Service!Deliver, ReplyArrives, Told
  <2>3. QED
    BY <2>2 DEF Service!Next
<1>6. ASSUME NEW p \in Process, ProxyRefuses(p) \/ ReplyLost(p) PROVE Service!Next
  <2>1. Told[p] = "waiting" /\ Told' = [Told EXCEPT ![p] = "error"]
    BY <1>6 DEF ProxyRefuses, ReplyLost, AfterReturn, Told, CallState, TypeOK
  <2>2. got' = [got EXCEPT ![p] = 0]
    BY <1>6 DEF ProxyRefuses, ReplyLost, CallState, TypeOK
  <2>3. Service!Fail(p)
    BY <1>6, <2>1, <2>2 DEF Service!Fail, ProxyRefuses, ReplyLost, Told
  <2>4. QED
    BY <2>3 DEF Service!Next
<1>7. ASSUME NEW p \in Process, Exit(p) \/ Crash(p) PROVE Service!Next
  <2>1. Told[p] # "idle" /\ Told' = [Told EXCEPT ![p] = "idle"]
    BY <1>7 DEF Exit, Crash, Gone, Told, CallState, TypeOK
  <2>2. SomeRequest = Service!SomeRequest
    BY DEF SomeRequest, Service!SomeRequest
  <2>3. Service!Leave(p)
    BY <1>7, <2>1, <2>2 DEF Service!Leave, Exit, Crash, Gone, Told
  <2>4. QED
    BY <2>3 DEF Service!Next
<1>8. CASE Tick
  BY <1>8 DEF Tick, Service!Next, Service!Tick
<1>9. CASE InvalidateSession \/ UNCHANGED vars
  BY <1>9 DEF InvalidateSession, vars
<1>10. QED
  BY <1>1, <1>2, <1>3, <1>4, <1>5, <1>6, <1>7, <1>8, <1>9 DEF Next, Step

\* GetOrCreateSession implements SessionService: with the file, the lock and
\* every fault, a caller is given a session that serves its request when it is
\* chosen, or the one session created by and for its own call, or an error.
THEOREM ImplementsService == Spec => ServiceSpec
<1>1. IInv /\ [Next]_vars => [Service!Next]_(Service!vars)
  BY ServiceStep
<1>2. QED
  BY <1>1, ServiceInit, IInvHolds, PTL DEF Spec, ServiceSpec, Service!Spec
=============================================================================
