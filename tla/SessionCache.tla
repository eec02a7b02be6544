---------------------------- MODULE SessionCache ----------------------------
(***************************************************************************)
(* The session cache of internal/session: CLI processes that share         *)
(* ~/.mump2p/session.json and serialise its refreshes with an flock on     *)
(* ~/.mump2p/session.lock.                                                 *)
(*                                                                         *)
(* Every process runs GetOrCreateSession once: it reads the file without   *)
(* the lock and uses what it finds if that serves its request; otherwise   *)
(* it takes the lock, looks again, asks the proxy for a new session and    *)
(* overwrites the file.  Other processes, `mump2p logout` and the clock    *)
(* move between any two of these steps.                                    *)
(***************************************************************************)
EXTENDS SessionTypes

CONSTANTS
  Process,    \* the CLI processes
  NoProcess,  \* who holds the lock when nobody does
  Fault,      \* what may go wrong: a subset of FaultKind
  MaxCalls,   \* bound: calls of GetOrCreateSession in a behaviour
  MaxTime     \* bound: the last moment of the clock

FaultKind == {"lock", "refuse", "lose", "save", "crash", "logout"}

ASSUME ProcessAssumption == NoProcess \notin Process
ASSUME FaultAssumption == Fault \subseteq FaultKind
ASSUME BoundAssumption == MaxCalls \in Nat /\ MaxTime \in Nat

VARIABLES
  now,       \* the time
  sessions,  \* the sessions the proxy has created, in order
  file,      \* what session.json holds
  lock,      \* the process that holds the flock
  pc,        \* pc[p]: where p is in GetOrCreateSession
  req,       \* req[p]: its arguments
  seen,      \* seen[p]: what p's loadCached read, until p has judged it
  got,       \* got[p]: the session p holds (its index in sessions), 0 if none
  result,    \* result[p]: what the call returns, once that is settled
  calls,     \* calls so far
  spoilt     \* something has gone wrong that may cost a session: all but a
             \* refusal of the proxy

vars == <<now, sessions, file, lock, pc, req, seen, got, result, calls, spoilt>>

\* session.json does not exist; it is empty or cut short, so that it does not
\* parse; or it holds session number i.
Absent == [kind |-> "absent", id |-> 0]
Torn == [kind |-> "torn", id |-> 0]
Holding(i) == [kind |-> "session", id |-> i]

\* Mutant of Usable: the dates and the number of nodes are not looked at.
UsableStale(f, r) == f.kind = "session" /\ Matches(sessions[f.id].req, r)

\* loadCached succeeds on content f and isUsable accepts what it returns.
Usable(f, r) == f.kind = "session" /\ Serves(sessions[f.id], r, now)

Label == {"idle", "check", "lock", "reread", "recheck", "request", "reply",
          "truncate", "write", "unlock", "done"}

Init ==
  /\ now = 0
  /\ sessions = << >>
  /\ file = Absent
  /\ lock = NoProcess
  /\ pc = [p \in Process |-> "idle"]
  /\ req = [p \in Process |-> SomeRequest]
  /\ seen = [p \in Process |-> Absent]
  /\ got = [p \in Process |-> 0]
  /\ result = [p \in Process |-> "none"]
  /\ calls = 0
  /\ spoilt = FALSE

-----------------------------------------------------------------------------
(* The fast path, without the lock.                                        *)

\* A process starts, and its first step is to read the file.
Call(p) ==
  /\ pc[p] = "idle" /\ calls < MaxCalls
  /\ calls' = calls + 1
  /\ \E r \in Request : req' = [req EXCEPT ![p] = r]
  /\ seen' = [seen EXCEPT ![p] = file]
  /\ pc' = [pc EXCEPT ![p] = "check"]
  /\ UNCHANGED <<now, sessions, file, lock, got, result, spoilt>>

FastHit(p) ==
  /\ pc[p] = "check" /\ Usable(seen[p], req[p])
  /\ got' = [got EXCEPT ![p] = seen[p].id]
  /\ result' = [result EXCEPT ![p] = "reused"]
  /\ seen' = [seen EXCEPT ![p] = Absent]
  /\ pc' = [pc EXCEPT ![p] = "done"]
  /\ UNCHANGED <<now, sessions, file, lock, req, calls, spoilt>>

FastMiss(p) ==
  /\ pc[p] = "check" /\ ~Usable(seen[p], req[p])
  /\ seen' = [seen EXCEPT ![p] = Absent]
  /\ pc' = [pc EXCEPT ![p] = "lock"]
  /\ UNCHANGED <<now, sessions, file, lock, req, got, result, calls, spoilt>>

-----------------------------------------------------------------------------
(* The slow path.                                                          *)

\* Mutant of Lock: a shared lock, which does not wait for its holders.
LockShared(p) ==
  /\ pc[p] = "lock"
  /\ lock' = p
  /\ pc' = [pc EXCEPT ![p] = "reread"]
  /\ UNCHANGED <<now, sessions, file, req, seen, got, result, calls, spoilt>>

\* flock(LOCK_EX) returns.
Lock(p) ==
  /\ pc[p] = "lock" /\ lock = NoProcess
  /\ lock' = p
  /\ pc' = [pc EXCEPT ![p] = "reread"]
  /\ UNCHANGED <<now, sessions, file, req, seen, got, result, calls, spoilt>>

\* The lock file cannot be opened or locked: go on without lock and cache.
LockFails(p) ==
  /\ "lock" \in Fault
  /\ pc[p] = "lock"
  /\ pc' = [pc EXCEPT ![p] = "request"]
  /\ spoilt' = TRUE
  /\ UNCHANGED <<now, sessions, file, lock, req, seen, got, result, calls>>

Reread(p) ==
  /\ pc[p] = "reread"
  /\ seen' = [seen EXCEPT ![p] = file]
  /\ pc' = [pc EXCEPT ![p] = "recheck"]
  /\ UNCHANGED <<now, sessions, file, lock, req, got, result, calls, spoilt>>

\* Another process has refreshed the file meanwhile.
SlowHit(p) ==
  /\ pc[p] = "recheck" /\ Usable(seen[p], req[p])
  /\ got' = [got EXCEPT ![p] = seen[p].id]
  /\ result' = [result EXCEPT ![p] = "reused"]
  /\ seen' = [seen EXCEPT ![p] = Absent]
  /\ pc' = [pc EXCEPT ![p] = "unlock"]
  /\ UNCHANGED <<now, sessions, file, lock, req, calls, spoilt>>

\* Mutant of SlowMiss: no second look at the cache under the lock.
SlowMissAlways(p) ==
  /\ pc[p] = "recheck"
  /\ seen' = [seen EXCEPT ![p] = Absent]
  /\ pc' = [pc EXCEPT ![p] = "request"]
  /\ UNCHANGED <<now, sessions, file, lock, req, got, result, calls, spoilt>>

SlowMiss(p) ==
  /\ pc[p] = "recheck" /\ ~Usable(seen[p], req[p])
  /\ seen' = [seen EXCEPT ![p] = Absent]
  /\ pc' = [pc EXCEPT ![p] = "request"]
  /\ UNCHANGED <<now, sessions, file, lock, req, got, result, calls, spoilt>>

-----------------------------------------------------------------------------
(* CreateSession, and what follows it.  The deferred releaseLock runs on   *)
(* every return of a process that took the lock.                           *)

\* Mutant of AfterReturn: the lock is not released when the call fails.
AfterReturnLocked(p) == "done"

AfterReturn(p) == IF lock = p THEN "unlock" ELSE "done"

\* The proxy creates a session and its answer is on the way.
ProxyGrants(p) ==
  /\ pc[p] = "request"
  /\ \E a \in Reply : sessions' = Append(sessions, Granted(req[p], a, now))
  /\ got' = [got EXCEPT ![p] = Len(sessions')]
  /\ pc' = [pc EXCEPT ![p] = "reply"]
  /\ UNCHANGED <<now, file, lock, req, seen, result, calls, spoilt>>

\* Mutant of ProxyRefuses: the error is not looked at before the save.
RefusalCached(p) ==
  /\ "refuse" \in Fault
  /\ pc[p] = "request"
  /\ result' = [result EXCEPT ![p] = "error"]
  /\ pc' = [pc EXCEPT ![p] = IF lock = p THEN "truncate" ELSE "done"]
  /\ UNCHANGED <<now, sessions, file, lock, req, seen, got, calls, spoilt>>

\* The proxy is not reached, or answers an error or no nodes.
ProxyRefuses(p) ==
  /\ "refuse" \in Fault
  /\ pc[p] = "request"
  /\ result' = [result EXCEPT ![p] = "error"]
  /\ pc' = [pc EXCEPT ![p] = AfterReturn(p)]
  /\ UNCHANGED <<now, sessions, file, lock, req, seen, got, calls, spoilt>>

\* The answer does not arrive within the ten seconds of the HTTP client, or
\* arrives damaged.
ReplyLost(p) ==
  /\ "lose" \in Fault
  /\ pc[p] = "reply"
  /\ got' = [got EXCEPT ![p] = 0]
  /\ result' = [result EXCEPT ![p] = "error"]
  /\ pc' = [pc EXCEPT ![p] = AfterReturn(p)]
  /\ spoilt' = TRUE
  /\ UNCHANGED <<now, sessions, file, lock, req, seen, calls>>

\* Mutant of ReplyArrives: the lock is released before the session is saved.
ReplyUnlocks(p) ==
  /\ pc[p] = "reply"
  /\ result' = [result EXCEPT ![p] = "created"]
  /\ pc' = [pc EXCEPT ![p] = IF lock = p THEN "truncate" ELSE "done"]
  /\ lock' = IF lock = p THEN NoProcess ELSE lock
  /\ UNCHANGED <<now, sessions, file, req, seen, got, calls, spoilt>>

\* With the lock the session goes to the cache first, without it the call
\* returns at once.
ReplyArrives(p) ==
  /\ pc[p] = "reply"
  /\ result' = [result EXCEPT ![p] = "created"]
  /\ pc' = [pc EXCEPT ![p] = IF lock = p THEN "truncate" ELSE "done"]
  /\ UNCHANGED <<now, sessions, file, lock, req, seen, got, calls, spoilt>>

\* os.WriteFile opens the file with O_CREATE and O_TRUNC ...
Truncate(p) ==
  /\ pc[p] = "truncate"
  /\ file' = Torn
  /\ pc' = [pc EXCEPT ![p] = "write"]
  /\ UNCHANGED <<now, sessions, lock, req, seen, got, result, calls, spoilt>>

\* ... and writes the content; if the file has been removed since, the
\* content goes to an inode without a name.
Write(p) ==
  /\ pc[p] = "write"
  /\ file' = IF file = Absent THEN Absent ELSE Holding(got[p])
  /\ pc' = [pc EXCEPT ![p] = "unlock"]
  /\ UNCHANGED <<now, sessions, lock, req, seen, got, result, calls, spoilt>>

\* Mutant of SaveFails: a failed save returns without releasing the lock.
SaveFailsLocked(p) ==
  /\ "save" \in Fault
  /\ pc[p] \in {"truncate", "write"}
  /\ pc' = [pc EXCEPT ![p] = "done"]
  /\ spoilt' = TRUE
  /\ UNCHANGED <<now, sessions, file, lock, req, seen, got, result, calls>>

\* saveCached fails at the open, which leaves the file as it is, or at the
\* write, which leaves it cut short; the caller only prints a warning.
SaveFails(p) ==
  /\ "save" \in Fault
  /\ pc[p] \in {"truncate", "write"}
  /\ pc' = [pc EXCEPT ![p] = "unlock"]
  /\ spoilt' = TRUE
  /\ UNCHANGED <<now, sessions, file, lock, req, seen, got, result, calls>>

Unlock(p) ==
  /\ pc[p] = "unlock"
  /\ lock' = NoProcess
  /\ pc' = [pc EXCEPT ![p] = "done"]
  /\ UNCHANGED <<now, sessions, file, req, seen, got, result, calls, spoilt>>

-----------------------------------------------------------------------------
(* The end of a process, and the environment.                              *)

\* The slot p is free for another process, which remembers nothing.
Gone(p) ==
  /\ pc' = [pc EXCEPT ![p] = "idle"]
  /\ req' = [req EXCEPT ![p] = SomeRequest]
  /\ seen' = [seen EXCEPT ![p] = Absent]
  /\ got' = [got EXCEPT ![p] = 0]
  /\ result' = [result EXCEPT ![p] = "none"]
  /\ UNCHANGED <<now, sessions, file, calls>>

\* The caller has used its session and the process exits.
Exit(p) ==
  /\ pc[p] = "done"
  /\ UNCHANGED <<lock, spoilt>>
  /\ Gone(p)

\* The process is killed; the kernel drops its flock, the file stays as it is.
Crash(p) ==
  /\ "crash" \in Fault
  /\ pc[p] \notin {"idle", "done"}
  /\ lock' = IF lock = p THEN NoProcess ELSE lock
  /\ spoilt' = TRUE
  /\ Gone(p)

\* `mump2p logout` removes the file, without the lock.
InvalidateSession ==
  /\ "logout" \in Fault
  /\ file # Absent
  /\ file' = Absent
  /\ spoilt' = TRUE
  /\ UNCHANGED <<now, sessions, lock, pc, req, seen, got, result, calls>>

Tick ==
  /\ now < MaxTime
  /\ now' = now + 1
  /\ UNCHANGED <<sessions, file, lock, pc, req, seen, got, result, calls, spoilt>>

-----------------------------------------------------------------------------

\* The steps of GetOrCreateSession that a process takes once it has begun.
Step(p) ==
  \/ FastHit(p) \/ FastMiss(p)
  \/ Lock(p) \/ Reread(p) \/ SlowHit(p) \/ SlowMiss(p)
  \/ ProxyGrants(p) \/ ProxyRefuses(p) \/ ReplyLost(p) \/ ReplyArrives(p)
  \/ Truncate(p) \/ Write(p) \/ SaveFails(p) \/ Unlock(p)

Next ==
  \/ \E p \in Process : Call(p) \/ Step(p) \/ LockFails(p) \/ Exit(p) \/ Crash(p)
  \/ InvalidateSession
  \/ Tick

Spec == Init /\ [][Next]_vars

\* A process that runs goes on, a request is answered or times out after ten
\* seconds, and flock serves its waiters in the order of their arrival.
Fairness ==
  \A p \in Process : WF_vars(Step(p)) /\ SF_vars(Lock(p))

-----------------------------------------------------------------------------
(* Properties.                                                             *)

FileContent == {Absent, Torn} \cup {Holding(i) : i \in 1..Len(sessions)}

\* Types: every session the file, a process's memory or a result refers to is
\* one the proxy has created.
TypeOK ==
  /\ now \in Nat
  /\ sessions \in Seq(Session)
  /\ file \in FileContent
  /\ lock \in Process \cup {NoProcess}
  /\ pc \in [Process -> Label]
  /\ req \in [Process -> Request]
  /\ seen \in [Process -> FileContent]
  /\ got \in [Process -> 0..Len(sessions)]
  /\ result \in [Process -> {"none", "reused", "created", "error"}]
  /\ calls \in Nat
  /\ spoilt \in BOOLEAN

\* The places from which a process that took the lock returns only through
\* the deferred releaseLock, and those it may reach without the lock.
Locked == {"reread", "recheck", "truncate", "write", "unlock"}
Creating == {"request", "reply", "truncate", "write"}

\* The flock is held exactly by the process between acquireLock and
\* releaseLock: no two processes refresh the file at a time, and no return
\* path, error paths included, leaves the lock behind.
LockDiscipline ==
  /\ \A p \in Process : pc[p] \in Locked => lock = p
  /\ lock # NoProcess => pc[lock] \in Locked \cup Creating

\* A process that holds the lock asks the proxy, and overwrites the file, only
\* while the file holds nothing that would serve its request: the check under
\* the lock stays valid until the new session is in the file, whatever other
\* processes, the clock and logout do meanwhile.
CreatesOnlyWhenUnusable ==
  \A p \in Process :
     lock = p /\ pc[p] \in Creating => ~Usable(file, req[p])

\* The cache never goes back: the session a process is about to put into the
\* file was created later than the one the file holds.
InstallsNewer ==
  \A p \in Process : pc[p] \in {"truncate", "write"} => got[p] > file.id

\* The lock is there "to prevent concurrent processes from each creating
\* separate sessions" (store.go:158): as long as nothing but the proxy's
\* refusals has gone wrong, a process asks for a session only if the newest one
\* the proxy has made for anybody, in the file or not yet, would not serve it.
NoSpareSession ==
  ~spoilt =>
    \A p \in Process :
       pc[p] = "request" /\ sessions # << >> =>
         ~Serves(sessions[Len(sessions)], req[p], now)

\* GetOrCreateSession keeps the promise of SessionService: a reused session
\* serves the request at the moment it is chosen, a created one was created
\* by this call and for its request, and a call creates one at most.
Service ==
  INSTANCE SessionService WITH
    answer <- [p \in Process |->
                 IF pc[p] = "idle" THEN "idle"
                 ELSE IF result[p] = "none" THEN "waiting" ELSE result[p]]

ServiceSpec == Service!Spec

\* A call of GetOrCreateSession ends, however the lock, the proxy and the disk
\* behave.
EveryCallReturns == \A p \in Process : pc[p] # "idle" ~> pc[p] \in {"done", "idle"}

\* Two sessions are not created where one would do: as long as all calls make
\* the same request, a new session is created only when the dates of all
\* earlier ones have passed.
NoTwinSession ==
  [][Len(sessions') > Len(sessions) =>
       \A i \in 1..Len(sessions) :
          IsExpired(sessions[i], now) \/ NeedsRefresh(sessions[i], now)]_vars

-----------------------------------------------------------------------------
(* The inductive invariant behind the safety properties.                   *)

\* How far a call has come, and what it holds by then.
CallState ==
  \A p \in Process :
    /\ pc[p] \in {"idle", "check", "lock", "reread", "recheck", "request"} =>
         got[p] = 0 /\ result[p] = "none"
    /\ pc[p] = "reply" => got[p] # 0 /\ result[p] = "none"
    /\ pc[p] \in {"truncate", "write"} => got[p] # 0 /\ result[p] = "created"
    /\ pc[p] \in {"unlock", "done"} => result[p] # "none"

\* What was read under the lock is still in the file, unless logout removed it.
RecheckCurrent ==
  \A p \in Process : pc[p] = "recheck" => file = Absent \/ file = seen[p]

\* InstallsNewer, already while the answer of the proxy is on its way.
PendingNewer ==
  \A p \in Process :
    lock = p /\ pc[p] \in {"reply", "truncate", "write"} => got[p] > file.id

IInv ==
  /\ TypeOK
  /\ CallState
  /\ LockDiscipline
  /\ RecheckCurrent
  /\ CreatesOnlyWhenUnusable
  /\ PendingNewer

\* Where only refusals have gone wrong: who creates holds the lock, and the newest
\* session of all is in the file or in the hands of that process, which is on
\* its way to put it there.
InHand == {"reply", "truncate", "write"}

NewestCached ==
  /\ \A p \in Process : pc[p] \in Creating => lock = p
  /\ \A p \in Process : pc[p] \in InHand => got[p] = Len(sessions)
  /\ \A p \in Process : pc[p] = "write" => file = Torn
  /\ \/ sessions = << >>
     \/ file = Holding(Len(sessions))
     \/ \E p \in Process : pc[p] \in InHand
=============================================================================
