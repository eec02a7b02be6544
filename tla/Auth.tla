--------------------------------- MODULE Auth ---------------------------------
(***************************************************************************)
(* The stored token and the commands that use it: internal/auth with the   *)
(* login, logout and refresh commands of cmd/auth.go.                      *)
(*                                                                         *)
(* publish, subscribe, list, usage and the tracer call GetValidToken       *)
(* ("use"), which refreshes a token that is about to expire; refresh does  *)
(* so always; login polls the authority until the user has confirmed the   *)
(* device code.  All of them, each in a process of its own, share one file *)
(* that is read, truncated, written and removed without any lock.          *)
(***************************************************************************)
EXTENDS Integers, Sequences

CONSTANTS
  Process,   \* the places, say terminals, in which processes run one by one
  Grant,     \* what the authority may grant: [life, refresh], the seconds the
             \* token lasts and whether a refresh token comes with it
  Device,    \* device codes: [interval, life], in units of the clock
  Buffer,    \* the five minutes before expiry in which a token is refreshed
  Fault,     \* what may go wrong: a subset of FaultKind
  MaxCalls,  \* bound: commands in a behaviour
  MaxTime    \* bound: the last moment of the clock

FaultKind == {"save", "crash"}

ASSUME GrantAssumption == \A g \in Grant : g.life \in Nat /\ g.refresh \in BOOLEAN
ASSUME DeviceAssumption == \A d \in Device : d.interval \in Nat /\ d.life \in Nat
ASSUME BoundAssumption ==
  /\ Buffer \in Nat /\ Fault \subseteq FaultKind
  /\ MaxCalls \in Nat /\ MaxTime \in Nat

VARIABLES
  now,        \* the time
  file,       \* what the token file holds
  pc,         \* pc[p]: where p is
  command,    \* command[p]: what p was started for
  token,      \* token[p]: the token p has loaded
  grant,      \* grant[p]: the token the authority has granted to p
  result,     \* result[p]: how the last command ended: with a token, or Failed
  poll,       \* poll[p]: [base, interval, timeout, wake] of the loop of a login:
              \* the interval of the device code, that of the loop, the end of
              \* the code and the end of the sleep
  orphaned,   \* the processes whose open file has been removed by a logout
  calls,      \* commands so far
  logins,     \* logins the authority has granted
  current,    \* the login whose token was saved last, 0 after a logout
  overlapped, \* two commands have been at work at the same time
  polls       \* polls[p]: [at, slowed] of every request of a login, the one for the
              \* device code first; slowed is the number of slow_down answers up
              \* to its own

memoryVars == <<token, grant, poll, polls, orphaned>>
loginVars == <<logins, current>>
vars == <<now, file, pc, command, result, memoryVars, calls, loginVars, overlapped>>

\* StoredToken.  The field login, for the properties only, says by which login
\* its user has authenticated; a refreshed token keeps it.
Token == [kind : {"token"}, login : Nat, refresh : BOOLEAN, expires : Nat]

\* No file, or no token in memory; a file between the two steps of a save, which
\* parses as a token that expired long ago; one that does not parse.
Absent == [kind |-> "absent"]
Empty == [kind |-> "empty"]
Garbled == [kind |-> "garbled"]

\* How a command without a token ends; logout, which needs none, too.
Failed == [kind |-> "failed"]
Done == [kind |-> "done"]

Idle == [base |-> 0, interval |-> 0, timeout |-> 0, wake |-> 0]

\* A user who has never logged in, or one who logged in earlier.
Init ==
  /\ now = 0
  /\ \/ file = Absent /\ logins = 0
     \/ \E g \in Grant :
          /\ file = [kind |-> "token", login |-> 1, refresh |-> g.refresh, expires |-> g.life]
          /\ logins = 1
  /\ current = logins
  /\ pc = [p \in Process |-> "idle"]
  /\ command = [p \in Process |-> "none"]
  /\ token = [p \in Process |-> Absent]
  /\ grant = [p \in Process |-> Absent]
  /\ result = [p \in Process |-> Absent]
  /\ poll = [p \in Process |-> Idle]
  /\ orphaned = {}
  /\ calls = 0
  /\ overlapped = FALSE
  /\ polls = [p \in Process |-> << >>]

AtWork == {p \in Process : pc[p] # "idle"}

Goto(p, label) == pc' = [pc EXCEPT ![p] = label]

\* A process starts command c at label.
Start(p, c, label) ==
  /\ pc[p] = "idle" /\ calls < MaxCalls
  /\ calls' = calls + 1
  /\ command' = [command EXCEPT ![p] = c]
  /\ overlapped' = (overlapped \/ AtWork # {})
  /\ result' = [result EXCEPT ![p] = Absent]
  /\ Goto(p, label)

\* A command that ends at once, without a token.
StartAndEnd(p, r) ==
  /\ pc[p] = "idle" /\ calls < MaxCalls
  /\ calls' = calls + 1
  /\ overlapped' = (overlapped \/ AtWork # {})
  /\ result' = [result EXCEPT ![p] = r]
  /\ UNCHANGED <<pc, command>>

\* The process is over, with result r, and its memory gone.
Finish(p, r) ==
  /\ Goto(p, "idle")
  /\ command' = [command EXCEPT ![p] = "none"]
  /\ result' = [result EXCEPT ![p] = r]
  /\ token' = [token EXCEPT ![p] = Absent]
  /\ grant' = [grant EXCEPT ![p] = Absent]
  /\ poll' = [poll EXCEPT ![p] = Idle]
  /\ polls' = [polls EXCEPT ![p] = << >>]
  /\ orphaned' = orphaned \ {p}
  /\ UNCHANGED <<now, calls, overlapped>>

\* A step within a command.
Within(p, label) ==
  /\ Goto(p, label)
  /\ UNCHANGED <<now, command, result, calls, overlapped>>

-----------------------------------------------------------------------------
(* Loading: LoadToken, in GetValidToken and in the refresh command.        *)

Load(p) ==
  /\ file.kind = "token"
  /\ \E c \in {"use", "refresh"} : Start(p, c, "loaded")
  /\ token' = [token EXCEPT ![p] = file]
  /\ UNCHANGED <<now, file, grant, poll, polls, orphaned, loginVars>>

\* There is no file, or none with a token in it.
LoadFails(p) ==
  /\ file.kind # "token"
  /\ StartAndEnd(p, Failed)
  /\ UNCHANGED <<now, file, memoryVars, loginVars>>

\* LoadToken looks at the clock.
Accept(p) ==
  /\ pc[p] = "loaded" /\ now <= token[p].expires
  /\ Within(p, "accepted")
  /\ UNCHANGED <<file, memoryVars, loginVars>>

Expired(p) ==
  /\ pc[p] = "loaded" /\ now > token[p].expires
  /\ Finish(p, Failed)
  /\ UNCHANGED <<file, loginVars>>

-----------------------------------------------------------------------------
(* Refreshing.                                                             *)

\* GetValidToken: the token lasts beyond the buffer.
Fresh(p) ==
  /\ pc[p] = "accepted" /\ command[p] = "use" /\ token[p].expires - now > Buffer
  /\ Finish(p, token[p])
  /\ UNCHANGED <<file, loginVars>>

\* RefreshToken is called: by GetValidToken near the end of the token, by the
\* refresh command always.
Refresh(p) ==
  /\ pc[p] = "accepted" /\ token[p].refresh
  /\ command[p] = "refresh" \/ token[p].expires - now <= Buffer
  /\ Within(p, "refreshing")
  /\ UNCHANGED <<file, memoryVars, loginVars>>

\* There is no refresh token: the refresh command gives up.
CannotRefresh(p) ==
  /\ pc[p] = "accepted" /\ command[p] = "refresh" /\ ~token[p].refresh
  /\ Finish(p, Failed)
  /\ UNCHANGED <<file, loginVars>>

\* There is none: GetValidToken tries to go on with what it has.
SkipRefresh(p) ==
  /\ pc[p] = "accepted" /\ command[p] = "use" /\ ~token[p].refresh
  /\ token[p].expires - now <= Buffer
  /\ Within(p, "fallback")
  /\ UNCHANGED <<file, memoryVars, loginVars>>

\* The authority answers with a new token, and with a refresh token or without.
Refreshed(p) ==
  /\ pc[p] = "refreshing"
  /\ \E g \in Grant :
       grant' = [grant EXCEPT ![p] = [kind |-> "token", login |-> token[p].login,
                                      refresh |-> g.refresh, expires |-> now + g.life]]
  /\ Within(p, "truncate")
  /\ UNCHANGED <<file, token, poll, polls, orphaned, loginVars>>

\* Mutant of GiveUpRefresh: the error is not looked at before the token is saved.
SavesNothing(p) ==
  /\ pc[p] = "refreshing" /\ command[p] = "refresh"
  /\ Within(p, "truncate")
  /\ UNCHANGED <<file, memoryVars, loginVars>>

\* The request fails, or the authority refuses, or the answer does not parse:
\* the refresh command gives up.
GiveUpRefresh(p) ==
  /\ pc[p] = "refreshing" /\ command[p] = "refresh"
  /\ Finish(p, Failed)
  /\ UNCHANGED <<file, loginVars>>

\* The same in GetValidToken, which goes on.
RefreshFails(p) ==
  /\ pc[p] = "refreshing" /\ command[p] = "use"
  /\ Within(p, "fallback")
  /\ UNCHANGED <<file, memoryVars, loginVars>>

\* Mutant of Fallback: the clock is not looked at again after the request.
FallbackBlind(p) ==
  /\ pc[p] = "fallback"
  /\ Finish(p, token[p])
  /\ UNCHANGED <<file, loginVars>>

\* GetValidToken goes on with the token it has loaded, unless it has expired.
Fallback(p) ==
  /\ pc[p] = "fallback"
  /\ Finish(p, IF now > token[p].expires THEN Failed ELSE token[p])
  /\ UNCHANGED <<file, loginVars>>

-----------------------------------------------------------------------------
(* Login: the device authorization flow.                                   *)

RequestDeviceCode(p) ==
  /\ Start(p, "login", "polling")
  /\ \E d \in Device :
       /\ poll' = [poll EXCEPT ![p] = [base |-> d.interval, interval |-> d.interval,
                                       timeout |-> now + d.life, wake |-> 0]]
       /\ polls' = [polls EXCEPT ![p] = <<[at |-> now, slowed |-> 0]>>]
  /\ UNCHANGED <<now, file, token, grant, orphaned, loginVars>>

DeviceCodeFails(p) ==
  /\ StartAndEnd(p, Failed)
  /\ UNCHANGED <<now, file, memoryVars, loginVars>>

\* The head of the loop of pollForToken, and its time.Sleep.
Sleep(p) ==
  /\ pc[p] = "polling" /\ now < poll[p].timeout
  /\ poll' = [poll EXCEPT ![p].wake = now + poll[p].interval]
  /\ Within(p, "sleeping")
  /\ UNCHANGED <<file, token, grant, polls, orphaned, loginVars>>

TimedOut(p) ==
  /\ pc[p] = "polling" /\ now >= poll[p].timeout
  /\ Finish(p, Failed)
  /\ UNCHANGED <<file, loginVars>>

\* The request for the token is sent.
RequestToken(p) ==
  /\ pc[p] = "sleeping" /\ now >= poll[p].wake
  /\ polls' = [polls EXCEPT ![p] = Append(@, [at |-> now, slowed |-> @[Len(@)].slowed])]
  /\ Within(p, "asking")
  /\ UNCHANGED <<file, token, grant, poll, orphaned, loginVars>>

\* authorization_pending, or an answer that is lost or cannot be read.
Pending(p) ==
  /\ pc[p] = "asking"
  /\ Within(p, "polling")
  /\ UNCHANGED <<file, memoryVars, loginVars>>

\* Mutant of SlowDown: the answer is taken for authorization_pending.
SlowDownIgnored(p) ==
  /\ pc[p] = "asking"
  /\ polls' = [polls EXCEPT ![p][Len(polls[p])].slowed = @ + 1]
  /\ Within(p, "polling")
  /\ UNCHANGED <<file, token, grant, poll, orphaned, loginVars>>

\* The authority answers slow_down, and the loop makes its interval longer.  The
\* answer names no interval: the second that is added is the code's own choice.
SlowDown(p) ==
  /\ pc[p] = "asking"
  /\ poll' = [poll EXCEPT ![p].interval = @ + 1]
  /\ polls' = [polls EXCEPT ![p][Len(polls[p])].slowed = @ + 1]
  /\ Within(p, "polling")
  /\ UNCHANGED <<file, token, grant, orphaned, loginVars>>

\* Any other error, or a token that does not parse.
Denied(p) ==
  /\ pc[p] = "asking"
  /\ Finish(p, Failed)
  /\ UNCHANGED <<file, loginVars>>

\* The user has confirmed the code: the authority grants a token.
Approved(p) ==
  /\ pc[p] = "asking"
  /\ logins' = logins + 1
  /\ \E g \in Grant :
       grant' = [grant EXCEPT ![p] = [kind |-> "token", login |-> logins + 1,
                                      refresh |-> g.refresh, expires |-> now + g.life]]
  /\ Within(p, "truncate")
  /\ UNCHANGED <<file, token, poll, polls, orphaned, current>>

-----------------------------------------------------------------------------
(* SaveToken and RemoveToken.                                              *)

\* os.WriteFile opens the file and empties it.
Truncate(p) ==
  /\ pc[p] = "truncate"
  /\ file' = Empty
  /\ Within(p, "write")
  /\ UNCHANGED <<memoryVars, loginVars>>

\* The directory or the file cannot be made or opened.
SaveFails(p) ==
  /\ "save" \in Fault /\ pc[p] = "truncate"
  /\ Finish(p, Failed)
  /\ UNCHANGED <<file, loginVars>>

\* It then writes the token.  What another process has written since may be
\* longer, and its end remain; and if a logout has removed the file in between,
\* the token is written to a file without a name.
Write(p) ==
  /\ pc[p] = "write"
  /\ \/ /\ p \notin orphaned
        /\ file' = grant[p] \/ (file # Empty /\ file' = Garbled)
        /\ current' = IF command[p] = "login" THEN grant[p].login ELSE current
     \/ p \in orphaned /\ UNCHANGED <<file, current>>
  /\ Finish(p, grant[p])
  /\ UNCHANGED logins

\* The write fails, and may leave a part of the token.
WriteFails(p) ==
  /\ "save" \in Fault /\ pc[p] = "write"
  /\ \/ UNCHANGED file
     \/ p \notin orphaned /\ file' = Garbled
  /\ Finish(p, Failed)
  /\ UNCHANGED loginVars

\* Mutant of Logout: a token is removed only if it could still be used.
LogoutUsable(p) ==
  /\ file # Absent
  /\ StartAndEnd(p, Done)
  /\ file' = IF file.kind = "token" /\ now + Buffer > file.expires THEN file ELSE Absent
  /\ orphaned' = orphaned \cup {q \in Process : pc[q] = "write"}
  /\ current' = 0
  /\ UNCHANGED <<now, token, grant, poll, polls, logins>>

Logout(p) ==
  /\ file # Absent
  /\ StartAndEnd(p, Done)
  /\ file' = Absent
  /\ orphaned' = orphaned \cup {q \in Process : pc[q] = "write"}
  /\ current' = 0
  /\ UNCHANGED <<now, token, grant, poll, polls, logins>>

\* There is nothing to remove, or it cannot be removed.
LogoutFails(p) ==
  /\ file = Absent \/ "save" \in Fault
  /\ StartAndEnd(p, Failed)
  /\ UNCHANGED <<now, file, memoryVars, loginVars>>

-----------------------------------------------------------------------------

Crash(p) ==
  /\ "crash" \in Fault /\ p \in AtWork
  /\ Finish(p, Failed)
  /\ UNCHANGED <<file, loginVars>>

Tick ==
  /\ now < MaxTime
  /\ now' = now + 1
  /\ UNCHANGED <<file, pc, command, result, memoryVars, calls, loginVars, overlapped>>

Loading(p) == Load(p) \/ LoadFails(p) \/ Accept(p) \/ Expired(p)
Refreshing(p) ==
  \/ Fresh(p) \/ Refresh(p) \/ CannotRefresh(p) \/ SkipRefresh(p)
  \/ Refreshed(p) \/ GiveUpRefresh(p) \/ RefreshFails(p) \/ Fallback(p)
Login(p) ==
  \/ RequestDeviceCode(p) \/ DeviceCodeFails(p) \/ Sleep(p) \/ TimedOut(p)
  \/ RequestToken(p) \/ Pending(p) \/ SlowDown(p) \/ Denied(p) \/ Approved(p)
Storing(p) ==
  Truncate(p) \/ SaveFails(p) \/ Write(p) \/ WriteFails(p) \/ Logout(p) \/ LogoutFails(p)

Next ==
  \/ Tick
  \/ \E p \in Process : Loading(p) \/ Refreshing(p) \/ Login(p) \/ Storing(p) \/ Crash(p)

Spec == Init /\ [][Next]_vars

-----------------------------------------------------------------------------
(* Properties.                                                             *)

\* Types; and what a process needs in memory where it is: a token that it has
\* loaded before it refreshes, one it has been granted before it saves.
TypeOK ==
  /\ now \in Nat
  /\ file \in Token \cup {Absent, Empty, Garbled}
  /\ command \in [Process -> {"none", "use", "refresh", "login"}]
  /\ token \in [Process -> Token \cup {Absent}]
  /\ grant \in [Process -> Token \cup {Absent}]
  /\ result \in [Process -> Token \cup {Absent, Failed, Done}]
  /\ poll \in [Process -> [base : Nat, interval : Nat, timeout : Nat, wake : Nat]]
  /\ polls \in [Process -> Seq([at : Nat, slowed : Nat])]
  /\ orphaned \subseteq Process /\ overlapped \in BOOLEAN
  /\ {calls, logins, current} \subseteq Nat
  /\ pc \in [Process -> {"idle", "loaded", "accepted", "refreshing", "fallback", "polling",
                         "sleeping", "asking", "truncate", "write"}]
  /\ \A p \in Process :
       /\ pc[p] \in {"loaded", "accepted", "refreshing", "fallback"} => token[p] \in Token
       /\ pc[p] \in {"truncate", "write"} => grant[p] \in Token
       /\ pc[p] \in {"polling", "sleeping", "asking"} => polls[p] # << >>

\* A command is never given a stored token that has expired by then, however
\* long it has waited for the authority; what else it may be given is the token
\* that the authority has just granted to it.
GivenIsValid ==
  [][\A p \in Process :
       result[p] = Absent /\ result'[p].kind = "token"
         => result'[p] = grant[p] \/ result'[p].expires >= now]_vars

\* Every slow_down answer makes all later pauses of the login longer ("increase
\* interval", client.go:149), whatever answers come between: between two requests
\* there is the interval of the device code and a second more for each of them.
\* And one request at most comes after the device code has expired.  This is what
\* the loop does, not what RFC 8628 asks of it: five seconds for each slow_down.
PollingSlowsDown ==
  \A p \in Process :
    /\ \A k \in 1..(Len(polls[p]) - 1) :
         polls[p][k + 1].at >= polls[p][k].at + poll[p].base + polls[p][k].slowed
    /\ \A k \in 2..(Len(polls[p]) - 1) : polls[p][k].at <= poll[p].timeout

\* What makes that inductive: the interval of the loop counts the slow_down
\* answers, no request lies in the future, and a loop that sleeps has found the
\* device code valid and sleeps long enough.
Paced ==
  \A p \in Process :
    pc[p] \in {"polling", "sleeping", "asking"} =>
      /\ \A k \in 1..Len(polls[p]) : polls[p][k].at <= now
      /\ poll[p].interval = poll[p].base + polls[p][Len(polls[p])].slowed
      /\ pc[p] = "sleeping" =>
           /\ poll[p].wake >= polls[p][Len(polls[p])].at + poll[p].interval
           /\ \A k \in 2..Len(polls[p]) : polls[p][k].at <= poll[p].timeout

PaceInv == TypeOK /\ Paced /\ PollingSlowsDown

\* The token on file is one of the last login.
StoredIsCurrent == file.kind = "token" => file.login = current

\* For a user who runs one command at a time, what is on file is a token of the
\* last login, refreshed or not, and nothing after a logout.
AloneStoredIsCurrent == ~overlapped => StoredIsCurrent

\* What a command works with then, which makes that inductive: it is the only
\* one, its file is not removed, and its token is of the last login unless it
\* is a login itself.
Alone ==
  ~overlapped =>
    /\ \A p, q \in AtWork : p = q
    /\ orphaned = {}
    /\ \A p \in Process :
         /\ pc[p] \in {"loaded", "accepted", "refreshing", "fallback"} => token[p].login = current
         /\ pc[p] \in {"polling", "sleeping", "asking"} => command[p] = "login"
         /\ pc[p] \in {"truncate", "write"} => command[p] = "login" \/ grant[p].login = current

AloneInv == TypeOK /\ Alone /\ AloneStoredIsCurrent

\* After a logout no token is on file until a login has saved one.
LogoutHolds == current = 0 => file.kind # "token"
=============================================================================
