------------------------------ MODULE AuthProofs ------------------------------
(***************************************************************************)
(* Theorems about Auth, for every set of processes, every token the        *)
(* authority may grant, every device code, every fault and every bound.    *)
(***************************************************************************)
EXTENDS Auth, SequenceTheorems, TLAPS

Labels == {"idle", "loaded", "accepted", "refreshing", "fallback", "polling",
           "sleeping", "asking", "truncate", "write"}
Results == Token \cup {Absent, Failed, Done}
Poll == [base : Nat, interval : Nat, timeout : Nat, wake : Nat]
Ask == [at : Nat, slowed : Nat]
Asks == Seq(Ask)

\* What a process needs in memory where it is: the last part of TypeOK.
Holds(p) ==
  /\ pc[p] \in {"loaded", "accepted", "refreshing", "fallback"} => token[p] \in Token
  /\ pc[p] \in {"truncate", "write"} => grant[p] \in Token
  /\ pc[p] \in {"polling", "sleeping", "asking"} => polls[p] # << >>

\* What is no token does not look like one.
LEMMA TokenKinds ==
  /\ Absent.kind # "token" /\ Empty.kind # "token" /\ Garbled.kind # "token"
  /\ Failed.kind # "token" /\ Done.kind # "token"
  /\ \A t \in Token : t.kind = "token"
BY DEF Absent, Empty, Garbled, Failed, Done, Token

\* A token that is granted is a token.
LEMMA GrantedToken ==
  ASSUME now \in Nat, NEW g \in Grant, NEW n \in Nat
  PROVE  [kind |-> "token", login |-> n, refresh |-> g.refresh, expires |-> now + g.life] \in Token
<1>1. g.refresh \in BOOLEAN /\ now + g.life \in Nat
  BY GrantAssumption
<1>2. QED
  BY <1>1 DEF Token

-----------------------------------------------------------------------------
(* Types.                                                                  *)

LEMMA TypeInit == Init => TypeOK
<1> SUFFICES ASSUME Init PROVE TypeOK
  OBVIOUS
<1>1. file \in Token \cup {Absent, Empty, Garbled} /\ logins \in Nat
  <2>1. CASE file = Absent /\ logins = 0
    BY <2>1
  <2>2. ASSUME NEW g \in Grant, logins = 1,
               file = [kind |-> "token", login |-> 1, refresh |-> g.refresh, expires |-> g.life]
        PROVE  file \in Token \cup {Absent, Empty, Garbled} /\ logins \in Nat
    BY <2>2, GrantAssumption DEF Token
  <2>3. QED
    BY <2>1, <2>2 DEF Init
<1>2. poll \in [Process -> Poll]
  BY DEF Init, Idle, Poll
<1>3. << >> \in Asks
  BY DEF Asks
<1>4. polls \in [Process -> Asks]
  <2> DEFINE none == << >>
  <2>1. polls = [p \in Process |-> none] /\ none \in Asks
    BY <1>3 DEF Init
  <2> HIDE DEF none
  <2>2. QED
    BY <2>1
<1>5. /\ pc \in [Process -> Labels]
      /\ command \in [Process -> {"none", "use", "refresh", "login"}]
      /\ token \in [Process -> Token \cup {Absent}]
      /\ grant \in [Process -> Token \cup {Absent}]
      /\ result \in [Process -> Results]
  BY DEF Init, Labels, Results
<1>6. \A q \in Process : Holds(q)
  BY DEF Init, Holds
<1>7. now \in Nat /\ {calls, logins, current} \subseteq Nat
      /\ orphaned \subseteq Process /\ overlapped \in BOOLEAN
  <2>1. now = 0 /\ calls = 0 /\ current = logins /\ orphaned = {} /\ overlapped = FALSE
    BY DEF Init
  <2>2. calls \in Nat /\ logins \in Nat /\ current \in Nat
    BY <1>1, <2>1
  <2>3. QED
    BY <2>1, <2>2
<1>8. QED
  BY <1>1, <1>2, <1>4, <1>5, <1>6, <1>7 DEF TypeOK, Holds, Labels, Results, Poll, Asks, Ask

\* A step within a command, and its end.
LEMMA WithinType ==
  ASSUME TypeOK, NEW p \in Process, NEW label \in Labels, Within(p, label)
  PROVE  /\ now' \in Nat /\ calls' \in Nat /\ overlapped' \in BOOLEAN
         /\ command' \in [Process -> {"none", "use", "refresh", "login"}]
         /\ result' \in [Process -> Results]
         /\ pc' \in [Process -> Labels] /\ pc'[p] = label
         /\ \A q \in Process : q # p => pc'[q] = pc[q]
BY DEF TypeOK, Within, Goto, Labels, Results

LEMMA FinishType ==
  ASSUME TypeOK, NEW p \in Process, NEW r \in Results, Finish(p, r),
         file' \in Token \cup {Absent, Empty, Garbled}, {logins, current}' \subseteq Nat
  PROVE  TypeOK'
<1>1. now' \in Nat /\ calls' \in Nat /\ overlapped' \in BOOLEAN /\ orphaned' \subseteq Process
  BY DEF TypeOK, Finish
<1>2. /\ command' \in [Process -> {"none", "use", "refresh", "login"}]
      /\ result' \in [Process -> Results]
  BY DEF TypeOK, Finish, Results
<1>3. /\ token' \in [Process -> Token \cup {Absent}]
      /\ grant' \in [Process -> Token \cup {Absent}]
  BY DEF TypeOK, Finish
<1>4. poll' \in [Process -> Poll] /\ polls' \in [Process -> Seq([at : Nat, slowed : Nat])]
  BY DEF TypeOK, Finish, Idle, Poll
<1>5. pc' \in [Process -> Labels]
  BY DEF TypeOK, Finish, Goto, Labels
<1>6. ASSUME NEW q \in Process PROVE Holds(q)'
  BY DEF TypeOK, Finish, Goto, Holds
<1>7. QED
  BY <1>1, <1>2, <1>3, <1>4, <1>5, <1>6 DEF TypeOK, Poll, Results, Labels, Holds

\* The start of a command changes no memory but its own and the one of the clock.
LEMMA StartType ==
  ASSUME TypeOK, NEW p \in Process, NEW c \in {"use", "refresh", "login"}, NEW label \in Labels,
         Start(p, c, label)
  PROVE  /\ calls' \in Nat /\ overlapped' \in BOOLEAN
         /\ command' \in [Process -> {"none", "use", "refresh", "login"}]
         /\ result' \in [Process -> Results]
         /\ pc' \in [Process -> Labels] /\ pc'[p] = label
         /\ \A q \in Process : q # p => pc'[q] = pc[q]
BY DEF TypeOK, Start, Goto, Labels, Results

LEMMA StartAndEndType ==
  ASSUME TypeOK, NEW p \in Process, NEW r \in Results, StartAndEnd(p, r)
  PROVE  /\ calls' \in Nat /\ overlapped' \in BOOLEAN
         /\ result' \in [Process -> Results] /\ UNCHANGED <<pc, command>>
BY DEF TypeOK, StartAndEnd, Results

\* Every step keeps the variables in their types: loading ...
LEMMA LoadingType ==
  ASSUME TypeOK, NEW p \in Process, Loading(p)
  PROVE  TypeOK'
<1> USE TokenKinds DEF memoryVars, loginVars
<1>1. CASE Load(p)
  <2>1. file \in Token
    BY <1>1 DEF Load, TypeOK
  <2>2. PICK c \in {"use", "refresh"} : Start(p, c, "loaded")
    BY <1>1 DEF Load
  <2>3. /\ calls' \in Nat /\ overlapped' \in BOOLEAN
        /\ command' \in [Process -> {"none", "use", "refresh", "login"}]
        /\ result' \in [Process -> Results]
        /\ pc' \in [Process -> Labels] /\ pc'[p] = "loaded"
        /\ \A q \in Process : q # p => pc'[q] = pc[q]
    BY <2>2, StartType DEF Labels
  <2>4. token' \in [Process -> Token \cup {Absent}] /\ token'[p] \in Token
        /\ \A q \in Process : q # p => token'[q] = token[q]
    BY <1>1, <2>1 DEF Load, TypeOK
  <2>5. ASSUME NEW q \in Process PROVE Holds(q)'
    BY <1>1, <2>3, <2>4 DEF Load, TypeOK, Holds
  <2>6. QED
    BY <1>1, <2>3, <2>4, <2>5 DEF Load, TypeOK, Holds, Labels, Results
<1>2. CASE LoadFails(p)
  <2>1. /\ calls' \in Nat /\ overlapped' \in BOOLEAN
        /\ result' \in [Process -> Results] /\ UNCHANGED <<pc, command>>
    BY <1>2, StartAndEndType DEF LoadFails, Results
  <2>2. QED
    BY <1>2, <2>1 DEF LoadFails, TypeOK, Results
<1>3. CASE Accept(p)
  <2>1. Within(p, "accepted") /\ pc[p] = "loaded"
    BY <1>3 DEF Accept
  <2>2. QED
    BY <1>3, <2>1, WithinType DEF Accept, TypeOK, Labels, Results
<1>4. CASE Expired(p)
  <2>1. Finish(p, Failed) /\ UNCHANGED <<file, logins, current>> /\ Failed \in Results
    BY <1>4 DEF Expired, Results
  <2>2. file' \in Token \cup {Absent, Empty, Garbled} /\ {logins, current}' \subseteq Nat
    BY <2>1 DEF TypeOK
  <2>3. QED
    BY <2>1, <2>2, FinishType
<1>5. QED
  BY <1>1, <1>2, <1>3, <1>4 DEF Loading

\* ... refreshing ...
LEMMA MoveType ==
  ASSUME TypeOK, NEW p \in Process, NEW label \in Labels, Within(p, label),
         UNCHANGED <<file, memoryVars, loginVars>>,
         label \in {"loaded", "accepted", "refreshing", "fallback"} => token[p] \in Token,
         label \in {"truncate", "write"} => grant[p] \in Token,
         label \in {"polling", "sleeping", "asking"} => polls[p] # << >>
  PROVE  TypeOK'
<1>1. /\ now' \in Nat /\ calls' \in Nat /\ overlapped' \in BOOLEAN
      /\ command' \in [Process -> {"none", "use", "refresh", "login"}]
      /\ result' \in [Process -> Results]
      /\ pc' \in [Process -> Labels] /\ pc'[p] = label
      /\ \A q \in Process : q # p => pc'[q] = pc[q]
  BY WithinType
<1>2. ASSUME NEW q \in Process PROVE Holds(q)'
  <2>1. Holds(q)
    BY DEF TypeOK, Holds
  <2>2. QED
    BY <1>1, <2>1 DEF Holds, memoryVars
<1>3. QED
  BY <1>1, <1>2 DEF TypeOK, Holds, Labels, Results, memoryVars, loginVars

LEMMA EndType ==
  ASSUME TypeOK, NEW p \in Process, NEW r \in Results, Finish(p, r),
         UNCHANGED <<file, loginVars>>
  PROVE  TypeOK'
<1>1. file' \in Token \cup {Absent, Empty, Garbled} /\ {logins, current}' \subseteq Nat
  BY DEF TypeOK, loginVars
<1>2. QED
  BY <1>1, FinishType

LEMMA GrantType ==
  ASSUME TypeOK, NEW p \in Process, NEW t \in Token, Within(p, "truncate"),
         grant' = [grant EXCEPT ![p] = t],
         UNCHANGED <<file, token, poll, polls, orphaned, current>>, logins' \in Nat
  PROVE  TypeOK'
<1>1. /\ now' \in Nat /\ calls' \in Nat /\ overlapped' \in BOOLEAN
      /\ command' \in [Process -> {"none", "use", "refresh", "login"}]
      /\ result' \in [Process -> Results]
      /\ pc' \in [Process -> Labels] /\ pc'[p] = "truncate"
      /\ \A q \in Process : q # p => pc'[q] = pc[q]
  BY WithinType DEF Labels
<1>2. /\ grant' \in [Process -> Token \cup {Absent}] /\ grant'[p] \in Token
      /\ \A q \in Process : q # p => grant'[q] = grant[q]
  BY DEF TypeOK
<1>3. ASSUME NEW q \in Process PROVE Holds(q)'
  <2>1. Holds(q)
    BY DEF TypeOK, Holds
  <2>2. QED
    BY <1>1, <1>2, <2>1 DEF Holds
<1>4. QED
  BY <1>1, <1>2, <1>3 DEF TypeOK, Holds, Labels, Results

LEMMA RefreshingType ==
  ASSUME TypeOK, NEW p \in Process, Refreshing(p)
  PROVE  TypeOK'
<1> DEFINE At(label) == label \in {"loaded", "accepted", "refreshing", "fallback"}
<1>1. At(pc[p]) => token[p] \in Token
  BY DEF TypeOK
<1>2. Failed \in Results /\ \A t \in Token : t \in Results
  BY DEF Results
<1>3. CASE Fresh(p)
  BY <1>1, <1>2, <1>3, EndType DEF Fresh
<1>4. CASE Refresh(p)
  BY <1>1, <1>4, MoveType DEF Refresh, Labels
<1>5. CASE CannotRefresh(p)
  BY <1>2, <1>5, EndType DEF CannotRefresh
<1>6. CASE SkipRefresh(p)
  BY <1>1, <1>6, MoveType DEF SkipRefresh, Labels
<1>7. CASE Refreshed(p)
  <2>1. PICK g \in Grant :
          grant' = [grant EXCEPT ![p] = [kind |-> "token", login |-> token[p].login,
                                         refresh |-> g.refresh, expires |-> now + g.life]]
    BY <1>7 DEF Refreshed
  <2>2. token[p].login \in Nat /\ now \in Nat /\ logins \in Nat
    BY <1>1, <1>7 DEF Refreshed, TypeOK, Token
  <2>3. QED
    BY <1>7, <2>1, <2>2, GrantedToken, GrantType DEF Refreshed, loginVars
<1>8. CASE GiveUpRefresh(p)
  BY <1>2, <1>8, EndType DEF GiveUpRefresh
<1>9. CASE RefreshFails(p)
  BY <1>1, <1>9, MoveType DEF RefreshFails, Labels
<1>10. CASE Fallback(p)
  BY <1>1, <1>2, <1>10, EndType DEF Fallback
<1>11. QED
  BY <1>3, <1>4, <1>5, <1>6, <1>7, <1>8, <1>9, <1>10 DEF Refreshing

\* ... login ...
LEMMA PollsType ==
  ASSUME NEW f \in [Process -> Asks], NEW p \in Process, NEW s \in Asks
  PROVE  [f EXCEPT ![p] = s] \in [Process -> Asks]
OBVIOUS

\* What RequestToken and SlowDown make of the requests of a login.
LEMMA AsksLonger ==
  ASSUME NEW s \in Asks, s # << >>, now \in Nat
  PROVE  LET a == Append(s, [at |-> now, slowed |-> s[Len(s)].slowed])
         IN  /\ a \in Asks /\ a # << >> /\ Len(a) = Len(s) + 1
             /\ \A k \in 1..Len(s) : a[k] = s[k]
             /\ a[Len(s) + 1] = [at |-> now, slowed |-> s[Len(s)].slowed]
<1>1. Len(s) \in Nat \ {0}
  BY EmptySeq DEF Asks
<1>2. s[Len(s)] \in Ask
  BY <1>1, ElementOfSeq DEF Asks
<1>3. [at |-> now, slowed |-> s[Len(s)].slowed] \in Ask
  BY <1>2 DEF Ask
<1>4. QED
  BY <1>3, AppendProperties DEF Asks

LEMMA AsksSlower ==
  ASSUME NEW s \in Asks, s # << >>
  PROVE  LET a == [s EXCEPT ![Len(s)].slowed = @ + 1]
         IN  /\ a \in Asks /\ a # << >> /\ Len(a) = Len(s)
             /\ \A k \in 1..Len(s) : a[k].at = s[k].at
             /\ \A k \in 1..(Len(s) - 1) : a[k] = s[k]
             /\ a[Len(s)].slowed = s[Len(s)].slowed + 1
<1>1. Len(s) \in Nat \ {0}
  BY EmptySeq DEF Asks
<1>2. s[Len(s)] \in Ask
  BY <1>1, ElementOfSeq DEF Asks
<1> DEFINE e == [s[Len(s)] EXCEPT !.slowed = @ + 1]
<1>3. e \in Ask /\ e.at = s[Len(s)].at /\ e.slowed = s[Len(s)].slowed + 1
  BY <1>2 DEF Ask
<1> DEFINE a == [s EXCEPT ![Len(s)] = e]
<1>4. a = [s EXCEPT ![Len(s)].slowed = @ + 1]
  OBVIOUS
<1> HIDE DEF e
<1>5. /\ a \in Asks /\ Len(a) = Len(s)
      /\ \A j \in 1..Len(s) : a[j] = IF j = Len(s) THEN e ELSE s[j]
  BY <1>1, <1>3, ExceptSeq DEF Asks
<1> HIDE DEF a
<1>6. a # << >>
  BY <1>1, <1>5, EmptySeq
<1>7. QED
  BY <1>1, <1>3, <1>4, <1>5, <1>6

LEMMA LoginType ==
  ASSUME TypeOK, NEW p \in Process, Login(p)
  PROVE  TypeOK'
<1>1. Failed \in Results
  BY DEF Results
<1>2. polls \in [Process -> Asks]
  BY DEF TypeOK, Asks, Ask
<1>3. CASE RequestDeviceCode(p)
  <2>1. PICK d \in Device :
          /\ poll' = [poll EXCEPT ![p] = [base |-> d.interval, interval |-> d.interval,
                                          timeout |-> now + d.life, wake |-> 0]]
          /\ polls' = [polls EXCEPT ![p] = <<[at |-> now, slowed |-> 0]>>]
    BY <1>3 DEF RequestDeviceCode
  <2>2. d.interval \in Nat /\ d.life \in Nat /\ now \in Nat
    BY DeviceAssumption DEF TypeOK
  <2>3. poll' \in [Process -> Poll]
    BY <2>1, <2>2 DEF TypeOK, Poll
  <2> DEFINE first == <<[at |-> now, slowed |-> 0]>>
  <2>4. first \in Asks /\ first # << >>
    BY <2>2 DEF Asks, Ask
  <2>5. polls' = [polls EXCEPT ![p] = first]
    BY <2>1
  <2> HIDE DEF first
  <2>6. polls' \in [Process -> Asks] /\ polls'[p] = first
        /\ \A q \in Process : q # p => polls'[q] = polls[q]
    BY <1>2, <2>4, <2>5
  <2>7. /\ calls' \in Nat /\ overlapped' \in BOOLEAN
        /\ command' \in [Process -> {"none", "use", "refresh", "login"}]
        /\ result' \in [Process -> Results]
        /\ pc' \in [Process -> Labels] /\ pc'[p] = "polling"
        /\ \A q \in Process : q # p => pc'[q] = pc[q]
    BY <1>3, StartType DEF RequestDeviceCode, Labels
  <2>8. ASSUME NEW q \in Process PROVE Holds(q)'
    BY <1>3, <2>4, <2>6, <2>7 DEF RequestDeviceCode, TypeOK, Holds
  <2>9. QED
    BY <1>3, <2>3, <2>6, <2>7, <2>8
    DEF RequestDeviceCode, TypeOK, Holds, Labels, Results, Poll, Asks, Ask, loginVars
<1>4. CASE DeviceCodeFails(p)
  <2>1. /\ calls' \in Nat /\ overlapped' \in BOOLEAN
        /\ result' \in [Process -> Results] /\ UNCHANGED <<pc, command>>
    BY <1>1, <1>4, StartAndEndType DEF DeviceCodeFails
  <2>2. QED
    BY <1>4, <2>1 DEF DeviceCodeFails, TypeOK, Results, memoryVars, loginVars
<1>5. ASSUME NEW label \in {"polling", "sleeping", "asking"}, Within(p, label),
             pc[p] \in {"polling", "sleeping", "asking"},
             poll' \in [Process -> Poll], polls' \in [Process -> Asks], polls'[p] # << >>,
             \A q \in Process : q # p => polls'[q] = polls[q],
             UNCHANGED <<file, token, grant, orphaned, loginVars>>
      PROVE  TypeOK'
  <2>1. /\ now' \in Nat /\ calls' \in Nat /\ overlapped' \in BOOLEAN
        /\ command' \in [Process -> {"none", "use", "refresh", "login"}]
        /\ result' \in [Process -> Results]
        /\ pc' \in [Process -> Labels] /\ pc'[p] = label
        /\ \A q \in Process : q # p => pc'[q] = pc[q]
    BY <1>5, WithinType DEF Labels
  <2>2. ASSUME NEW q \in Process PROVE Holds(q)'
    <3>1. Holds(q)
      BY DEF TypeOK, Holds
    <3>2. QED
      BY <1>5, <2>1, <3>1 DEF Holds
  <2>3. QED
    BY <1>5, <2>1, <2>2 DEF TypeOK, Holds, Labels, Results, Poll, Asks, Ask, loginVars
<1>6. pc[p] \in {"polling", "sleeping", "asking"} => polls[p] # << >> /\ polls[p] \in Asks
  BY <1>2 DEF TypeOK
<1>7. CASE Sleep(p)
  <2>1. poll' \in [Process -> Poll]
    <3> DEFINE e == [poll[p] EXCEPT !.wake = now + poll[p].interval]
    <3>1. poll \in [Process -> Poll] /\ poll[p] \in Poll /\ now \in Nat
      BY DEF TypeOK, Poll
    <3>2. e \in Poll
      BY <3>1 DEF Poll
    <3>3. poll' = [poll EXCEPT ![p] = e]
      BY <1>7 DEF Sleep
    <3> HIDE DEF e
    <3>4. QED
      BY <3>1, <3>2, <3>3
  <2>2. QED
    BY <1>2, <1>5, <1>6, <1>7, <2>1 DEF Sleep
<1>8. CASE TimedOut(p)
  BY <1>1, <1>8, EndType DEF TimedOut
<1>9. CASE RequestToken(p)
  <2> DEFINE a == Append(polls[p], [at |-> now, slowed |-> polls[p][Len(polls[p])].slowed])
  <2>1. a \in Asks /\ a # << >>
    BY <1>6, <1>9, AsksLonger DEF RequestToken, TypeOK
  <2>2. polls' = [polls EXCEPT ![p] = a]
    BY <1>9 DEF RequestToken
  <2> HIDE DEF a
  <2>3. polls' \in [Process -> Asks] /\ polls'[p] # << >>
        /\ \A q \in Process : q # p => polls'[q] = polls[q]
    BY <1>2, <2>1, <2>2
  <2>4. poll' \in [Process -> Poll]
    BY <1>9 DEF RequestToken, TypeOK, Poll
  <2>5. QED
    BY <1>5, <1>9, <2>3, <2>4 DEF RequestToken
<1>10. CASE Pending(p)
  BY <1>6, <1>10, MoveType DEF Pending, Labels
<1>11. CASE SlowDown(p)
  <2> DEFINE a == [polls[p] EXCEPT ![Len(polls[p])].slowed = @ + 1]
  <2>1. a \in Asks /\ a # << >>
    BY <1>6, <1>11, AsksSlower DEF SlowDown
  <2>2. polls' = [polls EXCEPT ![p] = a]
    BY <1>11 DEF SlowDown
  <2> HIDE DEF a
  <2>3. polls' \in [Process -> Asks] /\ polls'[p] # << >>
        /\ \A q \in Process : q # p => polls'[q] = polls[q]
    BY <1>2, <2>1, <2>2
  <2>4. poll' \in [Process -> Poll]
    <3> DEFINE e == [poll[p] EXCEPT !.interval = @ + 1]
    <3>1. poll \in [Process -> Poll] /\ poll[p] \in Poll
      BY DEF TypeOK, Poll
    <3>2. e \in Poll
      BY <3>1 DEF Poll
    <3>3. poll' = [poll EXCEPT ![p] = e]
      BY <1>11 DEF SlowDown
    <3> HIDE DEF e
    <3>4. QED
      BY <3>1, <3>2, <3>3
  <2>5. QED
    BY <1>5, <1>11, <2>3, <2>4 DEF SlowDown
<1>12. CASE Denied(p)
  BY <1>1, <1>12, EndType DEF Denied
<1>13. CASE Approved(p)
  <2>1. PICK g \in Grant :
          grant' = [grant EXCEPT ![p] = [kind |-> "token", login |-> logins + 1,
                                         refresh |-> g.refresh, expires |-> now + g.life]]
    BY <1>13 DEF Approved
  <2>2. logins + 1 \in Nat /\ now \in Nat
    BY DEF TypeOK
  <2>3. QED
    BY <1>13, <2>1, <2>2, GrantedToken, GrantType DEF Approved
<1>14. QED
  BY <1>3, <1>4, <1>7, <1>8, <1>9, <1>10, <1>11, <1>12, <1>13 DEF Login

\* ... and storing.
LEMMA StoringType ==
  ASSUME TypeOK, NEW p \in Process, Storing(p)
  PROVE  TypeOK'
<1>1. Failed \in Results /\ Done \in Results /\ \A t \in Token : t \in Results
  BY DEF Results
<1>2. pc[p] \in {"truncate", "write"} => grant[p] \in Token
  BY DEF TypeOK
<1>3. CASE Truncate(p)
  <2>1. /\ now' \in Nat /\ calls' \in Nat /\ overlapped' \in BOOLEAN
        /\ command' \in [Process -> {"none", "use", "refresh", "login"}]
        /\ result' \in [Process -> Results]
        /\ pc' \in [Process -> Labels] /\ pc'[p] = "write"
        /\ \A q \in Process : q # p => pc'[q] = pc[q]
    BY <1>3, WithinType DEF Truncate, Labels
  <2>2. ASSUME NEW q \in Process PROVE Holds(q)'
    <3>1. Holds(q)
      BY DEF TypeOK, Holds
    <3>2. QED
      BY <1>2, <1>3, <2>1, <3>1 DEF Truncate, Holds, memoryVars
  <2>3. QED
    BY <1>3, <2>1, <2>2 DEF Truncate, TypeOK, Holds, Labels, Results, memoryVars, loginVars
<1>4. CASE SaveFails(p)
  BY <1>1, <1>4, EndType DEF SaveFails
<1>5. CASE Write(p)
  <2>1. grant[p] \in Token /\ grant[p].login \in Nat
    BY <1>2, <1>5 DEF Write, Token
  <2>2. file' \in Token \cup {Absent, Empty, Garbled}
    BY <1>5, <2>1 DEF Write, TypeOK
  <2>3. {logins, current}' \subseteq Nat
    BY <1>5, <2>1 DEF Write, TypeOK
  <2>4. QED
    BY <1>1, <1>5, <2>1, <2>2, <2>3, FinishType DEF Write
<1>6. CASE WriteFails(p)
  <2>1. file' \in Token \cup {Absent, Empty, Garbled} /\ {logins, current}' \subseteq Nat
    BY <1>6 DEF WriteFails, TypeOK, loginVars
  <2>2. QED
    BY <1>1, <1>6, <2>1, FinishType DEF WriteFails
<1>7. CASE Logout(p)
  <2>1. /\ calls' \in Nat /\ overlapped' \in BOOLEAN
        /\ result' \in [Process -> Results] /\ UNCHANGED <<pc, command>>
    BY <1>1, <1>7, StartAndEndType DEF Logout
  <2>2. QED
    BY <1>7, <2>1 DEF Logout, TypeOK, Results
<1>8. CASE LogoutFails(p)
  <2>1. /\ calls' \in Nat /\ overlapped' \in BOOLEAN
        /\ result' \in [Process -> Results] /\ UNCHANGED <<pc, command>>
    BY <1>1, <1>8, StartAndEndType DEF LogoutFails
  <2>2. QED
    BY <1>8, <2>1 DEF LogoutFails, TypeOK, Results, memoryVars, loginVars
<1>9. QED
  BY <1>3, <1>4, <1>5, <1>6, <1>7, <1>8 DEF Storing

LEMMA TypeStep == TypeOK /\ [Next]_vars => TypeOK'
<1> SUFFICES ASSUME TypeOK, [Next]_vars PROVE TypeOK'
  OBVIOUS
<1>1. CASE Tick
  BY <1>1 DEF Tick, TypeOK, memoryVars, loginVars
<1>2. ASSUME NEW p \in Process, Crash(p) PROVE TypeOK'
  BY <1>2, EndType DEF Crash, Results
<1>3. CASE UNCHANGED vars
  BY <1>3 DEF vars, TypeOK, memoryVars, loginVars
<1>4. QED
  BY <1>1, <1>2, <1>3, LoadingType, RefreshingType, LoginType, StoringType DEF Next

\* The variables keep their types, and a process has in memory what its next
\* step needs: the token it has loaded, or the one it has been granted.
THEOREM TypeCorrect == Spec => []TypeOK
BY TypeInit, TypeStep, PTL DEF Spec

-----------------------------------------------------------------------------
(* What a command is given.                                                *)

Given(q) ==
  result[q] = Absent /\ result'[q].kind = "token"
    => result'[q] = grant[q] \/ result'[q].expires >= now

\* A step that gives a process no token, or one that may be given, is right.
LEMMA GivenOnly ==
  ASSUME TypeOK, NEW p \in Process, NEW r, result' = [result EXCEPT ![p] = r],
         r.kind = "token" => r = grant[p] \/ r.expires >= now
  PROVE  \A q \in Process : Given(q)
<1>1. ASSUME NEW q \in Process PROVE Given(q)
  <2>1. CASE q = p
    BY <2>1 DEF Given, TypeOK
  <2>2. CASE q # p
    BY <2>2, TokenKinds DEF Given, TypeOK
  <2>3. QED
    BY <2>1, <2>2
<1>2. QED
  BY <1>1

\* A step that leaves the results alone gives nothing.
LEMMA GivenNothing ==
  ASSUME UNCHANGED result
  PROVE  \A q \in Process : Given(q)
BY TokenKinds DEF Given

LEMMA GivenStep ==
  ASSUME TypeOK, NEW p \in Process,
         Loading(p) \/ Refreshing(p) \/ Login(p) \/ Storing(p) \/ Crash(p)
  PROVE  \A q \in Process : Given(q)
<1>1. ASSUME NEW r \in {Absent, Failed, Done}, result' = [result EXCEPT ![p] = r]
      PROVE  \A q \in Process : Given(q)
  BY <1>1, GivenOnly, TokenKinds
<1>2. now \in Nat /\ Buffer \in Nat
  BY BoundAssumption DEF TypeOK
<1>3. pc[p] \in {"loaded", "accepted", "refreshing", "fallback"}
        => token[p] \in Token /\ token[p].expires \in Nat
  BY DEF TypeOK, Token
<1>4. CASE Loading(p)
  BY <1>1, <1>4, GivenNothing
  DEF Loading, Load, LoadFails, Accept, Expired, Start, StartAndEnd, Within, Finish
<1>5. CASE Refreshing(p)
  <2>1. CASE Fresh(p)
    <3>1. result' = [result EXCEPT ![p] = token[p]] /\ token[p].expires >= now
      BY <1>2, <1>3, <2>1 DEF Fresh, Finish
    <3>2. QED
      BY <3>1, GivenOnly
  <2>2. CASE Fallback(p)
    <3>1. CASE now > token[p].expires
      BY <1>1, <2>2, <3>1 DEF Fallback, Finish
    <3>2. CASE ~(now > token[p].expires)
      <4>1. Finish(p, token[p])
        BY <2>2, <3>2 DEF Fallback
      <4>2. token[p].expires >= now
        BY <1>2, <1>3, <2>2, <3>2 DEF Fallback
      <4>3. QED
        BY <4>1, <4>2, GivenOnly DEF Finish
    <3>3. QED
      BY <3>1, <3>2
  <2>3. QED
    BY <1>1, <1>5, <2>1, <2>2, GivenNothing
    DEF Refreshing, Refresh, CannotRefresh, SkipRefresh, Refreshed, GiveUpRefresh,
        RefreshFails, Within, Finish
<1>6. CASE Login(p)
  BY <1>1, <1>6, GivenNothing
  DEF Login, RequestDeviceCode, DeviceCodeFails, Sleep, TimedOut, RequestToken, Pending,
      SlowDown, Denied, Approved, Start, StartAndEnd, Within, Finish
<1>7. CASE Storing(p)
  <2>1. CASE Write(p)
    BY <2>1, GivenOnly DEF Write, Finish
  <2>2. QED
    BY <1>1, <1>7, <2>1, GivenNothing
    DEF Storing, Truncate, SaveFails, WriteFails, Logout, LogoutFails, StartAndEnd, Within, Finish
<1>8. CASE Crash(p)
  BY <1>1, <1>8 DEF Crash, Finish
<1>9. QED
  BY <1>4, <1>5, <1>6, <1>7, <1>8

\* No command is ever given a stored token that has expired by then: the checks
\* of GetValidToken, before the refresh and after it, are enough.
THEOREM GivenTokenIsValid == Spec => GivenIsValid
<1>1. TypeOK /\ [Next]_vars =>
        [\A p \in Process :
           result[p] = Absent /\ result'[p].kind = "token"
             => result'[p] = grant[p] \/ result'[p].expires >= now]_vars
  <2> SUFFICES ASSUME TypeOK, Next PROVE \A q \in Process : Given(q)
    BY DEF Given
  <2>1. CASE Tick
    BY <2>1, GivenNothing DEF Tick
  <2>2. QED
    BY <2>1, GivenStep DEF Next
<1>2. QED
  BY <1>1, TypeCorrect, PTL DEF Spec, GivenIsValid

-----------------------------------------------------------------------------
(* What is on file, for a user who runs one command at a time.             *)

\* What a command works with: the last part of Alone.
AtHand(p) ==
  /\ pc[p] \in {"loaded", "accepted", "refreshing", "fallback"} => token[p].login = current
  /\ pc[p] \in {"polling", "sleeping", "asking"} => command[p] = "login"
  /\ pc[p] \in {"truncate", "write"} => command[p] = "login" \/ grant[p].login = current

\* Where a step of p leaves every other process idle, p alone matters ...
LEMMA OneAtWork ==
  ASSUME NEW p \in Process, \A q \in Process : q # p => pc'[q] = "idle",
         orphaned' = {}, AtHand(p)'
  PROVE  Alone'
BY DEF Alone, AtWork, AtHand

\* ... and its last step leaves nobody at work.
LEMMA NoneAtWork ==
  ASSUME TypeOK, Alone, overlapped = FALSE, NEW p \in AtWork, NEW r, Finish(p, r)
  PROVE  Alone'
<1>1. \A q \in Process : q # p => pc[q] = "idle"
  BY DEF Alone, AtWork
<1>2. p \in Process /\ orphaned' = {} /\ \A q \in Process : pc'[q] = "idle"
  BY <1>1 DEF AtWork, Alone, Finish, Goto, TypeOK
<1>3. AtHand(p)'
  BY <1>2 DEF AtHand
<1>4. QED
  BY <1>2, <1>3, OneAtWork

\* A command that starts while the user is alone finds nobody at work.
LEMMA StartsAlone ==
  ASSUME TypeOK, Alone, NEW p \in Process, NEW c, NEW label \in Labels, Start(p, c, label),
         overlapped' = FALSE
  PROVE  /\ overlapped = FALSE /\ orphaned = {}
         /\ pc'[p] = label /\ command'[p] = c
         /\ \A q \in Process : q # p => pc'[q] = "idle"
BY DEF TypeOK, Alone, AtWork, Start, Goto

LEMMA EndsAlone ==
  ASSUME TypeOK, Alone, NEW p \in Process, NEW r, StartAndEnd(p, r), overlapped' = FALSE
  PROVE  /\ overlapped = FALSE /\ orphaned = {}
         /\ \A q \in Process : pc[q] = "idle" /\ pc'[q] = "idle"
BY DEF TypeOK, Alone, AtWork, StartAndEnd

\* A step within a command leaves the others idle.
LEMMA WithinAlone ==
  ASSUME TypeOK, Alone, overlapped = FALSE, NEW p \in AtWork, NEW label, Within(p, label)
  PROVE  /\ p \in Process /\ pc'[p] = label /\ command'[p] = command[p]
         /\ orphaned = {} /\ AtHand(p)
         /\ \A q \in Process : q # p => pc'[q] = "idle"
BY DEF TypeOK, Alone, AtWork, Within, Goto, AtHand

LEMMA AloneInit == Init => Alone /\ AloneStoredIsCurrent
<1> SUFFICES ASSUME Init PROVE Alone /\ AloneStoredIsCurrent
  OBVIOUS
<1>1. pc = [q \in Process |-> "idle"] /\ orphaned = {} /\ current = logins
  BY DEF Init
<1>2. Alone
  BY <1>1 DEF Alone, AtWork
<1>3. StoredIsCurrent
  <2>1. CASE file = Absent
    BY <2>1, TokenKinds DEF StoredIsCurrent
  <2>2. ASSUME NEW g \in Grant, logins = 1,
               file = [kind |-> "token", login |-> 1, refresh |-> g.refresh, expires |-> g.life]
        PROVE  StoredIsCurrent
    BY <1>1, <2>2 DEF StoredIsCurrent
  <2>3. QED
    BY <2>1, <2>2 DEF Init
<1>4. QED
  BY <1>2, <1>3 DEF AloneStoredIsCurrent

LEMMA AloneStep ==
  ASSUME TypeOK, Alone, AloneStoredIsCurrent, NEW p \in Process, overlapped' = FALSE,
         Loading(p) \/ Refreshing(p) \/ Login(p) \/ Storing(p) \/ Crash(p)
  PROVE  Alone' /\ StoredIsCurrent'
<1> USE DEF memoryVars, loginVars
<1>1. ASSUME overlapped = FALSE, NEW r, pc[p] # "idle", Finish(p, r), UNCHANGED <<file, current>>
      PROVE  Alone' /\ StoredIsCurrent'
  BY <1>1, NoneAtWork DEF AtWork, AloneStoredIsCurrent, StoredIsCurrent
<1>2. ASSUME NEW r, StartAndEnd(p, r), UNCHANGED <<file, orphaned, current>>
      PROVE  Alone' /\ StoredIsCurrent'
  <2>1. /\ overlapped = FALSE /\ orphaned = {}
        /\ \A q \in Process : pc[q] = "idle" /\ pc'[q] = "idle"
    BY <1>2, EndsAlone
  <2>2. QED
    BY <1>2, <2>1, OneAtWork DEF AtHand, AloneStoredIsCurrent, StoredIsCurrent
<1>3. ASSUME overlapped = FALSE, NEW label, pc[p] # "idle", Within(p, label),
             UNCHANGED <<file, orphaned, current>>, AtHand(p) => AtHand(p)'
      PROVE  Alone' /\ StoredIsCurrent'
  <2>1. /\ AtHand(p) /\ orphaned = {}
        /\ \A q \in Process : q # p => pc'[q] = "idle"
    BY <1>3, WithinAlone DEF AtWork
  <2>2. QED
    BY <1>3, <2>1, OneAtWork DEF AloneStoredIsCurrent, StoredIsCurrent
<1>4. ASSUME NEW label, Within(p, label) PROVE pc'[p] = label /\ command'[p] = command[p]
  BY <1>4 DEF Within, Goto, TypeOK
<1>5. ASSUME NEW label \in {"loaded", "accepted", "refreshing", "fallback"}, Within(p, label),
              pc[p] \in {"loaded", "accepted", "refreshing", "fallback"},
              UNCHANGED <<file, token, orphaned, current>>
       PROVE  Alone' /\ StoredIsCurrent'
  <2>1. AtHand(p) => AtHand(p)'
    BY <1>4, <1>5 DEF AtHand
  <2>2. overlapped = FALSE /\ pc[p] # "idle"
    BY <1>5 DEF Within
  <2>3. QED
    BY <1>3, <1>5, <2>1, <2>2
<1>6. ASSUME NEW label \in {"polling", "sleeping", "asking", "truncate"}, Within(p, label),
              pc[p] \in {"polling", "sleeping", "asking"},
              UNCHANGED <<file, orphaned, current>>
       PROVE  Alone' /\ StoredIsCurrent'
  <2>1. AtHand(p) => AtHand(p)'
    BY <1>4, <1>6 DEF AtHand
  <2>2. overlapped = FALSE /\ pc[p] # "idle"
    BY <1>6 DEF Within
  <2>3. QED
    BY <1>3, <1>6, <2>1, <2>2
<1>7. CASE Loading(p)
  <2>1. CASE Load(p)
    <3>1. PICK c \in {"use", "refresh"} : Start(p, c, "loaded")
      BY <2>1 DEF Load
    <3>2. /\ overlapped = FALSE /\ orphaned = {} /\ pc'[p] = "loaded"
          /\ \A q \in Process : q # p => pc'[q] = "idle"
      BY <3>1, StartsAlone DEF Labels
    <3>3. token'[p] = file /\ file.login = current
      BY <2>1, <3>2 DEF Load, TypeOK, AloneStoredIsCurrent, StoredIsCurrent
    <3>4. AtHand(p)'
      BY <2>1, <3>2, <3>3 DEF Load, AtHand
    <3>5. QED
      BY <2>1, <3>2, <3>4, OneAtWork DEF Load, AloneStoredIsCurrent, StoredIsCurrent
  <2>2. CASE LoadFails(p)
    BY <1>2, <2>2 DEF LoadFails
  <2>3. CASE Accept(p)
    BY <1>5, <2>3 DEF Accept
  <2>4. CASE Expired(p)
    BY <1>1, <2>4 DEF Expired, Finish
  <2>5. QED
    BY <1>7, <2>1, <2>2, <2>3, <2>4 DEF Loading
<1>8. CASE Refreshing(p)
  <2>1. CASE Fresh(p)
    BY <1>1, <2>1 DEF Fresh, Finish
  <2>2. CASE Refresh(p)
    BY <1>5, <2>2 DEF Refresh
  <2>3. CASE CannotRefresh(p)
    BY <1>1, <2>3 DEF CannotRefresh, Finish
  <2>4. CASE SkipRefresh(p)
    BY <1>5, <2>4 DEF SkipRefresh
  <2>5. CASE Refreshed(p)
    <3>1. pc[p] = "refreshing" /\ Within(p, "truncate") /\ UNCHANGED <<file, orphaned, current>>
      BY <2>5 DEF Refreshed
    <3>2. PICK g \in Grant :
            grant' = [grant EXCEPT ![p] = [kind |-> "token", login |-> token[p].login,
                                           refresh |-> g.refresh, expires |-> now + g.life]]
      BY <2>5 DEF Refreshed
    <3>3. grant'[p].login = token[p].login
      BY <3>2 DEF TypeOK
    <3>4. AtHand(p) => AtHand(p)'
      BY <1>4, <3>1, <3>3 DEF AtHand
    <3>5. overlapped = FALSE
      BY <3>1 DEF Within
    <3>6. QED
      BY <1>3, <3>1, <3>4, <3>5
  <2>6. CASE GiveUpRefresh(p)
    BY <1>1, <2>6 DEF GiveUpRefresh, Finish
  <2>7. CASE RefreshFails(p)
    BY <1>5, <2>7 DEF RefreshFails
  <2>8. CASE Fallback(p)
    BY <1>1, <2>8 DEF Fallback, Finish
  <2>9. QED
    BY <1>8, <2>1, <2>2, <2>3, <2>4, <2>5, <2>6, <2>7, <2>8 DEF Refreshing
<1>9. CASE Login(p)
  <2>1. CASE RequestDeviceCode(p)
    <3>1. /\ overlapped = FALSE /\ orphaned = {} /\ pc'[p] = "polling" /\ command'[p] = "login"
          /\ \A q \in Process : q # p => pc'[q] = "idle"
      BY <2>1, StartsAlone DEF RequestDeviceCode, Labels
    <3>2. QED
      BY <2>1, <3>1, OneAtWork
      DEF RequestDeviceCode, AtHand, AloneStoredIsCurrent, StoredIsCurrent
  <2>2. CASE DeviceCodeFails(p)
    BY <1>2, <2>2 DEF DeviceCodeFails
  <2>3. CASE Sleep(p)
    BY <1>6, <2>3 DEF Sleep
  <2>4. CASE TimedOut(p)
    BY <1>1, <2>4 DEF TimedOut, Finish
  <2>5. CASE RequestToken(p)
    BY <1>6, <2>5 DEF RequestToken
  <2>6. CASE Pending(p)
    BY <1>6, <2>6 DEF Pending
  <2>7. CASE SlowDown(p)
    BY <1>6, <2>7 DEF SlowDown
  <2>8. CASE Denied(p)
    BY <1>1, <2>8 DEF Denied, Finish
  <2>9. CASE Approved(p)
    BY <1>6, <2>9 DEF Approved
  <2>10. QED
    BY <1>9, <2>1, <2>2, <2>3, <2>4, <2>5, <2>6, <2>7, <2>8, <2>9 DEF Login
<1>10. CASE Storing(p)
  <2>1. CASE Truncate(p)
    <3>1. overlapped = FALSE /\ pc[p] = "truncate" /\ Within(p, "write")
      BY <2>1 DEF Truncate, Within
    <3>2. /\ AtHand(p) /\ orphaned = {} /\ pc'[p] = "write"
          /\ \A q \in Process : q # p => pc'[q] = "idle"
      BY <3>1, WithinAlone DEF AtWork
    <3>3. AtHand(p)'
      BY <1>4, <2>1, <3>1, <3>2 DEF Truncate, AtHand
    <3>4. QED
      BY <2>1, <3>2, <3>3, OneAtWork, TokenKinds DEF Truncate, StoredIsCurrent
  <2>2. CASE SaveFails(p)
    BY <1>1, <2>2 DEF SaveFails, Finish
  <2>3. CASE Write(p)
    <3>1. overlapped = FALSE /\ p \in AtWork /\ Finish(p, grant[p]) /\ pc[p] = "write"
      BY <2>3 DEF Write, Finish, AtWork
    <3>2. Alone'
      BY <3>1, NoneAtWork
    <3>3. p \notin orphaned /\ AtHand(p)
      BY <3>1 DEF Alone, AtHand
    <3>4. /\ file' = grant[p] \/ file' = Garbled
          /\ current' = IF command[p] = "login" THEN grant[p].login ELSE current
      BY <2>3, <3>3 DEF Write
    <3>5. current' = grant[p].login
      BY <3>1, <3>3, <3>4 DEF AtHand
    <3>6. QED
      BY <3>2, <3>4, <3>5, TokenKinds DEF StoredIsCurrent
  <2>4. CASE WriteFails(p)
    <3>1. overlapped = FALSE /\ p \in AtWork /\ Finish(p, Failed)
      BY <2>4 DEF WriteFails, Finish, AtWork
    <3>2. QED
      BY <2>4, <3>1, NoneAtWork, TokenKinds DEF WriteFails, AloneStoredIsCurrent, StoredIsCurrent
  <2>5. CASE Logout(p)
    <3>1. /\ overlapped = FALSE /\ orphaned = {}
          /\ \A q \in Process : pc[q] = "idle" /\ pc'[q] = "idle"
      BY <2>5, EndsAlone DEF Logout
    <3>2. orphaned' = {}
      BY <2>5, <3>1 DEF Logout
    <3>3. QED
      BY <2>5, <3>1, <3>2, OneAtWork, TokenKinds DEF Logout, AtHand, StoredIsCurrent
  <2>6. CASE LogoutFails(p)
    BY <1>2, <2>6 DEF LogoutFails
  <2>7. QED
    BY <1>10, <2>1, <2>2, <2>3, <2>4, <2>5, <2>6 DEF Storing
<1>11. CASE Crash(p)
  BY <1>1, <1>11 DEF Crash, Finish, AtWork
<1>12. QED
  BY <1>7, <1>8, <1>9, <1>10, <1>11

\* A user who never runs two commands at a time finds on file a token of the last
\* login, and none after a logout, whatever fails or is killed.
THEOREM StoredTokenIsCurrent == Spec => []AloneStoredIsCurrent
<1>1. Init => AloneInv
  BY TypeInit, AloneInit DEF AloneInv
<1>2. AloneInv /\ [Next]_vars => AloneInv'
  <2> SUFFICES ASSUME AloneInv, [Next]_vars PROVE AloneInv'
    OBVIOUS
  <2>1. TypeOK' /\ overlapped \in BOOLEAN /\ overlapped' \in BOOLEAN
    BY TypeStep DEF AloneInv, TypeOK
  <2>2. CASE Tick
    BY <2>1, <2>2 DEF Tick, AloneInv, Alone, AtWork, AloneStoredIsCurrent, StoredIsCurrent,
                      memoryVars, loginVars
  <2>3. ASSUME NEW p \in Process,
               Loading(p) \/ Refreshing(p) \/ Login(p) \/ Storing(p) \/ Crash(p)
        PROVE  AloneInv'
    <3>1. CASE overlapped' = FALSE
      BY <2>1, <2>3, <3>1, AloneStep DEF AloneInv, AloneStoredIsCurrent
    <3>2. CASE overlapped' = TRUE
      BY <2>1, <3>2 DEF AloneInv, Alone, AloneStoredIsCurrent
    <3>3. QED
      BY <2>1, <3>1, <3>2
  <2>4. CASE UNCHANGED vars
    BY <2>1, <2>4 DEF vars, AloneInv, Alone, AtWork, AloneStoredIsCurrent, StoredIsCurrent,
                      memoryVars, loginVars
  <2>5. QED
    BY <2>2, <2>3, <2>4 DEF Next
<1>3. AloneInv => AloneStoredIsCurrent
  BY DEF AloneInv
<1>4. QED
  BY <1>1, <1>2, <1>3, PTL DEF Spec

-----------------------------------------------------------------------------
(* The requests of a login.                                                *)

\* Paced and PollingSlowsDown for one process: s are its requests, l its loop.
PacedAs(at, s, l, moment) ==
  at \in {"polling", "sleeping", "asking"} =>
    /\ \A k \in 1..Len(s) : s[k].at <= moment
    /\ l.interval = l.base + s[Len(s)].slowed
    /\ at = "sleeping" =>
         /\ l.wake >= s[Len(s)].at + l.interval
         /\ \A k \in 2..Len(s) : s[k].at <= l.timeout

PoliteAs(s, l) ==
  /\ \A k \in 1..(Len(s) - 1) : s[k + 1].at >= s[k].at + l.base + s[k].slowed
  /\ \A k \in 2..(Len(s) - 1) : s[k].at <= l.timeout

WellPaced(p) == PacedAs(pc[p], polls[p], poll[p], now) /\ PoliteAs(polls[p], poll[p])

LEMMA PaceIsEach == PaceInv <=> TypeOK /\ \A p \in Process : WellPaced(p)
BY DEF PaceInv, Paced, PollingSlowsDown, WellPaced, PacedAs, PoliteAs

LEMMA AskInSeq ==
  ASSUME NEW s \in Asks
  PROVE  /\ Len(s) \in Nat
         /\ \A k \in 1..Len(s) : s[k].at \in Nat /\ s[k].slowed \in Nat
         /\ s # << >> => Len(s) > 0
<1>1. \A k \in 1..Len(s) : s[k] \in Ask
  BY ElementOfSeq DEF Asks
<1>2. QED
  BY <1>1, LenProperties, EmptySeq DEF Asks, Ask

\* No request yet, and the first one.
LEMMA PolitelyNone ==
  ASSUME NEW at \in {"idle", "loaded", "accepted", "refreshing", "fallback"}, NEW l, NEW moment
  PROVE  PacedAs(at, << >>, l, moment) /\ PoliteAs(<< >>, l)
<1>1. Len(<< >>) = 0
  BY EmptySeq
<1>2. QED
  BY <1>1 DEF PacedAs, PoliteAs

LEMMA PolitelyFirst ==
  ASSUME NEW moment \in Nat, NEW l \in Poll, l.interval = l.base
  PROVE  LET s == <<[at |-> moment, slowed |-> 0]>>
         IN  PacedAs("polling", s, l, moment) /\ PoliteAs(s, l)
<1> DEFINE s == <<[at |-> moment, slowed |-> 0]>>
<1>1. Len(s) = 1 /\ s[1].at = moment /\ s[1].slowed = 0
  OBVIOUS
<1>2. l.base \in Nat
  BY DEF Poll
<1> HIDE DEF s
<1>3. QED
  BY <1>1, <1>2 DEF PacedAs, PoliteAs

\* The loop goes to sleep.
LEMMA PolitelyAsleep ==
  ASSUME NEW s \in Asks, s # << >>, NEW l \in Poll, NEW m \in Poll, NEW moment \in Nat,
         PacedAs("polling", s, l, moment), PoliteAs(s, l), moment < l.timeout,
         m.base = l.base, m.interval = l.interval, m.timeout = l.timeout,
         m.wake = moment + l.interval
  PROVE  PacedAs("sleeping", s, m, moment) /\ PoliteAs(s, m)
<1>1. /\ Len(s) \in Nat /\ Len(s) > 0
      /\ \A k \in 1..Len(s) : s[k].at \in Nat /\ s[k].slowed \in Nat
  BY AskInSeq
<1>2. {l.timeout, l.interval, l.base} \subseteq Nat
  BY DEF Poll
<1>3. QED
  BY <1>1, <1>2 DEF PacedAs, PoliteAs

\* It asks again.
LEMMA PolitelyAsked ==
  ASSUME NEW s \in Asks, s # << >>, NEW l \in Poll, NEW moment \in Nat,
         PacedAs("sleeping", s, l, moment), PoliteAs(s, l), moment >= l.wake,
         NEW a \in Asks, Len(a) = Len(s) + 1, \A k \in 1..Len(s) : a[k] = s[k],
         a[Len(s) + 1] = [at |-> moment, slowed |-> s[Len(s)].slowed]
  PROVE  PacedAs("asking", a, l, moment) /\ PoliteAs(a, l)
<1>1. /\ Len(s) \in Nat /\ Len(s) > 0
      /\ \A k \in 1..Len(s) : s[k].at \in Nat /\ s[k].slowed \in Nat
  BY AskInSeq
<1>2. {l.timeout, l.interval, l.wake, l.base} \subseteq Nat
  BY DEF Poll
<1>3. a[Len(s) + 1].at = moment /\ a[Len(s) + 1].slowed = s[Len(s)].slowed
  OBVIOUS
<1>4. PacedAs("asking", a, l, moment)
  BY <1>1, <1>3 DEF PacedAs
<1>5. ASSUME NEW k \in 1..(Len(a) - 1) PROVE a[k + 1].at >= a[k].at + l.base + a[k].slowed
  <2>1. CASE k = Len(s)
    BY <1>1, <1>2, <1>3, <2>1 DEF PacedAs
  <2>2. CASE k < Len(s)
    BY <1>1, <2>2 DEF PoliteAs
  <2>3. QED
    BY <1>1, <2>1, <2>2
<1>6. ASSUME NEW k \in 2..(Len(a) - 1) PROVE a[k].at <= l.timeout
  BY <1>1 DEF PacedAs
<1>7. QED
  BY <1>4, <1>5, <1>6 DEF PoliteAs

\* The authority answers slow_down.
LEMMA PolitelySlower ==
  ASSUME NEW s \in Asks, s # << >>, NEW l \in Poll, NEW m \in Poll, NEW moment \in Nat,
         PacedAs("asking", s, l, moment), PoliteAs(s, l),
         m.base = l.base, m.interval = l.interval + 1, m.timeout = l.timeout,
         NEW a \in Asks, Len(a) = Len(s), \A k \in 1..Len(s) : a[k].at = s[k].at,
         \A k \in 1..(Len(s) - 1) : a[k] = s[k],
         a[Len(s)].slowed = s[Len(s)].slowed + 1
  PROVE  PacedAs("polling", a, m, moment) /\ PoliteAs(a, m)
<1>1. /\ Len(s) \in Nat /\ Len(s) > 0
      /\ \A k \in 1..Len(s) : s[k].at \in Nat /\ s[k].slowed \in Nat
  BY AskInSeq
<1>2. PacedAs("polling", a, m, moment)
  BY <1>1 DEF PacedAs, Poll
<1>3. ASSUME NEW k \in 1..(Len(a) - 1) PROVE a[k + 1].at >= a[k].at + m.base + a[k].slowed
  <2>1. a[k + 1].at = s[k + 1].at /\ a[k] = s[k] /\ m.base = l.base
    BY <1>1
  <2>2. QED
    BY <1>1, <2>1 DEF PoliteAs
<1>4. ASSUME NEW k \in 2..(Len(a) - 1) PROVE a[k].at <= m.timeout
  BY <1>1, <1>4 DEF PoliteAs
<1>5. QED
  BY <1>2, <1>3, <1>4 DEF PoliteAs

\* A step to where no request is due asks for nothing more.
LEMMA PolitelyOn ==
  ASSUME NEW s, NEW l, NEW moment, NEW at, NEW next,
         PacedAs(at, s, l, moment), PoliteAs(s, l),
         next \in {"polling", "sleeping", "asking"} => at = "asking" /\ next = "polling"
  PROVE  PacedAs(next, s, l, moment) /\ PoliteAs(s, l)
BY DEF PacedAs, PoliteAs

LEMMA PacedStep ==
  ASSUME TypeOK, \A q \in Process : WellPaced(q), NEW p \in Process,
         Loading(p) \/ Refreshing(p) \/ Login(p) \/ Storing(p) \/ Crash(p)
  PROVE  \A q \in Process : WellPaced(q)'
<1> USE DEF memoryVars
<1>1. /\ polls \in [Process -> Asks] /\ poll \in [Process -> Poll] /\ now \in Nat
      /\ pc \in [Process -> Labels]
  BY DEF TypeOK, Asks, Ask, Poll, Labels
<1>2. ASSUME NEW s, NEW l, NEW at,
             pc' = [pc EXCEPT ![p] = at], polls' = [polls EXCEPT ![p] = s],
             poll' = [poll EXCEPT ![p] = l], UNCHANGED now,
             PacedAs(at, s, l, now), PoliteAs(s, l)
      PROVE  \A q \in Process : WellPaced(q)'
  <2>1. ASSUME NEW q \in Process PROVE WellPaced(q)'
    <3>1. CASE q = p
      BY <1>1, <1>2, <3>1 DEF WellPaced
    <3>2. CASE q # p
      <4>1. pc'[q] = pc[q] /\ polls'[q] = polls[q] /\ poll'[q] = poll[q]
        BY <1>1, <1>2, <3>2
      <4>2. QED
        BY <1>2, <4>1 DEF WellPaced
    <3>3. QED
      BY <3>1, <3>2
  <2>2. QED
    BY <2>1
<1>3. ASSUME NEW r, Finish(p, r) PROVE \A q \in Process : WellPaced(q)'
  <2>1. PacedAs("idle", << >>, Idle, now) /\ PoliteAs(<< >>, Idle)
    BY PolitelyNone
  <2>2. QED
    BY <1>2, <1>3, <2>1 DEF Finish, Goto
<1>4. ASSUME NEW r, StartAndEnd(p, r), UNCHANGED <<now, poll, polls>>
      PROVE  \A q \in Process : WellPaced(q)'
  BY <1>4 DEF StartAndEnd, WellPaced
<1>5. ASSUME NEW at, pc' = [pc EXCEPT ![p] = at], UNCHANGED <<now, poll, polls>>,
             at \in {"polling", "sleeping", "asking"} => pc[p] = "asking" /\ at = "polling"
      PROVE  \A q \in Process : WellPaced(q)'
  <2>1. PacedAs(at, polls[p], poll[p], now) /\ PoliteAs(polls[p], poll[p])
    BY <1>5, PolitelyOn DEF WellPaced
  <2>2. polls' = [polls EXCEPT ![p] = polls[p]] /\ poll' = [poll EXCEPT ![p] = poll[p]]
    BY <1>1, <1>5
  <2>3. QED
    BY <1>2, <1>5, <2>1, <2>2
<1>6. pc[p] \in {"polling", "sleeping", "asking"} => polls[p] # << >> /\ polls[p] \in Asks
  BY <1>1 DEF TypeOK
<1>7. poll[p] \in Poll /\ PacedAs(pc[p], polls[p], poll[p], now) /\ PoliteAs(polls[p], poll[p])
  BY <1>1 DEF WellPaced
<1>8. CASE Loading(p)
  BY <1>3, <1>4, <1>5, <1>8
  DEF Loading, Load, LoadFails, Accept, Expired, Start, Within, Goto
<1>9. CASE Refreshing(p)
  BY <1>3, <1>5, <1>9
  DEF Refreshing, Fresh, Refresh, CannotRefresh, SkipRefresh, Refreshed, GiveUpRefresh,
      RefreshFails, Fallback, Within, Goto
<1>10. CASE Storing(p)
  BY <1>3, <1>4, <1>5, <1>10
  DEF Storing, Truncate, SaveFails, Write, WriteFails, Logout, LogoutFails, Within, Goto
<1>11. CASE Crash(p)
  BY <1>3, <1>11 DEF Crash
<1>12. CASE Login(p)
  <2>1. CASE RequestDeviceCode(p)
    <3>1. PICK d \in Device :
            /\ poll' = [poll EXCEPT ![p] = [base |-> d.interval, interval |-> d.interval,
                                            timeout |-> now + d.life, wake |-> 0]]
            /\ polls' = [polls EXCEPT ![p] = <<[at |-> now, slowed |-> 0]>>]
      BY <2>1 DEF RequestDeviceCode
    <3> DEFINE l == [base |-> d.interval, interval |-> d.interval,
                     timeout |-> now + d.life, wake |-> 0]
    <3> DEFINE s == <<[at |-> now, slowed |-> 0]>>
    <3>2. d.interval \in Nat /\ l \in Poll /\ l.interval = l.base
      BY <1>1, DeviceAssumption DEF Poll
    <3>3. PacedAs("polling", s, l, now) /\ PoliteAs(s, l)
      BY <1>1, <3>2, PolitelyFirst
    <3> HIDE DEF l, s
    <3>4. QED
      BY <1>2, <2>1, <3>1, <3>3 DEF RequestDeviceCode, Start, Goto, l, s
  <2>2. CASE Sleep(p)
    <3> DEFINE m == [poll[p] EXCEPT !.wake = now + poll[p].interval]
    <3>1. /\ m \in Poll /\ m.base = poll[p].base
          /\ m.interval = poll[p].interval /\ m.timeout = poll[p].timeout
          /\ m.wake = now + poll[p].interval
      BY <1>1, <1>7 DEF Poll
    <3>2. poll' = [poll EXCEPT ![p] = m]
      BY <2>2 DEF Sleep
    <3> HIDE DEF m
    <3>3. pc[p] = "polling" /\ now < poll[p].timeout /\ UNCHANGED <<now, polls>>
          /\ pc' = [pc EXCEPT ![p] = "sleeping"]
      BY <2>2 DEF Sleep, Within, Goto
    <3>4. PacedAs("sleeping", polls[p], m, now) /\ PoliteAs(polls[p], m)
      BY <1>1, <1>6, <1>7, <3>1, <3>3, PolitelyAsleep
    <3>5. polls' = [polls EXCEPT ![p] = polls[p]]
      BY <1>1, <3>3
    <3>6. QED
      BY <1>2, <3>2, <3>3, <3>4, <3>5
  <2>3. CASE RequestToken(p)
    <3> DEFINE a == Append(polls[p], [at |-> now, slowed |-> polls[p][Len(polls[p])].slowed])
    <3>1. pc[p] = "sleeping" /\ now >= poll[p].wake /\ UNCHANGED <<now, poll>>
          /\ pc' = [pc EXCEPT ![p] = "asking"]
      BY <2>3 DEF RequestToken, Within, Goto
    <3>2. /\ a \in Asks /\ Len(a) = Len(polls[p]) + 1
          /\ \A k \in 1..Len(polls[p]) : a[k] = polls[p][k]
          /\ a[Len(polls[p]) + 1] = [at |-> now, slowed |-> polls[p][Len(polls[p])].slowed]
      BY <1>1, <1>6, <3>1, AsksLonger
    <3>3. polls' = [polls EXCEPT ![p] = a]
      BY <2>3 DEF RequestToken
    <3> HIDE DEF a
    <3>4. PacedAs("asking", a, poll[p], now) /\ PoliteAs(a, poll[p])
      BY <1>1, <1>6, <1>7, <3>1, <3>2, PolitelyAsked
    <3>5. poll' = [poll EXCEPT ![p] = poll[p]]
      BY <1>1, <3>1
    <3>6. QED
      BY <1>2, <3>1, <3>3, <3>4, <3>5
  <2>4. CASE SlowDown(p)
    <3> DEFINE a == [polls[p] EXCEPT ![Len(polls[p])].slowed = @ + 1]
    <3> DEFINE m == [poll[p] EXCEPT !.interval = @ + 1]
    <3>1. /\ m \in Poll /\ m.base = poll[p].base
          /\ m.interval = poll[p].interval + 1 /\ m.timeout = poll[p].timeout
      BY <1>7 DEF Poll
    <3>2. /\ pc[p] = "asking" /\ UNCHANGED now /\ pc' = [pc EXCEPT ![p] = "polling"]
          /\ poll' = [poll EXCEPT ![p] = m] /\ polls' = [polls EXCEPT ![p] = a]
      BY <2>4 DEF SlowDown, Within, Goto
    <3>3. /\ a \in Asks /\ Len(a) = Len(polls[p])
          /\ \A k \in 1..Len(polls[p]) : a[k].at = polls[p][k].at
          /\ \A k \in 1..(Len(polls[p]) - 1) : a[k] = polls[p][k]
          /\ a[Len(polls[p])].slowed = polls[p][Len(polls[p])].slowed + 1
      BY <1>6, <3>2, AsksSlower
    <3> HIDE DEF a, m
    <3>4. PacedAs("polling", a, m, now) /\ PoliteAs(a, m)
      BY <1>1, <1>6, <1>7, <3>1, <3>2, <3>3, PolitelySlower
    <3>5. QED
      BY <1>2, <3>2, <3>4
  <2>5. CASE DeviceCodeFails(p)
    BY <1>4, <2>5 DEF DeviceCodeFails
  <2>6. QED
    BY <1>3, <1>5, <1>12, <2>1, <2>2, <2>3, <2>4, <2>5
    DEF Login, TimedOut, Pending, Denied, Approved, Within, Goto
<1>13. QED
  BY <1>8, <1>9, <1>10, <1>11, <1>12

\* Each slow_down answer lengthens every later pause of the device flow by the
\* second of client.go:151, no other answer shortens one, and one request at most
\* is sent after the code has expired.
THEOREM SlowDownLasts == Spec => []PollingSlowsDown
<1>1. Init => PaceInv
  <2> SUFFICES ASSUME Init PROVE \A p \in Process : WellPaced(p)
    BY TypeInit, PaceIsEach
  <2>1. ASSUME NEW p \in Process PROVE WellPaced(p)
    <3>1. pc[p] = "idle" /\ polls[p] = << >>
      BY DEF Init
    <3>2. QED
      BY <3>1, PolitelyNone DEF WellPaced
  <2>2. QED
    BY <2>1
<1>2. PaceInv /\ [Next]_vars => PaceInv'
  <2> SUFFICES ASSUME TypeOK, \A p \in Process : WellPaced(p), [Next]_vars
               PROVE  \A p \in Process : WellPaced(p)'
    BY TypeStep, PaceIsEach DEF PaceInv, Paced, PollingSlowsDown, WellPaced, PacedAs, PoliteAs
  <2>1. CASE Tick
    <3>1. ASSUME NEW p \in Process PROVE WellPaced(p)'
      <4>1. /\ UNCHANGED <<pc, polls, poll>> /\ now' = now + 1 /\ now \in Nat
            /\ polls[p] \in Asks /\ WellPaced(p)
        BY <2>1 DEF Tick, memoryVars, TypeOK, Asks, Ask
      <4>2. \A k \in 1..Len(polls[p]) : polls[p][k].at \in Nat
        BY <4>1, AskInSeq
      <4>3. QED
        BY <4>1, <4>2 DEF WellPaced, PacedAs
    <3>2. QED
      BY <3>1
  <2>2. CASE UNCHANGED vars
    BY <2>2 DEF vars, memoryVars, WellPaced
  <2>3. QED
    BY <2>1, <2>2, PacedStep DEF Next
<1>3. PaceInv => PollingSlowsDown
  BY DEF PaceInv
<1>4. QED
  BY <1>1, <1>2, <1>3, PTL DEF Spec
=============================================================================
