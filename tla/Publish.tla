------------------------------- MODULE Publish -------------------------------
(***************************************************************************)
(* `mump2p publish` with authentication: cmd/publish.go around the rate    *)
(* limiter of internal/ratelimit, by processes of one user that share      *)
(* <subject>_usage.json.                                                   *)
(*                                                                         *)
(* A process loads the counters, resets them if their day is over, checks  *)
(* the limits, publishes to the nodes of its session one after the other   *)
(* until one confirms, loads the counters again and records the publish.   *)
(* The file is read and overwritten without any lock, and overwriting is a *)
(* truncation followed by a write.  `mump2p usage` loads, and may reset,   *)
(* the same counters.                                                      *)
(***************************************************************************)
EXTENDS Integers, Sequences, FiniteSets

CONSTANTS
  Process,     \* the CLI processes
  Size,        \* message sizes
  MaxMessageSize, MaxPublishPerSec, MaxPublishPerHour, DailyQuota,  \* the token's limits
  Second, Day, \* the two windows of the limiter, in units of the clock
  Hour,        \* an hour, in units of the clock; the limiter has no such window
  N,           \* the number of nodes in a session
  Fault,       \* what may go wrong: a subset of FaultKind
  MaxCalls,    \* bound: commands in a behaviour
  MaxTime      \* bound: the last moment of the clock

FaultKind == {"save", "crash", "node"}

ASSUME SizeAssumption == Size \subseteq Nat
ASSUME LimitAssumption ==
  {MaxMessageSize, MaxPublishPerSec, MaxPublishPerHour, DailyQuota} \subseteq Nat
ASSUME WindowAssumption == {Second, Hour, Day} \subseteq Nat \ {0}
ASSUME BoundAssumption ==
  N \in Nat \ {0} /\ Fault \subseteq FaultKind /\ MaxCalls \in Nat /\ MaxTime \in Nat

VARIABLES
  now,      \* the time
  file,     \* what the usage file holds
  pc,       \* pc[p]: where p is
  after,    \* after[p]: where p goes on when the counters are loaded or saved
  size,     \* size[p]: the size of its message
  usage,    \* usage[p]: the counters in its memory, Absent before it has any
  node,     \* node[p]: the node it tries
  verdict,  \* verdict[p]: the limit that refused it, "failed", "published" or "none"
  calls,    \* commands so far
  began,    \* began[p]: when p loaded the counters it checks
  admitted, \* the moments at which a publish passed the per-second check
  records   \* [at, size] of every publish that was recorded, in order

auditVars == <<began, admitted, records>>
vars == <<now, file, pc, after, size, usage, node, verdict, calls, auditVars>>

\* The counters of one user; UsageData without the fields nothing depends on.
\* The field since is for the properties only: the number of publishes that had
\* been recorded by the time of the reset.
Counters == [kind : {"usage"}, count : Nat, bytes : Nat, reset : Nat, since : Nat,
             secondAt : Int, secondCount : Nat]

\* The file does not exist; it is empty between the two steps of a save; or
\* overlapping saves have left a content that does not parse.
Absent == [kind |-> "absent"]
Empty == [kind |-> "empty"]
Garbled == [kind |-> "garbled"]

\* New counters; the zero time of LastSecondTime is long ago.
NewCounters ==
  [kind |-> "usage", count |-> 0, bytes |-> 0, reset |-> now, since |-> Len(records),
   secondAt |-> -Second, secondCount |-> 0]

\* loadUsage, with the replacement for a file that is missing or corrupted.
Loaded == IF file.kind = "usage" THEN file ELSE NewCounters

Init ==
  /\ now = 0
  /\ file = Absent
  /\ pc = [p \in Process |-> "idle"]
  /\ after = [p \in Process |-> "idle"]
  /\ size = [p \in Process |-> 0]
  /\ usage = [p \in Process |-> Absent]
  /\ node = [p \in Process |-> 0]
  /\ verdict = [p \in Process |-> "none"]
  /\ calls = 0
  /\ began = [p \in Process |-> 0]
  /\ admitted = << >>
  /\ records = << >>

Goto(p, label) == pc' = [pc EXCEPT ![p] = label]

\* saveUsage begins; the process goes on at label next when it is over.
Save(p, next) == Goto(p, "truncate") /\ after' = [after EXCEPT ![p] = next]

-----------------------------------------------------------------------------
(* Loading the counters.                                                   *)

\* A publish command starts: NewRateLimiterWithDir.
Start(p) ==
  /\ pc[p] = "idle" /\ calls < MaxCalls
  /\ calls' = calls + 1
  /\ \E s \in Size : size' = [size EXCEPT ![p] = s]
  /\ usage' = [usage EXCEPT ![p] = Loaded]
  /\ began' = [began EXCEPT ![p] = now]
  /\ Goto(p, "loaded") /\ after' = [after EXCEPT ![p] = "recheck"]
  /\ UNCHANGED <<now, file, node, verdict, admitted, records>>

\* A usage command starts: it only shows the counters.
StartUsage(p) ==
  /\ pc[p] = "idle" /\ calls < MaxCalls
  /\ calls' = calls + 1
  /\ usage' = [usage EXCEPT ![p] = Loaded]
  /\ Goto(p, "loaded") /\ after' = [after EXCEPT ![p] = "show"]
  /\ UNCHANGED <<now, file, size, node, verdict, auditVars>>

\* A node has confirmed: the counters are loaded again to record the publish.
Reload(p) ==
  /\ pc[p] = "confirmed"
  /\ usage' = [usage EXCEPT ![p] = Loaded]
  /\ Goto(p, "loaded") /\ after' = [after EXCEPT ![p] = "record"]
  /\ UNCHANGED <<now, file, size, node, verdict, calls, auditVars>>

\* The usage directory cannot be made: the publish is not recorded.  When this
\* happens to the first limiter, the command ends before it changes anything.
ReloadFails(p) ==
  /\ "save" \in Fault
  /\ pc[p] = "confirmed"
  /\ Goto(p, "done")
  /\ UNCHANGED <<now, file, after, size, usage, node, verdict, calls, auditVars>>

\* Mutant of Emptied: only the bytes are reset.
EmptiedBytes(u) == [u EXCEPT !.bytes = 0, !.reset = now, !.since = Len(records)]

\* The counters at the start of a new day; the per-second ones go on.
Emptied(u) ==
  [u EXCEPT !.count = 0, !.bytes = 0, !.reset = now, !.since = Len(records)]

\* The calls of checkAndResetCounters: by every load, and once more at the start
\* of CheckPublishAllowed and GetUsageStats, as the day may end in between.
Checks(p) == pc[p] \in {"loaded", "recheck", "show"}

\* Where the process goes on after the call.
Onward(p) ==
  CASE pc[p] = "loaded" -> after[p]
    [] pc[p] = "recheck" -> "check"
    [] OTHER -> "done"

\* The day of the counters is over.
Reset(p) ==
  /\ Checks(p) /\ now - usage[p].reset > Day
  /\ usage' = [usage EXCEPT ![p] = Emptied(@)]
  /\ Save(p, Onward(p))
  /\ UNCHANGED <<now, file, size, node, verdict, calls, auditVars>>

\* Mutant of NoReset: the counters live for two days.
NoResetForTwo(p) ==
  /\ Checks(p) /\ now - usage[p].reset <= 2 * Day
  /\ Goto(p, Onward(p))
  /\ UNCHANGED <<now, file, after, size, usage, node, verdict, calls, auditVars>>

NoReset(p) ==
  /\ Checks(p) /\ now - usage[p].reset <= Day
  /\ Goto(p, Onward(p))
  /\ UNCHANGED <<now, file, after, size, usage, node, verdict, calls, auditVars>>

-----------------------------------------------------------------------------
(* CheckPublishAllowed.                                                    *)

Refuse(p, limit) ==
  /\ verdict' = [verdict EXCEPT ![p] = limit]
  /\ Goto(p, "done")
  /\ UNCHANGED <<now, file, after, size, usage, node, calls, auditVars>>

\* The token says that its user is not active.
RefuseInactive(p) ==
  /\ pc[p] = "check"
  /\ Refuse(p, "inactive")

RefuseSize(p) ==
  /\ pc[p] = "check" /\ size[p] > MaxMessageSize
  /\ Refuse(p, "size")

\* Publishes in the second that runs, a new one starting if the last is over.
SecondOver(u) == now - u.secondAt >= Second
InSecond(u) == IF SecondOver(u) THEN 0 ELSE u.secondCount

RefuseSecond(p) ==
  /\ pc[p] = "check" /\ size[p] <= MaxMessageSize
  /\ InSecond(usage[p]) >= MaxPublishPerSec
  /\ Refuse(p, "second")

\* Mutant of CountedSecond: the count of the second goes down.
CountedDown(u) ==
  [u EXCEPT !.secondAt = IF SecondOver(u) THEN now ELSE @, !.secondCount = InSecond(u) - 1]

\* One publish more in the second that runs or starts.
CountedSecond(u) ==
  [u EXCEPT !.secondAt = IF SecondOver(u) THEN now ELSE @, !.secondCount = InSecond(u) + 1]

\* Mutant of CountSecond: one publish too many in a second.
CountSecondBeyond(p) ==
  /\ pc[p] = "check" /\ size[p] <= MaxMessageSize
  /\ InSecond(usage[p]) <= MaxPublishPerSec
  /\ usage' = [usage EXCEPT ![p] = CountedSecond(@)]
  /\ admitted' = Append(admitted, now)
  /\ Save(p, "limits")
  /\ UNCHANGED <<now, file, size, node, verdict, calls, began, records>>

\* The publish is counted for its second, and saved, before the other limits
\* are looked at.
CountSecond(p) ==
  /\ pc[p] = "check" /\ size[p] <= MaxMessageSize
  /\ InSecond(usage[p]) < MaxPublishPerSec
  /\ usage' = [usage EXCEPT ![p] = CountedSecond(@)]
  /\ admitted' = Append(admitted, now)
  /\ Save(p, "limits")
  /\ UNCHANGED <<now, file, size, node, verdict, calls, began, records>>

RefuseHour(p) ==
  /\ pc[p] = "limits" /\ usage[p].count >= MaxPublishPerHour
  /\ Refuse(p, "hour")

RefuseQuota(p) ==
  /\ pc[p] = "limits" /\ usage[p].count < MaxPublishPerHour
  /\ usage[p].bytes + size[p] > DailyQuota
  /\ Refuse(p, "quota")

\* Mutant of Allow: the quota is compared without the new message.
AllowToQuota(p) ==
  /\ pc[p] = "limits" /\ usage[p].count < MaxPublishPerHour
  /\ usage[p].bytes <= DailyQuota
  /\ node' = [node EXCEPT ![p] = 1]
  /\ Goto(p, "publish")
  /\ UNCHANGED <<now, file, after, size, usage, verdict, calls, auditVars>>

Allow(p) ==
  /\ pc[p] = "limits" /\ usage[p].count < MaxPublishPerHour
  /\ usage[p].bytes + size[p] <= DailyQuota
  /\ node' = [node EXCEPT ![p] = 1]
  /\ Goto(p, "publish")
  /\ UNCHANGED <<now, file, after, size, usage, verdict, calls, auditVars>>

-----------------------------------------------------------------------------
(* The nodes.                                                              *)

\* The node cannot be reached, answers an error, or takes the message and the
\* answer is late or lost: the loop goes on with the next node.
NodeFails(p) ==
  /\ "node" \in Fault
  /\ pc[p] = "publish" /\ node[p] <= N
  /\ node' = [node EXCEPT ![p] = @ + 1]
  /\ UNCHANGED <<now, file, pc, after, size, usage, verdict, calls, auditVars>>

NodeConfirms(p) ==
  /\ pc[p] = "publish" /\ node[p] <= N
  /\ verdict' = [verdict EXCEPT ![p] = "published"]
  /\ Goto(p, "confirmed")
  /\ UNCHANGED <<now, file, after, size, usage, node, calls, auditVars>>

\* No session is obtained, or no node of it is left.
GiveUp(p) ==
  /\ pc[p] = "publish" /\ (node[p] > N \/ (node[p] = 1 /\ "node" \in Fault))
  /\ Refuse(p, "failed")

\* Mutant of Recorded: the bytes are not added.
RecordedCount(u, s) == [u EXCEPT !.count = @ + 1]

\* One publish of size s more.
Recorded(u, s) == [u EXCEPT !.count = @ + 1, !.bytes = @ + s]

\* RecordPublish.
Record(p) ==
  /\ pc[p] = "record"
  /\ usage' = [usage EXCEPT ![p] = Recorded(@, size[p])]
  /\ records' = Append(records, [at |-> now, size |-> size[p]])
  /\ Save(p, "done")
  /\ UNCHANGED <<now, file, size, node, verdict, calls, began, admitted>>

-----------------------------------------------------------------------------
(* saveUsage, the end of a process, and the clock.                         *)

Truncate(p) ==
  /\ pc[p] = "truncate"
  /\ file' = Empty
  /\ Goto(p, "write")
  /\ UNCHANGED <<now, after, size, usage, node, verdict, calls, auditVars>>

\* Another process may have written since the truncation; if its content is
\* the longer one, its end stays behind this one's and nothing parses.
Write(p) ==
  /\ pc[p] = "write"
  /\ file' \in IF file = Empty THEN {usage[p]} ELSE {usage[p], Garbled}
  /\ Goto(p, after[p])
  /\ UNCHANGED <<now, after, size, usage, node, verdict, calls, auditVars>>

\* The file cannot be opened or written: a warning, or nothing at all.
SaveFails(p) ==
  /\ "save" \in Fault
  /\ pc[p] \in {"truncate", "write"}
  /\ Goto(p, after[p])
  /\ UNCHANGED <<now, file, after, size, usage, node, verdict, calls, auditVars>>

Gone(p) ==
  /\ Goto(p, "idle")
  /\ after' = [after EXCEPT ![p] = "idle"]
  /\ size' = [size EXCEPT ![p] = 0]
  /\ usage' = [usage EXCEPT ![p] = Absent]
  /\ node' = [node EXCEPT ![p] = 0]
  /\ verdict' = [verdict EXCEPT ![p] = "none"]
  /\ began' = [began EXCEPT ![p] = 0]
  /\ UNCHANGED <<now, file, calls, admitted, records>>

Exit(p) ==
  /\ pc[p] = "done"
  /\ Gone(p)

Crash(p) ==
  /\ "crash" \in Fault
  /\ pc[p] \notin {"idle", "done"}
  /\ Gone(p)

Tick ==
  /\ now < MaxTime
  /\ now' = now + 1
  /\ UNCHANGED <<file, pc, after, size, usage, node, verdict, calls, auditVars>>

-----------------------------------------------------------------------------

Load(p) == Start(p) \/ StartUsage(p) \/ Reload(p) \/ ReloadFails(p) \/ Reset(p) \/ NoReset(p)
Check(p) ==
  \/ RefuseInactive(p) \/ RefuseSize(p) \/ RefuseSecond(p) \/ CountSecond(p)
  \/ RefuseHour(p) \/ RefuseQuota(p) \/ Allow(p)
Send(p) == NodeFails(p) \/ NodeConfirms(p) \/ GiveUp(p) \/ Record(p)
SaveUsage(p) == Truncate(p) \/ Write(p) \/ SaveFails(p)

Next ==
  \/ \E p \in Process : Load(p) \/ Check(p) \/ Send(p) \/ SaveUsage(p) \/ Exit(p) \/ Crash(p)
  \/ Tick

Spec == Init /\ [][Next]_vars

-----------------------------------------------------------------------------
(* Properties of any number of processes, with every fault.                *)

\* Types: no count goes below zero, and the limiter is in one of its states.
TypeOK ==
  /\ now \in Nat
  /\ file \in Counters \cup {Absent, Empty, Garbled}
  /\ pc \in [Process -> {"idle", "loaded", "recheck", "show", "check", "limits", "publish",
                         "confirmed", "record", "truncate", "write", "done"}]
  /\ after \in [Process -> {"idle", "recheck", "show", "check", "limits", "record", "done"}]
  /\ size \in [Process -> Size \cup {0}]
  /\ usage \in [Process -> Counters \cup {Absent}]
  /\ node \in [Process -> 0..(N + 1)]
  /\ verdict \in [Process -> {"none", "inactive", "size", "second", "hour", "quota", "failed", "published"}]
  /\ calls \in Nat
  /\ began \in [Process -> Nat]
  /\ admitted \in Seq(Nat)
  /\ records \in Seq([at : Nat, size : Size])

\* The counters on disk and in memory, and what may stand in their place.
InUse == {file} \cup {usage[p] : p \in Process}

\* The bytes of the first k of the publishes s, for every k.
Bytes(s) ==
  LET sum[k \in 0..Len(s)] == IF k = 0 THEN 0 ELSE sum[k - 1] + s[k].size
  IN sum

\* The bytes of the publishes recorded after the first n.
BytesAfter(n) == Bytes(records)[Len(records)] - Bytes(records)[n]

\* Processes that overlap may lose publishes from the count, never invent one:
\* no counters, on disk or in memory, count more than was recorded since they
\* were last reset, however loads, resets, saves and crashes interleave.
NeverOvercounts ==
  \A u \in InUse :
    u.kind = "usage" => u.since + u.count <= Len(records)

\* A user who has published nothing for a day is admitted: a refusal by the
\* hourly limit or by the quota comes from a publish that was recorded at most
\* a day before the command began.
QuietDayAdmits ==
  \A p \in Process :
    /\ verdict[p] \in {"hour", "quota"}
    /\ MaxPublishPerHour > 0 /\ size[p] <= DailyQuota
    => \E k \in 1..Len(records) : records[k].at >= began[p] - Day

-----------------------------------------------------------------------------
(* Properties of commands that do not overlap and whose saves succeed.     *)

\* What the next command will count is what was recorded since the last reset,
\* in number and in bytes: no save, reset or retry loses or repeats a publish.
CountsExactly ==
  (\A p \in Process : pc[p] \in {"idle", "done"}) =>
    /\ file = Absent => records = << >>
    /\ file.kind = "usage" => /\ file.count = Len(records) - file.since
                              /\ file.bytes = BytesAfter(file.since)

\* Since their last reset, the publishes recorded respect both limits.
QuotaKept ==
  file.kind = "usage" => /\ Len(records) - file.since <= MaxPublishPerHour
                         /\ BytesAfter(file.since) <= DailyQuota

\* No second of the limiter admits more publishes than the token allows, also
\* counting those that another limit refuses afterwards.
RateKept ==
  file.kind = "usage" =>
    Cardinality({k \in 1..Len(admitted) :
                   admitted[k] >= file.secondAt /\ admitted[k] < file.secondAt + Second})
      <= MaxPublishPerSec

\* A publish is refused by the hourly limit only if that many publishes were
\* recorded within the last hour.
HourlyRefusalJustified ==
  \A p \in Process :
    verdict[p] = "hour" =>
      Cardinality({k \in 1..Len(records) : records[k].at >= began[p] - Hour})
        >= MaxPublishPerHour

-----------------------------------------------------------------------------
(* The inductive invariant behind the properties of overlapping commands.  *)

\* p is at one of the labels L, or will be when it has saved.
BoundFor(p, L) ==
  \/ pc[p] \in L
  \/ pc[p] \in {"truncate", "write"} /\ after[p] \in L

\* What a command has got in memory where it needs it.
CommandState ==
  \A p \in Process :
    /\ pc[p] = "idle" => verdict[p] = "none"
    /\ pc[p] # "idle" => usage[p] \in Counters
    /\ pc[p] \in {"loaded", "truncate", "write"} => after[p] # "idle"
    /\ \/ pc[p] \in {"recheck", "check", "limits", "publish", "confirmed", "record"}
       \/ /\ pc[p] \in {"loaded", "truncate", "write"}
          /\ after[p] \in {"recheck", "check", "limits", "record"}
       => size[p] \in Size

\* Counters were last reset in the past, have no bytes without a publish, and
\* count only publishes recorded since then.
CountersSound ==
  \A u \in InUse :
    u.kind = "usage" =>
      /\ u.reset <= now
      /\ u.count = 0 => u.bytes = 0
      /\ \A k \in 1..Len(records) : k > u.since => records[k].at >= u.reset

\* The counters that limits are checked against were reset at most a day
\* before the command began.
CheckedFresh ==
  \A p \in Process :
    /\ began[p] <= now
    /\ BoundFor(p, {"recheck", "check", "limits"}) => usage[p].reset >= began[p] - Day

IInv ==
  /\ TypeOK
  /\ CommandState
  /\ NeverOvercounts
  /\ CountersSound
  /\ CheckedFresh
  /\ QuietDayAdmits

-----------------------------------------------------------------------------
(* The inductive invariant behind the properties of commands that do not   *)
(* overlap.                                                                *)

\* A command of p is under way; no two are.
Active(p) == pc[p] \notin {"idle", "done"}
Alone == \A p, q \in Process : Active(p) /\ Active(q) => p = q

\* u counts exactly what was recorded since its reset, within the limits.
Exact(u) ==
  /\ u.since <= Len(records) /\ u.count = Len(records) - u.since
  /\ u.bytes = BytesAfter(u.since)
  /\ u.count <= MaxPublishPerHour /\ u.bytes <= DailyQuota

\* The last secondCount publishes admitted are those of the second u counts, and
\* no other admitted publish is in it or after it.
Rated(u) ==
  /\ u.secondAt <= now
  /\ u.secondCount <= MaxPublishPerSec /\ u.secondCount <= Len(admitted)
  /\ \A k \in 1..Len(admitted) :
       /\ admitted[k] < u.secondAt + Second
       /\ admitted[k] >= u.secondAt <=> k > Len(admitted) - u.secondCount

Current(u) == Exact(u) /\ Rated(u)

\* The file holds what the command has in memory, except before the first save
\* of all and while the command saves.
FileCurrent ==
  /\ file # Garbled
  /\ file = Absent => records = << >>
  /\ file = Empty => \E p \in Process : pc[p] = "write"
  /\ (\A p \in Process : pc[p] # "truncate") =>
       /\ file = Absent => admitted = << >>
       /\ file.kind = "usage" => Current(file)
  /\ \A p \in Process :
       /\ pc[p] = "loaded" =>
            file = usage[p] \/ (file = Absent /\ after[p] \in {"recheck", "show"})
       /\ pc[p] \in {"recheck", "show", "check"} => file = usage[p] \/ file = Absent
       /\ pc[p] \in {"limits", "publish", "confirmed", "record"} => file = usage[p]
       /\ pc[p] = "write" => file = Empty

\* The limits that let a command publish still do when it is recorded.
Room ==
  \A p \in Process :
    \/ pc[p] \in {"publish", "confirmed", "record"}
    \/ pc[p] \in {"loaded", "truncate", "write"} /\ after[p] = "record"
    => usage[p].count < MaxPublishPerHour /\ usage[p].bytes + size[p] <= DailyQuota

AloneInv ==
  /\ \A p \in Process : Active(p) => Current(usage[p])
  /\ FileCurrent /\ Room /\ QuotaKept /\ RateKept
=============================================================================
