---------------------------- MODULE PublishProofs ----------------------------
(***************************************************************************)
(* Theorems about Publish, for every set of processes, sizes, limits and   *)
(* faults and every bound: what holds of commands that overlap, and what   *)
(* more holds of those that do not, when every save succeeds.              *)
(***************************************************************************)
EXTENDS Publish, Recursion, FiniteSetTheorems, TLAPS

\* What stands in the place of a file that holds no counters is no counters.
LEMMA FileKinds ==
  /\ Absent.kind # "usage" /\ Empty.kind # "usage" /\ Garbled.kind # "usage"
  /\ Absent \notin Counters /\ Empty \notin Counters /\ Garbled \notin Counters
  /\ \A u \in Counters : u.kind = "usage"
BY DEF Absent, Empty, Garbled, Counters

\* A load yields counters, whatever the file holds.
LEMMA LoadedType == TypeOK => Loaded \in Counters
<1> SUFFICES ASSUME TypeOK PROVE Loaded \in Counters
  OBVIOUS
<1>1. NewCounters \in Counters
  BY WindowAssumption DEF TypeOK, NewCounters, Counters
<1>2. file.kind = "usage" => file \in Counters
  BY FileKinds DEF TypeOK
<1>3. QED
  BY <1>1, <1>2 DEF Loaded

\* Counters stay counters when some of their fields get new values.
LEMMA EmptiedFields ==
  ASSUME NEW u \in Counters, now \in Nat, Len(records) \in Nat
  PROVE  /\ Emptied(u) \in Counters
         /\ Emptied(u).count = 0 /\ Emptied(u).bytes = 0
         /\ Emptied(u).reset = now /\ Emptied(u).since = Len(records)
<1>1. ASSUME NEW t \in Nat, NEW n \in Nat
      PROVE  [u EXCEPT !.count = 0, !.bytes = 0, !.reset = t, !.since = n] \in Counters
  BY DEF Counters
<1>2. QED
  BY <1>1 DEF Emptied, Counters

LEMMA CountedFields ==
  ASSUME NEW u \in Counters, now \in Nat
  PROVE  /\ CountedSecond(u) \in Counters
         /\ CountedSecond(u).count = u.count /\ CountedSecond(u).bytes = u.bytes
         /\ CountedSecond(u).reset = u.reset /\ CountedSecond(u).since = u.since
<1>1. ASSUME NEW t \in Int, NEW c \in Nat
      PROVE  [u EXCEPT !.secondAt = t, !.secondCount = c] \in Counters
  BY DEF Counters
<1>2. InSecond(u) + 1 \in Nat /\ (IF SecondOver(u) THEN now ELSE u.secondAt) \in Int
  BY DEF Counters, InSecond
<1>3. QED
  BY <1>1, <1>2 DEF CountedSecond, Counters

LEMMA RecordedFields ==
  ASSUME NEW u \in Counters, NEW s \in Nat
  PROVE  /\ Recorded(u, s) \in Counters
         /\ Recorded(u, s).count = u.count + 1 /\ Recorded(u, s).bytes = u.bytes + s
         /\ Recorded(u, s).reset = u.reset /\ Recorded(u, s).since = u.since
<1>1. ASSUME NEW c \in Nat, NEW b \in Nat
      PROVE  [u EXCEPT !.count = c, !.bytes = b] \in Counters
  BY DEF Counters
<1>2. u.count + 1 \in Nat /\ u.bytes + s \in Nat
  BY DEF Counters
<1>3. QED
  BY <1>1, <1>2 DEF Recorded, Counters

\* Where a command goes on after a check for a new day.
LEMMA OnwardCases ==
  ASSUME NEW p, Checks(p)
  PROVE  \/ pc[p] = "loaded" /\ Onward(p) = after[p]
         \/ pc[p] = "recheck" /\ Onward(p) = "check"
         \/ pc[p] = "show" /\ Onward(p) = "done"
BY DEF Checks, Onward

-----------------------------------------------------------------------------

\* The initial state is well typed, and every step keeps it so.
LEMMA TypeInit == Init => TypeOK
BY BoundAssumption DEF Init, TypeOK

LEMMA TypeStep == TypeOK /\ CommandState /\ [Next]_vars => TypeOK'
<1> SUFFICES ASSUME TypeOK, CommandState, [Next]_vars PROVE TypeOK'
  OBVIOUS
<1> USE DEF TypeOK, Goto, Save, auditVars
<1>1. ASSUME NEW p \in Process, Start(p) \/ StartUsage(p) \/ Reload(p)
      PROVE  TypeOK'
  <2>1. usage' = [usage EXCEPT ![p] = Loaded] /\ Loaded \in Counters
    BY <1>1, LoadedType DEF Start, StartUsage, Reload
  <2>2. usage' \in [Process -> Counters \cup {Absent}]
    BY <2>1
  <2>3. CASE Start(p)
    BY <2>2, <2>3 DEF Start
  <2>4. CASE StartUsage(p)
    BY <2>2, <2>4 DEF StartUsage
  <2>5. CASE Reload(p)
    BY <2>2, <2>5 DEF Reload
  <2>6. QED
    BY <1>1, <2>3, <2>4, <2>5
<1>2. ASSUME NEW p \in Process, Reset(p) PROVE TypeOK'
  <2>1. usage[p] \in Counters /\ Onward(p) \in {"recheck", "show", "check", "limits", "record", "done"}
    BY <1>2, OnwardCases DEF Reset, Checks, CommandState
  <2>2. Emptied(usage[p]) \in Counters
    BY <2>1, EmptiedFields
  <2>3. usage' \in [Process -> Counters \cup {Absent}]
    BY <1>2, <2>2 DEF Reset
  <2>4. QED
    BY <1>2, <2>1, <2>3 DEF Reset
<1>3. ASSUME NEW p \in Process, NoReset(p) \/ ReloadFails(p) PROVE TypeOK'
  <2>1. CASE NoReset(p)
    <3>1. Onward(p) \in {"recheck", "show", "check", "limits", "record", "done"}
      BY <2>1, OnwardCases DEF NoReset, CommandState
    <3>2. QED
      BY <2>1, <3>1 DEF NoReset
  <2>2. CASE ReloadFails(p)
    BY <2>2 DEF ReloadFails
  <2>3. QED
    BY <1>3, <2>1, <2>2
<1>4. ASSUME NEW p \in Process,
             RefuseInactive(p) \/ RefuseSize(p) \/ RefuseSecond(p) \/ RefuseHour(p)
               \/ RefuseQuota(p) \/ GiveUp(p)
      PROVE  TypeOK'
  BY <1>4 DEF RefuseInactive, RefuseSize, RefuseSecond, RefuseHour, RefuseQuota, GiveUp,
              Refuse
<1>5. ASSUME NEW p \in Process, CountSecond(p) PROVE TypeOK'
  <2>1. CountedSecond(usage[p]) \in Counters
    BY <1>5, CountedFields DEF CountSecond, CommandState
  <2>2. usage' \in [Process -> Counters \cup {Absent}]
    BY <1>5, <2>1 DEF CountSecond
  <2>3. admitted' \in Seq(Nat)
    BY <1>5 DEF CountSecond
  <2>4. QED
    BY <1>5, <2>2, <2>3 DEF CountSecond
<1>6. ASSUME NEW p \in Process, Allow(p) \/ NodeFails(p) \/ NodeConfirms(p)
      PROVE  TypeOK'
  <2>1. node' \in [Process -> 0..(N + 1)]
    BY <1>6, BoundAssumption DEF Allow, NodeFails, NodeConfirms
  <2>2. QED
    BY <1>6, <2>1 DEF Allow, NodeFails, NodeConfirms
<1>7. ASSUME NEW p \in Process, Record(p) PROVE TypeOK'
  <2>1. size[p] \in Size /\ size[p] \in Nat
    BY <1>7, SizeAssumption DEF Record, CommandState
  <2>2. Recorded(usage[p], size[p]) \in Counters
    BY <1>7, <2>1, RecordedFields DEF Record, CommandState
  <2>3. usage' \in [Process -> Counters \cup {Absent}]
    BY <1>7, <2>2 DEF Record
  <2>4. records' \in Seq([at : Nat, size : Size])
    <3>1. [at |-> now, size |-> size[p]] \in [at : Nat, size : Size]
      BY <2>1
    <3>2. QED
      BY <1>7, <3>1 DEF Record
  <2>5. QED
    BY <1>7, <2>3, <2>4 DEF Record
<1>8. ASSUME NEW p \in Process, Truncate(p) \/ SaveFails(p) PROVE TypeOK'
  BY <1>8 DEF Truncate, SaveFails, CommandState
<1>9. ASSUME NEW p \in Process, Write(p) PROVE TypeOK'
  <2>1. file' \in Counters \cup {Absent, Empty, Garbled}
    BY <1>9 DEF Write, CommandState
  <2>2. after[p] \in {"recheck", "show", "check", "limits", "record", "done"}
    BY <1>9 DEF Write, CommandState
  <2>3. QED
    BY <1>9, <2>1, <2>2 DEF Write
<1>10. ASSUME NEW p \in Process, Exit(p) \/ Crash(p) PROVE TypeOK'
  <2>1. Gone(p)
    BY <1>10 DEF Exit, Crash
  <2>2. size' \in [Process -> Size \cup {0}]
    BY <2>1 DEF Gone
  <2>3. node' \in [Process -> 0..(N + 1)]
    BY <2>1, BoundAssumption DEF Gone
  <2>4. began' \in [Process -> Nat]
    BY <2>1 DEF Gone
  <2>5. QED
    BY <2>1, <2>2, <2>3, <2>4 DEF Gone
<1>11. CASE Tick
  BY <1>11 DEF Tick
<1>12. CASE UNCHANGED vars
  BY <1>12 DEF vars
<1>13. QED
  BY <1>1, <1>2, <1>3, <1>4, <1>5, <1>6, <1>7, <1>8, <1>9, <1>10, <1>11, <1>12
     DEF Next, Load, Check, Send, SaveUsage

\* A command is at its own step, and has what that step needs.
LEMMA CommandStep == TypeOK /\ CommandState /\ [Next]_vars => CommandState'
<1> SUFFICES ASSUME TypeOK, CommandState, [Next]_vars PROVE CommandState'
  OBVIOUS
<1> USE DEF TypeOK, CommandState, Goto, Save, auditVars
<1>1. ASSUME NEW p \in Process, Start(p) \/ StartUsage(p) \/ Reload(p)
      PROVE  CommandState'
  BY <1>1, LoadedType DEF Start, StartUsage, Reload
<1>2. ASSUME NEW p \in Process, Reset(p) PROVE CommandState'
  <2>1. usage[p] \in Counters
    BY <1>2 DEF Reset, Checks
  <2>2. Emptied(usage[p]) \in Counters
    BY <2>1, EmptiedFields
  <2>3. /\ Onward(p) # "idle"
        /\ Onward(p) \in {"recheck", "check", "limits", "record"} => size[p] \in Size
    BY <1>2, OnwardCases DEF Reset
  <2>4. QED
    BY <1>2, <2>2, <2>3 DEF Reset
<1>3. ASSUME NEW p \in Process, NoReset(p) \/ ReloadFails(p) PROVE CommandState'
  BY <1>3, OnwardCases DEF NoReset, ReloadFails
<1>4. ASSUME NEW p \in Process,
             RefuseInactive(p) \/ RefuseSize(p) \/ RefuseSecond(p) \/ RefuseHour(p)
               \/ RefuseQuota(p) \/ GiveUp(p)
      PROVE  CommandState'
  BY <1>4 DEF RefuseInactive, RefuseSize, RefuseSecond, RefuseHour, RefuseQuota, GiveUp,
              Refuse
<1>5. ASSUME NEW p \in Process, CountSecond(p) PROVE CommandState'
  <2>1. CountedSecond(usage[p]) \in Counters
    BY <1>5, CountedFields DEF CountSecond
  <2>2. QED
    BY <1>5, <2>1 DEF CountSecond
<1>6. ASSUME NEW p \in Process, Allow(p) \/ NodeFails(p) \/ NodeConfirms(p)
      PROVE  CommandState'
  BY <1>6 DEF Allow, NodeFails, NodeConfirms
<1>7. ASSUME NEW p \in Process, Record(p) PROVE CommandState'
  <2>1. size[p] \in Nat
    BY <1>7, SizeAssumption DEF Record
  <2>2. Recorded(usage[p], size[p]) \in Counters
    BY <1>7, <2>1, RecordedFields DEF Record
  <2>3. QED
    BY <1>7, <2>2 DEF Record
<1>8. ASSUME NEW p \in Process, Truncate(p) \/ SaveFails(p) \/ Write(p)
      PROVE  CommandState'
  BY <1>8 DEF Truncate, SaveFails, Write
<1>9. ASSUME NEW p \in Process, Exit(p) \/ Crash(p) PROVE CommandState'
  BY <1>9 DEF Exit, Crash, Gone
<1>10. CASE Tick \/ UNCHANGED vars
  BY <1>10 DEF Tick, vars
<1>11. QED
  BY <1>1, <1>2, <1>3, <1>4, <1>5, <1>6, <1>7, <1>8, <1>9, <1>10
     DEF Next, Load, Check, Send, SaveUsage

-----------------------------------------------------------------------------

\* v counts what u counts.
SameCounts(v, u) ==
  v.count = u.count /\ v.bytes = u.bytes /\ v.reset = u.reset /\ v.since = u.since

\* v has just been reset, or made.
New(v) == v.count = 0 /\ v.bytes = 0 /\ v.reset = now /\ v.since = Len(records)

\* v counts one publish more than u.
OneMore(v, u) ==
  v.count = u.count + 1 /\ v.bytes >= u.bytes /\ v.reset = u.reset /\ v.since = u.since

\* A step that changes the memory of one process.
LEMMA MemoryStep ==
  ASSUME TypeOK, NEW p \in Process, NEW x, usage' = [usage EXCEPT ![p] = x],
         file' = file, NEW v \in InUse'
  PROVE  v \in InUse \/ v = x
BY DEF TypeOK, InUse

\* Where the counters in use after a step come from.
LEMMA CountersStep ==
  ASSUME TypeOK, CommandState, [Next]_vars, NEW v \in InUse', v.kind = "usage"
  PROVE  \/ /\ records' = records \/ \E r : records' = Append(records, r)
            /\ \E u \in InUse : u \in Counters /\ SameCounts(v, u)
         \/ records' = records /\ New(v)
         \/ /\ \E r : records' = Append(records, r)
            /\ \E u \in InUse : u \in Counters /\ OneMore(v, u)
<1> DEFINE Goal ==
      \/ /\ records' = records \/ \E r : records' = Append(records, r)
         /\ \E u \in InUse : u \in Counters /\ SameCounts(v, u)
      \/ records' = records /\ New(v)
      \/ /\ \E r : records' = Append(records, r)
         /\ \E u \in InUse : u \in Counters /\ OneMore(v, u)
<1>a. \A u \in InUse : u.kind = "usage" => u \in Counters
  BY FileKinds DEF TypeOK, InUse
<1>b. v \in InUse /\ (records' = records \/ \E r : records' = Append(records, r)) => Goal
  BY <1>a DEF SameCounts
<1>c. \A p \in Process : usage[p] \in InUse
  BY DEF InUse
<1>1. ASSUME NEW p \in Process, Start(p) \/ StartUsage(p) \/ Reload(p) PROVE Goal
  <2>1. v \in InUse \/ v = Loaded
    BY <1>1, MemoryStep DEF Start, StartUsage, Reload
  <2>2. records' = records
    BY <1>1 DEF Start, StartUsage, Reload, auditVars
  <2>3. Loaded \in InUse \/ New(Loaded)
    BY DEF Loaded, InUse, NewCounters, New
  <2>4. QED
    BY <1>b, <2>1, <2>2, <2>3
<1>2. ASSUME NEW p \in Process, Reset(p) PROVE Goal
  <2>1. v \in InUse \/ v = Emptied(usage[p])
    BY <1>2, MemoryStep DEF Reset, Save
  <2>2. usage[p] \in Counters
    BY <1>2 DEF Reset, Checks, CommandState
  <2>3. New(Emptied(usage[p]))
    BY <2>2, EmptiedFields DEF New, TypeOK
  <2>4. records' = records
    BY <1>2 DEF Reset, auditVars
  <2>5. QED
    BY <1>b, <2>1, <2>3, <2>4
<1>3. ASSUME NEW p \in Process, CountSecond(p) PROVE Goal
  <2>1. v \in InUse \/ v = CountedSecond(usage[p])
    BY <1>3, MemoryStep DEF CountSecond, Save
  <2>2. usage[p] \in Counters
    BY <1>3 DEF CountSecond, CommandState
  <2>3. SameCounts(CountedSecond(usage[p]), usage[p])
    BY <2>2, CountedFields DEF SameCounts, TypeOK
  <2>4. records' = records
    BY <1>3 DEF CountSecond
  <2>5. QED
    BY <1>b, <1>c, <2>1, <2>2, <2>3, <2>4
<1>4. ASSUME NEW p \in Process, Record(p) PROVE Goal
  <2>1. v \in InUse \/ v = Recorded(usage[p], size[p])
    BY <1>4, MemoryStep DEF Record, Save
  <2>2. usage[p] \in Counters /\ size[p] \in Nat
    BY <1>4, SizeAssumption DEF Record, CommandState
  <2>3. usage[p].bytes + size[p] >= usage[p].bytes
    BY <2>2 DEF Counters
  <2>4. OneMore(Recorded(usage[p], size[p]), usage[p])
    BY <2>2, <2>3, RecordedFields DEF OneMore
  <2>5. \E r : records' = Append(records, r)
    BY <1>4 DEF Record
  <2>6. QED
    BY <1>b, <1>c, <2>1, <2>2, <2>4, <2>5
<1>5. ASSUME NEW p \in Process, Truncate(p) \/ Write(p) PROVE Goal
  <2>1. file' \in {Empty, Garbled, usage[p]} /\ usage' = usage /\ records' = records
    BY <1>5 DEF Truncate, Write, auditVars
  <2>2. v \in InUse
    BY <2>1, FileKinds DEF InUse
  <2>3. QED
    BY <1>b, <2>1, <2>2
<1>6. ASSUME NEW p \in Process, Exit(p) \/ Crash(p) PROVE Goal
  <2>1. v \in InUse \/ v = Absent
    BY <1>6, MemoryStep DEF Exit, Crash, Gone
  <2>2. records' = records
    BY <1>6 DEF Exit, Crash, Gone
  <2>3. QED
    BY <1>b, <2>1, <2>2, FileKinds
<1>7. CASE UNCHANGED <<file, usage, records>>
  BY <1>7, <1>b DEF InUse
<1>8. QED
  BY <1>1, <1>2, <1>3, <1>4, <1>5, <1>6, <1>7
     DEF Next, Load, Check, Send, SaveUsage, vars, auditVars, ReloadFails, NoReset,
         RefuseInactive, RefuseSize, RefuseSecond, RefuseHour, RefuseQuota, GiveUp, Refuse,
         Allow, NodeFails, NodeConfirms, SaveFails, Tick

-----------------------------------------------------------------------------

\* A record is appended at the present moment, the others stay; the clock goes
\* on only when none is.
LEMMA RecordsStep ==
  ASSUME TypeOK, TypeOK', [Next]_vars
  PROVE  /\ now <= now'
         /\ \/ records' = records
            \/ \E r : records' = Append(records, r)
         /\ Len(records) <= Len(records')
         /\ \A k \in 1..Len(records) : records'[k] = records[k]
         /\ \A k \in 1..Len(records') : k > Len(records) => records'[k].at = now /\ now' = now
<1>1. ASSUME NEW p \in Process, Record(p)
      PROVE  \E r : records' = Append(records, r) /\ r.at = now /\ now' = now
  BY <1>1 DEF Record
<1>2. ASSUME \A p \in Process : ~Record(p) PROVE records' = records /\ now <= now'
  BY <1>2 DEF TypeOK, Next, Load, Check, Send, SaveUsage, vars, auditVars, Start,
              StartUsage, Reload, ReloadFails, Reset, NoReset, RefuseInactive, RefuseSize,
              RefuseSecond, CountSecond, RefuseHour, RefuseQuota, GiveUp, Refuse, Allow,
              NodeFails, NodeConfirms, Truncate, Write, SaveFails, Exit, Crash, Gone, Tick
<1>3. CASE \E p \in Process : Record(p)
  <2>1. PICK r : records' = Append(records, r) /\ r.at = now /\ now' = now
    BY <1>1, <1>3
  <2>2. /\ Len(records') = Len(records) + 1 /\ Len(records) \in Nat
        /\ records'[Len(records) + 1] = r
        /\ \A k \in 1..Len(records) : records'[k] = records[k]
    BY <2>1 DEF TypeOK
  <2>3. \A k \in 1..Len(records') : k > Len(records) => k = Len(records) + 1
    BY <2>2
  <2>4. QED
    BY <2>1, <2>2, <2>3 DEF TypeOK
<1>4. QED
  BY <1>2, <1>3 DEF TypeOK

\* What a counter counts has been recorded before.
LEMMA OverStep ==
  TypeOK /\ TypeOK' /\ CommandState /\ NeverOvercounts /\ [Next]_vars => NeverOvercounts'
<1> SUFFICES ASSUME TypeOK, TypeOK', CommandState, NeverOvercounts, [Next]_vars,
                    NEW v \in InUse', v.kind = "usage"
             PROVE  v.since + v.count <= Len(records')
  BY DEF NeverOvercounts
<1>0. Len(records) \in Nat /\ Len(records') \in Nat
  BY DEF TypeOK
<1>1. Len(records) \in Nat /\ Len(records') \in Nat /\ Len(records) <= Len(records')
  BY <1>0, RecordsStep
<1>2. \A r : records' = Append(records, r) => Len(records') = Len(records) + 1
  BY DEF TypeOK
<1>3. \A u \in InUse : u \in Counters =>
         u.since + u.count <= Len(records) /\ u.since \in Nat /\ u.count \in Nat
  BY DEF NeverOvercounts, Counters
<1>4. CASE \E u \in InUse : u \in Counters /\ SameCounts(v, u)
  BY <1>1, <1>3, <1>4 DEF SameCounts
<1>5. CASE New(v)
  BY <1>1, <1>5 DEF New
<1>6. CASE /\ \E r : records' = Append(records, r)
           /\ \E u \in InUse : u \in Counters /\ OneMore(v, u)
  BY <1>1, <1>2, <1>3, <1>6 DEF OneMore
<1>7. QED
  BY <1>4, <1>5, <1>6, CountersStep

\* Counters stay sound: a reset starts at the end of the records, and a new
\* record is younger than every reset.
LEMMA SoundStep ==
  TypeOK /\ TypeOK' /\ CommandState /\ NeverOvercounts /\ CountersSound /\ [Next]_vars
    => CountersSound'
<1> SUFFICES ASSUME TypeOK, TypeOK', CommandState, NeverOvercounts, CountersSound, [Next]_vars,
                    NEW v \in InUse', v.kind = "usage"
             PROVE  /\ v.reset <= now'
                    /\ v.count = 0 => v.bytes = 0
                    /\ \A k \in 1..Len(records') : k > v.since => records'[k].at >= v.reset
  BY DEF CountersSound
<1> DEFINE Sound == /\ v.reset <= now'
                    /\ v.count = 0 => v.bytes = 0
                    /\ \A k \in 1..Len(records') : k > v.since => records'[k].at >= v.reset
<1>0. /\ now \in Nat /\ now' \in Nat
      /\ Len(records) \in Nat /\ Len(records') \in Nat
  BY DEF TypeOK
<1>1. /\ now \in Nat /\ now' \in Nat /\ now <= now'
      /\ Len(records) \in Nat /\ Len(records') \in Nat
      /\ \A k \in 1..Len(records) : records'[k] = records[k]
      /\ \A k \in 1..Len(records') : k > Len(records) => records'[k].at = now
  BY <1>0, RecordsStep
<1>2. ASSUME NEW u \in InUse, u \in Counters
      PROVE  /\ u.reset <= now /\ u.reset \in Nat /\ u.count \in Nat /\ u.since \in Nat
             /\ u.count = 0 => u.bytes = 0
             /\ \A k \in 1..Len(records) : k > u.since => records[k].at >= u.reset
  BY <1>2 DEF CountersSound, Counters
<1>3. ASSUME NEW u \in InUse, u \in Counters, v.reset = u.reset, v.since = u.since
      PROVE  /\ v.reset <= now'
             /\ \A k \in 1..Len(records') : k > v.since => records'[k].at >= v.reset
  <2>1. v.reset <= now'
    BY <1>1, <1>2, <1>3
  <2>2. ASSUME NEW k \in 1..Len(records'), k > v.since PROVE records'[k].at >= v.reset
    <3>1. CASE k \in 1..Len(records)
      BY <1>1, <1>2, <1>3, <2>2, <3>1
    <3>2. CASE k > Len(records)
      BY <1>1, <1>2, <1>3, <3>2
    <3>3. QED
      BY <1>1, <3>1, <3>2
  <2>3. QED
    BY <2>1, <2>2
<1>4. CASE \E u \in InUse : u \in Counters /\ SameCounts(v, u)
  BY <1>2, <1>3, <1>4 DEF SameCounts
<1>5. CASE records' = records /\ New(v)
  BY <1>1, <1>5 DEF New
<1>6. CASE \E u \in InUse : u \in Counters /\ OneMore(v, u)
  BY <1>2, <1>3, <1>6 DEF OneMore
<1>7. QED
  BY <1>4, <1>5, <1>6, CountersStep

-----------------------------------------------------------------------------

\* Between the check for a new day and the limits, time may pass, but what the
\* limits see was at most a day old when the command began.
LEMMA FreshStep ==
  TypeOK /\ TypeOK' /\ CommandState /\ CheckedFresh /\ [Next]_vars => CheckedFresh'
<1> SUFFICES ASSUME TypeOK, TypeOK', CommandState, CheckedFresh, [Next]_vars
             PROVE  CheckedFresh'
  OBVIOUS
<1> USE WindowAssumption DEF CheckedFresh, BoundFor, Goto, Save, auditVars
<1>a. /\ now \in Nat /\ now' \in Nat /\ Day \in Nat /\ began \in [Process -> Nat]
      /\ \A u \in Counters : u.reset \in Nat
      /\ DOMAIN pc = Process /\ DOMAIN after = Process /\ DOMAIN usage = Process
  BY DEF TypeOK, Counters
<1>1. ASSUME NEW p \in Process, Start(p) \/ StartUsage(p) \/ Reload(p)
      PROVE  CheckedFresh'
  BY <1>a, <1>1 DEF Start, StartUsage, Reload
<1>2. ASSUME NEW p \in Process, Reset(p) PROVE CheckedFresh'
  <2>1. usage[p] \in Counters
    BY <1>2 DEF Reset, Checks, CommandState
  <2>2. Emptied(usage[p]).reset = now
    BY <2>1, EmptiedFields DEF TypeOK
  <2>3. QED
    BY <1>a, <1>2, <2>2 DEF Reset
<1>3. ASSUME NEW p \in Process, NoReset(p) PROVE CheckedFresh'
  <2>1. usage[p] \in Counters
    BY <1>3 DEF NoReset, Checks, CommandState
  <2>2. usage[p].reset >= began[p] - Day
    BY <1>a, <1>3, <2>1 DEF NoReset
  <2>3. QED
    BY <1>a, <1>3, <2>2 DEF NoReset
<1>4. ASSUME NEW p \in Process, CountSecond(p) PROVE CheckedFresh'
  <2>1. usage[p] \in Counters
    BY <1>4 DEF CountSecond, CommandState
  <2>2. CountedSecond(usage[p]).reset = usage[p].reset
    BY <2>1, CountedFields DEF TypeOK
  <2>3. QED
    BY <1>a, <1>4, <2>2 DEF CountSecond
<1>5. ASSUME NEW p \in Process, Record(p) PROVE CheckedFresh'
  BY <1>a, <1>5 DEF Record
<1>6. ASSUME NEW p \in Process,
             RefuseInactive(p) \/ RefuseSize(p) \/ RefuseSecond(p) \/ RefuseHour(p)
               \/ RefuseQuota(p) \/ GiveUp(p) \/ ReloadFails(p) \/ Allow(p)
               \/ NodeConfirms(p)
      PROVE  CheckedFresh'
  BY <1>a, <1>6 DEF RefuseInactive, RefuseSize, RefuseSecond, RefuseHour, RefuseQuota,
                    GiveUp, Refuse, ReloadFails, Allow, NodeConfirms
<1>7. ASSUME NEW p \in Process, Truncate(p) \/ Write(p) \/ SaveFails(p)
      PROVE  CheckedFresh'
  BY <1>a, <1>7 DEF Truncate, Write, SaveFails
<1>8. ASSUME NEW p \in Process, Exit(p) \/ Crash(p) PROVE CheckedFresh'
  BY <1>a, <1>8 DEF Exit, Crash, Gone
<1>9. CASE Tick
  BY <1>a, <1>9 DEF Tick
<1>10. ASSUME NEW p \in Process, NodeFails(p) PROVE CheckedFresh'
  BY <1>10 DEF NodeFails
<1>11. CASE UNCHANGED vars
  BY <1>11 DEF vars
<1>12. QED
  BY <1>1, <1>2, <1>3, <1>4, <1>5, <1>6, <1>7, <1>8, <1>9, <1>10, <1>11
     DEF Next, Load, Check, Send, SaveUsage

\* A refusal by the hourly limit or the quota is either new in this step, or
\* was there before it and of the same command.
LEMMA RefusalStep ==
  ASSUME TypeOK, CommandState, [Next]_vars, NEW p \in Process,
         verdict'[p] \in {"hour", "quota"}
  PROVE  \/ /\ RefuseHour(p) \/ RefuseQuota(p)
            /\ began' = began /\ size' = size /\ records' = records
         \/ verdict[p] = verdict'[p] /\ began'[p] = began[p] /\ size'[p] = size[p]
<1> USE DEF TypeOK, Goto, Save, auditVars
<1>1. ASSUME NEW q \in Process, Start(q) \/ StartUsage(q)
      PROVE  verdict[p] = verdict'[p] /\ began'[p] = began[p] /\ size'[p] = size[p]
  BY <1>1 DEF Start, StartUsage, CommandState
<1>2. ASSUME NEW q \in Process,
             RefuseInactive(q) \/ RefuseSize(q) \/ RefuseSecond(q) \/ GiveUp(q)
               \/ NodeConfirms(q)
      PROVE  verdict[p] = verdict'[p] /\ began'[p] = began[p] /\ size'[p] = size[p]
  BY <1>2 DEF RefuseInactive, RefuseSize, RefuseSecond, GiveUp, Refuse, NodeConfirms
<1>3. ASSUME NEW q \in Process, RefuseHour(q) \/ RefuseQuota(q)
      PROVE  /\ q = p \/ verdict[p] = verdict'[p]
             /\ began' = began /\ size' = size /\ records' = records
  BY <1>3 DEF RefuseHour, RefuseQuota, Refuse
<1>4. ASSUME NEW q \in Process, Exit(q) \/ Crash(q)
      PROVE  verdict[p] = verdict'[p] /\ began'[p] = began[p] /\ size'[p] = size[p]
  BY <1>4 DEF Exit, Crash, Gone
<1>5. CASE UNCHANGED <<verdict, began, size>>
  BY <1>5
<1>6. QED
  BY <1>1, <1>2, <1>3, <1>4, <1>5
     DEF Next, Load, Check, Send, SaveUsage, vars, Reload, ReloadFails, Reset, NoReset,
         CountSecond, Allow, NodeFails, Record, Truncate, Write, SaveFails, Tick

\* The elements of a sequence over S are in S.
LEMMA ElementInSet ==
  ASSUME NEW S, NEW s \in Seq(S)
  PROVE  Len(s) \in Nat /\ \A k \in 1..Len(s) : s[k] \in S
OBVIOUS

\* What the arithmetic below needs of TypeOK.
LEMMA TypeFacts ==
  ASSUME TypeOK
  PROVE  /\ \A p \in Process : size[p] \in Nat /\ began[p] \in Nat
         /\ Len(records) \in Nat
         /\ \A k \in 1..Len(records) : records[k].at \in Nat
<1>1. size \in [Process -> Size \cup {0}] /\ began \in [Process -> Nat]
  BY DEF TypeOK
<1>2. Size \cup {0} \subseteq Nat
  BY SizeAssumption
<1>3. records \in Seq([at : Nat, size : Size])
  BY DEF TypeOK
<1>4. Len(records) \in Nat /\ \A k \in 1..Len(records) : records[k] \in [at : Nat, size : Size]
  BY <1>3, ElementInSet
<1>5. \A r \in [at : Nat, size : Size] : r.at \in Nat
  OBVIOUS
<1>6. QED
  BY <1>1, <1>2, <1>4, <1>5

\* Counters that refuse have counted a publish since their reset.
LEMMA QuietStep ==
  TypeOK /\ TypeOK' /\ CommandState /\ NeverOvercounts /\ CountersSound /\ CheckedFresh
    /\ QuietDayAdmits /\ [Next]_vars => QuietDayAdmits'
<1> SUFFICES ASSUME TypeOK, TypeOK', CommandState, NeverOvercounts, CountersSound,
                    CheckedFresh, QuietDayAdmits, [Next]_vars,
                    NEW p \in Process, verdict'[p] \in {"hour", "quota"},
                    MaxPublishPerHour > 0, size'[p] <= DailyQuota
             PROVE  \E k \in 1..Len(records') : records'[k].at >= began'[p] - Day
  BY DEF QuietDayAdmits
<1>1. CASE (RefuseHour(p) \/ RefuseQuota(p)) /\ began' = began /\ size' = size
             /\ records' = records
  <2>1. usage[p] \in Counters /\ usage[p] \in InUse /\ usage[p].kind = "usage"
    BY <1>1, FileKinds DEF RefuseHour, RefuseQuota, CommandState, InUse
  <2>2. /\ usage[p].count \in Nat /\ usage[p].bytes \in Nat /\ usage[p].since \in Nat
        /\ usage[p].reset \in Nat /\ Len(records) \in Nat /\ size[p] \in Nat
        /\ MaxPublishPerHour \in Nat /\ DailyQuota \in Nat /\ Day \in Nat
        /\ began[p] \in Nat /\ \A k \in 1..Len(records) : records[k].at \in Nat
    <3>1. /\ usage[p].count \in Nat /\ usage[p].bytes \in Nat
          /\ usage[p].since \in Nat /\ usage[p].reset \in Nat
      BY <2>1 DEF Counters
    <3>2. /\ size[p] \in Nat /\ began[p] \in Nat /\ Len(records) \in Nat
          /\ \A k \in 1..Len(records) : records[k].at \in Nat
      BY TypeFacts
    <3>3. QED
      BY <3>1, <3>2, LimitAssumption, WindowAssumption
  <2>3. usage[p].count # 0
    <3>1. CASE RefuseHour(p)
      BY <2>2, <3>1 DEF RefuseHour
    <3>2. CASE RefuseQuota(p)
      <4>1. usage[p].bytes # 0
        BY <1>1, <2>2, <3>2 DEF RefuseQuota
      <4>2. QED
        BY <2>1, <4>1 DEF CountersSound
    <3>3. QED
      BY <1>1, <3>1, <3>2
  <2>4. usage[p].since + usage[p].count <= Len(records)
    BY <2>1 DEF NeverOvercounts
  <2>5. usage[p].since + 1 \in 1..Len(records)
    BY <2>2, <2>3, <2>4
  <2>6. records[usage[p].since + 1].at >= usage[p].reset
    BY <2>1, <2>2, <2>5 DEF CountersSound
  <2>7. usage[p].reset >= began[p] - Day
    BY <1>1 DEF RefuseHour, RefuseQuota, CheckedFresh, BoundFor
  <2>8. QED
    BY <1>1, <2>2, <2>5, <2>6, <2>7
<1>2. CASE verdict[p] = verdict'[p] /\ began'[p] = began[p] /\ size'[p] = size[p]
  <2>1. PICK k \in 1..Len(records) : records[k].at >= began[p] - Day
    BY <1>2 DEF QuietDayAdmits
  <2>2. Len(records) \in Nat /\ Len(records') \in Nat
    BY DEF TypeOK
  <2>3. Len(records) <= Len(records') /\ records'[k] = records[k]
    BY RecordsStep
  <2>4. QED
    BY <1>2, <2>1, <2>2, <2>3
<1>3. QED
  BY <1>1, <1>2, RefusalStep

-----------------------------------------------------------------------------

\* The invariant is inductive.
LEMMA IInvHolds == Spec => []IInv
<1>1. Init => IInv
  <2>1. Init => TypeOK
    BY TypeInit
  <2>2. ASSUME Init PROVE NeverOvercounts /\ CountersSound
    BY <2>2, FileKinds DEF Init, NeverOvercounts, CountersSound, InUse
  <2>3. Init => CommandState /\ CheckedFresh /\ QuietDayAdmits
    BY DEF Init, CommandState, CheckedFresh, BoundFor, QuietDayAdmits
  <2>4. QED
    BY <2>1, <2>2, <2>3 DEF IInv
<1>2. IInv /\ [Next]_vars => IInv'
  BY TypeStep, CommandStep, OverStep, SoundStep, FreshStep, QuietStep DEF IInv
<1>3. QED
  BY <1>1, <1>2, PTL DEF Spec

\* The counters of the usage file and of every command are well formed, also
\* after saves that overlap, fail or are cut short.
THEOREM TypeCorrect == Spec => []TypeOK
BY IInvHolds, PTL DEF IInv

\* RecordPublish and the resets of checkAndResetCounters never invent a publish,
\* although they load and save the counters without a lock.
THEOREM NothingInvented == Spec => []NeverOvercounts
BY IInvHolds, PTL DEF IInv

\* CheckPublishAllowed refuses for the hourly limit or the quota only users who
\* have published within the day before the command.
THEOREM QuietDayLiftsRefusal == Spec => []QuietDayAdmits
BY IInvHolds, PTL DEF IInv

-----------------------------------------------------------------------------
(* The bytes of the first publishes.                                       *)

Entry == [at : Nat, size : Size]

\* The recursive function of Bytes exists, and adds one size after the other.
LEMMA BytesSum ==
  ASSUME NEW s \in Seq(Entry)
  PROVE  /\ Bytes(s)[0] = 0
         /\ \A k \in 1..Len(s) : Bytes(s)[k] = Bytes(s)[k - 1] + s[k].size
         /\ \A k \in 0..Len(s) : Bytes(s)[k] \in Nat
<1> DEFINE G == [k \in Nat |-> [x \in Nat |-> x + (IF k \in 1..Len(s) THEN s[k].size ELSE 0)]]
<1>0. Len(s) \in Nat /\ \A k \in 1..Len(s) : s[k] \in Entry
  BY ElementInSet
<1>1. \A k \in 1..Len(s) : s[k].size \in Nat
  BY <1>0, SizeAssumption DEF Entry
<1>2. 0 \in Nat /\ G \in [Nat -> [Nat -> Nat]]
  BY <1>1
<1>3. \A k \in 1..Len(s) : \A x \in Nat : G[k][x] = x + s[k].size
  BY <1>0
<1> HIDE DEF G
<1>4. PICK g \in [Nat -> Nat] : g[0] = 0 /\ \A n \in Nat : g[n + 1] = G[n + 1][g[n]]
  BY <1>2, NaturalRecursion DEF Recursive
<1> DEFINE f == [k \in 0..Len(s) |-> g[k]]
<1>5. ASSUME NEW k \in 0..Len(s) PROVE f[k] = IF k = 0 THEN 0 ELSE f[k - 1] + s[k].size
  <2>1. CASE k = 0
    BY <1>0, <1>4, <2>1
  <2>2. CASE k # 0
    <3>1. k - 1 \in Nat /\ (k - 1) + 1 = k /\ k \in 1..Len(s) /\ k - 1 \in 0..Len(s)
      BY <1>0, <2>2
    <3>2. g[k] = G[k][g[k - 1]] /\ g[k - 1] \in Nat
      BY <1>4, <3>1
    <3>3. g[k] = g[k - 1] + s[k].size
      BY <1>3, <3>1, <3>2
    <3>4. QED
      BY <2>2, <3>1, <3>3
  <2>3. QED
    BY <2>1, <2>2
<1>6. f = [k \in 0..Len(s) |-> IF k = 0 THEN 0 ELSE f[k - 1] + s[k].size]
  <2>1. DOMAIN f = 0..Len(s)
    OBVIOUS
  <2> HIDE DEF f
  <2>2. f = [k \in 0..Len(s) |-> f[k]]
    BY DEF f
  <2>3. QED
    BY <1>5, <2>2
<1> HIDE DEF f
<1> DEFINE b == Bytes(s)
<1>7. b = [k \in 0..Len(s) |-> IF k = 0 THEN 0 ELSE b[k - 1] + s[k].size]
  BY <1>6 DEF Bytes
<1> HIDE DEF b
<1>8. b[0] = 0 /\ \A k \in 1..Len(s) : b[k] = b[k - 1] + s[k].size
  <2>1. 0 \in 0..Len(s) /\ \A k \in 1..Len(s) : k \in 0..Len(s) /\ k # 0
    BY <1>0
  <2>2. \A k \in 0..Len(s) : b[k] = IF k = 0 THEN 0 ELSE b[k - 1] + s[k].size
    BY ONLY <1>7
  <2>3. QED
    BY <2>1, <2>2
<1>9. \A k \in 0..Len(s) : b[k] \in Nat
  <2> DEFINE T == {k \in Nat : k <= Len(s) => b[k] \in Nat}
  <2>1. 0 \in T
    BY <1>8
  <2>2. ASSUME NEW k \in Nat, k \in T PROVE k + 1 \in T
    <3>1. CASE k + 1 \in 1..Len(s)
      <4>1. PICK z \in Nat : z = s[k + 1].size
        BY <1>1, <3>1
      <4>2. (k + 1) - 1 = k /\ k <= Len(s)
        BY <1>0, <3>1
      <4>3. b[k + 1] = b[k] + z
        BY <1>8, <3>1, <4>1, <4>2
      <4>4. b[k] \in Nat
        BY <2>2, <4>2
      <4>5. b[k + 1] \in Nat
        <5>1. \A x, y \in Nat : x + y \in Nat
          OBVIOUS
        <5>2. QED
          BY <4>3, <4>4, <5>1, Zenon
      <4>6. QED
        BY <4>5
    <3>2. CASE k + 1 \notin 1..Len(s)
      BY <1>0, <3>2
    <3>3. QED
      BY <3>1, <3>2
  <2>3. Nat \subseteq T
    <3> HIDE DEF T
    <3>1. QED
      BY <2>1, <2>2, Induction
  <2>4. QED
    BY <1>0, <2>3
<1>10. QED
  BY <1>8, <1>9 DEF b

\* One publish more adds its size and leaves the sums before it.
LEMMA BytesAppend ==
  ASSUME NEW s \in Seq(Entry), NEW r \in Entry
  PROVE  /\ \A k \in 0..Len(s) : Bytes(Append(s, r))[k] = Bytes(s)[k]
         /\ Bytes(Append(s, r))[Len(s) + 1] = Bytes(s)[Len(s)] + r.size
<1> DEFINE t == Append(s, r)
           b == Bytes(s)
           c == Bytes(t)
<1>1. /\ Len(s) \in Nat /\ t \in Seq(Entry) /\ Len(t) = Len(s) + 1 /\ t[Len(s) + 1] = r
      /\ \A k \in 1..Len(s) : t[k] = s[k]
  OBVIOUS
<1> HIDE DEF t
<1>2. b[0] = 0 /\ \A k \in 1..Len(s) : b[k] = b[k - 1] + s[k].size
  BY BytesSum
<1>3. c[0] = 0 /\ \A k \in 1..Len(t) : c[k] = c[k - 1] + t[k].size
  BY <1>1, BytesSum
<1> HIDE DEF b, c
<1> DEFINE T == {k \in Nat : k <= Len(s) => c[k] = b[k]}
<1>4. 0 \in T
  BY <1>2, <1>3
<1>5. ASSUME NEW k \in Nat, k \in T PROVE k + 1 \in T
  <2>1. CASE k + 1 \in 1..Len(s)
    <3>1. k + 1 \in 1..Len(t) /\ (k + 1) - 1 = k /\ k <= Len(s)
      BY <1>1, <2>1
    <3>2. c[k + 1] = c[k] + s[k + 1].size /\ b[k + 1] = b[k] + s[k + 1].size
      BY <1>1, <1>2, <1>3, <2>1, <3>1
    <3>3. QED
      BY <1>5, <3>1, <3>2
  <2>2. CASE k + 1 \notin 1..Len(s)
    BY <1>1, <2>2
  <2>3. QED
    BY <2>1, <2>2
<1>6. Nat \subseteq T
  <2> HIDE DEF T
  <2>1. QED
    BY <1>4, <1>5, Induction
<1>7. \A k \in 0..Len(s) : c[k] = b[k]
  BY <1>1, <1>6
<1>8. c[Len(s) + 1] = c[Len(s)] + r.size
  <2>1. Len(s) + 1 \in 1..Len(t) /\ (Len(s) + 1) - 1 = Len(s)
    BY <1>1
  <2>2. QED
    BY <1>1, <1>3, <2>1
<1>9. c[Len(s) + 1] = b[Len(s)] + r.size
  BY <1>1, <1>7, <1>8
<1>10. QED
  BY <1>7, <1>9 DEF b, c, t

-----------------------------------------------------------------------------
(* Exact and Rated with the lists of publishes as parameters.              *)

ExactOf(u, s) ==
  /\ u.since <= Len(s) /\ u.count = Len(s) - u.since
  /\ u.bytes = Bytes(s)[Len(s)] - Bytes(s)[u.since]
  /\ u.count <= MaxPublishPerHour /\ u.bytes <= DailyQuota

RatedOf(u, s, t) ==
  /\ u.secondAt <= t
  /\ u.secondCount <= MaxPublishPerSec /\ u.secondCount <= Len(s)
  /\ \A k \in 1..Len(s) :
       /\ s[k] < u.secondAt + Second
       /\ s[k] >= u.secondAt <=> k > Len(s) - u.secondCount

\* The publishes of s admitted in the second of u.
InWindow(u, s) == {k \in 1..Len(s) : s[k] >= u.secondAt /\ s[k] < u.secondAt + Second}

LEMMA CurrentIs ==
  \A u : Current(u) <=> ExactOf(u, records) /\ RatedOf(u, admitted, now)
BY DEF Current, Exact, Rated, ExactOf, RatedOf, BytesAfter

\* The fields of counters are numbers.
LEMMA CounterFields ==
  ASSUME NEW u \in Counters
  PROVE  /\ u.count \in Nat /\ u.bytes \in Nat /\ u.since \in Nat /\ u.reset \in Nat
         /\ u.secondAt \in Int /\ u.secondCount \in Nat /\ u.kind = "usage"
BY DEF Counters

\* Counters that start at the end of the list count nothing of it.
LEMMA ExactFresh ==
  ASSUME NEW s \in Seq(Entry), NEW u, u.since = Len(s), u.count = 0, u.bytes = 0
  PROVE  ExactOf(u, s)
<1>1. Len(s) \in Nat /\ Bytes(s)[Len(s)] \in Nat
  BY BytesSum
<1>2. Len(s) - Len(s) = 0 /\ Bytes(s)[Len(s)] - Bytes(s)[Len(s)] = 0
  BY <1>1
<1>3. 0 <= MaxPublishPerHour /\ 0 <= DailyQuota
  BY LimitAssumption
<1>4. QED
  BY <1>1, <1>2, <1>3 DEF ExactOf

LEMMA Appending ==
  \A s \in Seq(Entry), r \in Entry : Len(s) \in Nat /\ Len(Append(s, r)) = Len(s) + 1
OBVIOUS

\* Recording a publish for which there is room keeps the counters exact.
LEMMA ExactRecord ==
  ASSUME NEW s \in Seq(Entry), NEW u \in Counters, ExactOf(u, s), NEW r \in Entry,
         u.count < MaxPublishPerHour, u.bytes + r.size <= DailyQuota
  PROVE  ExactOf(Recorded(u, r.size), Append(s, r))
<1> DEFINE t == Append(s, r)
           v == Recorded(u, r.size)
<1>1. Len(s) \in Nat /\ Len(t) = Len(s) + 1 /\ r.size \in Nat
  <2>1. r.size \in Size
    BY DEF Entry
  <2>2. QED
    BY <2>1, SizeAssumption, Appending
<1>2. v.count = u.count + 1 /\ v.bytes = u.bytes + r.size /\ v.since = u.since
  BY <1>1, RecordedFields
<1>3. u.count \in Nat /\ u.bytes \in Nat /\ u.since \in Nat
  BY CounterFields
<1>4. u.since \in 0..Len(s) /\ Len(s) \in 0..Len(s)
  BY <1>1, <1>3 DEF ExactOf
<1>5. Bytes(t)[u.since] = Bytes(s)[u.since] /\ Bytes(t)[Len(t)] = Bytes(s)[Len(s)] + r.size
  BY <1>1, <1>4, BytesAppend
<1>6. PICK x \in Nat, y \in Nat : x = Bytes(s)[Len(s)] /\ y = Bytes(s)[u.since]
  BY <1>4, BytesSum
<1>7. u.bytes = x - y
  BY <1>6 DEF ExactOf
<1>8. v.bytes = Bytes(t)[Len(t)] - Bytes(t)[v.since]
  <2>1. (x - y) + r.size = (x + r.size) - y
    BY <1>1, <1>6
  <2>2. QED
    BY <1>2, <1>5, <1>6, <1>7, <2>1
<1>9. v.since <= Len(t) /\ v.count = Len(t) - v.since /\ v.count <= MaxPublishPerHour
  BY <1>1, <1>2, <1>3, LimitAssumption DEF ExactOf
<1>10. v.bytes <= DailyQuota
  BY <1>2
<1> HIDE DEF t, v
<1>11. QED
  BY <1>8, <1>9, <1>10 DEF ExactOf, t, v

\* What exact counters say about the list.
LEMMA ExactKeepsQuota ==
  ASSUME NEW s, NEW u, ExactOf(u, s)
  PROVE  /\ Len(s) - u.since <= MaxPublishPerHour
         /\ Bytes(s)[Len(s)] - Bytes(s)[u.since] <= DailyQuota
BY DEF ExactOf

LEMMA RatedLater ==
  ASSUME NEW s, NEW u \in Counters, NEW t \in Nat, NEW t2 \in Nat, RatedOf(u, s, t), t <= t2
  PROVE  RatedOf(u, s, t2)
BY CounterFields DEF RatedOf

\* One publish more is admitted: the second of the counters runs, or is over and a
\* new one starts.
LEMMA RatedCount ==
  ASSUME NEW s \in Seq(Nat), NEW u \in Counters, now \in Nat, RatedOf(u, s, now),
         InSecond(u) < MaxPublishPerSec
  PROVE  RatedOf(CountedSecond(u), Append(s, now), now)
<1> DEFINE t == Append(s, now)
           v == CountedSecond(u)
<1>0. Second \in Nat /\ Second > 0 /\ MaxPublishPerSec \in Nat
  BY WindowAssumption, LimitAssumption
<1>1. /\ Len(s) \in Nat /\ Len(t) = Len(s) + 1 /\ t[Len(s) + 1] = now
      /\ \A k \in 1..Len(s) : t[k] = s[k] /\ s[k] \in Nat
      /\ \A k \in 1..Len(t) : k \in 1..Len(s) \/ k = Len(s) + 1
  OBVIOUS
<1>2. u.secondAt \in Int /\ u.secondCount \in Nat
  BY CounterFields
<1>3. /\ v.secondAt = (IF SecondOver(u) THEN now ELSE u.secondAt)
      /\ v.secondCount = InSecond(u) + 1
  BY DEF CountedSecond, Counters
<1>4. /\ u.secondAt <= now /\ u.secondCount <= Len(s)
      /\ \A k \in 1..Len(s) :
           /\ s[k] < u.secondAt + Second
           /\ s[k] >= u.secondAt <=> k > Len(s) - u.secondCount
  BY DEF RatedOf
<1> HIDE DEF t, v
<1>5. CASE SecondOver(u)
  <2>1. v.secondAt = now /\ v.secondCount = 1 /\ u.secondAt + Second <= now
    BY <1>0, <1>2, <1>3, <1>5 DEF SecondOver, InSecond
  <2>2. ASSUME NEW k \in 1..Len(t)
        PROVE  t[k] < now + Second /\ (t[k] >= now <=> k > Len(t) - 1)
    <3>1. CASE k = Len(s) + 1
      BY <1>0, <1>1, <3>1
    <3>2. CASE k \in 1..Len(s)
      BY <1>0, <1>1, <1>2, <1>4, <2>1, <3>2
    <3>3. QED
      BY <1>1, <3>1, <3>2
  <2>3. 1 <= MaxPublishPerSec
    BY <1>0, <1>5 DEF InSecond
  <2>4. QED
    BY <1>1, <2>1, <2>2, <2>3 DEF RatedOf, t, v
<1>6. CASE ~SecondOver(u)
  <2>1. /\ v.secondAt = u.secondAt /\ v.secondCount = u.secondCount + 1
        /\ now < u.secondAt + Second /\ u.secondCount < MaxPublishPerSec
    BY <1>0, <1>2, <1>3, <1>6 DEF SecondOver, InSecond
  <2>2. ASSUME NEW k \in 1..Len(t)
        PROVE  /\ t[k] < u.secondAt + Second
               /\ t[k] >= u.secondAt <=> k > Len(t) - (u.secondCount + 1)
    <3>1. CASE k = Len(s) + 1
      BY <1>0, <1>1, <1>2, <1>4, <2>1, <3>1
    <3>2. CASE k \in 1..Len(s)
      BY <1>0, <1>1, <1>2, <1>4, <2>1, <3>2
    <3>3. QED
      BY <1>1, <3>1, <3>2
  <2>3. u.secondCount + 1 <= MaxPublishPerSec /\ u.secondCount + 1 <= Len(t)
    BY <1>0, <1>1, <1>2, <1>4, <2>1
  <2>4. QED
    BY <1>4, <2>1, <2>2, <2>3 DEF RatedOf, t, v
<1>7. QED
  BY <1>5, <1>6

\* The second of rated counters holds as many publishes as they count.
LEMMA RatedKeepsRate ==
  ASSUME NEW s \in Seq(Nat), NEW u \in Counters, NEW t, RatedOf(u, s, t)
  PROVE  Cardinality(InWindow(u, s)) <= MaxPublishPerSec
<1>1. u.secondCount \in Nat /\ Len(s) \in Nat /\ MaxPublishPerSec \in Nat
  BY CounterFields, LimitAssumption
<1>2. /\ u.secondCount <= MaxPublishPerSec /\ u.secondCount <= Len(s)
      /\ \A k \in 1..Len(s) :
           /\ s[k] < u.secondAt + Second
           /\ s[k] >= u.secondAt <=> k > Len(s) - u.secondCount
  BY DEF RatedOf
<1>3. InWindow(u, s) = {k \in 1..Len(s) : k > Len(s) - u.secondCount}
  BY <1>2 DEF InWindow
<1>4. InWindow(u, s) = ((Len(s) - u.secondCount) + 1)..Len(s)
  BY <1>1, <1>2, <1>3
<1>5. Cardinality(((Len(s) - u.secondCount) + 1)..Len(s)) <= MaxPublishPerSec
  <2> DEFINE a == (Len(s) - u.secondCount) + 1
  <2>1. a \in Int /\ Len(s) \in Int
    BY <1>1
  <2> HIDE DEF a
  <2>2. Cardinality(a..Len(s)) = IF a > Len(s) THEN 0 ELSE Len(s) - a + 1
    BY <2>1, FS_Interval
  <2>3. (IF a > Len(s) THEN 0 ELSE Len(s) - a + 1) <= MaxPublishPerSec
    BY <1>1, <1>2, <2>1 DEF a
  <2>4. QED
    BY <2>2, <2>3 DEF a
<1>6. QED
  BY <1>4, <1>5

\* A publish admitted now is not in a second that is over.
LEMMA WindowOver ==
  ASSUME NEW s \in Seq(Nat), NEW u \in Counters, now \in Nat, SecondOver(u)
  PROVE  InWindow(u, Append(s, now)) = InWindow(u, s)
<1> DEFINE t == Append(s, now)
<1>1. /\ Len(s) \in Nat /\ Len(t) = Len(s) + 1 /\ t[Len(s) + 1] = now
      /\ \A k \in 1..Len(s) : t[k] = s[k]
  OBVIOUS
<1>2. ~(now < u.secondAt + Second)
  BY CounterFields, WindowAssumption DEF SecondOver
<1> HIDE DEF t
<1>3. 1..Len(t) = 1..Len(s) \cup {Len(s) + 1}
  BY <1>1
<1>4. InWindow(u, t) = InWindow(u, s)
  BY <1>1, <1>2, <1>3 DEF InWindow
<1>5. QED
  BY <1>4 DEF t

-----------------------------------------------------------------------------
(* The steps of the one command that is under way.                         *)

\* AloneInv for one command: l is where it is and n where it goes on, z the size
\* of its message, u its counters; f is the file, s and a the publishes recorded
\* and admitted, t the time.
Single(l, n, z, u, f, s, a, t) ==
  /\ l \notin {"idle", "done"} => ExactOf(u, s) /\ RatedOf(u, a, t)
  /\ f # Garbled
  /\ f = Absent => s = << >>
  /\ f = Empty <=> l = "write"
  /\ l # "truncate" => /\ f = Absent => a = << >>
                       /\ f.kind = "usage" => ExactOf(f, s) /\ RatedOf(f, a, t)
  /\ l = "loaded" => f = u \/ (f = Absent /\ n \in {"recheck", "show"})
  /\ l \in {"recheck", "show", "check"} => f = u \/ f = Absent
  /\ l \in {"limits", "publish", "confirmed", "record"} => f = u
  /\ \/ l \in {"publish", "confirmed", "record"}
     \/ l \in {"loaded", "truncate", "write"} /\ n = "record"
     => u.count < MaxPublishPerHour /\ u.bytes + z <= DailyQuota
  /\ f.kind = "usage" =>
       /\ Len(s) - f.since <= MaxPublishPerHour
       /\ Bytes(s)[Len(s)] - Bytes(s)[f.since] <= DailyQuota
       /\ Cardinality(InWindow(f, a)) <= MaxPublishPerSec

Mine(p) == Single(pc[p], after[p], size[p], usage[p], file, records, admitted, now)

\* No command but that of p is under way.
OthersIdle(p) == \A q \in Process : q # p => ~Active(q)

LEMMA KeptIs ==
  /\ QuotaKept <=> (file.kind = "usage" =>
                      /\ Len(records) - file.since <= MaxPublishPerHour
                      /\ Bytes(records)[Len(records)] - Bytes(records)[file.since] <= DailyQuota)
  /\ RateKept <=> (file.kind = "usage" => Cardinality(InWindow(file, admitted)) <= MaxPublishPerSec)
BY DEF QuotaKept, RateKept, BytesAfter, InWindow

LEMMA MineBefore ==
  ASSUME AloneInv, NEW p \in Process, OthersIdle(p)
  PROVE  Mine(p)
<1>1. \A q \in Process : q # p => pc[q] # "truncate" /\ pc[q] # "write"
  BY DEF OthersIdle, Active
<1>2. file = Empty <=> pc[p] = "write"
  BY <1>1 DEF AloneInv, FileCurrent
<1>3. pc[p] # "truncate" => /\ file = Absent => admitted = << >>
                            /\ file.kind = "usage" => Current(file)
  BY <1>1 DEF AloneInv, FileCurrent
<1>4. Active(p) => Current(usage[p])
  BY DEF AloneInv
<1>5. QED
  BY <1>2, <1>3, <1>4, CurrentIs, KeptIs DEF AloneInv, FileCurrent, Room, Mine, Single, Active

LEMMA MineAfter ==
  ASSUME NEW p \in Process, OthersIdle(p)', Mine(p)'
  PROVE  AloneInv'
<1>1. \A q \in Process : q # p => pc'[q] \in {"idle", "done"}
  BY DEF OthersIdle, Active
<1>2. Single(pc'[p], after'[p], size'[p], usage'[p], file', records', admitted', now')
  BY DEF Mine
<1>3. \A u : ExactOf(u, records') /\ RatedOf(u, admitted', now') =>
         /\ u.since <= Len(records') /\ u.count = Len(records') - u.since
         /\ u.bytes = Bytes(records')[Len(records')] - Bytes(records')[u.since]
         /\ u.count <= MaxPublishPerHour /\ u.bytes <= DailyQuota
         /\ u.secondAt <= now'
         /\ u.secondCount <= MaxPublishPerSec /\ u.secondCount <= Len(admitted')
         /\ \A k \in 1..Len(admitted') :
              /\ admitted'[k] < u.secondAt + Second
              /\ admitted'[k] >= u.secondAt <=> k > Len(admitted') - u.secondCount
  BY DEF ExactOf, RatedOf
<1>4. pc'[p] \notin {"idle", "done"} => Current(usage[p])'
  BY <1>2, <1>3 DEF Single, Current, Exact, Rated, BytesAfter
<1>5. (\A q \in Process : Active(q) => Current(usage[q]))'
  BY <1>1, <1>4 DEF Active
<1>6. pc'[p] # "truncate" => /\ file' = Absent => admitted' = << >>
                             /\ file'.kind = "usage" => Current(file)'
  BY <1>2, <1>3 DEF Single, Current, Exact, Rated, BytesAfter
<1>7. FileCurrent'
  BY <1>1, <1>2, <1>6 DEF Single, FileCurrent
<1>8. Room'
  BY <1>1, <1>2 DEF Single, Room
<1>9. QuotaKept' /\ RateKept'
  BY <1>2 DEF Single, QuotaKept, RateKept, BytesAfter, InWindow
<1>10. QED
  BY <1>5, <1>7, <1>8, <1>9 DEF AloneInv

LEMMA KindsDiffer ==
  Absent # Empty /\ Absent # Garbled /\ Empty # Garbled
BY DEF Absent, Empty, Garbled

\* What the steps below need of TypeOK.
LEMMA ListTypes ==
  ASSUME TypeOK
  PROVE  /\ now \in Nat /\ records \in Seq(Entry) /\ admitted \in Seq(Nat)
         /\ file \in Counters \/ file \in {Absent, Empty, Garbled}
         /\ file.kind = "usage" <=> file \in Counters
<1>1. /\ now \in Nat /\ records \in Seq(Entry) /\ admitted \in Seq(Nat)
      /\ file \in Counters \/ file \in {Absent, Empty, Garbled}
  BY DEF TypeOK, Entry
<1>2. QED
  BY <1>1, FileKinds

\* What a load of the only command yields is exact.
LEMMA LoadedExact ==
  ASSUME TypeOK,
         \/ file \in Counters /\ ExactOf(file, records) /\ RatedOf(file, admitted, now)
         \/ file = Absent /\ records = << >> /\ admitted = << >>
  PROVE  /\ ExactOf(Loaded, records) /\ RatedOf(Loaded, admitted, now)
         /\ Loaded = file \/ file = Absent
<1>1. CASE file \in Counters /\ ExactOf(file, records) /\ RatedOf(file, admitted, now)
  BY <1>1, FileKinds DEF Loaded
<1>2. CASE file = Absent /\ records = << >> /\ admitted = << >>
  <2>1. Loaded = NewCounters
    BY <1>2, FileKinds DEF Loaded
  <2>2. ExactOf(NewCounters, records)
    BY ListTypes, ExactFresh DEF NewCounters
  <2>3. RatedOf(NewCounters, admitted, now)
    <3>1. Len(admitted) = 0
      BY <1>2
    <3>2. /\ NewCounters.secondAt = -Second /\ NewCounters.secondCount = 0
          /\ -Second <= now /\ 0 <= MaxPublishPerSec
      BY ListTypes, WindowAssumption, LimitAssumption DEF NewCounters
    <3>3. QED
      BY <3>1, <3>2 DEF RatedOf
  <2>4. QED
    BY <1>2, <2>1, <2>2, <2>3
<1>3. QED
  BY <1>1, <1>2

\* A command that loads, resets or checks the counters.
LEMMA MineLoad ==
  ASSUME TypeOK, CommandState, NEW p \in Process, Mine(p), "save" \notin Fault, Load(p)
  PROVE  Mine(p)'
<1> USE ListTypes, FileKinds, KindsDiffer DEF Goto, Save, auditVars
<1>0. Single(pc[p], after[p], size[p], usage[p], file, records, admitted, now)
  BY DEF Mine
<1>t. p \in DOMAIN pc /\ p \in DOMAIN after /\ p \in DOMAIN size /\ p \in DOMAIN usage
  BY DEF TypeOK
<1>1. CASE Start(p) \/ StartUsage(p)
  <2>1. /\ pc[p] = "idle" /\ pc'[p] = "loaded" /\ after'[p] \in {"recheck", "show"}
        /\ usage'[p] = Loaded
        /\ UNCHANGED <<now, file, records, admitted>>
    BY <1>1, <1>t DEF Start, StartUsage
  <2>2. \/ file \in Counters /\ ExactOf(file, records) /\ RatedOf(file, admitted, now)
        \/ file = Absent /\ records = << >> /\ admitted = << >>
    BY <1>0, <2>1 DEF Single
  <2>3. /\ ExactOf(Loaded, records) /\ RatedOf(Loaded, admitted, now)
        /\ Loaded = file \/ file = Absent
    BY <2>2, LoadedExact
  <2>4. Single("loaded", after'[p], size'[p], Loaded, file, records, admitted, now)
    BY <1>0, <2>1, <2>3 DEF Single
  <2>5. QED
    BY <2>1, <2>4 DEF Mine
<1>2. CASE Reload(p)
  <2>1. /\ pc[p] = "confirmed" /\ pc'[p] = "loaded" /\ after'[p] = "record"
        /\ usage'[p] = Loaded
        /\ UNCHANGED <<now, file, size, records, admitted>>
    BY <1>2, <1>t DEF Reload
  <2>2. file = usage[p] /\ file \in Counters
    BY <1>0, <2>1 DEF Single, CommandState
  <2>3. Loaded = usage[p]
    BY <2>2 DEF Loaded
  <2>4. Single("loaded", "record", size[p], usage[p], file, records, admitted, now)
    BY <1>0, <2>1, <2>2 DEF Single
  <2>5. QED
    BY <2>1, <2>3, <2>4 DEF Mine
<1>3. CASE Reset(p)
  <2> DEFINE v == Emptied(usage[p])
  <2>1. /\ pc[p] \in {"loaded", "recheck", "show"} /\ pc'[p] = "truncate"
        /\ after'[p] = Onward(p) /\ usage'[p] = v
        /\ UNCHANGED <<now, file, size, records, admitted>>
    BY <1>3, <1>t DEF Reset, Checks
  <2>2. usage[p] \in Counters
    BY <2>1 DEF CommandState
  <2>3. /\ v \in Counters /\ v.count = 0 /\ v.bytes = 0 /\ v.since = Len(records)
        /\ v.secondAt = usage[p].secondAt /\ v.secondCount = usage[p].secondCount
    <3>1. v.secondAt = usage[p].secondAt /\ v.secondCount = usage[p].secondCount
      BY <2>2 DEF Emptied, Counters
    <3>2. QED
      BY <2>2, <3>1, EmptiedFields
  <2> HIDE DEF v
  <2>4. ExactOf(v, records)
    BY <2>3, ExactFresh
  <2>5. RatedOf(v, admitted, now)
    BY <1>0, <2>1, <2>3 DEF RatedOf, Single
  <2>6. ASSUME Onward(p) = "record"
        PROVE  v.count < MaxPublishPerHour /\ v.bytes + size[p] <= DailyQuota
    <3>0. pc[p] = "loaded" /\ after[p] = "record"
      BY <1>3, <2>6, OnwardCases DEF Reset
    <3>1. usage[p].count < MaxPublishPerHour /\ usage[p].bytes + size[p] <= DailyQuota
      BY <1>0, <3>0 DEF Single
    <3>2. usage[p].count \in Nat /\ usage[p].bytes \in Nat /\ size[p] \in Nat
      BY <2>2, CounterFields, TypeFacts
    <3>3. QED
      BY <2>3, <3>1, <3>2, LimitAssumption
  <2>7. Single("truncate", Onward(p), size[p], v, file, records, admitted, now)
    BY <1>0, <2>1, <2>4, <2>5, <2>6 DEF Single
  <2>8. QED
    BY <2>1, <2>7 DEF Mine
<1>4. CASE NoReset(p)
  <2>1. /\ pc'[p] = Onward(p)
        /\ UNCHANGED <<now, file, after, size, usage, records, admitted>>
    BY <1>4, <1>t DEF NoReset
  <2>2. \/ /\ pc[p] = "loaded" /\ Onward(p) = after[p]
           /\ after[p] \in {"recheck", "show", "check", "limits", "record", "done"}
        \/ pc[p] \in {"recheck", "show"} /\ Onward(p) \in {"check", "done"}
    BY <1>4, OnwardCases DEF NoReset, CommandState, TypeOK
  <2>3. Single(Onward(p), after[p], size[p], usage[p], file, records, admitted, now)
    BY <1>0, <2>1, <2>2 DEF Single
  <2>4. QED
    BY <2>1, <2>3 DEF Mine
<1>5. QED
  BY <1>1, <1>2, <1>3, <1>4 DEF Load, ReloadFails

\* A command that checks the limits; only the per-second one changes its counters.
LEMMA MineCheck ==
  ASSUME TypeOK, CommandState, NEW p \in Process, Mine(p), Check(p)
  PROVE  Mine(p)'
<1> USE ListTypes, FileKinds, KindsDiffer DEF Goto, Save, auditVars
<1>0. Single(pc[p], after[p], size[p], usage[p], file, records, admitted, now)
  BY DEF Mine
<1>t. p \in DOMAIN pc /\ p \in DOMAIN after /\ p \in DOMAIN size /\ p \in DOMAIN usage
  BY DEF TypeOK
<1>1. CASE RefuseInactive(p) \/ RefuseSize(p) \/ RefuseSecond(p) \/ RefuseHour(p)
             \/ RefuseQuota(p)
  <2>1. /\ pc[p] \in {"check", "limits"} /\ pc'[p] = "done"
        /\ UNCHANGED <<now, file, after, size, usage, records, admitted>>
    BY <1>1, <1>t DEF RefuseInactive, RefuseSize, RefuseSecond, RefuseHour, RefuseQuota, Refuse
  <2>2. Single("done", after[p], size[p], usage[p], file, records, admitted, now)
    BY <1>0, <2>1 DEF Single
  <2>3. QED
    BY <2>1, <2>2 DEF Mine
<1>2. CASE CountSecond(p)
  <2> DEFINE u == usage[p]
             v == CountedSecond(u)
             a == Append(admitted, now)
  <2>1. /\ pc[p] = "check" /\ pc'[p] = "truncate" /\ after'[p] = "limits"
        /\ usage'[p] = v /\ admitted' = a /\ InSecond(u) < MaxPublishPerSec
        /\ UNCHANGED <<now, file, size, records>>
    BY <1>2, <1>t DEF CountSecond
  <2>2. u \in Counters
    BY <2>1 DEF CommandState
  <2>3. /\ v \in Counters
        /\ v.count = u.count /\ v.bytes = u.bytes /\ v.since = u.since
        /\ v.secondAt = (IF SecondOver(u) THEN now ELSE u.secondAt)
    <3>1. v.secondAt = (IF SecondOver(u) THEN now ELSE u.secondAt)
      BY <2>2 DEF CountedSecond, Counters
    <3>2. QED
      BY <2>2, <3>1, CountedFields
  <2>4. ExactOf(u, records) /\ RatedOf(u, admitted, now) /\ (file = u \/ file = Absent)
    BY <1>0, <2>1 DEF Single
  <2> HIDE DEF u, v
  <2>5. ExactOf(v, records)
    BY <2>3, <2>4 DEF ExactOf
  <2>6. RatedOf(v, a, now)
    BY <2>1, <2>2, <2>4, RatedCount DEF v
  <2>7. Cardinality(InWindow(u, a)) <= MaxPublishPerSec
    <3>1. CASE SecondOver(u)
      BY <2>2, <2>4, <3>1, WindowOver, RatedKeepsRate
    <3>2. CASE ~SecondOver(u)
      <4>1. InWindow(u, a) = InWindow(v, a)
        BY <2>3, <3>2 DEF InWindow
      <4>2. a \in Seq(Nat)
        OBVIOUS
      <4>3. QED
        BY <2>3, <2>6, <4>1, <4>2, RatedKeepsRate
    <3>3. QED
      BY <3>1, <3>2
  <2> HIDE DEF a
  <2>8. Single("truncate", "limits", size[p], v, file, records, a, now)
    BY <1>0, <2>1, <2>4, <2>5, <2>6, <2>7 DEF Single
  <2>9. QED
    BY <2>1, <2>8 DEF Mine
<1>3. CASE Allow(p)
  <2>1. /\ pc[p] = "limits" /\ pc'[p] = "publish"
        /\ usage[p].count < MaxPublishPerHour /\ usage[p].bytes + size[p] <= DailyQuota
        /\ UNCHANGED <<now, file, after, size, usage, records, admitted>>
    BY <1>3, <1>t DEF Allow
  <2>2. Single("publish", after[p], size[p], usage[p], file, records, admitted, now)
    BY <1>0, <2>1 DEF Single
  <2>3. QED
    BY <2>1, <2>2 DEF Mine
<1>4. QED
  BY <1>1, <1>2, <1>3 DEF Check

\* A command that publishes, or records what it has published.
LEMMA MineSend ==
  ASSUME TypeOK, CommandState, NEW p \in Process, Mine(p), Send(p)
  PROVE  Mine(p)'
<1> USE ListTypes, FileKinds, KindsDiffer DEF Goto, Save, auditVars
<1>0. Single(pc[p], after[p], size[p], usage[p], file, records, admitted, now)
  BY DEF Mine
<1>t. p \in DOMAIN pc /\ p \in DOMAIN after /\ p \in DOMAIN size /\ p \in DOMAIN usage
  BY DEF TypeOK
<1>1. CASE NodeFails(p) \/ NodeConfirms(p) \/ GiveUp(p)
  <2>1. /\ pc[p] = "publish" /\ pc'[p] \in {"publish", "confirmed", "done"}
        /\ UNCHANGED <<now, file, after, size, usage, records, admitted>>
    BY <1>1, <1>t DEF NodeFails, NodeConfirms, GiveUp, Refuse
  <2>2. Single(pc'[p], after[p], size[p], usage[p], file, records, admitted, now)
    BY <1>0, <2>1 DEF Single
  <2>3. QED
    BY <2>1, <2>2 DEF Mine
<1>2. CASE Record(p)
  <2> DEFINE u == usage[p]
             r == [at |-> now, size |-> size[p]]
             v == Recorded(u, r.size)
             s == Append(records, r)
  <2>1. /\ pc[p] = "record" /\ pc'[p] = "truncate" /\ after'[p] = "done"
        /\ usage'[p] = v /\ records' = s
        /\ UNCHANGED <<now, file, size, admitted>>
    BY <1>2, <1>t DEF Record
  <2>2. u \in Counters /\ size[p] \in Size /\ r \in Entry /\ r.size = size[p]
    BY <2>1 DEF CommandState, Entry
  <2>3. /\ ExactOf(u, records) /\ RatedOf(u, admitted, now) /\ file = u
        /\ u.count < MaxPublishPerHour /\ u.bytes + r.size <= DailyQuota
    BY <1>0, <2>1, <2>2 DEF Single
  <2>4. /\ v.since = u.since /\ v.secondAt = u.secondAt /\ v.secondCount = u.secondCount
    BY <2>2 DEF Recorded, Counters
  <2> HIDE DEF u, v, r
  <2>5. ExactOf(v, s)
    BY <2>2, <2>3, ExactRecord DEF v
  <2>6. /\ Len(s) - u.since <= MaxPublishPerHour
        /\ Bytes(s)[Len(s)] - Bytes(s)[u.since] <= DailyQuota
    BY <2>4, <2>5 DEF ExactOf
  <2>7. RatedOf(v, admitted, now)
    BY <2>3, <2>4 DEF RatedOf
  <2>8. u # Absent /\ u # Empty /\ u # Garbled
    BY <2>2
  <2> HIDE DEF s
  <2>9. Single("truncate", "done", size[p], v, file, s, admitted, now)
    BY <1>0, <2>1, <2>3, <2>5, <2>6, <2>7, <2>8 DEF Single
  <2>10. QED
    BY <2>1, <2>9 DEF Mine
<1>3. QED
  BY <1>1, <1>2 DEF Send

\* A command that saves its counters.
LEMMA MineSave ==
  ASSUME TypeOK, CommandState, NEW p \in Process, Mine(p), "save" \notin Fault, SaveUsage(p)
  PROVE  Mine(p)'
<1> USE ListTypes, FileKinds, KindsDiffer DEF Goto, Save, auditVars
<1>0. Single(pc[p], after[p], size[p], usage[p], file, records, admitted, now)
  BY DEF Mine
<1>t. p \in DOMAIN pc /\ p \in DOMAIN after /\ p \in DOMAIN size /\ p \in DOMAIN usage
  BY DEF TypeOK
<1>1. CASE Truncate(p)
  <2>1. /\ pc[p] = "truncate" /\ pc'[p] = "write" /\ file' = Empty
        /\ UNCHANGED <<now, after, size, usage, records, admitted>>
    BY <1>1, <1>t DEF Truncate
  <2>2. Single("write", after[p], size[p], usage[p], Empty, records, admitted, now)
    BY <1>0, <2>1 DEF Single
  <2>3. QED
    BY <2>1, <2>2 DEF Mine
<1>2. CASE Write(p)
  <2>1. pc[p] = "write" /\ file = Empty
    BY <1>0, <1>2 DEF Write, Single
  <2>2. /\ pc'[p] = after[p] /\ file' = usage[p]
        /\ UNCHANGED <<now, after, size, usage, records, admitted>>
    BY <1>2, <1>t, <2>1 DEF Write
  <2>3. /\ after[p] \in {"recheck", "show", "check", "limits", "record", "done"}
        /\ usage[p] \in Counters
    BY <2>1 DEF CommandState, TypeOK
  <2>4. ExactOf(usage[p], records) /\ RatedOf(usage[p], admitted, now)
    BY <1>0, <2>1 DEF Single
  <2>5. /\ Len(records) - usage[p].since <= MaxPublishPerHour
        /\ Bytes(records)[Len(records)] - Bytes(records)[usage[p].since] <= DailyQuota
        /\ Cardinality(InWindow(usage[p], admitted)) <= MaxPublishPerSec
    BY <2>3, <2>4, ExactKeepsQuota, RatedKeepsRate
  <2>6. Single(after[p], after[p], size[p], usage[p], usage[p], records, admitted, now)
    BY <1>0, <2>1, <2>3, <2>4, <2>5 DEF Single
  <2>7. QED
    BY <2>2, <2>6 DEF Mine
<1>3. QED
  BY <1>1, <1>2 DEF SaveUsage, SaveFails

\* A step of p moves no other command, and is one of p alone.
LEMMA OnlyOne ==
  ASSUME TypeOK, Alone, Alone', NEW p \in Process,
         Load(p) \/ Check(p) \/ Send(p) \/ SaveUsage(p)
  PROVE  OthersIdle(p) /\ OthersIdle(p)'
<1> USE DEF Goto, Save, Refuse
<1>1. \A q \in Process : q # p => pc'[q] = pc[q]
  BY DEF TypeOK, Load, Check, Send, SaveUsage, Start, StartUsage, Reload, ReloadFails, Reset,
         NoReset, RefuseInactive, RefuseSize, RefuseSecond, CountSecond, RefuseHour,
         RefuseQuota, Allow, NodeFails, NodeConfirms, GiveUp, Record, Truncate, Write, SaveFails
<1>2. CASE Start(p) \/ StartUsage(p)
  <2>1. Active(p)'
    BY <1>2 DEF Active, Start, StartUsage, TypeOK
  <2>2. OthersIdle(p)'
    BY <2>1 DEF Alone, OthersIdle
  <2>3. QED
    BY <1>1, <2>2 DEF OthersIdle, Active
<1>3. CASE ~(Start(p) \/ StartUsage(p))
  <2>1. Active(p)
    BY <1>3 DEF Active, Load, Check, Send, SaveUsage, Reload, ReloadFails, Reset, NoReset,
         Checks, RefuseInactive, RefuseSize, RefuseSecond, CountSecond, RefuseHour, RefuseQuota, Allow,
         NodeFails, NodeConfirms, GiveUp, Record, Truncate, Write, SaveFails
  <2>2. OthersIdle(p)
    BY <2>1 DEF Alone, OthersIdle
  <2>3. QED
    BY <1>1, <2>2 DEF OthersIdle, Active
<1>4. QED
  BY <1>2, <1>3

\* The clock and the end of a process leave what is counted as it is.
LEMMA AloneQuiet ==
  ASSUME TypeOK, TypeOK', CommandState, AloneInv, now <= now',
         UNCHANGED <<file, admitted, records>>,
         \A q \in Process :
           \/ UNCHANGED <<pc[q], after[q], size[q], usage[q]>>
           \/ pc[q] = "done" /\ pc'[q] = "idle"
  PROVE  AloneInv'
<1>1. ASSUME NEW u \in Counters, Current(u)
      PROVE  ExactOf(u, records') /\ RatedOf(u, admitted', now')
  BY <1>1, CurrentIs, RatedLater DEF TypeOK
<1>2. \A q \in Process : Active(q)' => Active(q) /\ UNCHANGED <<pc[q], after[q], size[q], usage[q]>>
  BY DEF Active
<1>3. ASSUME NEW q \in Process, Active(q)' PROVE Current(usage[q])'
  <2>1. usage[q] \in Counters /\ Current(usage[q]) /\ usage'[q] = usage[q]
    BY <1>2, <1>3 DEF Active, CommandState, AloneInv
  <2>2. ExactOf(usage[q], records') /\ RatedOf(usage[q], admitted', now')
    BY <1>1, <2>1
  <2>3. QED
    BY <2>1, <2>2 DEF ExactOf, RatedOf, Current, Exact, Rated, BytesAfter
<1>4. FileCurrent'
  <2>1. \A q \in Process :
          pc'[q] \in {"loaded", "recheck", "show", "check", "limits", "publish", "confirmed",
                      "record", "truncate", "write"}
            => UNCHANGED <<pc[q], after[q], usage[q]>>
    OBVIOUS
  <2>2. \A q \in Process : pc[q] \in {"truncate", "write"} => pc'[q] = pc[q]
    OBVIOUS
  <2>3. ASSUME \A q \in Process : pc'[q] # "truncate"
        PROVE  /\ file' = Absent => admitted' = << >>
               /\ file'.kind = "usage" => Current(file)'
    <3>1. \A q \in Process : pc[q] # "truncate"
      BY <2>2, <2>3
    <3>2. /\ file = Absent => admitted = << >>
          /\ file.kind = "usage" => Current(file)
      BY <3>1 DEF AloneInv, FileCurrent
    <3>3. file.kind = "usage" => ExactOf(file, records') /\ RatedOf(file, admitted', now')
      BY <1>1, <3>2, ListTypes
    <3>4. QED
      BY <3>2, <3>3 DEF ExactOf, RatedOf, Current, Exact, Rated, BytesAfter
  <2>4. file' = Empty => \E q \in Process : pc'[q] = "write"
    BY <2>2 DEF AloneInv, FileCurrent
  <2>5. file' # Garbled /\ (file' = Absent => records' = << >>)
    BY DEF AloneInv, FileCurrent
  <2>6. ASSUME NEW q \in Process
        PROVE  /\ pc'[q] = "loaded" =>
                    file' = usage'[q] \/ (file' = Absent /\ after'[q] \in {"recheck", "show"})
               /\ pc'[q] \in {"recheck", "show", "check"} => file' = usage'[q] \/ file' = Absent
               /\ pc'[q] \in {"limits", "publish", "confirmed", "record"} => file' = usage'[q]
               /\ pc'[q] = "write" => file' = Empty
    BY <2>1 DEF AloneInv, FileCurrent
  <2>7. QED
    BY <2>3, <2>4, <2>5, <2>6 DEF FileCurrent
<1>5. Room'
  BY DEF AloneInv, Room
<1>6. QuotaKept' /\ RateKept'
  BY DEF AloneInv, QuotaKept, RateKept, BytesAfter
<1>7. QED
  BY <1>3, <1>4, <1>5, <1>6 DEF AloneInv

\* Every step of commands that do not overlap keeps the counts.
LEMMA AloneStep ==
  ASSUME "save" \notin Fault, "crash" \notin Fault
  PROVE  IInv /\ IInv' /\ AloneInv /\ Alone /\ Alone' /\ [Next]_vars => AloneInv'
<1> SUFFICES ASSUME IInv, IInv', AloneInv, Alone, Alone', [Next]_vars PROVE AloneInv'
  OBVIOUS
<1>0. TypeOK /\ TypeOK' /\ CommandState
  BY DEF IInv
<1>1. ASSUME NEW p \in Process, Load(p) \/ Check(p) \/ Send(p) \/ SaveUsage(p) PROVE AloneInv'
  <2>1. OthersIdle(p) /\ OthersIdle(p)'
    BY <1>0, <1>1, OnlyOne
  <2>2. Mine(p)'
    BY <1>0, <1>1, <2>1, MineBefore, MineLoad, MineCheck, MineSend, MineSave
  <2>3. QED
    BY <2>1, <2>2, MineAfter
<1>2. ASSUME NEW p \in Process, Exit(p) PROVE AloneInv'
  BY <1>0, <1>2, AloneQuiet DEF Exit, Gone, Goto, TypeOK
<1>3. CASE Tick
  BY <1>0, <1>3, AloneQuiet DEF Tick, auditVars, TypeOK
<1>4. CASE UNCHANGED vars
  BY <1>0, <1>4, AloneQuiet DEF vars, auditVars, TypeOK
<1>5. QED
  BY <1>1, <1>2, <1>3, <1>4 DEF Next, Crash

LEMMA AloneInit == Init => AloneInv
<1> SUFFICES ASSUME Init PROVE AloneInv
  OBVIOUS
<1>1. file = Absent /\ records = << >> /\ admitted = << >> /\ \A p \in Process : pc[p] = "idle"
  BY DEF Init
<1>2. QED
  BY <1>1, FileKinds, KindsDiffer
     DEF AloneInv, Active, FileCurrent, Room, QuotaKept, RateKept

LEMMA AloneHolds ==
  ASSUME "save" \notin Fault, "crash" \notin Fault
  PROVE  Spec /\ []Alone => []AloneInv
<1>1. Init => AloneInv
  BY AloneInit
<1>2. IInv /\ IInv' /\ AloneInv /\ Alone /\ Alone' /\ [Next]_vars => AloneInv'
  BY AloneStep
<1>3. QED
  BY <1>1, <1>2, IInvHolds, PTL DEF Spec

\* Commands that do not overlap, and whose saves succeed, leave in the file the
\* number and the bytes of exactly the publishes that RecordPublish has recorded
\* since the last reset.
THEOREM AloneCountsExactly ==
  ASSUME "save" \notin Fault, "crash" \notin Fault
  PROVE  Spec /\ []Alone => []CountsExactly
<1>1. AloneInv => CountsExactly
  <2> SUFFICES ASSUME AloneInv, \A p \in Process : pc[p] \in {"idle", "done"}
               PROVE  /\ file = Absent => records = << >>
                      /\ file.kind = "usage" => /\ file.count = Len(records) - file.since
                                                /\ file.bytes = BytesAfter(file.since)
    BY DEF CountsExactly
  <2>1. \A p \in Process : pc[p] # "truncate"
    OBVIOUS
  <2>2. QED
    BY <2>1 DEF AloneInv, FileCurrent, Current, Exact
<1>2. QED
  BY <1>1, AloneHolds, PTL

\* Such commands keep the hourly limit and the daily quota of the token between
\* two resets, although the limits are checked in one load and the publish is
\* recorded in another.
THEOREM AloneKeepsQuota ==
  ASSUME "save" \notin Fault, "crash" \notin Fault
  PROVE  Spec /\ []Alone => []QuotaKept
<1>1. AloneInv => QuotaKept
  BY DEF AloneInv
<1>2. QED
  BY <1>1, AloneHolds, PTL

\* And no second of the limiter admits more of them than the token allows.
THEOREM AloneKeepsRate ==
  ASSUME "save" \notin Fault, "crash" \notin Fault
  PROVE  Spec /\ []Alone => []RateKept
<1>1. AloneInv => RateKept
  BY DEF AloneInv
<1>2. QED
  BY <1>1, AloneHolds, PTL
=============================================================================
