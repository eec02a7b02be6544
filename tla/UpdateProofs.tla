----------------------------- MODULE UpdateProofs -----------------------------
(***************************************************************************)
(* Theorems about Update, for every set of versions and every bound on the *)
(* runs and on the failing steps of a run, and about Compare, for the base *)
(* of a version written out as text, digit by digit.                       *)
(***************************************************************************)
EXTENDS Update, Recursion, SequenceTheorems, TLAPS

\* What may be at a path.
File == Binary \cup {NoFile}

\* A file changes into a file when its content is cut or its mode is set.
LEMMA FileFields ==
  ASSUME NEW f \in Binary, NEW w \in BOOLEAN, NEW x \in BOOLEAN
  PROVE  /\ [f EXCEPT !.exec = x] \in Binary
         /\ [f EXCEPT !.exec = x].exec = x /\ [f EXCEPT !.exec = x].whole = f.whole
         /\ [f EXCEPT !.exec = x].version = f.version
         /\ [f EXCEPT !.whole = w] \in Binary
         /\ [f EXCEPT !.whole = w].whole = w /\ [f EXCEPT !.whole = w].exec = f.exec
         /\ [f EXCEPT !.whole = w].version = f.version
         /\ [f EXCEPT !.whole = w, !.exec = x] \in Binary
         /\ [f EXCEPT !.whole = w, !.exec = x].whole = w
         /\ [f EXCEPT !.whole = w, !.exec = x].exec = x
BY DEF Binary

\* Where nothing is, nothing is whole and nothing can be executed.
LEMMA NothingThere ==
  /\ NoFile \notin Binary /\ NoFile.whole = FALSE /\ NoFile.exec = FALSE
  /\ \A f \in File : f.whole => f \in Binary
  /\ \A f \in File : Runs(f) => f \in Binary
<1>1. NoFile \notin Binary
  <2> SUFFICES ASSUME NoFile \in Binary PROVE FALSE
    OBVIOUS
  <2>1. DOMAIN NoFile = {"version", "stamped", "whole", "exec"}
    BY DEF Binary
  <2>2. DOMAIN NoFile = {"whole", "exec"}
    BY DEF NoFile
  <2>3. QED
    BY <2>1, <2>2
<1>2. NoFile.whole = FALSE /\ NoFile.exec = FALSE
  BY DEF NoFile
<1>3. QED
  BY <1>1, <1>2 DEF File, Runs

\* The initial state satisfies the invariant.
LEMMA UpdateInit == Init => IInv
<1> SUFFICES ASSUME Init PROVE IInv
  OBVIOUS
<1>1. TypeOK
  <2>1. backup \in File /\ temp \in File /\ ~backup.exec
    BY NothingThere DEF Init, File
  <2>2. target \in Binary /\ before \in Binary /\ latest \in Versions /\ release \in Versions
    BY DEF Init
  <2>3. faults \in 0..MaxFaults /\ runs \in 0..MaxRuns
    BY BoundAssumption DEF Init
  <2>4. QED
    BY <2>1, <2>2, <2>3 DEF Init, TypeOK, Replacing, File
<1>2. Progress /\ SurvivesOneFailure /\ NeverAnEarlierOne
  BY DEF Init, Progress, SurvivesOneFailure, NeverAnEarlierOne, Ended
<1>3. QED
  BY <1>1, <1>2 DEF IInv

-----------------------------------------------------------------------------

\* Every step keeps the variables in their types.
LEMMA TypeStep == TypeOK /\ Progress /\ [Next]_vars => TypeOK'
<1> SUFFICES ASSUME TypeOK, Progress, [Next]_vars PROVE TypeOK'
  OBVIOUS
<1> USE BoundAssumption, NothingThere DEF TypeOK, Replacing, Works, Fault, End, fileVars, runVars
<1>1. CASE Publish
  BY <1>1 DEF Publish
<1>2. CASE Start
  BY <1>2 DEF Start, File
<1>3. CASE Fetch
  BY <1>3 DEF Fetch
<1>4. CASE UpToDate
  BY <1>4 DEF UpToDate
<1>5. CASE Outdated
  BY <1>5 DEF Outdated
<1>6. CASE Download
  <2>1. PICK s \in BOOLEAN, w \in BOOLEAN :
          temp' = [version |-> release, stamped |-> s, whole |-> w, exec |-> TRUE]
    BY <1>6 DEF Download
  <2>2. temp' \in Binary
    BY <2>1 DEF Binary
  <2>3. QED
    BY <1>6, <2>2 DEF Download
<1>7. CASE Verify
  <2>1. temp \in File /\ Runs(temp)
    BY <1>7 DEF Verify, File
  <2>2. temp \in Binary
    BY <2>1
  <2>3. temp.version = release
    BY <1>7 DEF Verify, Progress
  <2>4. QED
    BY <1>7, <2>1, <2>2, <2>3 DEF Verify
<1>8. CASE Reject
  BY <1>8 DEF Reject
<1>9. CASE Fails
  BY <1>9 DEF Fails
<1>10. CASE OpenBackup \/ Backup
  <2>1. target \in Binary
    BY <1>10 DEF OpenBackup, Backup, Progress
  <2> DEFINE part == [target EXCEPT !.whole = FALSE, !.exec = FALSE]
             all == [target EXCEPT !.exec = FALSE]
  <2>2. part \in Binary /\ ~part.exec /\ all \in Binary /\ ~all.exec
    BY <2>1, FileFields
  <2> HIDE DEF part, all
  <2>3. backup' = part \/ backup' = all
    BY <1>10 DEF OpenBackup, Backup, part, all
  <2>4. backup' \in Binary /\ ~backup'.exec
    BY <2>2, <2>3
  <2>5. QED
    BY <1>10, <2>4 DEF OpenBackup, Backup
<1>11. CASE BackupFails
  BY <1>11 DEF BackupFails
<1>12. CASE BackupSpoilt
  BY <1>12 DEF BackupSpoilt
<1>13. CASE Remove
  BY <1>13 DEF Remove
<1>14. CASE RemoveFails
  BY <1>14 DEF RemoveFails
<1>15. CASE Create
  <2>1. temp \in Binary
    BY <1>15 DEF Create, File
  <2>2. target' \in Binary
    BY <1>15, <2>1, FileFields DEF Create
  <2>3. QED
    BY <1>15, <2>2 DEF Create
<1>16. CASE Copy
  <2>1. temp \in Binary
    BY <1>16 DEF Copy, File
  <2>2. target' \in Binary
    BY <1>16, <2>1, FileFields DEF Copy
  <2>3. QED
    BY <1>16, <2>2 DEF Copy
<1>17. CASE InstallFails
  BY <1>17 DEF InstallFails
<1>18. CASE Restore
  BY <1>18 DEF Restore
<1>19. CASE RestoreFails
  <2>1. backup \in Binary
    BY <1>19 DEF RestoreFails
  <2> DEFINE part == [backup EXCEPT !.whole = FALSE]
  <2>2. part \in Binary
    BY <2>1, FileFields
  <2> HIDE DEF part
  <2>3. target' = target \/ target' = part
    BY <1>19 DEF RestoreFails, part
  <2>4. target' \in File
    BY <2>2, <2>3 DEF File
  <2>5. QED
    BY <1>19, <2>4 DEF RestoreFails, File
<1>20. CASE Chmod
  <2>1. target \in Binary
    <3>1. temp \in Binary
      BY <1>20 DEF Chmod, File
    <3>2. [temp EXCEPT !.exec = FALSE] \in Binary
      BY <3>1, FileFields
    <3>3. QED
      BY <1>20, <3>2 DEF Chmod, Progress
  <2>2. target' \in Binary
    BY <1>20, <2>1, FileFields DEF Chmod
  <2>3. QED
    BY <1>20, <2>2 DEF Chmod
<1>21. CASE ChmodFails
  BY <1>21 DEF ChmodFails
<1>22. CASE Cleanup
  BY <1>22 DEF Cleanup
<1>23. CASE Check
  BY <1>23 DEF Check
<1>24. CASE Kill
  BY <1>24 DEF Kill
<1>25. CASE UNCHANGED vars
  BY <1>25 DEF vars
<1>26. QED
  BY <1>1, <1>2, <1>3, <1>4, <1>5, <1>6, <1>7, <1>8, <1>9, <1>10, <1>11, <1>12, <1>13, <1>14,
     <1>15, <1>16, <1>17, <1>18, <1>19, <1>20, <1>21, <1>22, <1>23, <1>24, <1>25 DEF Next

\* Every step keeps Progress: a case for each action, and in it what the files
\* hold afterwards where the action writes one.
LEMMA ProgressStep == TypeOK /\ Progress /\ [Next]_vars => Progress'
<1> SUFFICES ASSUME TypeOK, Progress, [Next]_vars PROVE Progress'
  OBVIOUS
<1> USE NothingThere DEF Progress, Works, Fault, End, fileVars, runVars
<1>1. CASE Publish
  BY <1>1 DEF Publish
<1>2. CASE Start
  BY <1>2 DEF Start
<1>3. CASE Fetch
  BY <1>3 DEF Fetch
<1>4. CASE UpToDate
  BY <1>4 DEF UpToDate
<1>5. CASE Outdated
  BY <1>5 DEF Outdated
<1>6. CASE Download
  <2>1. temp'.version = release
    BY <1>6 DEF Download
  <2>2. QED
    BY <1>6, <2>1 DEF Download
<1>7. CASE Verify
  BY <1>7 DEF Verify
<1>8. CASE Reject
  BY <1>8 DEF Reject
<1>9. CASE Fails
  BY <1>9 DEF Fails
<1>10. CASE OpenBackup \/ Backup
  <2>1. CASE OpenBackup
    BY <2>1 DEF OpenBackup
  <2>2. CASE Backup
    <3>1. backup' = Kept' /\ faults = 0
      BY <2>2 DEF Backup, Kept
    <3>2. QED
      BY <2>2, <3>1 DEF Backup
  <2>3. QED
    BY <1>10, <2>1, <2>2
<1>11. CASE BackupFails
  <2>1. faults' = 1
    BY <1>11 DEF BackupFails
  <2>2. QED
    BY <1>11, <2>1 DEF BackupFails
<1>12. CASE BackupSpoilt
  <2>1. faults' = 2
    BY <1>12 DEF BackupSpoilt
  <2>2. QED
    BY <1>12, <2>1 DEF BackupSpoilt
<1>13. CASE Remove
  BY <1>13 DEF Remove, Kept
<1>14. CASE RemoveFails
  BY <1>14 DEF RemoveFails
<1>15. CASE Create
  <2>1. temp \in Binary
    BY <1>15 DEF Create, TypeOK, Replacing, File
  <2>2. ~target'.whole
    BY <1>15, <2>1, FileFields DEF Create
  <2>3. QED
    BY <1>15, <2>2 DEF Create, Kept
<1>16. CASE Copy
  BY <1>16 DEF Copy, Kept
<1>17. CASE InstallFails
  <2>1. faults \in Nat /\ faults' = faults + 1
    BY <1>17, BoundAssumption DEF InstallFails, TypeOK
  <2>2. QED
    BY <1>17, <2>1 DEF InstallFails, Kept
<1>18. CASE Restore
  BY <1>18 DEF Restore
<1>19. CASE RestoreFails
  BY <1>19 DEF RestoreFails
<1>20. CASE Chmod
  <2>1. temp \in Binary
    BY <1>20 DEF Chmod, TypeOK, Replacing, File
  <2>2. target' = [temp EXCEPT !.exec = TRUE]
    BY <1>20, <2>1 DEF Chmod, Binary
  <2>3. QED
    BY <1>20, <2>2 DEF Chmod
<1>21. CASE ChmodFails
  BY <1>21 DEF ChmodFails
<1>22. CASE Cleanup
  BY <1>22 DEF Cleanup
<1>23. CASE Check
  BY <1>23 DEF Check
<1>24. CASE Kill
  BY <1>24 DEF Kill
<1>25. CASE UNCHANGED vars
  BY <1>25 DEF vars, Kept
<1>26. QED
  BY <1>1, <1>2, <1>3, <1>4, <1>5, <1>6, <1>7, <1>8, <1>9, <1>10, <1>11, <1>12, <1>13, <1>14, <1>15, <1>16, <1>17, <1>18, <1>19, <1>20, <1>21, <1>22, <1>23, <1>24, <1>25 DEF Next

-----------------------------------------------------------------------------

\* What the end of a run promises.
Promise == SurvivesOneFailure /\ NeverAnEarlierOne

\* While a run is under way nothing is promised.
LEMMA NotEnded == ~Ended => Promise
BY DEF Promise, SurvivesOneFailure, NeverAnEarlierOne

\* The program that was there at the start is still there, and it runs.
LEMMA UntouchedIsFine ==
  ASSUME TypeOK, target = before, Runs(before), result # "updated"
  PROVE  Promise
BY DEF Promise, SurvivesOneFailure, NeverAnEarlierOne, Ended, TypeOK, Binary, Runs

\* Every way to end a run keeps the promise.
LEMMA PromiseStep == IInv /\ TypeOK' /\ [Next]_vars => Promise'
<1> SUFFICES ASSUME IInv, TypeOK', [Next]_vars PROVE Promise'
  OBVIOUS
<1>0. TypeOK /\ Progress /\ Promise
  BY DEF IInv, Promise
<1>1. CASE Publish \/ UNCHANGED vars
  <2>1. UNCHANGED <<target, before, release, pc, result, faults>>
    BY <1>1 DEF Publish, fileVars, runVars, vars
  <2>2. QED
    BY <1>0, <2>1 DEF Promise, SurvivesOneFailure, NeverAnEarlierOne, Ended, Runs
<1>2. CASE UpToDate \/ Reject \/ RemoveFails
  <2>1. target' = target /\ before' = before /\ result' # "updated"
    BY <1>2 DEF UpToDate, Reject, RemoveFails, End, runVars
  <2>2. target = before /\ Runs(before)
    BY <1>0, <1>2 DEF UpToDate, Reject, RemoveFails, Progress
  <2>3. QED
    BY <2>1, <2>2, UntouchedIsFine DEF Promise, SurvivesOneFailure, NeverAnEarlierOne, Ended, TypeOK,
       Binary, Runs
<1>3. CASE Fails
  <2>1. CASE pc = "check"
    <3>1. temp \in Binary /\ temp.whole /\ temp.version = release
      BY <1>0, <2>1, NothingThere DEF TypeOK, Replacing, File, Runs
    <3>2. target = [temp EXCEPT !.exec = TRUE] /\ target' = target /\ release' = release
      BY <1>0, <1>3, <2>1 DEF Fails, End, Progress
    <3>3. target'.whole /\ target'.version = release'
      <4>1. [temp EXCEPT !.exec = TRUE].whole = temp.whole
            /\ [temp EXCEPT !.exec = TRUE].version = temp.version
        BY <3>1, FileFields
      <4>2. QED
        BY <3>1, <3>2, <4>1
    <3>4. faults' # 0
      BY <1>0, <1>3, BoundAssumption DEF Fails, Fault, TypeOK
    <3>5. QED
      BY <3>3, <3>4 DEF Promise, SurvivesOneFailure, NeverAnEarlierOne
  <2>2. CASE pc # "check"
    <3>1. target = before /\ Runs(before) /\ target' = target /\ before' = before /\ result' = "failed"
      BY <1>0, <1>3, <2>2 DEF Fails, End, Progress, runVars
    <3>2. QED
      BY <3>1 DEF Promise, SurvivesOneFailure, NeverAnEarlierOne, Ended, Runs
  <2>3. QED
    BY <2>1, <2>2
<1>4. CASE Restore
  <2>1. faults' = faults /\ faults \in Nat /\ before' = before /\ before \in Binary
    BY <1>0, <1>4, BoundAssumption DEF Restore, End, TypeOK, runVars
  <2>2. faults # 0 /\ ~target.whole /\ Runs(before)
    BY <1>0, <1>4 DEF Restore, Progress
  <2>3. CASE faults = 1
    <3>1. Kept \in Binary /\ Kept.whole = before.whole /\ Kept.version = before.version
      BY <2>1, FileFields DEF Kept
    <3>2. target' = Kept
      BY <1>0, <1>4, <2>3, <3>1, NothingThere DEF Restore, Progress
    <3>3. target'.whole /\ target'.version = before'.version
      BY <3>1, <3>2, <2>1, <2>2 DEF Runs
    <3>4. QED
      BY <2>1, <2>3, <3>3 DEF Promise, SurvivesOneFailure, NeverAnEarlierOne
  <2>4. CASE faults = 2
    <3>1. target' = target
      BY <1>0, <1>4, <2>4 DEF Restore, Progress
    <3>2. QED
      BY <2>1, <2>2, <2>4, <3>1 DEF Promise, SurvivesOneFailure, NeverAnEarlierOne
  <2>5. CASE faults > 2
    BY <2>1, <2>5 DEF Promise, SurvivesOneFailure, NeverAnEarlierOne
  <2>6. QED
    BY <2>1, <2>2, <2>3, <2>4, <2>5
<1>5. CASE RestoreFails
  <2>1. faults' = faults + 1 /\ faults \in Nat /\ faults # 0 /\ ~target.whole
    BY <1>0, <1>5, BoundAssumption DEF RestoreFails, Fault, End, TypeOK, Progress
  <2>2. backup \in Binary
    BY <1>0, <1>5 DEF RestoreFails, TypeOK
  <2> DEFINE part == [backup EXCEPT !.whole = FALSE]
  <2>3. part.whole = FALSE
    BY <2>2, FileFields
  <2> HIDE DEF part
  <2>4. ~target'.whole
    BY <1>5, <2>1, <2>3 DEF RestoreFails, part
  <2>5. QED
    BY <2>1, <2>4 DEF Promise, SurvivesOneFailure, NeverAnEarlierOne
<1>6. CASE ChmodFails \/ Check
  <2>1. temp \in Binary /\ Runs(temp) /\ temp.version = release
    BY <1>0, <1>6, NothingThere DEF ChmodFails, Check, TypeOK, Replacing, File
  <2>2. target' = target /\ release' = release
    BY <1>6 DEF ChmodFails, Check, End
  <2>3. CASE ChmodFails
    <3>1. target = [temp EXCEPT !.exec = FALSE] /\ faults' # 0
      BY <1>0, <2>3, BoundAssumption DEF ChmodFails, Progress, Fault, TypeOK
    <3>2. target'.whole /\ target'.version = release'
      <4>1. [temp EXCEPT !.exec = FALSE].whole = temp.whole
            /\ [temp EXCEPT !.exec = FALSE].version = temp.version
        BY <2>1, FileFields
      <4>2. QED
        BY <2>1, <2>2, <3>1, <4>1 DEF Runs
    <3>3. QED
      BY <3>1, <3>2 DEF Promise, SurvivesOneFailure, NeverAnEarlierOne
  <2>4. CASE Check
    <3>1. target = [temp EXCEPT !.exec = TRUE]
      BY <1>0, <2>4 DEF Check, Progress
    <3>2. Runs(target) /\ target.version = release
      <4>1. /\ [temp EXCEPT !.exec = TRUE].whole = temp.whole
            /\ [temp EXCEPT !.exec = TRUE].version = temp.version
            /\ [temp EXCEPT !.exec = TRUE].exec = TRUE
        BY <2>1, FileFields
      <4>2. QED
        BY <2>1, <3>1, <4>1 DEF Runs
    <3>3. result' = "updated"
      BY <2>4, <3>2 DEF Check, End
    <3>4. QED
      BY <2>2, <3>2, <3>3 DEF Promise, SurvivesOneFailure, NeverAnEarlierOne, Runs
  <2>5. QED
    BY <1>6, <2>3, <2>4
<1>7. CASE Kill
  BY <1>7 DEF Kill, Promise, SurvivesOneFailure, NeverAnEarlierOne, Ended
<1>8. CASE \/ Start \/ Fetch \/ Outdated \/ Download \/ Verify \/ OpenBackup \/ Backup \/ BackupFails
           \/ BackupSpoilt \/ Remove \/ Create \/ Copy \/ InstallFails \/ Chmod \/ Cleanup
  <2>1. pc' # "idle"
    BY <1>8 DEF Start, Fetch, Outdated, Download, Verify, OpenBackup, Backup, BackupFails, BackupSpoilt,
       Remove, Create, Copy, InstallFails, Chmod, Cleanup, Works
  <2>2. QED
    BY <2>1 DEF Promise, SurvivesOneFailure, NeverAnEarlierOne, Ended
<1>9. QED
  BY <1>1, <1>2, <1>3, <1>4, <1>5, <1>6, <1>7, <1>8 DEF Next

-----------------------------------------------------------------------------

\* The invariant is inductive.
LEMMA Invariance == Spec => []IInv
<1>1. Init => IInv
  BY UpdateInit
<1>2. IInv /\ [Next]_vars => IInv'
  <2> SUFFICES ASSUME IInv, [Next]_vars PROVE IInv'
    OBVIOUS
  <2>1. TypeOK' /\ Progress'
    BY TypeStep, ProgressStep DEF IInv
  <2>2. Promise'
    BY <2>1, PromiseStep
  <2>3. QED
    BY <2>1, <2>2 DEF IInv, Promise
<1>3. QED
  BY <1>1, <1>2, PTL DEF Spec

\* The variables keep their types, and nothing takes the place of the program
\* that has not been tried (update.go:262).
THEOREM TypeCorrect == Spec => []TypeOK
<1>1. IInv => TypeOK
  BY DEF IInv
<1>2. QED
  BY <1>1, Invariance, PTL

\* No single failing step costs the program, and without one it runs, for
\* every sequence of releases and runs (replaceBinary).
THEOREM OneFailureIsSurvived == Spec => []SurvivesOneFailure
<1>1. IInv => SurvivesOneFailure
  BY DEF IInv
<1>2. QED
  BY <1>1, Invariance, PTL

\* With two failing steps at most, no run brings back a program that an
\* earlier run has replaced, also one that was killed (replaceBinary).
THEOREM EarlierProgramStaysGone == Spec => []NeverAnEarlierOne
<1>1. IInv => NeverAnEarlierOne
  BY DEF IInv
<1>2. QED
  BY <1>1, Invariance, PTL

-----------------------------------------------------------------------------
(* The comparison of versions.                                             *)

Figures == 0..9

LEMMA Division ==
  \A n \in Nat : /\ n \div 10 \in Nat /\ n % 10 \in Figures /\ n = 10 * (n \div 10) + (n % 10)
                 /\ n >= 10 => n \div 10 < n
BY DEF Figures

LEMMA DigitsAre ==
  \A n \in Nat : /\ Digits[n] \in Seq(Figures)
                 /\ Digits[n] = IF n < 10 THEN <<n>> ELSE Append(Digits[n \div 10], n % 10)
<1> DEFINE D == Seq(Figures)
           Step(f, n) == IF n < 10 THEN <<n>> ELSE Append(f[n \div 10], n % 10)
           G == [n \in Nat |-> [f \in [Nat -> D] |-> Step(f, n)]]
<1>1. ASSUME NEW n \in Nat, NEW f, n >= 10 => f[n \div 10] \in D PROVE Step(f, n) \in D
  <2>1. CASE n < 10
    <3>1. n \in Figures
      BY <2>1 DEF Figures
    <3>2. <<n>> \in Seq(Figures)
      BY <3>1
    <3>3. QED
      BY <2>1, <3>2
  <2>2. CASE n >= 10
    BY <1>1, <2>2, Division, AppendProperties
  <2>3. QED
    BY <2>1, <2>2
<1>2. G \in [Nat -> [[Nat -> D] -> D]]
  <2>1. ASSUME NEW n \in Nat, NEW f \in [Nat -> D] PROVE Step(f, n) \in D
    <3>1. f[n \div 10] \in D
      BY Division
    <3>2. QED
      BY <1>1, <3>1
  <2> HIDE DEF Step, D
  <2>2. QED
    BY <2>1
<1>3. ASSUME NEW n \in Nat, NEW f \in [Nat -> D], NEW g \in [Nat -> D],
             \A i \in 0..(n - 1) : f[i] = g[i]
      PROVE  G[n][f] = G[n][g]
  <2>1. n >= 10 => n \div 10 \in 0..(n - 1)
    BY Division
  <2>2. QED
    BY <1>3, <2>1
<1>4. PICK d : d \in D
  BY EmptySeq
<1>5. PICK f \in [Nat -> D] : \A n \in Nat : f[n] = G[n][f]
  <2>1. LooksBack(D, G)
    <3> HIDE DEF G, D
    <3>1. QED
      BY <1>2, <1>3 DEF LooksBack
  <2> HIDE DEF G, D
  <2>2. \E f \in [Nat -> D] : FollowsItself(f, G)
    BY <1>4, <2>1, CourseOfValues
  <2>3. QED
    BY <2>2 DEF FollowsItself
<1>6. f = [n \in Nat |-> IF n < 10 THEN <<n>> ELSE Append(f[n \div 10], n % 10)]
  BY <1>5
<1>7. Digits = [n \in Nat |-> IF n < 10 THEN <<n>> ELSE Append(Digits[n \div 10], n % 10)]
  BY <1>6 DEF Digits
<1>8. ASSUME NEW n \in Nat PROVE Digits[n] = Step(Digits, n)
  BY <1>7
<1> DEFINE T == {n \in Nat : \A k \in 0..n : Digits[k] \in D}
<1>9. Nat \subseteq T
  <2> HIDE DEF Step, D
  <2>1. 0 \in T
    <3>1. \A k \in 0..0 : k = 0 /\ k \in Nat /\ ~(k >= 10)
      OBVIOUS
    <3>2. QED
      BY <1>1, <1>8, <3>1
  <2>2. ASSUME NEW n \in Nat, n \in T PROVE n + 1 \in T
    <3>1. (n + 1) \in Nat /\ ((n + 1) >= 10 => (n + 1) \div 10 \in 0..n)
      BY Division
    <3>2. Digits[n + 1] \in D
      BY <1>1, <1>8, <2>2, <3>1
    <3>3. QED
      BY <2>2, <3>2
  <2> HIDE DEF T
  <2>3. QED
    BY <2>1, <2>2, Induction
<1>10. ASSUME NEW n \in Nat PROVE Digits[n] \in D
  <2>1. n \in T
    <3> HIDE DEF T
    <3>1. QED
      BY <1>9
  <2>2. n \in 0..n
    OBVIOUS
  <2> HIDE DEF D
  <2>3. QED
    BY <2>1, <2>2
<1>11. QED
  BY <1>8, <1>10

Words == Seq(Int)

LEMMA WordsAre ==
  ASSUME NEW s \in Words
  PROVE  Len(s) \in Nat /\ \A k \in 1..Len(s) : s[k] \in Int
BY LenProperties, ElementOfSeq DEF Words

\* What makes one word come before another.
Splits(s, t, k) ==
  /\ k \in 1..Len(t)
  /\ \A j \in 1..(k - 1) : j <= Len(s) /\ s[j] = t[j]
  /\ k > Len(s) \/ s[k] < t[k]

LEMMA BeforeSplits == \A s, t : Before(s, t) <=> \E k : Splits(s, t, k)
BY DEF Before, Splits

\* No two words come before each other.
LEMMA BeforeIsStrict ==
  ASSUME NEW s \in Words, NEW t \in Words
  PROVE  /\ ~Before(s, s)
         /\ Before(s, t) => ~Before(t, s)
<1>1. ASSUME NEW x \in Words, NEW y \in Words, Before(x, y), Before(y, x) PROVE FALSE
  <2>1. PICK k : Splits(x, y, k)
    BY <1>1, BeforeSplits
  <2>2. PICK l : Splits(y, x, l)
    BY <1>1, BeforeSplits
  <2>3. Len(x) \in Nat /\ Len(y) \in Nat /\ k \in 1..Len(y) /\ l \in 1..Len(x)
    BY <2>1, <2>2, WordsAre DEF Splits
  <2>4. CASE k < l
    <3>1. k \in 1..(l - 1) /\ k \in 1..Len(x) /\ ~(k > Len(x))
      BY <2>3, <2>4
    <3>2. x[k] < y[k] /\ y[k] = x[k] /\ x[k] \in Int
      BY <2>1, <2>2, <3>1, WordsAre DEF Splits
    <3>3. QED
      BY <3>2
  <2>5. CASE l < k
    <3>1. l \in 1..(k - 1) /\ l \in 1..Len(y) /\ ~(l > Len(y))
      BY <2>3, <2>5
    <3>2. y[l] < x[l] /\ x[l] = y[l] /\ y[l] \in Int
      BY <2>1, <2>2, <3>1, WordsAre DEF Splits
    <3>3. QED
      BY <3>2
  <2>6. CASE k = l
    <3>1. k \in 1..Len(x) /\ k \in 1..Len(y) /\ ~(k > Len(x)) /\ ~(k > Len(y))
      BY <2>3, <2>6
    <3>2. x[k] < y[k] /\ y[k] < x[k] /\ x[k] \in Int /\ y[k] \in Int
      BY <2>1, <2>2, <2>6, <3>1, WordsAre DEF Splits
    <3>3. QED
      BY <3>2
  <2>7. QED
    BY <2>3, <2>4, <2>5, <2>6
<1>2. QED
  BY <1>1

\* Equality, as an operator that the provers do not open.
Same(s, t) == s = t

\* Words that begin with words of the same length.
LEMMA ConcatBefore ==
  ASSUME NEW s \in Words, NEW t \in Words, NEW u \in Words, NEW v \in Words, Len(s) = Len(t)
  PROVE  /\ Same(s \o u, t \o v) <=> Same(s, t) /\ Same(u, v)
         /\ Before(s \o u, t \o v) <=> Before(s, t) \/ (Same(s, t) /\ Before(u, v))
<1> DEFINE n == Len(s)
           x == s \o u
           y == t \o v
<1>1. /\ n \in Nat /\ Len(s) = n /\ Len(t) = n /\ Len(u) \in Nat /\ Len(v) \in Nat
      /\ Len(x) = n + Len(u) /\ Len(y) = n + Len(v)
      /\ \A i \in 1..n : x[i] = s[i] /\ y[i] = t[i]
  <2>1. n \in Nat /\ Len(s) = n /\ Len(t) = n /\ Len(u) \in Nat /\ Len(v) \in Nat
    BY LenProperties DEF Words
  <2>2. Len(x) = n + Len(u) /\ Len(y) = n + Len(v)
    <3>1. Len(s \o u) = Len(s) + Len(u) /\ Len(t \o v) = Len(t) + Len(v)
      BY ConcatProperties DEF Words
    <3>2. QED
      BY <2>1, <3>1
  <2>3. ASSUME NEW i \in 1..n PROVE x[i] = s[i] /\ y[i] = t[i]
    <3>1. i \in 1..(n + Len(u)) /\ i \in 1..(n + Len(v)) /\ i <= n
      BY <2>1
    <3>2. QED
      BY <2>1, <3>1, ConcatProperties DEF Words
  <2>4. QED
    BY <2>1, <2>2, <2>3
<1>2. /\ \A i \in 1..Len(u) : x[n + i] = u[i]
      /\ \A i \in 1..Len(v) : y[n + i] = v[i]
  <2>1. ASSUME NEW i \in 1..Len(u) PROVE x[n + i] = u[i]
    <3>1. n + i \in 1..(n + Len(u)) /\ ~(n + i <= n) /\ (n + i) - n = i
      BY <1>1
    <3>2. QED
      BY <3>1, ConcatProperties DEF Words
  <2>2. ASSUME NEW i \in 1..Len(v) PROVE y[n + i] = v[i]
    <3>1. n + i \in 1..(n + Len(v)) /\ ~(n + i <= n) /\ (n + i) - n = i
      BY <1>1
    <3>2. QED
      BY <1>1, <3>1, ConcatProperties DEF Words
  <2>3. QED
    BY <2>1, <2>2
<1> HIDE DEF n, x, y
<1>3. (\A i \in 1..n : s[i] = t[i]) => s = t
  BY <1>1, SeqEqual DEF Words
<1>4. ASSUME x = y PROVE s = t /\ u = v
  <2>1. s = t
    BY <1>1, <1>3, <1>4
  <2>2. Len(u) = Len(v)
    BY <1>1, <1>4
  <2>3. \A i \in 1..Len(u) : u[i] = v[i]
    BY <1>2, <1>4, <2>2
  <2>4. QED
    BY <2>1, <2>2, <2>3, SeqEqual DEF Words
<1>5. ASSUME Before(x, y) PROVE Before(s, t) \/ (s = t /\ Before(u, v))
  <2>1. PICK k \in 1..Len(y) : /\ \A j \in 1..(k - 1) : j <= Len(x) /\ x[j] = y[j]
                               /\ k > Len(x) \/ x[k] < y[k]
    BY <1>5 DEF Before
  <2>2. CASE k <= n
    <3>1. k \in 1..n /\ k \in Nat /\ ~(k > Len(x)) /\ \A j \in 1..(k - 1) : j \in 1..n /\ j <= n
      BY <1>1, <2>2
    <3>2. s[k] < t[k] /\ \A j \in 1..(k - 1) : j <= n /\ s[j] = t[j]
      BY <1>1, <2>1, <3>1
    <3>3. QED
      BY <1>1, <3>1, <3>2 DEF Before
  <2>3. CASE k > n
    <3>1. s = t
      <4>1. \A i \in 1..n : i \in 1..(k - 1)
        BY <1>1, <2>3
      <4>2. QED
        BY <1>1, <1>3, <2>1, <4>1
    <3> DEFINE l == k - n
    <3>2. l \in 1..Len(v) /\ n + l = k /\ k \in Nat
      BY <1>1, <2>3
    <3>3. ASSUME NEW j \in 1..(l - 1) PROVE j <= Len(u) /\ u[j] = v[j]
      <4>1. n + j \in 1..(k - 1) /\ j \in 1..Len(v)
        BY <1>1, <3>2
      <4>2. n + j <= Len(x) /\ x[n + j] = y[n + j]
        BY <2>1, <4>1
      <4>3. j \in 1..Len(u)
        BY <1>1, <4>2
      <4>4. QED
        BY <1>2, <4>1, <4>2, <4>3
    <3>4. l > Len(u) \/ u[l] < v[l]
      <4>1. CASE k > Len(x)
        BY <1>1, <4>1
      <4>2. CASE k <= Len(x)
        <5>1. l \in 1..Len(u) /\ ~(k > Len(x))
          BY <1>1, <3>2, <4>2
        <5>2. QED
          BY <1>2, <2>1, <3>2, <5>1
      <4>3. QED
        BY <1>1, <4>1, <4>2
    <3> HIDE DEF l
    <3>5. Before(u, v)
      BY <3>2, <3>3, <3>4 DEF Before
    <3>6. QED
      BY <3>1, <3>5
  <2>4. QED
    BY <1>1, <2>2, <2>3
<1>6. ASSUME Before(s, t) PROVE Before(x, y)
  <2>1. PICK k \in 1..n : /\ \A j \in 1..(k - 1) : j <= n /\ s[j] = t[j]
                          /\ k > n \/ s[k] < t[k]
    BY <1>1, <1>6 DEF Before
  <2>2. k \in 1..Len(y) /\ k \in 1..n /\ ~(k > n)
    BY <1>1
  <2>3. \A j \in 1..(k - 1) : j \in 1..n /\ j <= Len(x)
    BY <1>1
  <2>4. QED
    BY <1>1, <2>1, <2>2, <2>3 DEF Before
<1>7. ASSUME s = t, Before(u, v) PROVE Before(x, y)
  <2>1. PICK l \in 1..Len(v) : /\ \A j \in 1..(l - 1) : j <= Len(u) /\ u[j] = v[j]
                               /\ l > Len(u) \/ u[l] < v[l]
    BY <1>7 DEF Before
  <2> DEFINE k == n + l
  <2>2. k \in 1..Len(y)
    BY <1>1
  <2>3. ASSUME NEW j \in 1..(k - 1) PROVE j <= Len(x) /\ x[j] = y[j]
    <3>1. CASE j <= n
      <4>1. j \in 1..n /\ j <= Len(x)
        BY <1>1, <3>1
      <4>2. QED
        BY <1>1, <1>7, <4>1
    <3>2. CASE j > n
      <4> DEFINE i == j - n
      <4>1. i \in 1..(l - 1) /\ n + i = j /\ i \in 1..Len(v)
        BY <1>1, <3>2
      <4> HIDE DEF i
      <4>2. i <= Len(u) /\ u[i] = v[i]
        BY <2>1, <4>1
      <4>3. i \in 1..Len(u) /\ j <= Len(x)
        BY <1>1, <4>1, <4>2
      <4>4. QED
        BY <1>2, <4>1, <4>2, <4>3
    <3>3. QED
      BY <1>1, <3>1, <3>2
  <2>4. k > Len(x) \/ x[k] < y[k]
    <3>1. CASE l > Len(u)
      BY <1>1, <3>1
    <3>2. CASE l <= Len(u)
      <4>1. l \in 1..Len(u) /\ ~(l > Len(u))
        BY <1>1, <3>2
      <4>2. QED
        BY <1>2, <2>1, <4>1
    <3>3. QED
      BY <1>1, <3>1, <3>2
  <2> HIDE DEF k
  <2>5. QED
    BY <2>2, <2>3, <2>4 DEF Before
<1>8. QED
  BY <1>4, <1>5, <1>6, <1>7 DEF x, y, Same

LEMMA Joined ==
  ASSUME NEW s \in Words, NEW t \in Words, NEW u \in Words, NEW v \in Words,
         Len(s) = Len(t), Len(u) = Len(v)
  PROVE  /\ s \o u \in Words /\ t \o v \in Words /\ Len(s \o u) = Len(t \o v)
         /\ Same(s \o u, t \o v) <=> Same(s, t) /\ Same(u, v)
         /\ Before(s \o u, t \o v) <=> Before(s, t) \/ (Same(s, t) /\ Before(u, v))
<1>1. /\ s \o u \in Words /\ t \o v \in Words
      /\ Len(s \o u) = Len(s) + Len(u) /\ Len(t \o v) = Len(t) + Len(v)
  BY ConcatProperties DEF Words
<1>2. QED
  BY <1>1, ConcatBefore

LEMMA OneLetter ==
  ASSUME NEW a \in Int, NEW b \in Int
  PROVE  /\ <<a>> \in Words /\ Len(<<a>>) = 1
         /\ <<a>> = <<b>> <=> a = b
         /\ Before(<<a>>, <<b>>) <=> a < b
<1>1. <<a>> \in Words /\ Len(<<a>>) = 1 /\ Len(<<b>>) = 1 /\ <<a>>[1] = a /\ <<b>>[1] = b
  BY DEF Words
<1>2. Before(<<a>>, <<b>>) <=> a < b
  <2>1. \A k \in 1..1 : k = 1 /\ 1..(k - 1) = {} /\ ~(k > 1)
    OBVIOUS
  <2>2. 1 \in 1..1
    OBVIOUS
  <2>3. QED
    BY <1>1, <2>1, <2>2 DEF Before
<1>3. QED
  BY <1>1, <1>2

LEMMA DigitsParts ==
  \A n \in Nat :
    /\ Digits[n] \in Words /\ Len(Digits[n]) \in Nat \ {0}
    /\ n < 10 => Digits[n] = <<n>> /\ Len(Digits[n]) = 1
    /\ n >= 10 => /\ Digits[n] = Digits[n \div 10] \o <<n % 10>>
                  /\ Len(Digits[n]) = Len(Digits[n \div 10]) + 1
<1>1. ASSUME NEW n \in Nat PROVE Digits[n] \in Words /\ Len(Digits[n]) \in Nat
  <2>1. Digits[n] \in Seq(Figures)
    BY DigitsAre
  <2>2. Len(Digits[n]) \in Nat /\ \A i \in 1..Len(Digits[n]) : Digits[n][i] \in Int
    BY <2>1, LenProperties, ElementOfSeq DEF Figures
  <2>3. Digits[n] \in [1..Len(Digits[n]) -> Int]
    BY <2>1, <2>2, LenProperties
  <2>4. QED
    BY <2>2, <2>3 DEF Words
<1>2. ASSUME NEW n \in Nat, n < 10 PROVE Digits[n] = <<n>> /\ Len(Digits[n]) = 1
  <2>1. Digits[n] = <<n>>
    BY <1>2, DigitsAre
  <2>2. QED
    BY <2>1, OneLetter
<1>3. ASSUME NEW n \in Nat, n >= 10
      PROVE  /\ Digits[n] = Digits[n \div 10] \o <<n % 10>>
             /\ Len(Digits[n]) = Len(Digits[n \div 10]) + 1
  <2>1. n \div 10 \in Nat /\ n % 10 \in Int /\ ~(n < 10)
    BY <1>3
  <2>2. Digits[n] = Append(Digits[n \div 10], n % 10) /\ Digits[n \div 10] \in Words
    BY <1>1, <2>1, DigitsAre
  <2>3. QED
    BY <2>1, <2>2, AppendIsConcat, AppendProperties DEF Words
<1>4. ASSUME NEW n \in Nat PROVE Len(Digits[n]) # 0
  <2>1. CASE n < 10
    BY <1>2, <2>1
  <2>2. CASE n >= 10
    <3>1. n \div 10 \in Nat
      OBVIOUS
    <3>2. Len(Digits[n]) = Len(Digits[n \div 10]) + 1 /\ Len(Digits[n \div 10]) \in Nat
      BY <1>1, <1>3, <2>2, <3>1
    <3>3. QED
      BY <3>2
  <2>3. QED
    BY <2>1, <2>2
<1>5. QED
  BY <1>1, <1>2, <1>3, <1>4

\* Numbers with equally many digits compare as their texts do.
LEMMA DigitsGrow ==
  \A n \in Nat : \A m \in Nat :
    Len(Digits[m]) = Len(Digits[n]) /\ m < n => Before(Digits[m], Digits[n])
<1> DEFINE Grow(n) ==
             \A m \in Nat : Len(Digits[m]) = Len(Digits[n]) /\ m < n => Before(Digits[m], Digits[n])
           T == {n \in Nat : \A k \in 0..n : Grow(k)}
<1>1. ASSUME NEW n \in Nat, \A k \in 0..(n - 1) : Grow(k) PROVE Grow(n)
  <2> SUFFICES ASSUME NEW m \in Nat, Len(Digits[m]) = Len(Digits[n]), m < n
               PROVE  Before(Digits[m], Digits[n])
    OBVIOUS
  <2>1. CASE n < 10
    <3>1. m < 10 /\ m \in Int /\ n \in Int
      BY <2>1
    <3>2. Digits[m] = <<m>> /\ Digits[n] = <<n>>
      BY <2>1, <3>1, DigitsParts
    <3>3. QED
      BY <3>1, <3>2, OneLetter
  <2>2. CASE n >= 10
    <3> DEFINE p == m \div 10
               q == n \div 10
               a == m % 10
               b == n % 10
    <3>1. /\ p \in Nat /\ a \in Figures /\ m = 10 * p + a
          /\ q \in Nat /\ b \in Figures /\ n = 10 * q + b /\ q \in 0..(n - 1)
      BY <2>2, Division
    <3>2. Len(Digits[n]) = Len(Digits[q]) + 1 /\ Len(Digits[q]) \in Nat \ {0}
      BY <2>2, <3>1, DigitsParts
    <3>3. m >= 10
      <4>1. m < 10 => Len(Digits[m]) = 1
        BY DigitsParts
      <4>2. QED
        BY <3>2, <4>1
    <3>4. /\ Digits[m] = Digits[p] \o <<a>> /\ Digits[n] = Digits[q] \o <<b>>
          /\ Len(Digits[m]) = Len(Digits[p]) + 1
      BY <2>2, <3>3, DigitsParts
    <3> HIDE DEF p, q, a, b
    <3>5. /\ Digits[p] \in Words /\ Digits[q] \in Words /\ Len(Digits[p]) \in Nat
          /\ Len(Digits[q]) \in Nat
      BY <3>1, DigitsParts
    <3>6. Len(Digits[p]) = Len(Digits[q])
      BY <3>2, <3>4, <3>5
    <3>7. a \in Int /\ b \in Int /\ (p < q \/ (p = q /\ a < b))
      BY <3>1 DEF Figures
    <3>8. Before(Digits[p], Digits[q]) \/ (Same(Digits[p], Digits[q]) /\ Before(<<a>>, <<b>>))
      <4>1. CASE p < q
        BY <1>1, <3>1, <3>6, <4>1
      <4>2. CASE p = q /\ a < b
        BY <3>7, <4>2, OneLetter DEF Same
      <4>3. QED
        BY <3>7, <4>1, <4>2
    <3>9. <<a>> \in Words /\ <<b>> \in Words
      BY <3>7, OneLetter
    <3>10. QED
      BY <3>4, <3>5, <3>6, <3>8, <3>9, ConcatBefore
  <2>3. QED
    BY <2>1, <2>2
<1>2. Nat \subseteq T
  <2>1. 0 \in T
    <3>1. \A k \in 0..0 : k = 0 /\ k \in Nat /\ 0..(k - 1) = {}
      OBVIOUS
    <3> HIDE DEF Grow
    <3>2. QED
      BY <1>1, <3>1
  <2>2. ASSUME NEW n \in Nat, n \in T PROVE n + 1 \in T
    <3> HIDE DEF Grow
    <3>1. n + 1 \in Nat /\ (n + 1) - 1 = n
      OBVIOUS
    <3>2. Grow(n + 1)
      BY <1>1, <2>2, <3>1
    <3>3. QED
      BY <2>2, <3>2
  <2> HIDE DEF T
  <2>3. QED
    BY <2>1, <2>2, Induction
<1>3. ASSUME NEW n \in Nat PROVE Grow(n)
  <2>1. n \in T
    <3> HIDE DEF T
    <3>1. QED
      BY <1>2
  <2> HIDE DEF Grow
  <2>2. QED
    BY <2>1
<1>4. QED
  BY <1>3

LEMMA DigitsOrder ==
  ASSUME NEW m \in Nat, NEW n \in Nat, Len(Digits[m]) = Len(Digits[n])
  PROVE  /\ Digits[m] = Digits[n] <=> m = n
         /\ Before(Digits[m], Digits[n]) <=> m < n
<1>1. Digits[m] \in Words /\ Digits[n] \in Words
  BY DigitsParts
<1>2. /\ m < n => Before(Digits[m], Digits[n])
      /\ n < m => Before(Digits[n], Digits[m])
  BY DigitsGrow
<1>3. /\ ~Before(Digits[m], Digits[m])
      /\ Before(Digits[m], Digits[n]) => ~Before(Digits[n], Digits[m])
  BY <1>1, BeforeIsStrict
<1>4. m < n \/ n < m \/ m = n
  OBVIOUS
<1>5. m < n => m # n /\ ~(n < m)
  OBVIOUS
<1>6. QED
  BY <1>2, <1>3, <1>4, <1>5

Bases == Nat \X Nat \X Nat

\* The order of bases, number by number.
Earlier(a, b) ==
  \/ a[1] < b[1]
  \/ a[1] = b[1] /\ a[2] < b[2]
  \/ a[1] = b[1] /\ a[2] = b[2] /\ a[3] < b[3]

LEMMA BaseOrder ==
  ASSUME NEW a \in Bases, NEW b \in Bases
  PROVE  Before(a, b) <=> Earlier(a, b)
<1>1. /\ Len(a) = 3 /\ Len(b) = 3
      /\ \A i \in 1..3 : a[i] \in Nat /\ b[i] \in Nat
  BY DEF Bases
<1>2. \A k \in 1..3 : k = 1 \/ k = 2 \/ k = 3
  OBVIOUS
<1>3. /\ 1..(1 - 1) = {} /\ 1..(2 - 1) = {1} /\ 1..(3 - 1) = {1, 2}
      /\ 1 \in 1..3 /\ 2 \in 1..3 /\ 3 \in 1..3
  OBVIOUS
<1>4. ASSUME Before(a, b) PROVE Earlier(a, b)
  <2>1. PICK k \in 1..3 : (\A j \in 1..(k - 1) : a[j] = b[j]) /\ a[k] < b[k]
    BY <1>1, <1>4 DEF Before
  <2>2. CASE k = 1
    BY <2>1, <2>2 DEF Earlier
  <2>3. CASE k = 2
    BY <1>3, <2>1, <2>3 DEF Earlier
  <2>4. CASE k = 3
    BY <1>3, <2>1, <2>4 DEF Earlier
  <2>5. QED
    BY <1>2, <2>2, <2>3, <2>4
<1>5. ASSUME NEW k \in 1..3, \A j \in 1..(k - 1) : a[j] = b[j], a[k] < b[k] PROVE Before(a, b)
  <2>1. \A j \in 1..(k - 1) : j <= Len(a)
    BY <1>1
  <2>2. QED
    BY <1>1, <1>5, <2>1 DEF Before
<1>6. ASSUME Earlier(a, b) PROVE Before(a, b)
  <2>1. CASE a[1] < b[1]
    BY <1>3, <1>5, <2>1
  <2>2. CASE a[1] = b[1] /\ a[2] < b[2]
    BY <1>3, <1>5, <2>2
  <2>3. CASE a[1] = b[1] /\ a[2] = b[2] /\ a[3] < b[3]
    BY <1>3, <1>5, <2>3
  <2>4. QED
    BY <1>6, <2>1, <2>2, <2>3 DEF Earlier
<1>7. QED
  BY <1>4, <1>6

\* In both bases the numbers at each place have equally many digits.
AsLong(a, b) == \A i \in 1..3 : Len(Digits[a[i]]) = Len(Digits[b[i]])

LEMMA TextOrder ==
  ASSUME NEW a \in Bases, NEW b \in Bases, AsLong(a, b)
  PROVE  Before(Text(a), Text(b)) <=> Before(a, b)
<1> DEFINE dot == <<Dot>>
           s1 == Digits[a[1]] \o dot
           t1 == Digits[b[1]] \o dot
           s2 == s1 \o Digits[a[2]]
           t2 == t1 \o Digits[b[2]]
           s3 == s2 \o dot
           t3 == t2 \o dot
<1>1. a[1] \in Nat /\ a[2] \in Nat /\ a[3] \in Nat /\ b[1] \in Nat /\ b[2] \in Nat /\ b[3] \in Nat
  BY DEF Bases
<1>2. ASSUME NEW i \in 1..3
      PROVE  /\ Digits[a[i]] \in Words /\ Digits[b[i]] \in Words
             /\ Len(Digits[a[i]]) = Len(Digits[b[i]])
             /\ Same(Digits[a[i]], Digits[b[i]]) <=> a[i] = b[i]
             /\ Before(Digits[a[i]], Digits[b[i]]) <=> a[i] < b[i]
  <2>1. a[i] \in Nat /\ b[i] \in Nat /\ Len(Digits[a[i]]) = Len(Digits[b[i]])
    BY <1>1 DEF AsLong
  <2>2. QED
    BY <2>1, DigitsParts, DigitsOrder DEF Same
<1>3. dot \in Words /\ ~Before(dot, dot) /\ Same(dot, dot)
  BY OneLetter DEF Dot, Same
<1>4. Text(a) = s3 \o Digits[a[3]] /\ Text(b) = t3 \o Digits[b[3]]
  BY DEF Text
<1> HIDE DEF dot
<1>5. /\ s1 \in Words /\ t1 \in Words /\ Len(s1) = Len(t1)
      /\ Same(s1, t1) <=> Same(Digits[a[1]], Digits[b[1]])
      /\ Before(s1, t1) <=> Before(Digits[a[1]], Digits[b[1]])
  <2>1. 1 \in 1..3
    OBVIOUS
  <2>2. Digits[a[1]] \in Words /\ Digits[b[1]] \in Words /\ Len(Digits[a[1]]) = Len(Digits[b[1]])
    BY <1>2, <2>1
  <2>3. QED
    BY <1>3, <2>2, Joined
<1> HIDE DEF s1, t1
<1>6. /\ s2 \in Words /\ t2 \in Words /\ Len(s2) = Len(t2)
      /\ Same(s2, t2) <=> Same(s1, t1) /\ Same(Digits[a[2]], Digits[b[2]])
      /\ Before(s2, t2) <=> Before(s1, t1) \/ (Same(s1, t1) /\ Before(Digits[a[2]], Digits[b[2]]))
  <2>1. 2 \in 1..3
    OBVIOUS
  <2>2. Digits[a[2]] \in Words /\ Digits[b[2]] \in Words /\ Len(Digits[a[2]]) = Len(Digits[b[2]])
    BY <1>2, <2>1
  <2>3. QED
    BY <1>5, <2>2, Joined
<1> HIDE DEF s2, t2
<1>7. /\ s3 \in Words /\ t3 \in Words /\ Len(s3) = Len(t3)
      /\ Same(s3, t3) <=> Same(s2, t2)
      /\ Before(s3, t3) <=> Before(s2, t2)
  BY <1>3, <1>6, Joined
<1> HIDE DEF s3, t3
<1>8. Before(Text(a), Text(b)) <=>
        Before(s3, t3) \/ (Same(s3, t3) /\ Before(Digits[a[3]], Digits[b[3]]))
  <2>1. 3 \in 1..3
    OBVIOUS
  <2>2. Digits[a[3]] \in Words /\ Digits[b[3]] \in Words /\ Len(Digits[a[3]]) = Len(Digits[b[3]])
    BY <1>2, <2>1
  <2>3. QED
    BY <1>4, <1>7, <2>2, Joined
<1>9. \A i \in {1, 2, 3} : /\ Same(Digits[a[i]], Digits[b[i]]) <=> a[i] = b[i]
                           /\ Before(Digits[a[i]], Digits[b[i]]) <=> a[i] < b[i]
  BY <1>2
<1>10. Before(Text(a), Text(b)) <=> Earlier(a, b)
  BY <1>5, <1>6, <1>7, <1>8, <1>9 DEF Earlier
<1>11. QED
  BY <1>10, BaseOrder

LEMMA PairOrder ==
  ASSUME NEW a \in Int, NEW b \in Int, NEW c \in Int, NEW d \in Int
  PROVE  Before(<<a, b>>, <<c, d>>) <=> a < c \/ (a = c /\ b < d)
<1> DEFINE s == <<a, b>>
           t == <<c, d>>
<1>1. /\ Len(s) = 2 /\ Len(t) = 2 /\ s[1] = a /\ s[2] = b /\ t[1] = c /\ t[2] = d
  OBVIOUS
<1> HIDE DEF s, t
<1>2. \A k \in 1..2 : k = 1 \/ k = 2
  OBVIOUS
<1>3. 1..(1 - 1) = {} /\ 1..(2 - 1) = {1} /\ 1 \in 1..2 /\ 2 \in 1..2 /\ 1 <= 2 /\ ~(1 > 2) /\ ~(2 > 2)
  OBVIOUS
<1>4. ASSUME Before(s, t) PROVE a < c \/ (a = c /\ b < d)
  <2>1. PICK k \in 1..2 : /\ \A j \in 1..(k - 1) : j <= 2 /\ s[j] = t[j]
                          /\ k > 2 \/ s[k] < t[k]
    BY <1>1, <1>4 DEF Before
  <2>2. CASE k = 1
    BY <1>1, <1>3, <2>1, <2>2
  <2>3. CASE k = 2
    BY <1>1, <1>3, <2>1, <2>3
  <2>4. QED
    BY <1>2, <2>2, <2>3
<1>5. ASSUME NEW k \in 1..2, \A j \in 1..(k - 1) : j <= 2 /\ s[j] = t[j], s[k] < t[k]
      PROVE  Before(s, t)
  BY <1>1, <1>5 DEF Before
<1>6. ASSUME a < c PROVE Before(s, t)
  BY <1>1, <1>3, <1>5, <1>6
<1>7. ASSUME a = c, b < d PROVE Before(s, t)
  BY <1>1, <1>3, <1>5, <1>7
<1>8. QED
  BY <1>4, <1>6, <1>7 DEF s, t

-----------------------------------------------------------------------------

\* The versions on which the comparison of the program is the semantic one.
ComparesWell == \A v, w \in Versions : Compare(v, w) < 0 <=> Precedes(v, w)

LEMMA CompareResult == \A v, w : Compare(v, w) \in {-1, 0, 1}
BY DEF Compare, CompareSuffixes, Sign

\* What the comparison has said is still true when its result is used.
Compared ==
  /\ result = "current" => ~(Compare(before.version, release) < 0)
  /\ pc \in {"download", "verify"} \cup Replacing /\ ~force /\ before.stamped =>
       Compare(before.version, release) < 0

LEMMA ComparedStep == Progress /\ Compared /\ [Next]_vars => Compared'
<1> SUFFICES ASSUME Progress, Compared, [Next]_vars PROVE Compared'
  OBVIOUS
<1> USE DEF Compared, Replacing, Works, End, fileVars, runVars
<1>1. CASE UpToDate
  <2>1. ~(Compare(before.version, release) < 0)
    <3>1. Compare(before.version, release) >= 0
      BY <1>1 DEF UpToDate
    <3>2. QED
      BY <3>1, CompareResult
  <2>2. QED
    BY <1>1, <2>1 DEF UpToDate
<1>2. CASE Outdated
  BY <1>2 DEF Outdated
<1>3. CASE Publish \/ Start \/ Fetch \/ Kill \/ UNCHANGED vars
  BY <1>3 DEF Publish, Start, Fetch, Kill, vars, Progress
<1>4. CASE Download \/ Verify \/ Reject \/ Fails
  BY <1>4 DEF Download, Verify, Reject, Fails
<1>5. CASE OpenBackup \/ Backup \/ BackupFails \/ BackupSpoilt \/ Remove \/ RemoveFails \/ Create \/ Copy
  BY <1>5 DEF OpenBackup, Backup, BackupFails, BackupSpoilt, Remove, RemoveFails, Create, Copy
<1>6. CASE InstallFails \/ Restore \/ RestoreFails \/ Chmod \/ ChmodFails \/ Cleanup \/ Check
  BY <1>6 DEF InstallFails, Restore, RestoreFails, Chmod, ChmodFails, Cleanup, Check
<1>7. QED
  BY <1>1, <1>2, <1>3, <1>4, <1>5, <1>6 DEF Next

\* As far as Compare agrees with the order of semantic versions, only a newer
\* program ever replaces one that knows its version, and "already on the latest
\* version" is true: the command acts on the comparison and on nothing else.
THEOREM OnlyNewerReplaces == ComparesWell => (Spec => []NewerOnly)
<1> SUFFICES ASSUME ComparesWell PROVE Spec => []NewerOnly
  OBVIOUS
<1>1. Init => Compared
  BY DEF Init, Compared, Replacing
<1>2. TypeOK /\ Compared => NewerOnly
  BY DEF ComparesWell, TypeOK, Compared, NewerOnly, Binary
<1>3. IInv => TypeOK /\ Progress
  BY DEF IInv
<1>4. QED
  BY <1>1, <1>2, <1>3, ComparedStep, Invariance, PTL DEF Spec

\* Versions as the tags of the Makefile have them, whatever their numbers.
Tags == [base : Bases, suffix : [name : Nat, number : Nat]]

LEMMA SuffixOrder ==
  ASSUME NEW v \in Tags, NEW w \in Tags, v.base = w.base
  PROVE  Compare(v, w) < 0 <=> Precedes(v, w)
<1> DEFINE a == v.suffix.name
           b == v.suffix.number
           c == w.suffix.name
           d == w.suffix.number
<1>1. /\ v = [base |-> v.base, suffix |-> v.suffix] /\ w = [base |-> w.base, suffix |-> w.suffix]
      /\ v.suffix = [name |-> a, number |-> b] /\ w.suffix = [name |-> c, number |-> d]
      /\ a \in Int /\ b \in Int /\ c \in Int /\ d \in Int /\ v.base \in Bases
  BY DEF Tags
<1>2. ~Before(v.base, w.base)
  BY <1>1, BaseOrder DEF Earlier, Bases
<1>3. v = w <=> v.suffix = w.suffix
  BY <1>1
<1>4. v.suffix = w.suffix <=> a = c /\ b = d
  BY <1>1
<1>5. Before(<<a, b>>, <<c, d>>) <=> a < c \/ (a = c /\ b < d)
  BY <1>1, PairOrder
<1>6. CASE v = w
  <2>1. Compare(v, w) = 0
    BY <1>6 DEF Compare
  <2>2. QED
    BY <1>2, <1>3, <1>6, <2>1 DEF Precedes
<1>7. CASE v # w /\ v.suffix = NoSuffix
  <2>1. w.suffix # NoSuffix
    BY <1>3, <1>7
  <2>2. Compare(v, w) = 1
    BY <1>7, <2>1 DEF Compare
  <2>3. QED
    BY <1>2, <1>7, <2>1, <2>2 DEF Precedes
<1>8. CASE v # w /\ v.suffix # NoSuffix /\ w.suffix = NoSuffix
  <2>1. Compare(v, w) = -1
    BY <1>8 DEF Compare
  <2>2. QED
    BY <1>3, <1>8, <2>1 DEF Precedes
<1>9. CASE v # w /\ v.suffix # NoSuffix /\ w.suffix # NoSuffix
  <2>1. Compare(v, w) = CompareSuffixes(v.suffix, w.suffix)
    BY <1>9 DEF Compare
  <2>2. Precedes(v, w) <=> Before(<<a, b>>, <<c, d>>)
    BY <1>2, <1>3, <1>9 DEF Precedes
  <2>3. CompareSuffixes(v.suffix, w.suffix) < 0 <=> a < c \/ (a = c /\ b < d)
    <3>1. CompareSuffixes(v.suffix, w.suffix) =
            IF a # c THEN Sign(a < c, c < a) ELSE Sign(b < d, d < b)
      BY DEF CompareSuffixes
    <3> HIDE DEF a, b, c, d
    <3>2. QED
      BY <1>1, <3>1 DEF Sign
  <2>4. QED
    BY <1>5, <2>1, <2>2, <2>3
<1>10. QED
  BY <1>6, <1>7, <1>8, <1>9

LEMMA ComparesAsLong ==
  ASSUME Versions \subseteq Tags, \A v, w \in Versions : AsLong(v.base, w.base)
  PROVE  ComparesWell
<1> SUFFICES ASSUME NEW v \in Versions, NEW w \in Versions
             PROVE  Compare(v, w) < 0 <=> Precedes(v, w)
  BY DEF ComparesWell
<1>1. v \in Tags /\ w \in Tags /\ v.base \in Bases /\ w.base \in Bases /\ AsLong(v.base, w.base)
  BY DEF Tags
<1>2. CASE v.base = w.base
  BY <1>1, <1>2, SuffixOrder
<1>3. CASE v.base # w.base
  <2>1. Compare(v, w) = Sign(Before(Text(v.base), Text(w.base)), TRUE)
    BY <1>3 DEF Compare
  <2>2. Compare(v, w) < 0 <=> Before(Text(v.base), Text(w.base))
    BY <2>1 DEF Sign
  <2>3. Before(Text(v.base), Text(w.base)) <=> Before(v.base, w.base)
    BY <1>1, TextOrder
  <2>4. QED
    BY <1>3, <2>2, <2>3 DEF Precedes
<1>4. QED
  BY <1>2, <1>3

\* Of releases whose majors have equally many digits, and so their minors and
\* their patches, only a newer one ever replaces a program that knows its
\* version, and "already on the latest version" is true (version.go:14).
THEOREM OnlyNewerAsLong ==
  ASSUME Versions \subseteq Tags, \A v, w \in Versions : AsLong(v.base, w.base)
  PROVE  Spec => []NewerOnly
BY ComparesAsLong, OnlyNewerReplaces

-----------------------------------------------------------------------------
(* Compare is a strict order of all versions, also where it is not the one *)
(* of semantic versions.                                                   *)

LEMMA BeforeTransitive ==
  ASSUME NEW s \in Words, NEW t \in Words, NEW u \in Words, Before(s, t), Before(t, u)
  PROVE  Before(s, u)
<1>1. PICK k : Splits(s, t, k)
  BY BeforeSplits
<1>2. PICK l : Splits(t, u, l)
  BY BeforeSplits
<1>3. /\ Len(s) \in Nat /\ Len(t) \in Nat /\ Len(u) \in Nat
      /\ k \in 1..Len(t) /\ l \in 1..Len(u)
  BY <1>1, <1>2, WordsAre DEF Splits
<1>4. CASE k < l
  <2>1. k \in 1..Len(u) /\ k \in 1..(l - 1) /\ \A j \in 1..(k - 1) : j \in 1..(l - 1)
    BY <1>3, <1>4
  <2>2. Splits(s, u, k)
    BY <1>1, <1>2, <2>1 DEF Splits
  <2>3. QED
    BY <2>2, BeforeSplits
<1>5. CASE l < k
  <2>1. l \in 1..(k - 1) /\ l \in 1..Len(t) /\ ~(l > Len(t)) /\ \A j \in 1..(l - 1) : j \in 1..(k - 1)
    BY <1>3, <1>5
  <2>2. l <= Len(s) /\ s[l] = t[l] /\ t[l] < u[l]
    BY <1>1, <1>2, <2>1 DEF Splits
  <2>3. Splits(s, u, l)
    BY <1>1, <1>2, <2>1, <2>2 DEF Splits
  <2>4. QED
    BY <2>3, BeforeSplits
<1>6. CASE k = l
  <2>1. ~(k > Len(t))
    BY <1>3
  <2>2. t[k] < u[k] /\ \A j \in 1..(k - 1) : j <= Len(s) /\ s[j] = u[j]
    BY <1>1, <1>2, <1>6, <2>1 DEF Splits
  <2>3. k <= Len(s) => s[k] < u[k]
    <3>1. ASSUME k <= Len(s) PROVE s[k] < t[k] /\ s[k] \in Int /\ t[k] \in Int /\ u[k] \in Int
      <4>1. k \in 1..Len(s) /\ ~(k > Len(s)) /\ k \in 1..Len(t) /\ k \in 1..Len(u)
        BY <1>3, <1>6, <3>1
      <4>2. QED
        BY <1>1, <4>1, WordsAre DEF Splits
    <3>2. QED
      BY <2>2, <3>1
  <2>4. k > Len(s) \/ s[k] < u[k]
    BY <1>3, <2>3
  <2>5. Splits(s, u, k)
    BY <1>3, <1>6, <2>2, <2>4 DEF Splits
  <2>6. QED
    BY <2>5, BeforeSplits
<1>7. QED
  BY <1>3, <1>4, <1>5, <1>6

LEMMA BeforeTotal ==
  ASSUME NEW s \in Words, NEW t \in Words, s # t
  PROVE  Before(s, t) \/ Before(t, s)
<1>1. /\ Len(s) \in Nat /\ Len(t) \in Nat
      /\ \A k \in 1..Len(s) : s[k] \in Int
      /\ \A k \in 1..Len(t) : t[k] \in Int
  BY WordsAre
<1> DEFINE Differ(k) == k > Len(s) \/ k > Len(t) \/ s[k] # t[k]
           T == {k \in Nat \ {0} : Differ(k)}
<1>2. Len(s) + 1 \in T
  BY <1>1
<1>3. PICK k \in T : \A i \in T : k <= i
  <2>1. T \subseteq Nat /\ T # {}
    BY <1>2
  <2> HIDE DEF T
  <2>2. QED
    BY <2>1, Least
<1>4. k \in Nat \ {0} /\ Differ(k)
  OBVIOUS
<1>5. ASSUME NEW j \in 1..(k - 1) PROVE j <= Len(s) /\ j <= Len(t) /\ s[j] = t[j]
  <2>1. j \in Nat \ {0} /\ ~(k <= j)
    BY <1>4
  <2>2. ~Differ(j)
    BY <1>3, <2>1
  <2>3. QED
    BY <1>1, <2>1, <2>2
<1> HIDE DEF T
<1>6. CASE k > Len(s) /\ k > Len(t)
  <2>1. Len(s) = Len(t)
    <3>1. CASE Len(s) < Len(t)
      <4>1. Len(t) \in 1..(k - 1)
        BY <1>1, <1>4, <1>6, <3>1
      <4>2. QED
        BY <1>1, <1>5, <3>1, <4>1
    <3>2. CASE Len(t) < Len(s)
      <4>1. Len(s) \in 1..(k - 1)
        BY <1>1, <1>4, <1>6, <3>2
      <4>2. QED
        BY <1>1, <1>5, <3>2, <4>1
    <3>3. QED
      BY <1>1, <3>1, <3>2
  <2>2. \A j \in 1..Len(s) : s[j] = t[j]
    <3>1. \A j \in 1..Len(s) : j \in 1..(k - 1)
      BY <1>1, <1>4, <1>6
    <3>2. QED
      BY <1>5, <3>1
  <2>3. s = t
    BY <2>1, <2>2, SeqEqual DEF Words
  <2>4. QED
    BY <2>3
<1>7. CASE k > Len(s) /\ k <= Len(t)
  <2>1. Splits(s, t, k)
    BY <1>1, <1>4, <1>5, <1>7 DEF Splits
  <2>2. QED
    BY <2>1, BeforeSplits
<1>8. CASE k <= Len(s) /\ k > Len(t)
  <2>1. Splits(t, s, k)
    BY <1>1, <1>4, <1>5, <1>8 DEF Splits
  <2>2. QED
    BY <2>1, BeforeSplits
<1>9. CASE k <= Len(s) /\ k <= Len(t)
  <2>1. k \in 1..Len(s) /\ k \in 1..Len(t) /\ s[k] # t[k]
    BY <1>1, <1>4, <1>9
  <2>2. s[k] < t[k] \/ t[k] < s[k]
    BY <1>1, <2>1
  <2>3. Splits(s, t, k) \/ Splits(t, s, k)
    BY <1>5, <2>1, <2>2 DEF Splits
  <2>4. QED
    BY <2>3, BeforeSplits
<1>10. QED
  BY <1>1, <1>4, <1>6, <1>7, <1>8, <1>9

NoDot(s) == \A i \in 1..Len(s) : s[i] # Dot

\* The word s, a dot and the word u.
Dotted(s, u) == (s \o <<Dot>>) \o u

\* Words of digits end where the first dot is.
LEMMA SplitAtDot ==
  ASSUME NEW s \in Words, NEW t \in Words, NEW u \in Words, NEW v \in Words,
         NoDot(s), NoDot(t), Same(Dotted(s, u), Dotted(t, v))
  PROVE  Same(s, t) /\ Same(u, v)
<1> DEFINE dot == <<Dot>>
           x == (s \o dot) \o u
           y == (t \o dot) \o v
<1>1. dot \in Words /\ Len(dot) = 1 /\ dot[1] = Dot
  BY OneLetter DEF Dot
<1>2. /\ Len(s) \in Nat /\ Len(t) \in Nat
      /\ s \o dot \in Words /\ t \o dot \in Words
      /\ Len(s \o dot) = Len(s) + 1 /\ Len(t \o dot) = Len(t) + 1
  BY <1>1, WordsAre, ConcatProperties DEF Words
<1>3. ASSUME NEW p \in Words, NEW q \in Words
      PROVE  /\ \A i \in 1..Len(p) : ((p \o dot) \o q)[i] = p[i]
             /\ ((p \o dot) \o q)[Len(p) + 1] = Dot
  <2>1. Len(p) \in Nat /\ Len(q) \in Nat
    BY WordsAre
  <2>2. p \o dot \in Words /\ Len(p \o dot) = Len(p) + 1
    BY <1>1, ConcatProperties DEF Words
  <2>3. ASSUME NEW i \in 1..(Len(p) + 1) PROVE ((p \o dot) \o q)[i] = (p \o dot)[i]
    <3>1. i \in 1..(Len(p \o dot) + Len(q)) /\ i <= Len(p \o dot)
      BY <2>1, <2>2
    <3>2. QED
      BY <2>2, <3>1, ConcatProperties DEF Words
  <2>4. ASSUME NEW i \in 1..(Len(p) + 1)
        PROVE  (p \o dot)[i] = IF i <= Len(p) THEN p[i] ELSE dot[i - Len(p)]
    <3>1. i \in 1..(Len(p) + Len(dot))
      BY <1>1, <2>1
    <3>2. QED
      BY <1>1, <3>1, ConcatProperties DEF Words
  <2>5. ASSUME NEW i \in 1..Len(p) PROVE ((p \o dot) \o q)[i] = p[i]
    <3>1. i \in 1..(Len(p) + 1) /\ i <= Len(p)
      BY <2>1
    <3>2. QED
      BY <2>3, <2>4, <3>1
  <2>6. ((p \o dot) \o q)[Len(p) + 1] = Dot
    <3>1. Len(p) + 1 \in 1..(Len(p) + 1) /\ ~(Len(p) + 1 <= Len(p)) /\ (Len(p) + 1) - Len(p) = 1
      BY <2>1
    <3>2. QED
      BY <1>1, <2>3, <2>4, <3>1
  <2>7. QED
    BY <2>5, <2>6
<1>4. /\ \A i \in 1..Len(s) : x[i] = s[i]
      /\ x[Len(s) + 1] = Dot
      /\ \A i \in 1..Len(t) : y[i] = t[i]
      /\ y[Len(t) + 1] = Dot
  BY <1>3
<1>5. x = y
  BY DEF Same, Dotted
<1> HIDE DEF x, y
<1>6. Len(s) = Len(t)
  <2>1. CASE Len(s) < Len(t)
    <3>1. Len(s) + 1 \in 1..Len(t)
      BY <1>2, <2>1
    <3>2. QED
      BY <1>4, <1>5, <3>1 DEF NoDot
  <2>2. CASE Len(t) < Len(s)
    <3>1. Len(t) + 1 \in 1..Len(s)
      BY <1>2, <2>2
    <3>2. QED
      BY <1>4, <1>5, <3>1 DEF NoDot
  <2>3. QED
    BY <1>2, <2>1, <2>2
<1> HIDE DEF dot
<1>7. Len(s \o dot) = Len(t \o dot)
  BY <1>2, <1>6
<1>8. Same((s \o dot) \o u, (t \o dot) \o v)
  BY <1>5 DEF x, y, Same
<1>9. Same(s \o dot, t \o dot) /\ Same(u, v)
  BY <1>2, <1>7, <1>8, ConcatBefore
<1>10. Same(s, t)
  BY <1>1, <1>6, <1>9, ConcatBefore
<1>11. QED
  BY <1>9, <1>10

LEMMA DigitsDiffer ==
  ASSUME NEW m \in Nat, NEW n \in Nat, Digits[m] = Digits[n]
  PROVE  m = n
BY DigitsOrder

LEMMA Regrouped ==
  ASSUME NEW s \in Words, NEW t \in Words, NEW u \in Words
  PROVE  Same((s \o t) \o u, s \o (t \o u))
<1>1. s \in Seq(Int) /\ t \in Seq(Int) /\ u \in Seq(Int)
  BY DEF Words
<1>2. (s \o t) \o u = s \o (t \o u)
  BY <1>1, ConcatAssociative
<1>3. QED
  BY <1>2 DEF Same

LEMMA Grouped ==
  ASSUME NEW s \in Words, NEW t \in Words, NEW u \in Words
  PROVE  /\ (((s \o <<Dot>>) \o t) \o <<Dot>>) \o u = Dotted(s, Dotted(t, u))
         /\ Dotted(t, u) \in Words
<1>1. \A x, y \in Words : x \o y \in Words
  BY ConcatProperties DEF Words
<1>2. \A x, y, z \in Words : Same((x \o y) \o z, x \o (y \o z))
  BY Regrouped
<1> DEFINE dot == <<Dot>>
           p == s \o dot
           q == t \o dot
<1>3. dot \in Words
  BY OneLetter DEF Dot
<1> HIDE DEF dot
<1>4. p \in Words /\ q \in Words
  BY <1>1, <1>3
<1>5. Same((p \o t) \o dot, p \o q)
  BY <1>2, <1>3, <1>4
<1> HIDE DEF p, q
<1>6. Same((p \o q) \o u, p \o (q \o u)) /\ q \o u \in Words
  BY <1>1, <1>2, <1>4
<1>7. ((p \o t) \o dot) \o u = p \o (q \o u)
  BY <1>5, <1>6 DEF Same
<1>8. QED
  BY <1>6, <1>7 DEF Dotted, p, q, dot

\* Bases are the same when their texts are.
LEMMA TextIsFaithful ==
  ASSUME NEW a \in Bases, NEW b \in Bases, Text(a) = Text(b)
  PROVE  a = b
<1>1. ASSUME NEW c \in Bases
      PROVE  /\ Text(c) = Dotted(Digits[c[1]], Dotted(Digits[c[2]], Digits[c[3]]))
             /\ Dotted(Digits[c[2]], Digits[c[3]]) \in Words
             /\ \A i \in {1, 2, 3} : c[i] \in Nat /\ Digits[c[i]] \in Words /\ NoDot(Digits[c[i]])
  <2>1. \A i \in {1, 2, 3} : c[i] \in Nat
    BY DEF Bases
  <2>2. ASSUME NEW i \in {1, 2, 3} PROVE Digits[c[i]] \in Words /\ NoDot(Digits[c[i]])
    <3>1. Digits[c[i]] \in Words /\ Digits[c[i]] \in Seq(Figures)
      BY <2>1, DigitsAre, DigitsParts
    <3>2. \A j \in 1..Len(Digits[c[i]]) : Digits[c[i]][j] \in Figures
      BY <3>1, ElementOfSeq
    <3>3. QED
      BY <3>1, <3>2 DEF Figures, Dot, NoDot
  <2> DEFINE d1 == Digits[c[1]]
             d2 == Digits[c[2]]
             d3 == Digits[c[3]]
  <2>3. d1 \in Words /\ d2 \in Words /\ d3 \in Words
    BY <2>2
  <2>4. Text(c) = (((d1 \o <<Dot>>) \o d2) \o <<Dot>>) \o d3
    BY DEF Text
  <2> HIDE DEF d1, d2, d3
  <2>5. Text(c) = Dotted(d1, Dotted(d2, d3)) /\ Dotted(d2, d3) \in Words
    BY <2>3, <2>4, Grouped
  <2>6. QED
    BY <2>1, <2>2, <2>5 DEF d1, d2, d3
<1>2. /\ Digits[a[1]] \in Words /\ Digits[a[2]] \in Words /\ Digits[a[3]] \in Words
      /\ Digits[b[1]] \in Words /\ Digits[b[2]] \in Words /\ Digits[b[3]] \in Words
      /\ NoDot(Digits[a[1]]) /\ NoDot(Digits[b[1]]) /\ NoDot(Digits[a[2]]) /\ NoDot(Digits[b[2]])
      /\ Dotted(Digits[a[2]], Digits[a[3]]) \in Words /\ Dotted(Digits[b[2]], Digits[b[3]]) \in Words
  BY <1>1
<1>3. Same(Dotted(Digits[a[1]], Dotted(Digits[a[2]], Digits[a[3]])),
           Dotted(Digits[b[1]], Dotted(Digits[b[2]], Digits[b[3]])))
  BY <1>1 DEF Same
<1>4. /\ Same(Digits[a[1]], Digits[b[1]])
      /\ Same(Dotted(Digits[a[2]], Digits[a[3]]), Dotted(Digits[b[2]], Digits[b[3]]))
  BY <1>2, <1>3, SplitAtDot
<1>5. Same(Digits[a[2]], Digits[b[2]]) /\ Same(Digits[a[3]], Digits[b[3]])
  BY <1>2, <1>4, SplitAtDot
<1>6. a[1] = b[1] /\ a[2] = b[2] /\ a[3] = b[3]
  <2>1. \A i \in {1, 2, 3} : a[i] \in Nat /\ b[i] \in Nat
    BY <1>1
  <2>2. QED
    BY <1>4, <1>5, <2>1, DigitsDiffer DEF Same
<1>7. a = <<a[1], a[2], a[3]>> /\ b = <<b[1], b[2], b[3]>>
  BY DEF Bases
<1>8. QED
  BY <1>6, <1>7

\* The order of suffixes, and that of versions whose bases compare as text.
SuffixBehind(s, t) ==
  /\ s # t
  /\ t = NoSuffix \/ (s # NoSuffix /\ (s.name < t.name \/ (s.name = t.name /\ s.number < t.number)))

Behind(v, w) ==
  \/ Before(Text(v.base), Text(w.base))
  \/ v.base = w.base /\ SuffixBehind(v.suffix, w.suffix)

Suffixes == [name : Nat, number : Nat]

LEMMA SuffixesAreOrdered ==
  ASSUME NEW s \in Suffixes, NEW t \in Suffixes, NEW u \in Suffixes
  PROVE  /\ ~SuffixBehind(s, s)
         /\ SuffixBehind(s, t) => ~SuffixBehind(t, s)
         /\ s # t => SuffixBehind(s, t) \/ SuffixBehind(t, s)
         /\ SuffixBehind(s, t) /\ SuffixBehind(t, u) => SuffixBehind(s, u)
<1>1. ASSUME NEW x \in Suffixes, NEW y \in Suffixes
      PROVE  /\ x.name \in Int /\ x.number \in Int
             /\ x # y <=> x.name # y.name \/ x.number # y.number
             /\ x = NoSuffix <=> x.name = 0 /\ x.number = 0
  BY DEF Suffixes, NoSuffix
<1>2. ~SuffixBehind(s, s)
  BY DEF SuffixBehind
<1>3. SuffixBehind(s, t) => ~SuffixBehind(t, s)
  BY <1>1 DEF SuffixBehind
<1>4. s # t => SuffixBehind(s, t) \/ SuffixBehind(t, s)
  BY <1>1 DEF SuffixBehind
<1>5. SuffixBehind(s, t) /\ SuffixBehind(t, u) => SuffixBehind(s, u)
  BY <1>1 DEF SuffixBehind
<1>6. QED
  BY <1>2, <1>3, <1>4, <1>5

LEMMA TextIsAWord == \A a \in Bases : Text(a) \in Words
<1> SUFFICES ASSUME NEW a \in Bases PROVE Text(a) \in Words
  OBVIOUS
<1>1. a[1] \in Nat /\ a[2] \in Nat /\ a[3] \in Nat
  BY DEF Bases
<1> DEFINE d1 == Digits[a[1]]
           d2 == Digits[a[2]]
           d3 == Digits[a[3]]
<1>2. d1 \in Words /\ d2 \in Words /\ d3 \in Words /\ <<Dot>> \in Words
  <2>1. d1 \in Words /\ d2 \in Words /\ d3 \in Words
    BY <1>1, DigitsParts
  <2>2. <<Dot>> \in Words
    BY OneLetter DEF Dot
  <2>3. QED
    BY <2>1, <2>2
<1>3. \A x, y \in Words : x \o y \in Words
  BY ConcatProperties DEF Words
<1>4. Text(a) = (((d1 \o <<Dot>>) \o d2) \o <<Dot>>) \o d3
  BY DEF Text
<1> HIDE DEF d1, d2, d3
<1>5. (((d1 \o <<Dot>>) \o d2) \o <<Dot>>) \o d3 \in Words
  BY <1>2, <1>3
<1>6. QED
  BY <1>4, <1>5

LEMMA BehindIsStrict ==
  ASSUME NEW v \in Tags, NEW w \in Tags
  PROVE  /\ ~Behind(v, v)
         /\ Behind(v, w) => ~Behind(w, v)
         /\ v # w => Behind(v, w) \/ Behind(w, v)
<1>1. /\ v.base \in Bases /\ w.base \in Bases /\ v.suffix \in Suffixes /\ w.suffix \in Suffixes
      /\ v # w => v.base # w.base \/ v.suffix # w.suffix
  BY DEF Tags, Suffixes
<1>2. Text(v.base) \in Words /\ Text(w.base) \in Words
  BY <1>1, TextIsAWord
<1>3. ~Behind(v, v)
  BY <1>1, <1>2, BeforeIsStrict, SuffixesAreOrdered DEF Behind
<1>4. ASSUME Behind(v, w), Behind(w, v) PROVE FALSE
  BY <1>1, <1>2, <1>4, BeforeIsStrict, SuffixesAreOrdered DEF Behind
<1>5. ASSUME v # w PROVE Behind(v, w) \/ Behind(w, v)
  <2>1. CASE v.base # w.base
    <3>1. Text(v.base) # Text(w.base)
      BY <1>1, <2>1, TextIsFaithful
    <3>2. QED
      BY <1>2, <3>1, BeforeTotal DEF Behind
  <2>2. CASE v.base = w.base
    BY <1>1, <1>5, <2>2, SuffixesAreOrdered DEF Behind
  <2>3. QED
    BY <2>1, <2>2
<1>6. QED
  BY <1>3, <1>4, <1>5

LEMMA BehindIsTransitive ==
  ASSUME NEW v \in Tags, NEW w \in Tags, NEW x \in Tags, Behind(v, w), Behind(w, x)
  PROVE  Behind(v, x)
<1>1. /\ v.base \in Bases /\ w.base \in Bases /\ x.base \in Bases
      /\ v.suffix \in Suffixes /\ w.suffix \in Suffixes /\ x.suffix \in Suffixes
  BY DEF Tags, Suffixes
<1>2. Text(v.base) \in Words /\ Text(w.base) \in Words /\ Text(x.base) \in Words
  BY <1>1, TextIsAWord
<1>3. CASE Before(Text(v.base), Text(w.base)) /\ Before(Text(w.base), Text(x.base))
  BY <1>2, <1>3, BeforeTransitive DEF Behind
<1>4. CASE v.base = w.base /\ SuffixBehind(v.suffix, w.suffix)
           /\ w.base = x.base /\ SuffixBehind(w.suffix, x.suffix)
  BY <1>1, <1>4, SuffixesAreOrdered DEF Behind
<1>5. CASE Before(Text(v.base), Text(w.base)) /\ w.base = x.base
  BY <1>5 DEF Behind
<1>6. CASE v.base = w.base /\ Before(Text(w.base), Text(x.base))
  BY <1>6 DEF Behind
<1>7. QED
  BY <1>3, <1>4, <1>5, <1>6 DEF Behind

LEMMA CompareIs ==
  ASSUME NEW v \in Tags, NEW w \in Tags
  PROVE  Compare(v, w) = IF v = w THEN 0 ELSE IF Behind(v, w) THEN -1 ELSE 1
<1>1. /\ v.base \in Bases /\ v.suffix \in Suffixes /\ w.suffix \in Suffixes
      /\ v = w <=> v.base = w.base /\ v.suffix = w.suffix
  BY DEF Tags, Suffixes
<1>2. ~Before(Text(v.base), Text(v.base))
  BY <1>1, TextIsAWord, BeforeIsStrict
<1>3. CASE v = w
  BY <1>3 DEF Compare
<1>4. CASE v.base # w.base
  <2>1. Compare(v, w) = Sign(Before(Text(v.base), Text(w.base)), TRUE) /\ v # w
    BY <1>4 DEF Compare
  <2>2. QED
    BY <1>4, <2>1 DEF Sign, Behind
<1>5. CASE v.base = w.base /\ v # w
  <2>1. v.suffix # w.suffix /\ (Behind(v, w) <=> SuffixBehind(v.suffix, w.suffix))
    BY <1>1, <1>2, <1>5 DEF Behind
  <2>2. CASE v.suffix = NoSuffix
    <3>1. Compare(v, w) = 1
      BY <1>5, <2>1, <2>2 DEF Compare
    <3>2. QED
      BY <1>5, <2>1, <2>2, <3>1 DEF SuffixBehind
  <2>3. CASE w.suffix = NoSuffix
    <3>1. Compare(v, w) = -1
      BY <1>5, <2>1, <2>3 DEF Compare
    <3>2. QED
      BY <1>5, <2>1, <2>3, <3>1 DEF SuffixBehind
  <2>4. CASE v.suffix # NoSuffix /\ w.suffix # NoSuffix
    <3>1. Compare(v, w) = CompareSuffixes(v.suffix, w.suffix)
      BY <1>5, <2>4 DEF Compare
    <3>2. /\ v.suffix.name \in Int /\ v.suffix.number \in Int
          /\ w.suffix.name \in Int /\ w.suffix.number \in Int
          /\ v.suffix.name # w.suffix.name \/ v.suffix.number # w.suffix.number
      BY <1>1, <2>1 DEF Suffixes
    <3>3. CompareSuffixes(v.suffix, w.suffix) =
            IF SuffixBehind(v.suffix, w.suffix) THEN -1 ELSE 1
      BY <2>1, <2>4, <3>2 DEF CompareSuffixes, Sign, SuffixBehind
    <3>4. QED
      BY <1>5, <2>1, <3>1, <3>3
  <2>5. QED
    BY <2>2, <2>3, <2>4
<1>6. QED
  BY <1>3, <1>4, <1>5

\* Whatever the numbers of the versions, Compare is a strict order: only a
\* version equals itself, exchanging two of them changes the sign, and no update
\* that follows it comes back to where it began (version.go:14).
THEOREM CompareIsAnOrder ==
  ASSUME NEW v \in Tags, NEW w \in Tags, NEW x \in Tags
  PROVE  /\ Compare(v, w) = 0 <=> v = w
         /\ Compare(w, v) = -Compare(v, w)
         /\ Compare(v, w) < 0 /\ Compare(w, x) < 0 => Compare(v, x) < 0
<1>1. Compare(v, w) = 0 <=> v = w
  BY CompareIs
<1>2. Compare(w, v) = -Compare(v, w)
  BY CompareIs, BehindIsStrict
<1>3. ASSUME Compare(v, w) < 0, Compare(w, x) < 0 PROVE Compare(v, x) < 0
  <2>1. Behind(v, w) /\ Behind(w, x)
    BY <1>3, CompareIs
  <2>2. Behind(v, x) /\ v # x
    BY <2>1, BehindIsTransitive, BehindIsStrict
  <2>3. QED
    BY <2>2, CompareIs
<1>4. QED
  BY <1>1, <1>2, <1>3
=============================================================================
