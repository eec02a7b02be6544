-------------------------------- MODULE Update --------------------------------
(***************************************************************************)
(* `mump2p update`, cmd/update.go: it fetches the latest release, compares *)
(* versions, downloads and tries the new binary, and puts it in the place  *)
(* of the one that is running.                                             *)
(*                                                                         *)
(* Every step may fail, and the process may be killed between two of them. *)
(* The program is whatever is at the target path: what a run leaves there  *)
(* is what the next run starts with, if it starts at all.                  *)
(***************************************************************************)
EXTENDS Version

CONSTANTS
  Versions,   \* the versions that may be released
  MaxFaults,  \* bound: steps that fail in a run of the command
  MaxRuns     \* bound: runs of the command

ASSUME BoundAssumption == MaxFaults \in Nat /\ MaxRuns \in Nat

VARIABLES
  latest,   \* the latest release on GitHub
  target,   \* the file at the path of the program
  backup,   \* the file at the path of the program with .backup
  temp,     \* the temporary file with the download
  pc,       \* where the process is, "idle" when there is none
  force,    \* --force
  release,  \* the release it has fetched
  before,   \* what was at the target path when it started
  result,   \* how the last run ended
  faults,   \* steps that failed in this run
  runs      \* runs so far

fileVars == <<target, backup, temp>>
runVars == <<force, before, runs>>
vars == <<latest, fileVars, pc, release, result, faults, runVars>>

\* A file with a program: its version, whether that was given to the build,
\* whether all of the file is there, and whether it may be executed.
Binary == [version : Versions, stamped : BOOLEAN, whole : BOOLEAN, exec : BOOLEAN]
NoFile == [whole |-> FALSE, exec |-> FALSE]

Runs(f) == f.whole /\ f.exec

Init ==
  /\ latest \in Versions
  /\ target \in Binary /\ Runs(target)
  /\ backup = NoFile /\ temp = NoFile
  /\ pc = "idle" /\ force = FALSE /\ release = latest /\ before = target
  /\ result = "none" /\ faults = 0 /\ runs = 0

\* A step of the run that works.
Works(label) == pc' = label /\ UNCHANGED <<latest, result, faults, runVars>>

\* n of the calls of a step fail.
Fault(n) == faults + n <= MaxFaults /\ faults' = faults + n

\* The run ends; the temporary file is removed by a deferred call.
End(r) ==
  /\ pc' = "idle" /\ result' = r
  /\ temp' = NoFile
  /\ UNCHANGED <<latest, release, runVars>>

-----------------------------------------------------------------------------
(* Is there something to do?                                               *)

\* Somebody publishes a release.
Publish ==
  /\ pc = "idle"
  /\ latest' \in Versions /\ latest' # latest
  /\ UNCHANGED <<fileVars, pc, release, result, faults, runVars>>

\* The command can be started only while there is a program that runs.
Start ==
  /\ pc = "idle" /\ runs < MaxRuns /\ Runs(target)
  /\ runs' = runs + 1
  /\ force' \in BOOLEAN
  /\ before' = target
  /\ pc' = "fetch" /\ result' = "none" /\ faults' = 0
  /\ UNCHANGED <<latest, fileVars, release>>

Fetch ==
  /\ pc = "fetch"
  /\ release' = latest
  /\ Works("compare")
  /\ UNCHANGED fileVars

\* A program whose build was not given a version is never up to date.
UpToDate ==
  /\ pc = "compare" /\ ~force /\ before.stamped
  /\ Compare(before.version, release) >= 0
  /\ End("current")
  /\ UNCHANGED <<target, backup, faults>>

Outdated ==
  /\ pc = "compare"
  /\ force \/ ~before.stamped \/ Compare(before.version, release) < 0
  /\ Works("download")
  /\ UNCHANGED <<fileVars, release>>

\* The file that is downloaded may turn out not to run.
Download ==
  /\ pc = "download"
  /\ \E s, w \in BOOLEAN :
       temp' = [version |-> release, stamped |-> s, whole |-> w, exec |-> TRUE]
  /\ Works("verify")
  /\ UNCHANGED <<target, backup, release>>

Verify ==
  /\ pc = "verify" /\ Runs(temp)
  /\ Works("backup")
  /\ UNCHANGED <<fileVars, release>>

\* Mutant of Reject: the file is installed although it does not run.
RejectNot ==
  /\ pc = "verify" /\ ~Runs(temp)
  /\ Works("backup")
  /\ UNCHANGED <<fileVars, release>>

Reject ==
  /\ pc = "verify" /\ ~Runs(temp)
  /\ End("failed")
  /\ UNCHANGED <<target, backup, faults>>

\* The release cannot be fetched, has no file for this system, or cannot be
\* downloaded or tried; the directory of the target is not writable; or the
\* version command of the new program fails.
Fails ==
  /\ pc \in {"fetch", "download", "verify", "backup", "check"}
  /\ Fault(1) /\ End("failed")
  /\ UNCHANGED <<target, backup>>

-----------------------------------------------------------------------------
(* replaceBinary.  copyFile creates a file, which cannot be executed, and  *)
(* then fills it.                                                          *)

OpenBackup ==
  /\ pc = "backup"
  /\ backup' = [target EXCEPT !.whole = FALSE, !.exec = FALSE]
  /\ Works("fill")
  /\ UNCHANGED <<target, temp, release>>

Backup ==
  /\ pc = "fill"
  /\ backup' = [target EXCEPT !.exec = FALSE]
  /\ Works("remove")
  /\ UNCHANGED <<target, temp, release>>

\* Mutant of BackupFails: what is at the path of the backup stays.
BackupFailsOnly ==
  /\ pc \in {"backup", "fill"}
  /\ Fault(1)
  /\ pc' = "remove"
  /\ UNCHANGED <<latest, fileVars, release, result, runVars>>

\* The copy fails, which is not an error, and what there is of it is removed.
BackupFails ==
  /\ pc \in {"backup", "fill"}
  /\ Fault(1)
  /\ pc' = "remove"
  /\ backup' = NoFile
  /\ UNCHANGED <<latest, target, temp, release, result, runVars>>

\* The copy fails, and so does the removal: an earlier backup stays, or a part.
BackupSpoilt ==
  /\ pc \in {"backup", "fill"}
  /\ Fault(2)
  /\ pc' = "remove"
  /\ UNCHANGED <<latest, fileVars, release, result, runVars>>

Remove ==
  /\ pc = "remove"
  /\ target' = NoFile
  /\ Works("create")
  /\ UNCHANGED <<backup, temp, release>>

RemoveFails ==
  /\ pc = "remove"
  /\ Fault(1) /\ End("failed")
  /\ UNCHANGED <<target, backup>>

Create ==
  /\ pc = "create"
  /\ target' = [temp EXCEPT !.whole = FALSE, !.exec = FALSE]
  /\ Works("copy")
  /\ UNCHANGED <<backup, temp, release>>

Copy ==
  /\ pc = "copy"
  /\ target' = [temp EXCEPT !.exec = FALSE]
  /\ Works("chmod")
  /\ UNCHANGED <<backup, temp, release>>

\* Mutant of InstallFails: the backup is not put back.
InstallFailsOnly ==
  /\ pc \in {"create", "copy"}
  /\ Fault(1) /\ End("failed")
  /\ UNCHANGED <<target, backup>>

InstallFails ==
  /\ pc \in {"create", "copy"}
  /\ Fault(1)
  /\ pc' = "restore"
  /\ UNCHANGED <<latest, fileVars, release, result, runVars>>

Restore ==
  /\ pc = "restore"
  /\ target' = IF backup = NoFile THEN target ELSE backup
  /\ End("failed")
  /\ UNCHANGED <<backup, faults>>

\* The backup cannot be copied back, or not all of it.
RestoreFails ==
  /\ pc = "restore" /\ backup # NoFile
  /\ \/ UNCHANGED target
     \/ target' = [backup EXCEPT !.whole = FALSE]
  /\ Fault(1) /\ End("failed")
  /\ UNCHANGED backup

Chmod ==
  /\ pc = "chmod"
  /\ target' = [target EXCEPT !.exec = TRUE]
  /\ Works("cleanup")
  /\ UNCHANGED <<backup, temp, release>>

ChmodFails ==
  /\ pc = "chmod"
  /\ Fault(1) /\ End("failed")
  /\ UNCHANGED <<target, backup>>

\* The backup is removed, or stays, which is not looked at.
Cleanup ==
  /\ pc = "cleanup"
  /\ backup' \in {NoFile, backup}
  /\ Works("check")
  /\ UNCHANGED <<target, temp, release>>

-----------------------------------------------------------------------------

\* verifyInstallation.
Check ==
  /\ pc = "check"
  /\ End(IF Runs(target) THEN "updated" ELSE "failed")
  /\ UNCHANGED <<target, backup, faults>>

Kill ==
  /\ pc # "idle"
  /\ pc' = "idle" /\ result' = "killed"
  /\ UNCHANGED <<latest, fileVars, release, faults, runVars>>

Next ==
  \/ Publish \/ Start \/ Fetch \/ UpToDate \/ Outdated
  \/ Download \/ Verify \/ Reject \/ Fails
  \/ OpenBackup \/ Backup \/ BackupFails \/ BackupSpoilt
  \/ Remove \/ RemoveFails \/ Create \/ Copy \/ InstallFails
  \/ Restore \/ RestoreFails \/ Chmod \/ ChmodFails \/ Cleanup
  \/ Check \/ Kill

Spec == Init /\ [][Next]_vars

-----------------------------------------------------------------------------

\* Where the process is while it replaces the program.
Replacing ==
  {"backup", "fill", "remove", "create", "copy", "restore", "chmod", "cleanup", "check"}

\* The process has gone through to the end of a run.
Ended == pc = "idle" /\ result \in {"current", "updated", "failed"}

\* The variables have their types; and what a program is replaced with has been
\* tried before, while the temporary file is still there.
TypeOK ==
  /\ latest \in Versions /\ release \in Versions
  /\ target \in Binary \cup {NoFile} /\ temp \in Binary \cup {NoFile}
  /\ backup \in Binary \cup {NoFile} /\ ~backup.exec
  /\ before \in Binary /\ force \in BOOLEAN
  /\ result \in {"none", "current", "updated", "failed", "killed"}
  /\ faults \in 0..MaxFaults /\ runs \in 0..MaxRuns
  /\ pc \in {"idle", "fetch", "compare", "download", "verify"} \cup Replacing
  /\ pc \in Replacing => Runs(temp) /\ temp.version = release

\* A run in which no step failed leaves a program that can be executed: the
\* release it has announced, or, also if the download turned out not to run, the
\* one that was there.  And one failure, at whatever step, does not cost the
\* program: all of the old one or all of the new one is there at the end, if not
\* executable (the backup, its restoration and the order of replaceBinary).
SurvivesOneFailure ==
  /\ Ended /\ faults = 0 =>
       /\ Runs(target)
       /\ IF result = "updated" THEN target.version = release ELSE target = before
  /\ Ended /\ faults <= 1 => target.whole /\ target.version \in {before.version, release}

\* What a run leaves is the program it began with or the one it has downloaded,
\* never the backup of an earlier run, unless the removal of that backup failed
\* with two other steps (the removal when the copy to the backup fails).
NeverAnEarlierOne ==
  Ended /\ faults <= 2 /\ target.whole => target.version \in {before.version, release}

\* "You are already on the latest version" is said only if no newer release has
\* been found, and without --force a program that knows its version is only ever
\* replaced by a newer one, also when the latest release is withdrawn: updateCmd
\* and Compare, by the order of semantic versions.
NewerOnly ==
  /\ result = "current" => ~Precedes(before.version, release)
  /\ pc \in Replacing /\ ~force /\ before.stamped => Precedes(before.version, release)

-----------------------------------------------------------------------------
(* The inductive invariant behind TypeOK, SurvivesOneFailure and           *)
(* NeverAnEarlierOne.                                                      *)

\* What a successful copy to the backup leaves there.
Kept == [before EXCEPT !.exec = FALSE]

\* What the files hold as the run goes on, and how much of the backup the steps
\* that have failed so far have cost.
Progress ==
  /\ pc # "idle" => result = "none" /\ Runs(before)
  /\ pc \in {"fetch", "compare", "download", "verify", "backup", "fill"} =>
       target = before /\ faults = 0
  /\ pc = "verify" => temp.version = release
  /\ pc = "remove" => target = before
  /\ pc \in {"remove", "create", "copy"} =>
       (faults = 0 => backup = Kept) /\ (faults = 1 => backup = NoFile)
  /\ pc \in {"create", "copy", "restore"} => ~target.whole
  /\ pc = "restore" =>
       faults # 0 /\ (faults = 1 => backup = Kept) /\ (faults = 2 => backup = NoFile)
  /\ pc = "chmod" => target = [temp EXCEPT !.exec = FALSE]
  /\ pc \in {"cleanup", "check"} => target = [temp EXCEPT !.exec = TRUE]

IInv == TypeOK /\ Progress /\ SurvivesOneFailure /\ NeverAnEarlierOne
=============================================================================
