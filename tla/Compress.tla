------------------------------ MODULE Compress ------------------------------
(***************************************************************************)
(* Caveman compression of memory files                                     *)
(* (src/skills/caveman-compress/scripts): a run asks Claude for a shorter   *)
(* text, saves the original beside the file, overwrites the file, and      *)
(* validates, has it fixed, or puts the original back.  Writing a file is   *)
(* two steps: it is truncated, then filled.                                *)
(***************************************************************************)
EXTENDS Naturals

CONSTANTS
    Files, Backups,
    BackupOf,       \* [Files -> Backups]: <stem>.original.md, so that files
                    \* that differ in their suffix share one
    Suffix,         \* [Files -> kind of suffix]
    Looks,          \* [Files -> what the contents of a file look like]
    Sensitive,      \* files that look sensitive by their name or path, or are too large
    Raw,            \* files with bytes that reading them as text drops or changes
    Runs, None,
    Errors, Warnings,   \* what validate checks: what it reports as an error,
                        \* and what it only warns about
    MAX_RETRIES,
    Quiet,          \* nobody touches a file of a run while it is under way
    MaxEdits        \* of each file

Types == {"natural_language", "code", "config", "unknown"}

ASSUME CompressAssumption ==
    /\ Files \cap Backups = {} /\ BackupOf \in [Files -> Backups]
    /\ Suffix \in [Files -> {"prose", "code", "config", "none", "other"}]
    /\ Looks \in [Files -> Types] /\ Sensitive \subseteq Files /\ Raw \subseteq Files
    /\ None \notin Files /\ MAX_RETRIES \in Nat \ {0}
    /\ Quiet \in BOOLEAN /\ MaxEdits \in Nat

VARIABLES
    disk,    \* what each file and backup holds
    run,     \* per run: where it is, and what it has in memory
    latest   \* history: per file, how often its user has written it

vars == <<disk, run, latest>>

Paths == Files \cup Backups

\* The texts somebody wrote: of which file, and which version.
Texts == Files \X (0 .. MaxEdits)

\* What a file may hold: one of those, what a model made of one (and what it lost
\* on the way), or a part of something; or there is no file.
Absent == [kind |-> "absent", text |-> None, lost |-> {}, raw |-> FALSE]
Torn == [Absent EXCEPT !.kind = "torn"]
Human(text, raw) == [kind |-> "human", text |-> text, lost |-> {}, raw |-> raw]
Caveman(text, lost) == [kind |-> "caveman", text |-> text, lost |-> lost, raw |-> FALSE]

Contents == [kind : {"absent", "torn", "human", "caveman"}, text : Texts \cup {None},
             lost : SUBSET (Errors \cup Warnings), raw : BOOLEAN]

ReadText(contents) == [contents EXCEPT !.raw = FALSE]

Idle == [pc |-> "idle", file |-> None, half |-> FALSE, original |-> Absent,
         compressed |-> Absent, attempt |-> 0]

Writing == {"backup", "file", "restore"}
Live == {"check", "ask", "validate", "fix", "unlink"} \cup Writing
Ended == {"succeeded", "failed", "stopped"}

Init ==
    /\ disk = [p \in Paths |-> IF p \in Files THEN Human(<<p, 0>>, p \in Raw) ELSE Absent]
    /\ run = [r \in Runs |-> Idle]
    /\ latest = [f \in Files |-> 0]

At(r, pc) == run[r].pc = pc
End(r, pc) == run' = [run EXCEPT ![r] = [Idle EXCEPT !.pc = pc]]
Goto(r, pc) == run' = [run EXCEPT ![r].pc = pc]
Backup(r) == BackupOf[run[r].file]

\* The runs that are at work on a file or on its backup.
Busy(f) == {r \in Runs : run[r].pc \in Live /\ BackupOf[run[r].file] = BackupOf[f]}

------------------------------------------------------------------------------
(* Which files are compressed (detect.py). *)

DetectFileType(f) ==
    CASE Suffix[f] = "prose" -> "natural_language"
      [] Suffix[f] \in {"code", "config"} -> Suffix[f]
      [] Suffix[f] = "none" -> Looks[f]
      [] OTHER -> "unknown"

ShouldCompress(f) == DetectFileType(f) = "natural_language" /\ f \notin Sensitive

------------------------------------------------------------------------------
(* One run (compress_file). *)

Start(r, f) ==
    /\ run[r].pc \notin Live
    /\ Quiet => Busy(f) = {}
    /\ ShouldCompress(f)
    /\ disk[f].kind # "absent"
    /\ run' = [run EXCEPT ![r] = [Idle EXCEPT !.pc = "check", !.file = f,
                                              !.original = ReadText(disk[f])]]
    /\ UNCHANGED <<disk, latest>>

\* Mutant: a backup that exists is no reason to stop.
CheckNothing(r) ==
    /\ At(r, "check")
    /\ Goto(r, "ask")
    /\ UNCHANGED <<disk, latest>>

CheckBackup(r) ==
    /\ At(r, "check")
    /\ IF disk[Backup(r)].kind = "absent" THEN Goto(r, "ask") ELSE End(r, "stopped")
    /\ UNCHANGED <<disk, latest>>

\* Mutant: the file is overwritten before there is a backup.
AskThenFile(r) ==
    /\ At(r, "ask")
    /\ \E lost \in SUBSET (Errors \cup Warnings) :
         run' = [run EXCEPT ![r].compressed = Caveman(run[r].original.text, lost),
                            ![r].pc = "file"]
    /\ UNCHANGED <<disk, latest>>

\* Claude answers with something shorter, faithful or not.
Ask(r) ==
    /\ At(r, "ask")
    /\ \E lost \in SUBSET (Errors \cup Warnings) :
         run' = [run EXCEPT ![r].compressed = Caveman(run[r].original.text, lost),
                            ![r].pc = "backup"]
    /\ UNCHANGED <<disk, latest>>

\* The three writes: to which path, what, and what comes next.
Target(r) == IF At(r, "backup") THEN Backup(r) ELSE run[r].file
Written(r) == IF At(r, "file") THEN run[r].compressed ELSE run[r].original
Following(r) ==
    CASE At(r, "backup") -> "file" [] At(r, "file") -> "validate" [] OTHER -> "unlink"

Truncate(r) ==
    /\ run[r].pc \in Writing /\ ~run[r].half
    /\ disk' = [disk EXCEPT ![Target(r)] = Torn]
    /\ run' = [run EXCEPT ![r].half = TRUE]
    /\ UNCHANGED latest

Fill(r) ==
    /\ run[r].pc \in Writing /\ run[r].half
    /\ disk' = [disk EXCEPT ![Target(r)] = Written(r)]
    /\ run' = [run EXCEPT ![r].half = FALSE, ![r].pc = Following(r)]
    /\ UNCHANGED latest

\* validate compares the file with the backup: it sees what was lost of that very
\* text; of different texts it may say anything.
Verdicts(backup, file) ==
    IF file = backup THEN {TRUE}
    ELSE IF file.kind = "caveman" /\ backup.kind = "human" /\ file.text = backup.text
    THEN {file.lost \cap Errors = {}}
    ELSE BOOLEAN

\* Mutant: one attempt more, so that the loop runs out before its last verdict.
LastAttemptLate(r) == run[r].attempt = MAX_RETRIES

LastAttempt(r) == run[r].attempt = MAX_RETRIES - 1

\* Without a backup there is an exception; a loop that runs out is a success.
Validate(r) ==
    /\ At(r, "validate")
    /\ IF run[r].attempt = MAX_RETRIES THEN End(r, "succeeded")
       ELSE IF disk[Backup(r)].kind = "absent" THEN End(r, "stopped")
       ELSE \E valid \in Verdicts(disk[Backup(r)], disk[run[r].file]) :
              IF valid THEN End(r, "succeeded")
              ELSE Goto(r, IF LastAttempt(r) THEN "restore" ELSE "fix")
    /\ UNCHANGED <<disk, latest>>

\* Claude is asked to put back what was reported.
Fix(r) ==
    /\ At(r, "fix")
    /\ \E lost \in SUBSET (Errors \cup Warnings) :
         run' = [run EXCEPT ![r].compressed = Caveman(run[r].original.text, lost),
                            ![r].attempt = @ + 1, ![r].pc = "file"]
    /\ UNCHANGED <<disk, latest>>

\* Mutant: the backup is left for the user.
KeepBackup(r) ==
    /\ At(r, "unlink")
    /\ End(r, "failed")
    /\ UNCHANGED <<disk, latest>>

Unlink(r) ==
    /\ At(r, "unlink")
    /\ disk' = [disk EXCEPT ![Backup(r)] = Absent]
    /\ End(r, "failed")
    /\ UNCHANGED latest

\* A call of Claude or a write fails, Ctrl-C, or the process is killed.
Stops(r) ==
    /\ run[r].pc \in Live
    /\ End(r, "stopped")
    /\ UNCHANGED <<disk, latest>>

------------------------------------------------------------------------------
(* The user. *)

Free(f) == Quiet => Busy(f) = {}

\* The user edits what somebody wrote, not what is compressed or broken.
Edit(f) ==
    /\ Free(f) /\ latest[f] < MaxEdits
    /\ disk[f].kind = "human"
    /\ disk' = [disk EXCEPT ![f] = Human(<<f, latest[f] + 1>>, FALSE)]
    /\ latest' = [latest EXCEPT ![f] = @ + 1]
    /\ UNCHANGED run

\* "CLAUDE.original.md: you edit this."
EditBackup(f) ==
    /\ Free(f) /\ latest[f] < MaxEdits
    /\ disk[f].kind = "caveman" /\ disk[BackupOf[f]].kind = "human"
    /\ disk' = [disk EXCEPT ![BackupOf[f]] = Human(<<f, latest[f] + 1>>, FALSE)]
    /\ latest' = [latest EXCEPT ![f] = @ + 1]
    /\ UNCHANGED run

\* The backup is moved back over a file that is compressed or broken.
MoveBack(f) ==
    /\ Free(f)
    /\ disk[f].kind \in {"caveman", "torn"} /\ disk[BackupOf[f]].kind = "human"
    /\ disk' = [disk EXCEPT ![f] = disk[BackupOf[f]], ![BackupOf[f]] = Absent]
    /\ UNCHANGED <<run, latest>>

\* A backup that is in the way is removed, if all files it may belong to are
\* still as somebody wrote them.
RemoveBackup(b) ==
    /\ \A f \in Files : BackupOf[f] = b => Free(f) /\ disk[f].kind = "human"
    /\ disk[b].kind # "absent"
    /\ disk' = [disk EXCEPT ![b] = Absent]
    /\ UNCHANGED <<run, latest>>

Step(r) ==
    \/ CheckBackup(r) \/ Ask(r) \/ Truncate(r) \/ Fill(r) \/ Validate(r) \/ Fix(r)
    \/ Unlink(r)

Next ==
    \/ \E r \in Runs : Step(r) \/ Stops(r) \/ \E f \in Files : Start(r, f)
    \/ \E f \in Files : Edit(f) \/ EditBackup(f) \/ MoveBack(f)
    \/ \E b \in Backups : RemoveBackup(b)

Spec == Init /\ [][Next]_vars

------------------------------------------------------------------------------
(* Properties. *)

\* Types and bounds.
TypeOK ==
    /\ disk \in [Paths -> Contents]
    /\ run \in [Runs -> [pc : {"idle"} \cup Live \cup Ended, file : Files \cup {None},
                         half : BOOLEAN, original : Contents, compressed : Contents,
                         attempt : 0 .. MAX_RETRIES - 1]]
    /\ latest \in [Files -> 0 .. MaxEdits]

\* Whatever is killed or fails, the text the user wrote last is in the file or in
\* its backup ("Original never lost", README.md:28 of the skill).
OriginalKept ==
    \A f \in Files : \E p \in {f, BackupOf[f]} :
      disk[p].kind = "human" /\ disk[p].text = <<f, latest[f]>>

\* A run that reports success leaves a compression of the very text in the
\* backup that has lost nothing validate calls an error.
SuccessIsChecked == [][
    \A r \in Runs : run'[r].pc = "succeeded" /\ ~At(r, "succeeded") =>
      LET file == disk'[run[r].file]
          backup == disk'[Backup(r)]
      IN  /\ file.kind = "caveman" /\ backup.kind = "human" /\ file.text = backup.text
          /\ file.lost \cap Errors = {} ]_vars

\* A run that gives up after its retries leaves the file as it read it, and no
\* backup ("leave original file untouched", SKILL.md).
FailureIsUndone == [][
    \A r \in Runs : run'[r].pc = "failed" /\ ~At(r, "failed") =>
      /\ disk'[run[r].file] = run[r].original
      /\ disk'[Backup(r)] = Absent ]_vars

\* A run touches no backup but the one it made itself (compress.py, "to prevent
\* accidental overwriting").
BackupIsRespected == [][
    \A b \in Backups : disk'[b] # disk[b] /\ run' # run =>
      \/ disk[b] = Absent
      \/ \E r \in Runs : /\ run[r].pc \in Live \ {"check", "ask"} /\ Backup(r) = b
                         /\ At(r, "backup") => run[r].half ]_vars
=============================================================================
