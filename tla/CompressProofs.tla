--------------------------- MODULE CompressProofs ---------------------------
(***************************************************************************)
(* What Compress promises for all files, backups, runs and bounds: its      *)
(* types, and, while nobody touches the files of a run under way, that the  *)
(* text the user wrote last is never lost, that success was checked, that   *)
(* failure is undone and that no other backup is touched.                   *)
(***************************************************************************)
EXTENDS Compress, TLAPS

States == [pc : {"idle"} \cup Live \cup Ended, file : Files \cup {None}, half : BOOLEAN,
           original : Contents, compressed : Contents, attempt : 0 .. MAX_RETRIES - 1]

\* A fix is asked for only if there is an attempt left to check it.
FixHasRoom == \A r \in Runs : At(r, "fix") => run[r].attempt # MAX_RETRIES - 1

TypeInv == TypeOK /\ FixHasRoom

\* The contents say what the user of f wrote last.
Says(contents, f) == contents.kind = "human" /\ contents.text = <<f, latest[f]>>

\* Whatever in a file is somebody's text is the latest.
HumanIsLatest == \A f \in Files : disk[f].kind = "human" => Says(disk[f], f)

NothingIsAbsent == \A p \in Paths : disk[p].kind = "absent" => disk[p] = Absent

\* Runs that share a backup do not overlap.
Exclusive ==
    \A r, s \in Runs :
      run[r].pc \in Live /\ run[s].pc \in Live /\ Backup(r) = Backup(s) => r = s

\* What a run knows of its file and of its backup, place by place.
Knows(r) ==
    run[r].pc \in Live =>
      LET f == run[r].file
          b == BackupOf[run[r].file]
      IN  /\ f \in Files
          /\ run[r].half => run[r].pc \in Writing
          /\ At(r, "check") => run[r].original = ReadText(disk[f])
          /\ ~At(r, "check") => Says(run[r].original, f)
          /\ run[r].pc \in {"ask", "backup"} => Says(disk[f], f)
          /\ run[r].pc \in {"ask", "backup"} /\ ~run[r].half => disk[b] = Absent
          /\ At(r, "backup") /\ run[r].half => disk[b] = Torn
          /\ run[r].pc \in {"backup", "file"} =>
               /\ run[r].compressed.kind = "caveman"
               /\ run[r].compressed.text = <<f, latest[f]>>
          /\ run[r].pc \in {"file", "validate", "fix", "restore", "unlink"} => Says(disk[b], f)
          /\ At(r, "validate") => disk[f].kind = "caveman" /\ disk[f].text = <<f, latest[f]>>
          /\ At(r, "unlink") => disk[f] = run[r].original

IInv ==
    /\ OriginalKept
    /\ HumanIsLatest
    /\ NothingIsAbsent
    /\ Exclusive
    /\ \A r \in Runs : Knows(r)

------------------------------------------------------------------------------
(* Types. *)

LEMMA SomeContents ==
    /\ Absent \in Contents /\ Torn \in Contents
    /\ \A text \in Texts, raw \in BOOLEAN : Human(text, raw) \in Contents
    /\ \A text \in Texts \cup {None}, lost \in SUBSET (Errors \cup Warnings) :
         Caveman(text, lost) \in Contents
    /\ \A c \in Contents : ReadText(c) \in Contents /\ c.text \in Texts \cup {None}
BY DEF Absent, Torn, Human, Caveman, ReadText, Contents

LEMMA IdleStates ==
    ASSUME NEW pc \in {"idle"} \cup Ended
    PROVE  [Idle EXCEPT !.pc = pc] \in States /\ Idle \in States
<1>1. 0 \in 0 .. MAX_RETRIES - 1 /\ Absent \in Contents
    BY CompressAssumption, SomeContents
<1>2. Idle \in States
    BY <1>1 DEF Idle, States
<1> QED BY <1>2 DEF Idle, States

LEMMA TypesStart == Init => TypeInv
<1> SUFFICES ASSUME Init PROVE TypeInv
    OBVIOUS
<1>1. \A p \in Files : <<p, 0>> \in Texts
    BY CompressAssumption DEF Texts
<1>2. disk \in [Paths -> Contents]
    <2>1. \A p \in Paths :
            (IF p \in Files THEN Human(<<p, 0>>, p \in Raw) ELSE Absent) \in Contents
        <3>1. \A p : (p \in Raw) \in BOOLEAN
            OBVIOUS
        <3> QED BY <1>1, <3>1, SomeContents, Zenon
    <2> QED BY <2>1 DEF Init
<1>3. Idle \in States
    BY IdleStates
<1>4. run \in [Runs -> States]
    BY <1>3 DEF Init
<1>5. latest \in [Files -> 0 .. MaxEdits]
    BY CompressAssumption DEF Init
<1> QED BY <1>2, <1>4, <1>5 DEF Init, TypeInv, TypeOK, FixHasRoom, At, Idle, States

\* The steps of a run that change nothing but its record.
LEMMA TypesOfMemory ==
    ASSUME TypeInv, NEW r \in Runs,
           \/ \E f \in Files : Start(r, f)
           \/ CheckBackup(r) \/ Ask(r) \/ Validate(r) \/ Fix(r) \/ Stops(r)
    PROVE  TypeInv'
<1> USE DEF TypeInv
<1>1. run \in [Runs -> States] /\ disk \in [Paths -> Contents]
    BY DEF TypeOK, States
<1>2. UNCHANGED <<disk, latest>>
    BY DEF Start, CheckBackup, Ask, Validate, Fix, Stops
<1>3. PICK m \in States :
        /\ run' = [run EXCEPT ![r] = m]
        /\ m.pc = "fix" => m.attempt # MAX_RETRIES - 1
    <2> DEFINE Stopped(pc) == [Idle EXCEPT !.pc = pc]
    <2>1. \A pc \in {"idle"} \cup Ended :
            Stopped(pc) \in States /\ Stopped(pc).pc = pc
        BY IdleStates DEF Idle
    <2>2. CASE \E f \in Files : Start(r, f)
        <3>1. PICK f \in Files : Start(r, f)
            BY <2>2
        <3>2. ReadText(disk[f]) \in Contents
            BY <1>1, SomeContents DEF Paths
        <3> DEFINE m == [Idle EXCEPT !.pc = "check", !.file = f,
                                      !.original = ReadText(disk[f])]
        <3>3. Idle \in States
            BY IdleStates
        <3>4. m \in States /\ m.pc = "check"
            BY <3>2, <3>3 DEF Idle, States, Live
        <3> QED BY <3>1, <3>4 DEF Start
    <2>3. CASE CheckBackup(r)
        <3> DEFINE m == [run[r] EXCEPT !.pc = "ask"]
        <3>1. m \in States /\ m.pc = "ask"
            BY <1>1 DEF States, Live
        <3>2. run' = [run EXCEPT ![r] = m] \/ run' = [run EXCEPT ![r] = Stopped("stopped")]
            BY <1>1, <2>3 DEF CheckBackup, Goto, End, States
        <3> QED BY <2>1, <3>1, <3>2 DEF Ended
    <2>4. CASE Ask(r) \/ Fix(r)
        <3>1. run[r].original.text \in Texts \cup {None}
            BY <1>1, SomeContents DEF States
        <3>2. CASE Ask(r)
            <4>1. PICK lost \in SUBSET (Errors \cup Warnings) :
                    run' = [run EXCEPT ![r].compressed = Caveman(run[r].original.text, lost),
                                       ![r].pc = "backup"]
                BY <3>2 DEF Ask
            <4> DEFINE m == [run[r] EXCEPT !.compressed = Caveman(run[r].original.text, lost),
                                           !.pc = "backup"]
            <4>2. Caveman(run[r].original.text, lost) \in Contents
                BY <3>1, SomeContents
            <4>3. m \in States /\ m.pc = "backup"
                BY <1>1, <4>2 DEF States, Live, Writing
            <4>4. run' = [run EXCEPT ![r] = m]
                BY <1>1, <4>1
            <4> QED BY <4>3, <4>4
        <3>3. CASE Fix(r)
            <4>1. PICK lost \in SUBSET (Errors \cup Warnings) :
                    run' = [run EXCEPT ![r].compressed = Caveman(run[r].original.text, lost),
                                       ![r].attempt = @ + 1, ![r].pc = "file"]
                BY <3>3 DEF Fix
            <4> DEFINE m == [run[r] EXCEPT !.compressed = Caveman(run[r].original.text, lost),
                                           !.attempt = @ + 1, !.pc = "file"]
            <4>2. Caveman(run[r].original.text, lost) \in Contents
                BY <3>1, SomeContents
            <4>3. run[r].attempt + 1 \in 0 .. MAX_RETRIES - 1
                <5>1. run[r].attempt # MAX_RETRIES - 1
                    BY <3>3 DEF Fix, FixHasRoom
                <5>2. run[r].attempt \in 0 .. MAX_RETRIES - 1
                    BY <1>1 DEF States
                <5> QED BY <5>1, <5>2, CompressAssumption
            <4>4. m \in States /\ m.pc = "file"
                BY <1>1, <4>2, <4>3 DEF States, Live, Writing
            <4>5. run' = [run EXCEPT ![r] = m]
                BY <1>1, <4>1
            <4> QED BY <4>4, <4>5
        <3> QED BY <2>4, <3>2, <3>3
    <2>5. CASE Validate(r)
        <3> DEFINE restore == [run[r] EXCEPT !.pc = "restore"]
                   fix == [run[r] EXCEPT !.pc = "fix"]
        <3>1. restore \in States /\ fix \in States /\ restore.pc = "restore"
              /\ fix.pc = "fix" /\ fix.attempt = run[r].attempt
            BY <1>1 DEF States, Live, Writing
        <3>2. \/ run' = [run EXCEPT ![r] = Stopped("succeeded")]
              \/ run' = [run EXCEPT ![r] = Stopped("stopped")]
              \/ run' = [run EXCEPT ![r] = restore]
              \/ run' = [run EXCEPT ![r] = fix] /\ run[r].attempt # MAX_RETRIES - 1
            BY <1>1, <2>5 DEF Validate, End, Goto, LastAttempt, States
        <3>3. Stopped("succeeded") \in States /\ Stopped("stopped") \in States
              /\ Stopped("succeeded").pc # "fix" /\ Stopped("stopped").pc # "fix"
            BY <2>1 DEF Ended
        <3> HIDE DEF Stopped, restore, fix
        <3> QED BY <3>1, <3>2, <3>3
    <2>6. CASE Stops(r)
        <3>1. run' = [run EXCEPT ![r] = Stopped("stopped")]
            BY <2>6 DEF Stops, End
        <3>2. Stopped("stopped") \in States /\ Stopped("stopped").pc # "fix"
            BY <2>1 DEF Ended
        <3> HIDE DEF Stopped
        <3> QED BY <3>1, <3>2
    <2> QED BY <2>2, <2>3, <2>4, <2>5, <2>6
<1>4. TypeOK'
    BY <1>1, <1>2, <1>3 DEF TypeOK, States
<1>5. FixHasRoom'
    BY <1>1, <1>3 DEF FixHasRoom, At
<1> QED BY <1>4, <1>5

\* The steps of a run that change a file.
LEMMA TypesOfDisk ==
    ASSUME TypeInv, NEW r \in Runs, Truncate(r) \/ Fill(r) \/ Unlink(r)
    PROVE  TypeInv'
<1> USE DEF TypeInv
<1>1. run \in [Runs -> States] /\ disk \in [Paths -> Contents]
    BY DEF TypeOK, States
<1>2. UNCHANGED latest
    BY DEF Truncate, Fill, Unlink
<1>3. PICK m \in States, c \in Contents, p \in {run[r].file, BackupOf[run[r].file]} :
        /\ run' = [run EXCEPT ![r] = m]
        /\ m.pc # "fix"
        /\ disk' = [disk EXCEPT ![p] = c]
    <2>1. CASE Truncate(r)
        <3> DEFINE m == [run[r] EXCEPT !.half = TRUE]
        <3>1. m \in States /\ m.pc # "fix"
            BY <1>1, <2>1 DEF Truncate, States, Writing
        <3>2. run' = [run EXCEPT ![r] = m]
            BY <1>1, <2>1 DEF Truncate
        <3> QED BY <2>1, <3>1, <3>2, SomeContents DEF Truncate, Target, Backup
    <2>2. CASE Fill(r)
        <3> DEFINE m == [run[r] EXCEPT !.half = FALSE, !.pc = Following(r)]
        <3>1. m \in States /\ m.pc # "fix"
            BY <1>1, <2>2 DEF States, Following, Live, Writing, At
        <3>2. run' = [run EXCEPT ![r] = m]
            BY <1>1, <2>2 DEF Fill
        <3>3. Written(r) \in Contents
            BY <1>1 DEF Written, States
        <3> QED BY <2>2, <3>1, <3>2, <3>3 DEF Fill, Target, Backup
    <2>3. CASE Unlink(r)
        <3>1. [Idle EXCEPT !.pc = "failed"] \in States
            BY IdleStates DEF Ended
        <3>2. run' = [run EXCEPT ![r] = [Idle EXCEPT !.pc = "failed"]]
            BY <2>3 DEF Unlink, End
        <3> QED BY <2>3, <3>1, <3>2, SomeContents DEF Unlink, Idle, Backup
    <2> QED BY <2>1, <2>2, <2>3
<1>4. TypeOK'
    BY <1>1, <1>2, <1>3 DEF TypeOK, States
<1>5. FixHasRoom'
    BY <1>1, <1>3 DEF FixHasRoom, At
<1> QED BY <1>4, <1>5

\* What the user does.
LEMMA TypesOfUser ==
    ASSUME TypeInv,
           \/ \E f \in Files : Edit(f) \/ EditBackup(f) \/ MoveBack(f)
           \/ \E b \in Backups : RemoveBackup(b)
    PROVE  TypeInv'
<1> USE DEF TypeInv
<1>1. disk \in [Paths -> Contents] /\ latest \in [Files -> 0 .. MaxEdits]
    BY DEF TypeOK
<1>2. UNCHANGED run
    BY DEF Edit, EditBackup, MoveBack, RemoveBackup
<1>3. ASSUME NEW f \in Files, Edit(f) \/ EditBackup(f)
      PROVE  disk' \in [Paths -> Contents] /\ latest' \in [Files -> 0 .. MaxEdits]
    <2>1. latest[f] + 1 \in 0 .. MaxEdits
        <3>1. latest[f] \in 0 .. MaxEdits /\ latest[f] < MaxEdits /\ MaxEdits \in Nat
            BY <1>1, <1>3, CompressAssumption DEF Edit, EditBackup
        <3> QED BY <3>1
    <2>2. Human(<<f, latest[f] + 1>>, FALSE) \in Contents
        BY <2>1, SomeContents DEF Texts
    <2> QED BY <1>1, <1>3, <2>1, <2>2 DEF Edit, EditBackup
<1>4. ASSUME NEW f \in Files, MoveBack(f)
      PROVE  disk' \in [Paths -> Contents] /\ latest' \in [Files -> 0 .. MaxEdits]
    <2>1. disk[BackupOf[f]] \in Contents
        BY <1>1, CompressAssumption DEF Paths
    <2> QED BY <1>1, <1>4, <2>1, SomeContents DEF MoveBack
<1>5. ASSUME NEW b \in Backups, RemoveBackup(b)
      PROVE  disk' \in [Paths -> Contents] /\ latest' \in [Files -> 0 .. MaxEdits]
    BY <1>1, <1>5, SomeContents DEF RemoveBackup
<1>6. disk' \in [Paths -> Contents] /\ latest' \in [Files -> 0 .. MaxEdits]
    BY <1>3, <1>4, <1>5
<1> QED BY <1>2, <1>6 DEF TypeOK, FixHasRoom, At

LEMMA TypesStep == TypeInv /\ [Next]_vars => TypeInv'
<1> SUFFICES ASSUME TypeInv, [Next]_vars PROVE TypeInv'
    OBVIOUS
<1>1. CASE Next
    BY <1>1, TypesOfMemory, TypesOfDisk, TypesOfUser DEF Next, Step
<1>2. CASE UNCHANGED vars
    BY <1>2 DEF vars, TypeInv, TypeOK, FixHasRoom, At
<1> QED BY <1>1, <1>2

\* The types of Compress and the bound of its retries (MAX_RETRIES of
\* compress.py) hold, however runs and edits interleave.
THEOREM CompressTypes == Spec => []TypeOK
<1>1. TypeInv => TypeOK
    BY DEF TypeInv
<1> QED BY <1>1, TypesStart, TypesStep, PTL DEF Spec

------------------------------------------------------------------------------
(* While nobody touches the files of a run: nothing is lost. *)

\* A run knows what it knew as long as its record, its file and its backup stay.
LEMMA Undisturbed ==
    ASSUME NEW s \in Runs, Knows(s), run'[s] = run[s],
           run[s].pc \in Live =>
             /\ disk'[run[s].file] = disk[run[s].file]
             /\ disk'[Backup(s)] = disk[Backup(s)]
             /\ latest'[run[s].file] = latest[run[s].file]
    PROVE  Knows(s)'
BY DEF Knows, Says, At, Backup

\* What a run does to its own file and backup is no other run's business.
LEMMA Apart ==
    ASSUME TypeInv, IInv, NEW r \in Runs, run[r].pc \in Live, UNCHANGED latest,
           \A s \in Runs \ {r} : run'[s] = run[s],
           \A p \in Paths \ {run[r].file, Backup(r)} : disk'[p] = disk[p]
    PROVE  \A s \in Runs \ {r} : Knows(s)'
<1> TAKE s \in Runs \ {r}
<1>1. Knows(s) /\ Knows(r) /\ run'[s] = run[s]
    BY DEF IInv
<1>2. ASSUME run[s].pc \in Live
      PROVE  disk'[run[s].file] = disk[run[s].file] /\ disk'[Backup(s)] = disk[Backup(s)]
    <2>1. run[s].file \in Files /\ run[r].file \in Files
        BY <1>1, <1>2 DEF Knows
    <2>2. Backup(s) \in Backups /\ Backup(r) \in Backups
        BY <2>1, CompressAssumption DEF Backup
    <2>3. Backup(s) # Backup(r)
        BY <1>2 DEF IInv, Exclusive
    <2>4. run[s].file # run[r].file
        BY <2>3 DEF Backup
    <2> QED BY <2>1, <2>2, <2>3, <2>4, CompressAssumption DEF Paths
<1> QED BY <1>1, <1>2, Undisturbed

\* A run under way stays the only one of its backup.
LEMMA StaysExclusive ==
    ASSUME IInv, NEW r \in Runs, run[r].pc \in Live,
           \A s \in Runs \ {r} : run'[s] = run[s],
           run'[r].pc \in Live => run'[r].file = run[r].file
    PROVE  Exclusive'
BY DEF IInv, Exclusive, Backup

LEMMA NotLive ==
    ASSUME NEW pc \in {"idle"} \cup Ended
    PROVE  [Idle EXCEPT !.pc = pc].pc = pc /\ pc \notin Live
BY DEF Idle, Ended, Live, Writing

\* A run that ends knows nothing and disturbs nobody.
LEMMA KeepsEnd ==
    ASSUME TypeInv, IInv, NEW r \in Runs, run[r].pc \in Live, NEW pc \in Ended, End(r, pc),
           UNCHANGED <<disk, latest>>
    PROVE  IInv'
<1>1. run'[r] = [Idle EXCEPT !.pc = pc] /\ \A s \in Runs \ {r} : run'[s] = run[s]
    BY DEF End, TypeInv, TypeOK
<1>2. run'[r].pc \notin Live
    BY <1>1, NotLive
<1>3. Exclusive'
    BY <1>1, <1>2, StaysExclusive
<1>4. Knows(r)'
    BY <1>2 DEF Knows
<1>5. \A s \in Runs \ {r} : Knows(s)'
    BY <1>1, Apart
<1> QED BY <1>3, <1>4, <1>5 DEF IInv, OriginalKept, HumanIsLatest, NothingIsAbsent, Says

LEMMA KeepsStart ==
    ASSUME TypeInv, IInv, Quiet, NEW r \in Runs, NEW f \in Files, Start(r, f)
    PROVE  IInv'
<1>1. run'[r] = [Idle EXCEPT !.pc = "check", !.file = f, !.original = ReadText(disk[f])]
      /\ \A s \in Runs \ {r} : run'[s] = run[s]
    BY DEF Start, TypeInv, TypeOK
<1>2. run'[r].pc = "check" /\ run'[r].file = f /\ run'[r].half = FALSE
      /\ run'[r].original = ReadText(disk[f])
    BY <1>1 DEF Idle
<1>3. UNCHANGED <<disk, latest>> /\ run[r].pc \notin Live
    BY DEF Start
<1>4. \A s \in Runs : ~(run[s].pc \in Live /\ BackupOf[run[s].file] = BackupOf[f])
    BY DEF Start, Busy
<1>5. Exclusive'
    <2> SUFFICES ASSUME NEW p \in Runs, NEW q \in Runs, run'[p].pc \in Live, run'[q].pc \in Live,
                        BackupOf[run'[p].file] = BackupOf[run'[q].file]
                 PROVE  p = q
        BY DEF Exclusive, Backup
    <2>1. CASE p # r /\ q # r
        <3>1. run'[p] = run[p] /\ run'[q] = run[q]
            BY <1>1, <2>1
        <3> QED BY <3>1 DEF IInv, Exclusive, Backup
    <2>2. \A s \in Runs \ {r} : run'[s].pc \in Live => BackupOf[run'[s].file] # BackupOf[f]
        BY <1>1, <1>4
    <2> QED BY <1>2, <2>1, <2>2
<1>6. Knows(r)'
    BY <1>2, <1>3 DEF Knows, At, Writing
<1>7. \A s \in Runs \ {r} : Knows(s)'
    BY <1>1, <1>3, Undisturbed DEF IInv
<1> QED BY <1>3, <1>5, <1>6, <1>7 DEF IInv, OriginalKept, HumanIsLatest, NothingIsAbsent, Says

\* A run that goes on without touching a file: what it must know there is left to show.
LEMMA KeepsGoing ==
    ASSUME TypeInv, IInv, NEW r \in Runs, run[r].pc \in Live, NEW m \in States,
           m.file = run[r].file, run' = [run EXCEPT ![r] = m],
           UNCHANGED <<disk, latest>>, Knows(r)'
    PROVE  IInv'
<1>1. run'[r] = m /\ \A s \in Runs \ {r} : run'[s] = run[s]
    BY DEF TypeInv, TypeOK
<1>2. Exclusive'
    BY <1>1, StaysExclusive
<1>3. \A s \in Runs \ {r} : Knows(s)'
    BY <1>1, Apart
<1> QED BY <1>2, <1>3 DEF IInv, OriginalKept, HumanIsLatest, NothingIsAbsent, Says

LEMMA KeepsMemory ==
    ASSUME TypeInv, IInv, Quiet, NEW r \in Runs,
           CheckBackup(r) \/ Ask(r) \/ Validate(r) \/ Fix(r) \/ Stops(r)
    PROVE  IInv'
<1>1. run[r].pc \in Live /\ UNCHANGED <<disk, latest>>
    BY DEF CheckBackup, Ask, Validate, Fix, Stops, At, Live
<1>2. run \in [Runs -> States] /\ disk \in [Paths -> Contents]
    BY DEF TypeInv, TypeOK, States
<1>3. Knows(r) /\ run[r].file \in Files /\ Backup(r) \in Paths
    BY <1>1, CompressAssumption DEF IInv, Knows, Backup, Paths
<1>4. CASE CheckBackup(r)
    <2>1. CASE disk[Backup(r)].kind = "absent"
        <3> DEFINE m == [run[r] EXCEPT !.pc = "ask"]
        <3>1. m \in States /\ m.file = run[r].file /\ m.pc = "ask"
              /\ m.half = run[r].half /\ m.original = run[r].original
            BY <1>2 DEF States, Live
        <3>2. run' = [run EXCEPT ![r] = m] /\ run'[r] = m
            BY <1>2, <1>4, <2>1 DEF CheckBackup, Goto, States
        <3>3. At(r, "check")
            BY <1>4 DEF CheckBackup
        <3>4. disk[Backup(r)] = Absent
            BY <1>3, <2>1 DEF IInv, NothingIsAbsent
        <3>5. Says(disk[run[r].file], run[r].file)
            BY <1>3, <2>1 DEF IInv, OriginalKept, Says, Backup
        <3>6. run[r].original = ReadText(disk[run[r].file]) /\ ~run[r].half
            BY <1>1, <1>3, <3>3 DEF Knows, At, Writing
        <3>7. Says(run[r].original, run[r].file)
            BY <1>2, <1>3, <3>5, <3>6 DEF Says, ReadText, Contents, Paths
        <3> HIDE DEF m
        <3>8. Knows(r)'
            <4>1. run[r].file \in Files /\ ~run[r].half
                BY <1>3, <3>6
            <4> QED BY <1>1, <3>1, <3>2, <3>4, <3>5, <3>7, <4>1 DEF Knows, At, Says, Backup
        <3> QED BY <1>1, <3>1, <3>2, <3>8, KeepsGoing
    <2>2. CASE disk[Backup(r)].kind # "absent"
        BY <1>1, <1>4, <2>2, KeepsEnd DEF CheckBackup, Ended
    <2> QED BY <2>1, <2>2
<1>5. CASE Ask(r) \/ Fix(r)
    <2>1. PICK lost \in SUBSET (Errors \cup Warnings), pc \in {"backup", "file"},
               n \in 0 .. MAX_RETRIES - 1 :
            /\ run' = [run EXCEPT ![r].compressed = Caveman(run[r].original.text, lost),
                                  ![r].attempt = n, ![r].pc = pc]
            /\ pc = IF At(r, "ask") THEN "backup" ELSE "file"
        <3>1. CASE Ask(r)
            <4>1. run[r].attempt \in 0 .. MAX_RETRIES - 1
                BY <1>2 DEF States
            <4>2. PICK lost \in SUBSET (Errors \cup Warnings) :
                    run' = [run EXCEPT ![r].compressed = Caveman(run[r].original.text, lost),
                                       ![r].pc = "backup"]
                BY <3>1 DEF Ask
            <4>3. run' = [run EXCEPT ![r].compressed = Caveman(run[r].original.text, lost),
                                     ![r].attempt = run[r].attempt, ![r].pc = "backup"]
                BY <1>2, <4>2 DEF States
            <4> QED BY <3>1, <4>1, <4>3 DEF Ask
        <3>2. CASE Fix(r)
            <4>1. run[r].attempt \in 0 .. MAX_RETRIES - 1 /\ run[r].attempt # MAX_RETRIES - 1
                BY <1>2, <3>2 DEF States, Fix, TypeInv, FixHasRoom
            <4>2. run[r].attempt + 1 \in 0 .. MAX_RETRIES - 1
                BY <4>1, CompressAssumption
            <4> QED BY <1>2, <3>2, <4>2 DEF Fix, At
        <3> QED BY <1>5, <3>1, <3>2
    <2> DEFINE m == [run[r] EXCEPT !.compressed = Caveman(run[r].original.text, lost),
                                   !.attempt = n, !.pc = pc]
    <2>2. Caveman(run[r].original.text, lost) \in Contents
        BY <1>2, SomeContents DEF States
    <2>3. m \in States /\ m.file = run[r].file /\ m.pc = pc /\ m.half = run[r].half
          /\ m.original = run[r].original
          /\ m.compressed = Caveman(run[r].original.text, lost)
        BY <1>2, <2>2 DEF States, Live, Writing
    <2>4. run' = [run EXCEPT ![r] = m] /\ run'[r] = m
        BY <1>2, <2>1
    <2>5. /\ Says(run[r].original, run[r].file) /\ ~run[r].half
          /\ pc = "backup" => /\ Says(disk[run[r].file], run[r].file)
                              /\ disk[Backup(r)] = Absent
          /\ pc = "file" => Says(disk[Backup(r)], run[r].file)
        BY <1>1, <1>3, <1>5, <2>1 DEF Knows, Ask, Fix, At, Writing, Backup
    <2>6. m.compressed.kind = "caveman" /\ m.compressed.text = run[r].original.text
        BY <2>3 DEF Caveman
    <2> HIDE DEF m
    <2>7. Knows(r)'
        BY <1>1, <1>3, <2>3, <2>4, <2>5, <2>6 DEF Knows, At, Says, Backup
    <2> QED BY <1>1, <2>3, <2>4, <2>7, KeepsGoing
<1>6. CASE Validate(r)
    <2>1. CASE End(r, "succeeded") \/ End(r, "stopped")
        BY <1>1, <2>1, KeepsEnd DEF Ended
    <2>2. ASSUME NEW pc \in {"restore", "fix"}, Goto(r, pc)
          PROVE  IInv'
        <3> DEFINE m == [run[r] EXCEPT !.pc = pc]
        <3>1. m \in States /\ m.file = run[r].file /\ m.pc = pc /\ m.half = run[r].half
              /\ m.original = run[r].original
            BY <1>2 DEF States, Live, Writing
        <3>2. run' = [run EXCEPT ![r] = m] /\ run'[r] = m
            BY <1>2, <2>2 DEF Goto
        <3>3. Says(run[r].original, run[r].file) /\ ~run[r].half
              /\ Says(disk[Backup(r)], run[r].file)
            BY <1>1, <1>3, <1>6 DEF Knows, Validate, At, Writing, Backup
        <3> HIDE DEF m
        <3>4. Knows(r)'
            BY <1>1, <1>3, <3>1, <3>2, <3>3 DEF Knows, At, Says, Backup
        <3> QED BY <1>1, <3>1, <3>2, <3>4, KeepsGoing
    <2> QED BY <1>6, <2>1, <2>2 DEF Validate
<1>7. CASE Stops(r)
    BY <1>1, <1>7, KeepsEnd DEF Stops, Ended
<1> QED BY <1>4, <1>5, <1>6, <1>7

\* A run may replace its file when its backup has the text, and its backup when
\* the file has it and the backup was no other file's.
LEMMA KeepsWrite ==
    ASSUME TypeInv, IInv, NEW r \in Runs, run[r].pc \in Live,
           NEW p \in {run[r].file, Backup(r)}, NEW c \in Contents, NEW m \in States,
           disk' = [disk EXCEPT ![p] = c], run' = [run EXCEPT ![r] = m], UNCHANGED latest,
           m.pc \in Live => m.file = run[r].file,
           Knows(r)',
           c.kind = "absent" => c = Absent,
           p = run[r].file => /\ Says(disk[Backup(r)], run[r].file)
                              /\ c.kind = "human" => Says(c, run[r].file),
           p = Backup(r) => /\ Says(disk[run[r].file], run[r].file)
                            /\ \/ disk[Backup(r)].kind # "human"
                               \/ Says(disk[Backup(r)], run[r].file)
    PROVE  IInv'
<1> DEFINE f == run[r].file
           b == Backup(r)
<1>1. run'[r] = m /\ \A s \in Runs \ {r} : run'[s] = run[s]
    BY DEF TypeInv, TypeOK
<1>2. f \in Files /\ b \in Backups /\ b = BackupOf[f] /\ disk \in [Paths -> Contents]
    BY CompressAssumption DEF IInv, Knows, Backup, TypeInv, TypeOK
<1>3. /\ f \in Paths /\ b \in Paths /\ f # b
      /\ \A q \in Paths : disk'[q] = IF q = p THEN c ELSE disk[q]
    BY <1>2, CompressAssumption DEF Paths
<1>4. Exclusive'
    BY <1>1, StaysExclusive
<1>5. \A s \in Runs \ {r} : Knows(s)'
    BY <1>1, <1>3, Apart
<1>6. NothingIsAbsent'
    BY <1>3 DEF IInv, NothingIsAbsent
<1>7. \A g \in Files : g \in Paths /\ BackupOf[g] \in Paths /\ g # b /\ BackupOf[g] # f
                      /\ latest'[g] = latest[g]
    BY <1>2, CompressAssumption DEF Paths
<1>8. CASE p = f
    <2>1. HumanIsLatest'
        BY <1>3, <1>7, <1>8 DEF IInv, HumanIsLatest, Says
    <2>2. disk'[b] = disk[b]
        BY <1>3, <1>8
    <2>3. OriginalKept'
        <3> SUFFICES ASSUME NEW g \in Files
                     PROVE  \E q \in {g, BackupOf[g]} :
                              disk'[q].kind = "human" /\ disk'[q].text = <<g, latest[g]>>
            BY <1>7 DEF OriginalKept
        <3>1. CASE g = f
            BY <1>2, <1>8, <2>2, <3>1 DEF Says
        <3>2. CASE g # f
            <4>1. disk'[g] = disk[g] /\ disk'[BackupOf[g]] = disk[BackupOf[g]]
                BY <1>3, <1>7, <1>8, <3>2
            <4> QED BY <4>1 DEF IInv, OriginalKept
        <3> QED BY <3>1, <3>2
    <2> QED BY <1>4, <1>5, <1>6, <2>1, <2>3 DEF IInv
<1>9. CASE p = b
    <2>1. \A g \in Files : disk'[g] = disk[g]
        BY <1>3, <1>7, <1>9
    <2>2. HumanIsLatest'
        BY <1>7, <2>1 DEF IInv, HumanIsLatest, Says
    <2>3. OriginalKept'
        <3> SUFFICES ASSUME NEW g \in Files
                     PROVE  \E q \in {g, BackupOf[g]} :
                              disk'[q].kind = "human" /\ disk'[q].text = <<g, latest[g]>>
            BY <1>7 DEF OriginalKept
        <3>1. CASE g = f
            BY <1>9, <2>1, <3>1 DEF Says
        <3>2. CASE BackupOf[g] # b
            <4>1. disk'[BackupOf[g]] = disk[BackupOf[g]]
                BY <1>3, <1>7, <1>9, <3>2
            <4> QED BY ZenonT(60), <2>1, <4>1 DEF IInv, OriginalKept
        <3>3. CASE g # f /\ BackupOf[g] = b
            <4>1. disk[b].kind = "human" => disk[b].text # <<g, latest[g]>>
                BY <1>9, <3>3 DEF Says
            <4>2. disk[g].kind = "human" /\ disk[g].text = <<g, latest[g]>>
                BY <3>3, <4>1 DEF IInv, OriginalKept
            <4> QED BY <2>1, <4>2
        <3> QED BY <3>1, <3>2, <3>3
    <2> QED BY <1>4, <1>5, <1>6, <2>2, <2>3 DEF IInv
<1> QED BY <1>8, <1>9

\* The four places where a run writes or removes.
LEMMA KeepsDisk ==
    ASSUME TypeInv, IInv, NEW r \in Runs, Truncate(r) \/ Fill(r) \/ Unlink(r)
    PROVE  IInv'
<1> DEFINE f == run[r].file
           b == Backup(r)
<1>1. run[r].pc \in Live /\ UNCHANGED latest
    BY DEF Truncate, Fill, Unlink, At, Live
<1>2. run \in [Runs -> States] /\ disk \in [Paths -> Contents]
    BY DEF TypeInv, TypeOK, States
<1>3. Knows(r) /\ f \in Files /\ b \in Backups /\ b = BackupOf[f] /\ f # b
      /\ f \in Paths /\ b \in Paths
    BY <1>1, CompressAssumption DEF IInv, Knows, Backup, Paths
<1>4. CASE Truncate(r)
    <2> DEFINE m == [run[r] EXCEPT !.half = TRUE]
    <2>1. m \in States /\ m.file = f /\ m.pc = run[r].pc /\ m.half
          /\ m.original = run[r].original /\ m.compressed = run[r].compressed
        BY <1>2 DEF States
    <2>2. run' = [run EXCEPT ![r] = m] /\ run'[r] = m
        BY <1>2, <1>4 DEF Truncate
    <2>3. Torn \in Contents /\ Torn.kind = "torn"
        BY SomeContents DEF Torn, Absent
    <2>4. run[r].pc \in Writing /\ ~run[r].half
        BY <1>4 DEF Truncate
    <2> HIDE DEF m
    <2>5. CASE At(r, "backup")
        <3>1. disk' = [disk EXCEPT ![b] = Torn]
            BY <1>4, <2>5 DEF Truncate, Target
        <3>2. disk'[b] = Torn /\ disk'[f] = disk[f]
            BY <1>2, <1>3, <3>1
        <3>3. Says(disk[f], f) /\ disk[b] = Absent /\ disk[b].kind # "human"
            BY <1>1, <1>3, <2>4, <2>5 DEF Knows, At, Absent
        <3>4. /\ Says(run[r].original, f)
              /\ run[r].compressed.kind = "caveman"
              /\ run[r].compressed.text = <<f, latest[f]>>
            BY <1>1, <1>3, <2>5 DEF Knows, At
        <3>5. /\ run'[r].pc = "backup" /\ run'[r].file = f /\ run'[r].half
              /\ run'[r].original = run[r].original /\ run'[r].compressed = run[r].compressed
            BY <2>1, <2>2, <2>5 DEF At
        <3>6. Knows(r)'
            BY SMTT(40), <1>1, <1>3, <3>2, <3>3, <3>4, <3>5 DEF Knows, At, Says, Writing
        <3> QED BY <1>1, <1>3, <2>1, <2>2, <2>3, <3>1, <3>3, <3>6, KeepsWrite
    <2>6. CASE ~At(r, "backup")
        <3>1. disk' = [disk EXCEPT ![f] = Torn]
            BY <1>4, <2>6 DEF Truncate, Target
        <3>2. disk'[f] = Torn /\ disk'[b] = disk[b]
            BY <1>2, <1>3, <3>1
        <3>3. Says(disk[b], f) /\ run[r].pc \in {"file", "restore"}
            BY <1>1, <1>3, <2>4, <2>6 DEF Knows, At, Writing
        <3>4. /\ Says(run[r].original, f)
              /\ run[r].pc = "file" => /\ run[r].compressed.kind = "caveman"
                                       /\ run[r].compressed.text = <<f, latest[f]>>
            BY <1>1, <1>3, <3>3 DEF Knows, At
        <3>5. /\ run'[r].pc = run[r].pc /\ run'[r].file = f /\ run'[r].half
              /\ run'[r].original = run[r].original /\ run'[r].compressed = run[r].compressed
            BY <2>1, <2>2
        <3>6. Knows(r)'
            BY ZenonT(60), <1>1, <1>3, <3>2, <3>3, <3>4, <3>5 DEF Knows, At, Says, Writing
        <3> QED BY <1>1, <1>3, <2>1, <2>2, <2>3, <3>1, <3>3, <3>6, KeepsWrite
    <2> QED BY <2>5, <2>6
<1>5. CASE Fill(r)
    <2> DEFINE m == [run[r] EXCEPT !.half = FALSE, !.pc = Following(r)]
    <2>1. Following(r) \in {"file", "validate", "unlink"}
        BY <1>5 DEF Following
    <2>2. m \in States /\ m.file = f /\ m.pc = Following(r) /\ ~m.half
          /\ m.original = run[r].original /\ m.compressed = run[r].compressed
        BY <1>2, <2>1 DEF States, Live, Writing
    <2>3. run' = [run EXCEPT ![r] = m] /\ run'[r] = m
        BY <1>2, <1>5 DEF Fill
    <2>4. run[r].original \in Contents /\ run[r].compressed \in Contents
        BY <1>2 DEF States
    <2>5. run[r].pc \in Writing /\ run[r].half /\ Says(run[r].original, f)
        BY <1>1, <1>3, <1>5 DEF Fill, Knows, At, Writing
    <2> HIDE DEF m
    <2>6. CASE At(r, "backup")
        <3>1. disk' = [disk EXCEPT ![b] = run[r].original] /\ m.pc = "file"
            BY <1>5, <2>2, <2>6 DEF Fill, Target, Written, Following, At
        <3>2. disk'[b] = run[r].original /\ disk'[f] = disk[f]
            BY <1>2, <1>3, <3>1
        <3>3. Says(disk[f], f) /\ disk[b].kind # "human"
            BY <1>1, <1>3, <2>5, <2>6 DEF Knows, At, Torn, Absent
        <3>4. Knows(r)'
            BY <1>1, <1>3, <2>2, <2>3, <2>5, <2>6, <3>1, <3>2 DEF Knows, At, Says, Backup
        <3> QED BY <1>1, <1>3, <2>2, <2>3, <2>4, <2>5, <3>1, <3>3, <3>4, KeepsWrite DEF Says
    <2>7. CASE At(r, "file")
        <3>1. disk' = [disk EXCEPT ![f] = run[r].compressed] /\ m.pc = "validate"
            BY <1>5, <2>2, <2>7 DEF Fill, Target, Written, Following, At
        <3>2. disk'[f] = run[r].compressed /\ disk'[b] = disk[b]
            BY <1>2, <1>3, <3>1
        <3>3. Says(disk[b], f) /\ run[r].compressed.kind = "caveman"
              /\ run[r].compressed.text = <<f, latest[f]>>
            BY <1>1, <1>3, <2>7 DEF Knows, At
        <3>4. Knows(r)'
            BY <1>1, <1>3, <2>2, <2>3, <2>5, <3>1, <3>2, <3>3 DEF Knows, At, Says, Backup
        <3> QED BY <1>1, <1>3, <2>2, <2>3, <2>4, <3>1, <3>3, <3>4, KeepsWrite
    <2>8. CASE At(r, "restore")
        <3>1. disk' = [disk EXCEPT ![f] = run[r].original] /\ m.pc = "unlink"
            BY <1>5, <2>2, <2>8 DEF Fill, Target, Written, Following, At
        <3>2. disk'[f] = run[r].original /\ disk'[b] = disk[b]
            BY <1>2, <1>3, <3>1
        <3>3. Says(disk[b], f)
            BY <1>1, <1>3, <2>8 DEF Knows, At
        <3>4. Knows(r)'
            BY <1>1, <1>3, <2>2, <2>3, <2>5, <3>1, <3>2, <3>3 DEF Knows, At, Says, Backup
        <3> QED BY <1>1, <1>3, <2>2, <2>3, <2>4, <2>5, <3>1, <3>3, <3>4, KeepsWrite DEF Says
    <2> QED BY <2>5, <2>6, <2>7, <2>8 DEF Writing, At
<1>6. CASE Unlink(r)
    <2> DEFINE m == [Idle EXCEPT !.pc = "failed"]
    <2>1. m \in States /\ m.pc \notin Live
        BY IdleStates, NotLive DEF Ended
    <2>2. run' = [run EXCEPT ![r] = m] /\ run'[r] = m
        BY <1>2, <1>6 DEF Unlink, End
    <2> HIDE DEF m
    <2>3. Says(disk[b], f) /\ Says(disk[f], f)
        BY <1>1, <1>3, <1>6 DEF Knows, Unlink, At
    <2>4. Knows(r)'
        BY <2>1, <2>2 DEF Knows
    <2>5. disk' = [disk EXCEPT ![b] = Absent]
        BY <1>6 DEF Unlink
    <2> QED BY <1>1, <1>3, <2>1, <2>2, <2>3, <2>4, <2>5, SomeContents, KeepsWrite
<1> QED BY <1>4, <1>5, <1>6

\* What the user does to files that no run is at work on leaves the runs alone.
LEMMA RunsUndisturbed ==
    ASSUME IInv, UNCHANGED run, NEW b \in Backups,
           \A r \in Runs : run[r].pc \in Live => Backup(r) # b,
           \A p \in Backups \ {b} : disk'[p] = disk[p],
           \A f \in Files : BackupOf[f] # b => disk'[f] = disk[f] /\ latest'[f] = latest[f]
    PROVE  Exclusive' /\ \A r \in Runs : Knows(r)'
<1>1. Exclusive'
    BY DEF IInv, Exclusive, Backup
<1>2. ASSUME NEW r \in Runs PROVE Knows(r)'
    <2>1. Knows(r) /\ run'[r] = run[r]
        BY DEF IInv
    <2>2. ASSUME run[r].pc \in Live
          PROVE  run[r].file \in Files /\ Backup(r) \in Backups \ {b}
                 /\ BackupOf[run[r].file] # b
        BY <2>1, <2>2, CompressAssumption DEF Knows, Backup
    <2> QED BY <2>1, <2>2, Undisturbed
<1> QED BY <1>1, <1>2

\* The user writes: a new version is in the file, or in its backup.
LEMMA KeepsEdits ==
    ASSUME TypeInv, IInv, Quiet, NEW f \in Files, Edit(f) \/ EditBackup(f)
    PROVE  IInv'
<1> DEFINE b == BackupOf[f]
           p == IF Edit(f) THEN f ELSE b
           new == Human(<<f, latest[f] + 1>>, FALSE)
<1>1. disk \in [Paths -> Contents] /\ latest \in [Files -> 0 .. MaxEdits]
    BY DEF TypeInv, TypeOK
<1>2. b \in Backups /\ f \in Paths /\ b \in Paths /\ f # b
      /\ \A g \in Files : g \in Paths /\ g # b /\ BackupOf[g] \in Paths /\ BackupOf[g] # f
    BY CompressAssumption DEF Paths
<1>3. UNCHANGED run /\ Busy(f) = {}
    BY DEF Edit, EditBackup, Free
<1>4. /\ disk' = [disk EXCEPT ![p] = new]
      /\ latest' = [latest EXCEPT ![f] = latest[f] + 1]
      /\ p \in {f, b}
    BY DEF Edit, EditBackup
<1>5. /\ new.kind = "human" /\ new.text = <<f, latest[f] + 1>>
      /\ latest'[f] = latest[f] + 1
    BY <1>1, <1>4 DEF Human
<1> HIDE DEF new
<1>6. /\ \A q \in Paths : disk'[q] = IF q = p THEN new ELSE disk[q]
      /\ \A g \in Files : g # f => latest'[g] = latest[g]
    BY <1>1, <1>2, <1>4
<1>7. \A r \in Runs : run[r].pc \in Live => Backup(r) # b
    BY <1>3 DEF Busy, Backup
<1>8. Exclusive' /\ \A r \in Runs : Knows(r)'
    <2>1. /\ \A q \in Backups \ {b} : disk'[q] = disk[q]
          /\ \A g \in Files : BackupOf[g] # b => disk'[g] = disk[g] /\ latest'[g] = latest[g]
        BY <1>2, <1>4, <1>6, CompressAssumption DEF Paths
    <2> QED BY <1>2, <1>3, <1>7, <2>1, RunsUndisturbed
<1>9. NothingIsAbsent'
    BY <1>5, <1>6 DEF IInv, NothingIsAbsent
<1>10. p = b => disk[f].kind # "human" /\ disk[b].kind = "human" /\ disk[b].text = <<f, latest[f]>>
    BY <1>2 DEF EditBackup, IInv, OriginalKept
<1>11. HumanIsLatest'
    <2> SUFFICES ASSUME NEW g \in Files, disk'[g].kind = "human"
                 PROVE  disk'[g].text = <<g, latest'[g]>>
        BY DEF HumanIsLatest, Says
    <2>1. CASE g = f
        BY <1>2, <1>5, <1>6, <1>10, <1>4, <2>1
    <2>2. CASE g # f
        BY <1>2, <1>4, <1>6, <2>2 DEF IInv, HumanIsLatest, Says
    <2> QED BY <2>1, <2>2
<1>12. OriginalKept'
    <2> SUFFICES ASSUME NEW g \in Files
                 PROVE  \E q \in {g, BackupOf[g]} :
                          disk'[q].kind = "human" /\ disk'[q].text = <<g, latest'[g]>>
        BY DEF OriginalKept
    <2>1. CASE g = f
        BY <1>2, <1>4, <1>5, <1>6, <2>1
    <2>2. CASE g # f
        <3>1. PICK q \in {g, BackupOf[g]} :
                disk[q].kind = "human" /\ disk[q].text = <<g, latest[g]>>
            BY DEF IInv, OriginalKept
        <3>2. q # p
            BY <1>2, <1>4, <1>10, <2>2, <3>1
        <3> QED BY <1>2, <1>6, <2>2, <3>1, <3>2
    <2> QED BY <2>1, <2>2
<1> QED BY <1>8, <1>9, <1>11, <1>12 DEF IInv

\* The user moves the backup back over a file that is not the original.
LEMMA KeepsMoveBack ==
    ASSUME TypeInv, IInv, Quiet, NEW f \in Files, MoveBack(f)
    PROVE  IInv'
<1> DEFINE b == BackupOf[f]
<1>1. disk \in [Paths -> Contents]
    BY DEF TypeInv, TypeOK
<1>2. b \in Backups /\ f \in Paths /\ b \in Paths /\ f # b
      /\ \A g \in Files : g \in Paths /\ g # b /\ BackupOf[g] \in Paths /\ BackupOf[g] # f
    BY CompressAssumption DEF Paths
<1>3. UNCHANGED <<run, latest>> /\ Busy(f) = {}
    BY DEF MoveBack, Free
<1>4. \A q \in Paths : disk'[q] = IF q = b THEN Absent ELSE IF q = f THEN disk[b] ELSE disk[q]
    BY <1>1, <1>2 DEF MoveBack
<1>5. Says(disk[b], f)
    BY DEF MoveBack, IInv, OriginalKept, Says
<1>6. \A r \in Runs : run[r].pc \in Live => Backup(r) # b
    BY <1>3 DEF Busy, Backup
<1>7. Exclusive' /\ \A r \in Runs : Knows(r)'
    <2>1. /\ \A p \in Backups \ {b} : disk'[p] = disk[p]
          /\ \A g \in Files : BackupOf[g] # b => disk'[g] = disk[g] /\ latest'[g] = latest[g]
        BY <1>2, <1>3, <1>4, CompressAssumption DEF Paths
    <2> QED BY <1>2, <1>3, <1>6, <2>1, RunsUndisturbed
<1>8. NothingIsAbsent'
    BY <1>2, <1>4 DEF IInv, NothingIsAbsent
<1>9. HumanIsLatest'
    BY <1>2, <1>3, <1>4, <1>5 DEF IInv, HumanIsLatest, Says
<1>10. OriginalKept'
    <2> SUFFICES ASSUME NEW g \in Files
                 PROVE  \E q \in {g, BackupOf[g]} :
                          disk'[q].kind = "human" /\ disk'[q].text = <<g, latest[g]>>
        BY <1>3 DEF OriginalKept
    <2>1. CASE g = f
        BY <1>2, <1>4, <1>5, <2>1 DEF Says
    <2>2. CASE g # f
        <3>1. PICK q \in {g, BackupOf[g]} :
                disk[q].kind = "human" /\ disk[q].text = <<g, latest[g]>>
            BY DEF IInv, OriginalKept
        <3>2. q # b /\ q # f
            BY <1>2, <1>5, <2>2, <3>1 DEF Says
        <3> QED BY <1>2, <1>4, <3>1, <3>2
    <2> QED BY <2>1, <2>2
<1> QED BY <1>7, <1>8, <1>9, <1>10 DEF IInv

\* The user removes a backup that no file needs.
LEMMA KeepsRemoval ==
    ASSUME TypeInv, IInv, Quiet, NEW b \in Backups, RemoveBackup(b)
    PROVE  IInv'
<1>1. disk \in [Paths -> Contents]
    BY DEF TypeInv, TypeOK
<1>2. b \in Paths
      /\ \A g \in Files : g \in Paths /\ g # b /\ BackupOf[g] \in Paths
    BY CompressAssumption DEF Paths
<1>3. UNCHANGED <<run, latest>>
      /\ \A f \in Files : BackupOf[f] = b => Busy(f) = {} /\ disk[f].kind = "human"
    BY DEF RemoveBackup, Free
<1>4. \A q \in Paths : disk'[q] = IF q = b THEN Absent ELSE disk[q]
    BY <1>1 DEF RemoveBackup
<1>5. ASSUME NEW r \in Runs, run[r].pc \in Live PROVE Backup(r) # b
    <2>1. run[r].file \in Files
        BY <1>5 DEF IInv, Knows
    <2> QED BY <1>3, <1>5, <2>1 DEF Busy, Backup
<1>6. Exclusive' /\ \A r \in Runs : Knows(r)'
    <2>1. /\ \A p \in Backups \ {b} : disk'[p] = disk[p]
          /\ \A g \in Files : BackupOf[g] # b => disk'[g] = disk[g] /\ latest'[g] = latest[g]
        BY <1>2, <1>3, <1>4, CompressAssumption DEF Paths
    <2> QED BY <1>2, <1>3, <1>5, <2>1, RunsUndisturbed
<1>7. NothingIsAbsent'
    BY <1>4 DEF IInv, NothingIsAbsent
<1>8. HumanIsLatest'
    BY <1>2, <1>3, <1>4 DEF IInv, HumanIsLatest, Says
<1>9. OriginalKept'
    <2> SUFFICES ASSUME NEW g \in Files
                 PROVE  \E q \in {g, BackupOf[g]} :
                          disk'[q].kind = "human" /\ disk'[q].text = <<g, latest[g]>>
        BY <1>3 DEF OriginalKept
    <2>1. CASE BackupOf[g] = b
        BY <1>2, <1>3, <1>4, <2>1 DEF IInv, HumanIsLatest, Says
    <2>2. CASE BackupOf[g] # b
        BY <1>2, <1>4, <2>2 DEF IInv, OriginalKept
    <2> QED BY <2>1, <2>2
<1> QED BY <1>6, <1>7, <1>8, <1>9 DEF IInv

LEMMA InvStart == Init => IInv
<1> SUFFICES ASSUME Init PROVE IInv
    OBVIOUS
<1>1. \A r \in Runs : run[r].pc \notin Live
    BY DEF Init, Idle, Live, Writing
<1>2. \A f \in Files : f \in Paths /\ latest[f] = 0 /\ disk[f] = Human(<<f, 0>>, f \in Raw)
    BY DEF Init, Paths
<1>3. \A f \in Files : Says(disk[f], f)
    <2> TAKE f \in Files
    <2>1. PICK raw : disk[f] = Human(<<f, 0>>, raw)
        BY <1>2, Zenon
    <2>2. latest[f] = 0
        BY DEF Init
    <2> QED BY <2>1, <2>2 DEF Says, Human
<1>4. \A p \in Paths : p \notin Files => disk[p] = Absent
    BY DEF Init
<1>5. NothingIsAbsent
    BY <1>3, <1>4 DEF NothingIsAbsent, Says
<1> QED BY <1>1, <1>3, <1>5 DEF IInv, OriginalKept, HumanIsLatest, Exclusive, Knows, Says

LEMMA InvStep == Quiet /\ TypeInv /\ IInv /\ [Next]_vars => IInv'
<1> SUFFICES ASSUME Quiet, TypeInv, IInv, [Next]_vars PROVE IInv'
    OBVIOUS
<1>1. CASE Next
    BY <1>1, KeepsStart, KeepsMemory, KeepsDisk, KeepsEdits, KeepsMoveBack, KeepsRemoval
       DEF Next, Step
<1>2. CASE UNCHANGED vars
    <2>1. \A r \in Runs : Knows(r)'
        BY <1>2, Undisturbed DEF vars, IInv
    <2> QED BY <1>2, <2>1
            DEF vars, IInv, OriginalKept, HumanIsLatest, NothingIsAbsent, Exclusive, Backup, Says
<1> QED BY <1>1, <1>2

\* While nobody touches the files of a run under way, any number of runs of any
\* files, each killed or failing anywhere, leave what the user wrote last in the
\* file or in its backup (the writes of compress_file and its restore).
THEOREM OriginalTheorem == ASSUME Quiet PROVE Spec => []OriginalKept
<1>1. IInv => OriginalKept
    BY DEF IInv
<1>2. Init => TypeInv /\ IInv
    BY TypesStart, InvStart
<1>3. TypeInv /\ IInv /\ [Next]_vars => (TypeInv /\ IInv)'
    BY TypesStep, InvStep
<1> QED BY <1>1, <1>2, <1>3, PTL DEF Spec

------------------------------------------------------------------------------
(* What a run has done when it ends, and what it leaves alone. *)

\* A step in which a run succeeds is its validation, one in which it fails is the
\* removal of its backup.
LEMMA HowRunsEnd ==
    ASSUME TypeInv, [Next]_vars, NEW r \in Runs
    PROVE  /\ run'[r].pc = "succeeded" /\ ~At(r, "succeeded") => Validate(r) /\ End(r, "succeeded")
           /\ run'[r].pc = "failed" /\ ~At(r, "failed") => Unlink(r)
<1>1. run \in [Runs -> States]
    BY DEF TypeInv, TypeOK, States
<1>2. CASE run'[r] = run[r]
    BY <1>2 DEF At
<1>3. CASE run'[r] # run[r]
    <2>1. PICK s \in Runs : Step(s) \/ Stops(s) \/ \E f \in Files : Start(s, f)
        BY <1>3 DEF Next, vars, Edit, EditBackup, MoveBack, RemoveBackup
    <2>2. s = r
        <3>1. \A q \in Runs : q # s => run'[q] = run[q]
            BY <1>1, <2>1 DEF Step, Start, CheckBackup, Ask, Truncate, Fill, Validate, Fix,
                              Unlink, Stops, End, Goto
        <3> QED BY <1>3, <3>1
    <2>3. ASSUME NEW f \in Files, Start(r, f) PROVE run'[r].pc = "check"
        BY <1>1, <2>3 DEF Start, Idle
    <2>4. ASSUME NEW pc \in Ended, End(r, pc) PROVE run'[r].pc = pc
        BY <1>1, <2>4 DEF End, Idle
    <2>5. ASSUME NEW pc, Goto(r, pc) PROVE run'[r].pc = pc
        BY <1>1, <2>5 DEF Goto, States
    <2>6. CheckBackup(r) => run'[r].pc \in {"ask", "stopped"}
        BY <2>4, <2>5 DEF CheckBackup, Ended
    <2>7. Ask(r) \/ Fix(r) => run'[r].pc \in {"backup", "file"}
        BY ZenonT(60), <1>1 DEF Ask, Fix, States
    <2>8. Truncate(r) => run'[r].pc \in Writing
        BY <1>1 DEF Truncate, States
    <2>9. Fill(r) => run'[r].pc \in {"file", "validate", "unlink"}
        BY <1>1 DEF Fill, Following, States
    <2>10. Validate(r) => End(r, "succeeded") \/ run'[r].pc \in {"stopped", "restore", "fix"}
        BY <2>4, <2>5 DEF Validate, Ended
    <2>11. Unlink(r) => run'[r].pc = "failed"
        BY <2>4 DEF Unlink, Ended
    <2>12. Stops(r) => run'[r].pc = "stopped"
        BY <2>4 DEF Stops, Ended
    <2>13. Step(r) \/ Stops(r) \/ run'[r].pc = "check"
        BY <2>1, <2>2, <2>3
    <2>14. \/ Validate(r) /\ End(r, "succeeded")
           \/ Unlink(r) /\ run'[r].pc = "failed"
           \/ run'[r].pc \notin {"succeeded", "failed"}
        BY <2>6, <2>7, <2>8, <2>9, <2>10, <2>11, <2>12, <2>13 DEF Step, Writing
    <2>15. End(r, "succeeded") => run'[r].pc = "succeeded"
        BY <2>4 DEF Ended
    <2> QED BY <2>14, <2>15
<1> QED BY <1>2, <1>3

LEMMA SuccessStep ==
    ASSUME TypeInv, IInv, [Next]_vars, NEW r \in Runs,
           run'[r].pc = "succeeded", ~At(r, "succeeded")
    PROVE  LET file == disk'[run[r].file]
               backup == disk'[Backup(r)]
           IN  /\ file.kind = "caveman" /\ backup.kind = "human" /\ file.text = backup.text
               /\ file.lost \cap Errors = {}
<1>1. Validate(r) /\ At(r, "validate") /\ End(r, "succeeded") /\ disk' = disk
    BY HowRunsEnd DEF Validate
<1>2. Knows(r) /\ run[r].pc \in Live
    BY <1>1 DEF IInv, At, Live
<1>3. /\ disk[run[r].file].kind = "caveman" /\ disk[Backup(r)].kind = "human"
      /\ disk[run[r].file].text = disk[Backup(r)].text
    BY <1>1, <1>2 DEF Knows, At, Says, Backup
<1>4. run[r].attempt # MAX_RETRIES
    BY CompressAssumption DEF TypeInv, TypeOK
<1>5. run'[r].pc = "succeeded" /\ run'[r].pc \notin {"stopped", "restore", "fix"}
    OBVIOUS
<1>6. TRUE \in Verdicts(disk[Backup(r)], disk[run[r].file])
    <2>1. ~End(r, "stopped") /\ ~Goto(r, "restore") /\ ~Goto(r, "fix")
        BY <1>5 DEF End, Goto, Idle, TypeInv, TypeOK
    <2> QED BY <1>1, <1>4, <2>1 DEF Validate
<1>7. disk[run[r].file].lost \cap Errors = {}
    BY <1>3, <1>6 DEF Verdicts
<1> QED BY <1>1, <1>3, <1>7

LEMMA FailureStep ==
    ASSUME TypeInv, IInv, [Next]_vars, NEW r \in Runs, run'[r].pc = "failed", ~At(r, "failed")
    PROVE  disk'[run[r].file] = run[r].original /\ disk'[Backup(r)] = Absent
<1>1. Unlink(r) /\ At(r, "unlink") /\ disk' = [disk EXCEPT ![Backup(r)] = Absent]
    BY HowRunsEnd DEF Unlink
<1>2. Knows(r) /\ run[r].pc \in Live
    BY <1>1 DEF IInv, At, Live
<1>3. run[r].file \in Files /\ disk[run[r].file] = run[r].original
    BY <1>1, <1>2 DEF Knows, At
<1>4. Backup(r) \in Paths /\ run[r].file \in Paths /\ Backup(r) # run[r].file
    BY <1>3, CompressAssumption DEF Backup, Paths
<1> QED BY <1>1, <1>3, <1>4 DEF TypeInv, TypeOK

LEMMA RespectStep ==
    ASSUME TypeInv, IInv, [Next]_vars, NEW b \in Backups, disk'[b] # disk[b], run' # run
    PROVE  \/ disk[b] = Absent
           \/ \E r \in Runs : /\ run[r].pc \in Live \ {"check", "ask"} /\ Backup(r) = b
                              /\ At(r, "backup") => run[r].half
<1>1. PICK r \in Runs : Truncate(r) \/ Fill(r) \/ Unlink(r)
    BY DEF Next, Step, vars, Start, CheckBackup, Ask, Validate, Fix, Stops,
           Edit, EditBackup, MoveBack, RemoveBackup
<1>2. run[r].pc \in Live \ {"check", "ask"}
    BY <1>1 DEF Truncate, Fill, Unlink, At, Live, Writing
<1>3. Knows(r) /\ run[r].file \in Files /\ b # run[r].file
    BY <1>2, CompressAssumption DEF IInv, Knows
<1>4. Backup(r) = b /\ (Truncate(r) => At(r, "backup"))
    <2>1. PICK p \in {run[r].file, Backup(r)}, c \in {Torn, Written(r), Absent} :
            /\ disk' = [disk EXCEPT ![p] = c]
            /\ Truncate(r) /\ p # run[r].file => At(r, "backup")
        BY <1>1 DEF Truncate, Fill, Unlink, Target
    <2>2. p = b
        BY <2>1 DEF TypeInv, TypeOK
    <2> QED BY <1>3, <2>1, <2>2
<1>5. CASE Truncate(r)
    <2>1. ~run[r].half /\ At(r, "backup")
        BY <1>4, <1>5 DEF Truncate
    <2> QED BY <1>2, <1>3, <1>4, <2>1 DEF Knows, At, Backup
<1>6. CASE Fill(r) \/ Unlink(r)
    <2>1. At(r, "backup") => run[r].half
        BY <1>6 DEF Fill, Unlink, At
    <2> QED BY <1>2, <1>4, <2>1
<1> QED BY <1>1, <1>5, <1>6

\* A run that reports success has left a checked compression beside the text it
\* was made of (the validate loop of compress_file).
THEOREM SuccessTheorem == ASSUME Quiet PROVE Spec => SuccessIsChecked
<1>1. TypeInv /\ IInv /\ [Next]_vars =>
        [\A r \in Runs : run'[r].pc = "succeeded" /\ ~At(r, "succeeded") =>
           LET file == disk'[run[r].file]
               backup == disk'[Backup(r)]
           IN  /\ file.kind = "caveman" /\ backup.kind = "human" /\ file.text = backup.text
               /\ file.lost \cap Errors = {} ]_vars
    BY SuccessStep
<1>2. Init => TypeInv /\ IInv
    BY TypesStart, InvStart
<1>3. TypeInv /\ IInv /\ [Next]_vars => (TypeInv /\ IInv)'
    BY TypesStep, InvStep
<1> QED BY <1>1, <1>2, <1>3, PTL DEF Spec, SuccessIsChecked

\* A run that gives up has put the file back and removed its backup (the restore
\* of compress_file).
THEOREM FailureTheorem == ASSUME Quiet PROVE Spec => FailureIsUndone
<1>1. TypeInv /\ IInv /\ [Next]_vars =>
        [\A r \in Runs : run'[r].pc = "failed" /\ ~At(r, "failed") =>
           /\ disk'[run[r].file] = run[r].original
           /\ disk'[Backup(r)] = Absent ]_vars
    BY FailureStep
<1>2. Init => TypeInv /\ IInv
    BY TypesStart, InvStart
<1>3. TypeInv /\ IInv /\ [Next]_vars => (TypeInv /\ IInv)'
    BY TypesStep, InvStep
<1> QED BY <1>1, <1>2, <1>3, PTL DEF Spec, FailureIsUndone

\* No run writes to or removes a backup another made (the check of compress_file
\* before it asks).
THEOREM RespectTheorem == ASSUME Quiet PROVE Spec => BackupIsRespected
<1>1. TypeInv /\ IInv /\ [Next]_vars =>
        [\A b \in Backups : disk'[b] # disk[b] /\ run' # run =>
           \/ disk[b] = Absent
           \/ \E r \in Runs : /\ run[r].pc \in Live \ {"check", "ask"} /\ Backup(r) = b
                              /\ At(r, "backup") => run[r].half ]_vars
    BY RespectStep
<1>2. Init => TypeInv /\ IInv
    BY TypesStart, InvStart
<1>3. TypeInv /\ IInv /\ [Next]_vars => (TypeInv /\ IInv)'
    BY TypesStep, InvStep
<1> QED BY <1>1, <1>2, <1>3, PTL DEF Spec, BackupIsRespected
=============================================================================
