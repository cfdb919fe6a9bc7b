---------------------------- MODULE OpticalProofs ----------------------------
(***************************************************************************)
(* What the store of Optical promises for all texts, tiers, densities and   *)
(* numbers of processes: what was handed out can be read, and what is read  *)
(* is what was stored, whatever the layout of the pages; and, with one tier *)
(* in use, the pages show the text and cost no more than was predicted.     *)
(***************************************************************************)
EXTENDS Optical, FiniteSetTheorems, WellFoundedInduction, TLAPS

\* The shape of what the proofs speak of; the pages of a call are left open.
IsACall(c) ==
    /\ c \in [pc : {c.pc}, text : {c.text}, density : {c.density}, tier : {c.tier},
              pages : {c.pages}, undisturbed : BOOLEAN]
    /\ c.pc # "idle" => c.text \in Texts

Reading == [pc : {"idle", "slice", "ok", "not_found"}, asked : Texts \cup {None},
            got : {"nothing", "exact", "other"}, kept : BOOLEAN]

Pruning == [pc : {"idle", "originals", "segments"}, all : BOOLEAN,
            todo : SUBSET Texts, found : Texts \cup {None}]

Shapes ==
    /\ originals \in [Texts -> Files \cup {None}]
    /\ compress = [p \in Processes |-> compress[p]]
    /\ \A p \in Processes : IsACall(compress[p])
    /\ reader \in [Readers -> Reading]
    /\ \A r \in Readers : reader[r].pc = "slice" => reader[r].asked \in Texts
    /\ prune \in Pruning
    /\ promised \subseteq Texts

\* An answer that is about to be given can be read, unless it was disturbed.
Safe(c) == c.pc = "answer" /\ c.undisturbed => Readable(c.text)

\* So can what a reader was promised and has seen to be there.
Sure(r) == reader[r].pc = "slice" /\ reader[r].kept => Readable(reader[r].asked)

IInv ==
    /\ HandedOutIsThere
    /\ RetrieveIsExact
    /\ \A p \in Processes : Safe(compress[p])
    /\ \A r \in Readers : Sure(r)

All == Shapes /\ IInv

LEMMA NoneIsNoFile == None \notin Files /\ None \notin Texts
BY OpticalAssumption DEF Files

LEMMA AllStart == Init => All
<1> SUFFICES ASSUME Init PROVE All
    OBVIOUS
<1>1. \A p \in Processes : compress[p] = Idle
    BY DEF Init
<1>2. IsACall(Idle) /\ Safe(Idle)
    BY DEF IsACall, Safe, Idle
<1>3. Shapes
    BY <1>1, <1>2 DEF Init, Shapes, Reading, Pruning
<1> QED BY <1>1, <1>2, <1>3
        DEF All, Init, IInv, HandedOutIsThere, RetrieveIsExact, Sure

\* The steps of a call that change nothing but its record.
LEMMA CallGoesOn ==
    ASSUME All, NEW p \in Processes, NEW c, compress' = [compress EXCEPT ![p] = c],
           IsACall(c), Safe(c), UNCHANGED <<originals, reader, prune, promised>>
    PROVE  All'
<1>1. compress'[p] = c /\ \A q \in Processes : q # p => compress'[q] = compress[q]
    BY DEF All, Shapes
<1>2. Shapes'
    BY <1>1 DEF All, Shapes, IsACall
<1>3. IInv'
    BY <1>1 DEF All, IInv, HandedOutIsThere, RetrieveIsExact, Safe, Sure, Readable
<1> QED BY <1>2, <1>3 DEF All

LEMMA CallSteps ==
    ASSUME All, NEW p \in Processes,
           \/ Begin(p) \/ LookUpSegment(p) \/ Draw(p) \/ StoreSegment(p)
           \/ LookUpOriginal(p) \/ Breaks(p) \/ Return(p)
    PROVE  All'
<1> DEFINE b == compress[p]
<1>1. IsACall(b) /\ IsACall(Idle) /\ Safe(Idle)
    BY DEF All, Shapes, IsACall, Safe, Idle
<1>2. UNCHANGED <<originals, reader, prune, promised>>
    BY DEF Begin, LookUpSegment, Draw, StoreSegment, LookUpOriginal, Breaks, Return
<1>3. CASE Begin(p)
    <2>1. CASE UNCHANGED compress
        BY <1>2, <2>1 DEF All, Shapes, IInv, HandedOutIsThere, RetrieveIsExact, Safe, Sure,
                          Readable
    <2>2. CASE compress' # compress
        <3>1. PICK t \in Texts : \E d, tier :
                compress' = [compress EXCEPT ![p] =
                  [Idle EXCEPT !.pc = "page", !.text = t, !.density = d, !.tier = tier]]
            BY <1>3, <2>2 DEF Begin
        <3>2. PICK d, tier :
                compress' = [compress EXCEPT ![p] =
                  [Idle EXCEPT !.pc = "page", !.text = t, !.density = d, !.tier = tier]]
            BY <3>1
        <3> DEFINE c == [Idle EXCEPT !.pc = "page", !.text = t, !.density = d, !.tier = tier]
        <3>3. IsACall(c) /\ Safe(c)
            BY <1>1 DEF IsACall, Safe
        <3> QED BY <1>2, <3>2, <3>3, CallGoesOn
    <2> QED BY <2>1, <2>2
<1>4. ASSUME NEW pc, Goto(p, pc), ~At(p, "idle"), pc = "answer" => Readable(b.text)
      PROVE  All'
    <2> DEFINE c == [b EXCEPT !.pc = pc]
    <2>1. IsACall(c) /\ Safe(c)
        BY <1>1, <1>4 DEF IsACall, Safe, At
    <2>2. compress' = [compress EXCEPT ![p] = c]
        BY <1>4 DEF Goto
    <2> QED BY <1>2, <2>1, <2>2, CallGoesOn
<1>5. ASSUME NEW picture, NEW pc \in {"page", "store"}, AddPage(p, picture, pc), ~At(p, "idle")
      PROVE  All'
    <2> DEFINE c == [b EXCEPT !.pages = Append(@, picture), !.pc = pc]
    <2>1. IsACall(c) /\ Safe(c)
        BY <1>1, <1>5 DEF IsACall, Safe, At
    <2>2. compress' = [compress EXCEPT ![p] = c]
        BY <1>1, <1>5 DEF AddPage, All, Shapes, IsACall
    <2> QED BY <1>2, <2>1, <2>2, CallGoesOn
<1>6. ASSUME GiveUp(p) PROVE All'
    BY <1>1, <1>2, <1>6, CallGoesOn DEF GiveUp
<1>7. CASE LookUpSegment(p)
    BY <1>4, <1>5, <1>7 DEF LookUpSegment, At
<1>8. CASE Draw(p)
    BY <1>5, <1>8 DEF Draw, At
<1>9. CASE StoreSegment(p)
    BY <1>4, <1>9 DEF StoreSegment, At
<1>10. CASE LookUpOriginal(p)
    BY <1>4, <1>10 DEF LookUpOriginal, At
<1>11. CASE Breaks(p) \/ Return(p)
    BY <1>6, <1>11 DEF Breaks, Return
<1> QED BY <1>3, <1>7, <1>8, <1>9, <1>10, <1>11

\* Files come, and days pass: what was readable stays so.
LEMMA StaysAll ==
    ASSUME All, originals' \in [Texts -> Files \cup {None}],
           \A s \in Texts : Readable(s) => Readable(s)',
           UNCHANGED <<compress, reader, prune, promised>>
    PROVE  All'
<1>1. Shapes'
    BY DEF All, Shapes, IsACall
<1>2. \A p \in Processes : Safe(compress[p])'
    BY DEF All, IInv, Shapes, IsACall, Safe
<1>3. HandedOutIsThere' /\ RetrieveIsExact' /\ \A r \in Readers : Sure(r)'
    BY DEF All, IInv, Shapes, HandedOutIsThere, RetrieveIsExact, Sure
<1> QED BY <1>1, <1>2, <1>3 DEF All, IInv

\* A call stores its text: from now on its answer can be read.
LEMMA PutStep ==
    ASSUME All, NEW p \in Processes, PutOriginal(p)
    PROVE  All'
<1> DEFINE c == [compress[p] EXCEPT !.pc = "answer"]
<1>1. PICK t \in Texts : IsACall(compress[p]) /\ t = compress[p].text
    BY DEF PutOriginal, At, All, Shapes, IsACall
<1>2. /\ originals' \in [Texts -> Files \cup {None}]
      /\ originals'[t] = File(TRUE, FALSE)
      /\ \A s \in Texts : s # t => originals'[s] = originals[s]
    BY <1>1 DEF PutOriginal, All, Shapes, File, Files
<1>3. File(TRUE, FALSE) \in Files /\ File(TRUE, FALSE).whole
    BY DEF File, Files
<1>4. Readable(t)' /\ \A s \in Texts : Readable(s) => Readable(s)'
    <2>1. originals'[t] # None /\ originals'[t].whole
        BY <1>2, <1>3, NoneIsNoFile
    <2>2. ASSUME NEW s \in Texts, s # t PROVE Readable(s) => Readable(s)'
        <3>1. originals'[s] = originals[s]
            BY <1>2, <2>2
        <3> QED BY <3>1 DEF Readable
    <2>3. Readable(t)'
        BY <2>1 DEF Readable
    <2> QED BY <2>2, <2>3
<1>5. /\ UNCHANGED <<reader, prune, promised>>
      /\ compress'[p] = c /\ \A q \in Processes : q # p => compress'[q] = compress[q]
      /\ compress' = [q \in Processes |-> compress'[q]]
    BY DEF PutOriginal, Goto, All, Shapes
<1>6. IsACall(c) /\ c.text = t
    BY <1>1 DEF IsACall
<1> HIDE DEF c
<1>7. Shapes'
    BY <1>1, <1>2, <1>5, <1>6 DEF All, Shapes, IsACall
<1>8. \A q \in Processes : Safe(compress[q])'
    <2> TAKE q \in Processes
    <2>1. CASE q = p
        BY <1>4, <1>5, <1>6, <2>1 DEF Safe
    <2>2. CASE q # p
        BY <1>4, <1>5, <2>2 DEF Safe, All, IInv, Shapes, IsACall
    <2> QED BY <2>1, <2>2
<1>9. HandedOutIsThere' /\ RetrieveIsExact' /\ \A r \in Readers : Sure(r)'
    BY <1>4, <1>5 DEF All, IInv, Shapes, HandedOutIsThere, RetrieveIsExact, Sure
<1> QED BY <1>7, <1>8, <1>9 DEF All, IInv

\* An answer promises what can be read.
LEMMA AnswerStep ==
    ASSUME All, NEW p \in Processes, Answer(p)
    PROVE  All'
<1> DEFINE b == compress[p]
<1>1. IsACall(b) /\ b.text \in Texts /\ b.pc = "answer" /\ IsACall(Idle)
    BY DEF Answer, At, All, Shapes, IsACall, Idle
<1>2. UNCHANGED <<originals, reader, prune>>
    BY DEF Answer
<1>3. CASE GiveUp(p) /\ UNCHANGED promised
    BY <1>1, <1>2, <1>3, CallGoesOn DEF GiveUp, Safe, Idle
<1>4. CASE /\ Goto(p, "answered")
           /\ promised' = IF b.undisturbed THEN promised \cup {b.text} ELSE promised
    <2> DEFINE c == [b EXCEPT !.pc = "answered"]
    <2>1. IsACall(c) /\ Safe(c)
        BY <1>1 DEF IsACall, Safe
    <2>2. /\ compress'[p] = c /\ \A q \in Processes : q # p => compress'[q] = compress[q]
          /\ compress' = [q \in Processes |-> compress'[q]]
        BY <1>4 DEF Goto, All, Shapes
    <2> HIDE DEF c
    <2>3. promised' \subseteq promised \cup {b.text} /\ promised \subseteq promised'
          /\ (b.text \in promised' => b.text \in promised \/ b.undisturbed)
        BY <1>4
    <2>4. Shapes'
        BY <1>1, <1>2, <2>1, <2>2, <2>3 DEF All, Shapes, IsACall
    <2>5. HandedOutIsThere'
        BY <1>1, <1>2, <2>3 DEF All, IInv, HandedOutIsThere, Safe, Readable
    <2>6. \A q \in Processes : Safe(compress[q])'
        BY <1>2, <2>1, <2>2 DEF All, IInv, Safe, Readable
    <2> QED BY <1>2, <2>4, <2>5, <2>6 DEF All, IInv, RetrieveIsExact, Sure, Readable
<1> QED BY <1>3, <1>4 DEF Answer

\* Reading changes nothing, and finds what was promised.
LEMMA ReaderSteps ==
    ASSUME All, NEW r \in Readers, Ask(r) \/ Slice(r) \/ Leave(r)
    PROVE  All'
<1>1. UNCHANGED <<originals, compress, prune, promised>>
    BY DEF Ask, Slice, Leave
<1>2. PICK m \in Reading :
        /\ reader' = [reader EXCEPT ![r] = m]
        /\ m.pc = "slice" => m.asked \in Texts /\ (m.kept => Readable(m.asked))
        /\ m.got # "other"
        /\ m.pc \in {"ok", "not_found"} /\ m.kept => m.got = "exact"
    <2>1. CASE Ask(r)
        <3>1. PICK t \in Texts : reader' = [reader EXCEPT ![r] =
                [pc |-> IF Readable(t) THEN "slice" ELSE "not_found", asked |-> t,
                 got |-> "nothing", kept |-> t \in promised]]
            BY <2>1 DEF Ask
        <3>2. t \in promised => Readable(t)
            BY DEF All, IInv, HandedOutIsThere
        <3>3. PICK kept \in BOOLEAN, pc \in {"slice", "not_found"} :
                /\ kept => pc = "slice"
                /\ pc = "slice" => Readable(t)
                /\ reader' = [reader EXCEPT ![r] =
                     [pc |-> pc, asked |-> t, got |-> "nothing", kept |-> kept]]
            <4>1. (t \in promised) \in BOOLEAN
                OBVIOUS
            <4> QED BY <3>1, <3>2, <4>1, Zenon
        <3> DEFINE m == [pc |-> pc, asked |-> t, got |-> "nothing", kept |-> kept]
        <3>4. m \in Reading /\ m.pc = pc /\ m.asked = t /\ m.got = "nothing" /\ m.kept = kept
            BY DEF Reading
        <3> HIDE DEF m
        <3> QED BY <3>3, <3>4 DEF m
    <2>2. CASE Slice(r)
        <3> DEFINE got == IF ~Readable(reader[r].asked) THEN "nothing"
                          ELSE IF originals[reader[r].asked].whole THEN "exact" ELSE "other"
                   m == [reader[r] EXCEPT !.pc = "ok", !.got = got]
        <3>1. got \in {"nothing", "exact"} /\ (reader[r].kept => got = "exact")
            BY <2>2 DEF Slice, All, IInv, Sure, Readable
        <3>2. reader' = [reader EXCEPT ![r] = m]
            BY <2>2 DEF Slice, All, Shapes, Reading
        <3> HIDE DEF got
        <3>3. m \in Reading /\ m.pc = "ok" /\ m.got = got /\ m.kept = reader[r].kept
            BY <3>1 DEF All, Shapes, Reading
        <3> HIDE DEF m
        <3> QED BY <3>1, <3>2, <3>3
    <2>3. CASE Leave(r)
        <3> DEFINE m == [pc |-> "idle", asked |-> None, got |-> "nothing", kept |-> FALSE]
        <3>1. m \in Reading /\ m.pc = "idle" /\ m.got = "nothing"
            BY DEF Reading
        <3>2. reader' = [reader EXCEPT ![r] = m]
            BY <2>3 DEF Leave
        <3> HIDE DEF m
        <3> QED BY <3>1, <3>2
    <2> QED BY <2>1, <2>2, <2>3
<1>3. Shapes'
    BY <1>1, <1>2 DEF All, Shapes, IsACall
<1>4. RetrieveIsExact' /\ \A q \in Readers : Sure(q)'
    BY <1>1, <1>2 DEF All, Shapes, IInv, RetrieveIsExact, Sure, Readable
<1> QED BY <1>1, <1>3, <1>4 DEF All, IInv, HandedOutIsThere, Safe, Readable

\* What is removed or damaged is promised no more.
LEMMA DisturbStep ==
    ASSUME All, NEW t \in Texts, Disturb(t),
           originals' \in [Texts -> Files \cup {None}],
           \A s \in Texts : s # t => originals'[s] = originals[s],
           prune' \in Pruning
    PROVE  All'
<1>1. /\ compress' = [p \in Processes |-> compress'[p]]
      /\ \A p \in Processes :
           \/ compress[p].text # t /\ compress'[p] = compress[p]
           \/ compress'[p] = [compress[p] EXCEPT !.undisturbed = FALSE]
    BY DEF Disturb
<1>2. /\ DOMAIN reader' = Readers
      /\ \A r \in Readers :
           \/ reader[r].asked # t /\ reader'[r] = reader[r]
           \/ reader'[r] = [reader[r] EXCEPT !.kept = FALSE]
    BY DEF Disturb
<1>3. ASSUME NEW p \in Processes PROVE IsACall(compress'[p]) /\ Safe(compress[p])'
    <2>1. IsACall(compress[p]) /\ Safe(compress[p])
        BY DEF All, Shapes, IInv
    <2>2. CASE compress[p].text # t /\ compress'[p] = compress[p]
        BY <2>1, <2>2 DEF IsACall, Safe, Readable
    <2>3. CASE compress'[p] = [compress[p] EXCEPT !.undisturbed = FALSE]
        <3>1. IsACall(compress'[p]) /\ compress'[p].undisturbed = FALSE
            BY <2>1, <2>3 DEF IsACall
        <3> QED BY <3>1 DEF Safe
    <2> QED BY <1>1, <2>2, <2>3
<1>4. \A s \in promised' : s \in promised /\ s # t
    BY DEF Disturb
<1>5. /\ reader' \in [Readers -> Reading]
      /\ \A r \in Readers : reader'[r].pc = "slice" => reader'[r].asked \in Texts
    <2>1. reader' = [r \in Readers |-> reader'[r]]
        BY DEF Disturb
    <2>2. ASSUME NEW r \in Readers
          PROVE  reader'[r] \in Reading /\ reader'[r].pc = reader[r].pc
                 /\ reader'[r].asked = reader[r].asked
        <3>1. reader[r] \in Reading
            BY DEF All, Shapes
        <3>2. CASE reader'[r] = reader[r]
            BY <3>1, <3>2
        <3>3. CASE reader'[r] = [reader[r] EXCEPT !.kept = FALSE]
            BY <3>1, <3>3 DEF Reading
        <3> QED BY <1>2, <3>2, <3>3
    <2> QED BY <2>1, <2>2 DEF All, Shapes
<1>6. Shapes'
    BY <1>1, <1>3, <1>4, <1>5 DEF All, Shapes
<1>7. HandedOutIsThere'
    BY <1>4 DEF All, Shapes, IInv, HandedOutIsThere, Readable
<1>8. RetrieveIsExact' /\ \A r \in Readers : Sure(r)'
    <2>1. ASSUME NEW r \in Readers
          PROVE  /\ reader'[r].pc = reader[r].pc /\ reader'[r].got = reader[r].got
                 /\ reader'[r].asked = reader[r].asked
                 /\ reader'[r].kept => reader[r].kept /\ reader[r].asked # t
        <3>1. reader[r] \in Reading
            BY DEF All, Shapes
        <3>2. CASE reader[r].asked # t /\ reader'[r] = reader[r]
            BY <3>2
        <3>3. CASE reader'[r] = [reader[r] EXCEPT !.kept = FALSE]
            BY <3>1, <3>3 DEF Reading
        <3> QED BY <1>2, <3>2, <3>3
    <2>2. \A s \in Texts : s # t /\ Readable(s) => Readable(s)'
        BY DEF Readable
    <2> QED BY <2>1, <2>2 DEF All, Shapes, IInv, RetrieveIsExact, Sure
<1> QED BY <1>3, <1>6, <1>7, <1>8 DEF All, IInv

\* The other steps of the operator change no original.
LEMMA PruneSteps ==
    ASSUME All, PruneList \/ PruneStat \/ PruneSegments \/ UnlinkSegment \/ PruneEnds
    PROVE  All'
<1>1. UNCHANGED <<originals, compress, reader, promised>>
    BY DEF PruneList, PruneStat, PruneSegments, UnlinkSegment, PruneEnds
<1>2. prune' \in Pruning
    <2>1. CASE PruneList \/ PruneEnds
        <3>1. PICK m \in Pruning : prune' = m
            <4>1. CASE PruneList
                BY <4>1 DEF PruneList, Pruning
            <4>2. CASE PruneEnds
                <5>1. [pc |-> "idle", all |-> FALSE, todo |-> {}, found |-> None] \in Pruning
                    BY DEF Pruning
                <5> QED BY <4>2, <5>1 DEF PruneEnds
            <4> QED BY <2>1, <4>1, <4>2
        <3> QED BY <3>1
    <2>2. CASE PruneSegments \/ UnlinkSegment
        <3>1. prune' = prune \/ prune' = [prune EXCEPT !.pc = "segments"]
            BY <2>2 DEF PruneSegments, UnlinkSegment
        <3> QED BY <3>1 DEF All, Shapes, Pruning
    <2>3. CASE PruneStat
        <3>1. PICK t \in prune.todo :
                \/ prune' = [prune EXCEPT !.todo = @ \ {t}, !.found = t]
                \/ prune' = [prune EXCEPT !.todo = @ \ {t}, !.found = None]
            BY <2>3 DEF PruneStat
        <3> QED BY <3>1 DEF All, Shapes, Pruning
    <2> QED BY <2>1, <2>2, <2>3
<1> QED BY <1>1, <1>2 DEF All, Shapes, IInv, HandedOutIsThere, RetrieveIsExact, Safe, Sure,
                          Readable

LEMMA PruneUnlinkStep == All /\ PruneUnlink => All'
<1> SUFFICES ASSUME All, PruneUnlink PROVE All'
    OBVIOUS
<1>1. PICK t \in Texts : t = prune.found
    BY DEF PruneUnlink, All, Shapes, Pruning
<1>2. /\ originals' \in [Texts -> Files \cup {None}]
      /\ \A s \in Texts : s # t => originals'[s] = originals[s]
    BY <1>1 DEF PruneUnlink, All, Shapes
<1>3. prune' \in Pruning
    BY DEF PruneUnlink, All, Shapes, Pruning
<1>4. Disturb(t)
    BY <1>1 DEF PruneUnlink, Disturb
<1> QED BY <1>2, <1>3, <1>4, DisturbStep

LEMMA DamagedStep == ASSUME All, NEW t \in Texts, Damaged(t) PROVE All'
<1>1. originals[t] \in Files
    BY DEF Damaged, All, Shapes
<1>2. [originals[t] EXCEPT !.whole = FALSE] \in Files
    BY <1>1 DEF Files
<1>3. originals' = [originals EXCEPT ![t] = [originals[t] EXCEPT !.whole = FALSE]]
    BY <1>1 DEF Damaged, All, Shapes
<1>4. /\ originals' \in [Texts -> Files \cup {None}]
      /\ \A s \in Texts : s # t => originals'[s] = originals[s]
    BY <1>2, <1>3 DEF All, Shapes
<1>5. Disturb(t) /\ prune' \in Pruning
    BY DEF Damaged, All, Shapes
<1> QED BY <1>4, <1>5, DisturbStep

LEMMA AgesStep == ASSUME All, NEW t \in Texts, Ages(t) PROVE All'
<1> DEFINE file == [originals[t] EXCEPT !.old = TRUE]
<1>1. originals[t] \in Files
    BY DEF Ages, All, Shapes
<1>2. file \in Files /\ file.whole = originals[t].whole
    BY <1>1 DEF Files
<1>3. originals' = [originals EXCEPT ![t] = file]
    BY <1>1 DEF Ages, All, Shapes
<1> HIDE DEF file
<1>4. /\ originals' \in [Texts -> Files \cup {None}]
      /\ originals'[t] = file
      /\ \A s \in Texts : s # t => originals'[s] = originals[s]
    BY <1>2, <1>3 DEF All, Shapes
<1>5. \A s \in Texts : Readable(s) => Readable(s)'
    <2> TAKE s \in Texts
    <2>1. CASE s = t
        BY <1>2, <1>4, <2>1, NoneIsNoFile DEF Readable
    <2>2. CASE s # t
        BY <1>4, <2>2 DEF Readable
    <2> QED BY <2>1, <2>2
<1> QED BY <1>4, <1>5, StaysAll DEF Ages

LEMMA AllStep == All /\ [Next]_vars => All'
<1> SUFFICES ASSUME All, [Next]_vars PROVE All'
    OBVIOUS
<1>1. CASE Next
    BY <1>1, CallSteps, PutStep, AnswerStep, ReaderSteps, PruneSteps, PruneUnlinkStep,
       DamagedStep, AgesStep DEF Next
<1>2. CASE UNCHANGED vars
    <2>1. \A s \in Texts : Readable(s) => Readable(s)'
        BY <1>2 DEF vars, Readable
    <2> QED BY <1>2, <2>1, StaysAll DEF vars, All, Shapes
<1> QED BY <1>1, <1>2

\* Whoever compresses, retrieves and prunes at the same time, and wherever each of
\* them breaks off, a digest that was handed out can be read until its original is
\* pruned or damaged (store.put_original and get_original).
THEOREM HandedOutTheorem == Spec => []HandedOutIsThere
<1>1. All => HandedOutIsThere
    BY DEF All, IInv
<1> QED BY <1>1, AllStart, AllStep, PTL DEF Spec

\* What optical_retrieve gives is the text itself, and it is given when it was
\* promised (the reads of server.optical_retrieve, verified by get_original).
THEOREM RetrieveTheorem == Spec => []RetrieveIsExact
<1>1. All => RetrieveIsExact
    BY DEF All, IInv
<1> QED BY <1>1, AllStart, AllStep, PTL DEF Spec

-----------------------------------------------------------------------------
(* Types. *)

Places == {"idle", "page", "draw", "store", "put", "answer", "answered"}

Placed(c) == c.pc \in Places /\ c.text \in Texts \cup {None}

Counted ==
    /\ calls \in 0 .. MaxCalls /\ prunes \in 0 .. MaxPrunes /\ damages \in 0 .. MaxDamage
    /\ \A p \in Processes : Placed(compress[p])

LEMMA CountedStart == Init => Counted
BY OpticalAssumption DEF Init, Counted, Placed, Places, Idle

\* Whatever a process does to its own call, it stays at a place.
LEMMA PlacedCall ==
    ASSUME All, Counted, NEW p \in Processes,
           \/ Begin(p) \/ LookUpSegment(p) \/ Draw(p) \/ StoreSegment(p)
           \/ LookUpOriginal(p) \/ PutOriginal(p) \/ Answer(p) \/ Breaks(p) \/ Return(p)
    PROVE  \A q \in Processes : Placed(compress'[q])
<1> DEFINE b == compress[p]
<1>1. IsACall(b) /\ Placed(b) /\ Placed(Idle) /\ DOMAIN compress = Processes
    BY DEF All, Shapes, Counted, Placed, Places, Idle
<1>2. ASSUME NEW c, compress' = [compress EXCEPT ![p] = c], Placed(c)
      PROVE  \A q \in Processes : Placed(compress'[q])
    BY <1>1, <1>2 DEF Counted
<1>3. CASE Begin(p)
    <2>1. CASE UNCHANGED compress
        BY <2>1 DEF Counted
    <2>2. CASE compress' # compress
        <3>1. PICK t \in Texts : \E d, tier :
                compress' = [compress EXCEPT ![p] =
                  [Idle EXCEPT !.pc = "page", !.text = t, !.density = d, !.tier = tier]]
            BY <1>3, <2>2 DEF Begin
        <3>2. PICK d, tier :
                compress' = [compress EXCEPT ![p] =
                  [Idle EXCEPT !.pc = "page", !.text = t, !.density = d, !.tier = tier]]
            BY <3>1
        <3> DEFINE c == [Idle EXCEPT !.pc = "page", !.text = t, !.density = d, !.tier = tier]
        <3>3. Placed(c)
            BY DEF Placed, Places, Idle
        <3> QED BY <1>2, <3>2, <3>3
    <2> QED BY <2>1, <2>2
<1>4. ASSUME NEW pc \in Places, Goto(p, pc) PROVE \A q \in Processes : Placed(compress'[q])
    <2> DEFINE c == [b EXCEPT !.pc = pc]
    <2>1. Placed(c)
        BY <1>1, <1>4 DEF IsACall, Placed
    <2>2. compress' = [compress EXCEPT ![p] = c]
        BY <1>4 DEF Goto
    <2> QED BY <1>2, <2>1, <2>2
<1>5. ASSUME NEW picture, NEW pc \in Places, AddPage(p, picture, pc)
      PROVE  \A q \in Processes : Placed(compress'[q])
    <2> DEFINE c == [b EXCEPT !.pages = Append(@, picture), !.pc = pc]
    <2>1. Placed(c)
        BY <1>1, <1>5 DEF IsACall, Placed
    <2>2. compress' = [compress EXCEPT ![p] = c]
        BY <1>1, <1>5 DEF AddPage, IsACall
    <2> QED BY <1>2, <2>1, <2>2
<1>6. ASSUME GiveUp(p) PROVE \A q \in Processes : Placed(compress'[q])
    BY <1>1, <1>2, <1>6 DEF GiveUp
<1>7. CASE LookUpSegment(p)
    BY <1>4, <1>5, <1>7 DEF LookUpSegment, Places
<1>8. CASE Draw(p)
    BY <1>5, <1>8 DEF Draw, Places
<1>9. CASE StoreSegment(p) \/ PutOriginal(p)
    BY <1>4, <1>9 DEF StoreSegment, PutOriginal, Places
<1>10. CASE LookUpOriginal(p)
    BY <1>4, <1>10 DEF LookUpOriginal, Places
<1>11. CASE Answer(p)
    BY <1>4, <1>6, <1>11 DEF Answer, Places
<1>12. CASE Breaks(p) \/ Return(p)
    BY <1>6, <1>12 DEF Breaks, Return
<1> QED BY <1>3, <1>7, <1>8, <1>9, <1>10, <1>11, <1>12

LEMMA CountedStep == All /\ Counted /\ [Next]_vars => Counted'
<1> SUFFICES ASSUME All, Counted, [Next]_vars PROVE Counted'
    OBVIOUS
<1> DEFINE Numbered == /\ calls \in 0 .. MaxCalls /\ prunes \in 0 .. MaxPrunes
                       /\ damages \in 0 .. MaxDamage
<1>1. Numbered /\ MaxCalls \in Nat /\ MaxPrunes \in Nat /\ MaxDamage \in Nat
    BY OpticalAssumption DEF Counted
<1>2. ASSUME NEW p \in Processes,
             \/ Begin(p) \/ LookUpSegment(p) \/ Draw(p) \/ StoreSegment(p)
             \/ LookUpOriginal(p) \/ PutOriginal(p) \/ Answer(p) \/ Breaks(p) \/ Return(p)
      PROVE  Counted'
    <2>1. Numbered'
        <3>1. CASE Begin(p)
            BY <1>1, <3>1 DEF Begin
        <3>2. CASE ~Begin(p)
            BY <1>1, <1>2, <3>2
               DEF LookUpSegment, Draw, StoreSegment, LookUpOriginal, PutOriginal, Answer,
                   Breaks, Return, Bounds
        <3> QED BY <3>1, <3>2
    <2> QED BY <1>2, <2>1, PlacedCall DEF Counted
<1>3. ASSUME NEW t, Disturb(t) PROVE \A p \in Processes : Placed(compress'[p])
    <2> SUFFICES ASSUME NEW p \in Processes PROVE Placed(compress'[p])
        OBVIOUS
    <2>1. compress'[p] \in {compress[p], [compress[p] EXCEPT !.undisturbed = FALSE]}
        BY <1>3 DEF Disturb
    <2>2. IsACall(compress[p]) /\ Placed(compress[p])
        BY DEF All, Shapes, Counted
    <2> QED BY <2>1, <2>2 DEF IsACall, Placed
<1>4. CASE PruneUnlink
    BY <1>1, <1>3, <1>4 DEF PruneUnlink, Bounds, Counted
<1>5. ASSUME NEW t \in Texts, Damaged(t) PROVE Counted'
    BY <1>1, <1>3, <1>5 DEF Damaged, Counted
<1>6. CASE PruneList
    BY <1>1, <1>6 DEF PruneList, Counted
<1>7. CASE \/ \E r \in Readers : Ask(r) \/ Slice(r) \/ Leave(r)
           \/ PruneStat \/ PruneSegments \/ UnlinkSegment \/ PruneEnds
           \/ \E t \in Texts : Ages(t)
    BY <1>7 DEF Ask, Slice, Leave, PruneStat, PruneSegments, UnlinkSegment, PruneEnds, Ages,
                Bounds, Counted
<1>8. CASE UNCHANGED vars
    BY <1>8 DEF vars, Counted
<1> QED BY <1>2, <1>4, <1>5, <1>6, <1>7, <1>8 DEF Next

\* Every reachable state is well-typed, and no process is at a place its code does
\* not have (pipeline.compress, store.prune).
THEOREM OpticalTypes == Spec => []TypeOK
<1>1. All /\ Counted => TypeOK
    BY DEF All, Shapes, Counted, Placed, Places, IsACall, TypeOK, Reading, Pruning
<1> QED BY <1>1, AllStart, AllStep, CountedStart, CountedStep, PTL DEF Spec

-----------------------------------------------------------------------------
(* Arithmetic.  The least number of a set stands for induction: the sums of    *)
(* Total and the shrinking of FitToTier are functions that call themselves.    *)

\* A set of numbers has a least one.
LEMMA LeastOne ==
    ASSUME NEW T \in SUBSET Nat, T # {}
    PROVE  \E r \in T : \A k \in 0 .. r - 1 : k \notin T
<1>1. PICK r \in T : \A k \in T : ~(<<k, r>> \in OpToRel(<, Nat))
    BY NatLessThanWellFounded, WFMin
<1>2. \A k \in T : ~(k < r)
    BY <1>1 DEF OpToRel
<1> QED BY <1>2

\* g adds up the numbers at the places of every set of at most n of the places P.
AddsUp(g, s, numbers) == IF s = {} THEN 0
                       ELSE LET x == CHOOSE x \in s : TRUE IN numbers[x] + g[s \ {x}]

Small(P, n) == {s \in SUBSET P : Cardinality(s) <= n}

Adds(g, P, n, numbers) == g = [s \in Small(P, n) |-> AddsUp(g, s, numbers)]

\* What AddsUp looks up is one smaller.
LEMMA Smalls ==
    ASSUME NEW P, IsFiniteSet(P), NEW n \in Nat, NEW s \in Small(P, n + 1), s # {}
    PROVE  s \ {CHOOSE x \in s : TRUE} \in Small(P, n)
<1> DEFINE x == CHOOSE x \in s : TRUE
<1>1. x \in s /\ s \subseteq P /\ Cardinality(s) <= n + 1
    BY DEF Small
<1>2. IsFiniteSet(s)
    BY <1>1, FS_Subset
<1>3. Cardinality(s \ {x}) = Cardinality(s) - 1 /\ Cardinality(s) \in Nat
    BY <1>1, <1>2, FS_RemoveElement, FS_CardinalityType
<1> QED BY <1>1, <1>3 DEF Small

\* There is such a g for every n; otherwise there is none for a least n.
LEMMA AddsExist ==
    ASSUME NEW P, IsFiniteSet(P), NEW numbers
    PROVE  \A n \in Nat : \E g : Adds(g, P, n, numbers)
<1> DEFINE T == {n \in Nat : ~\E g : Adds(g, P, n, numbers)}
<1> SUFFICES ASSUME T # {} PROVE FALSE
    OBVIOUS
<1>1. T \in SUBSET Nat
    OBVIOUS
<1>2. PICK r \in T : \A k \in 0 .. r - 1 : k \notin T
    BY <1>1, LeastOne
<1>3. r \in Nat /\ ~\E g : Adds(g, P, r, numbers)
    OBVIOUS
<1>4. CASE r = 0
    <2> DEFINE g == [s \in Small(P, 0) |-> 0]
    <2>1. \A s \in Small(P, 0) : s = {}
        <3> SUFFICES ASSUME NEW s \in Small(P, 0) PROVE s = {}
            OBVIOUS
        <3>1. s \subseteq P /\ IsFiniteSet(s) /\ Cardinality(s) <= 0
            BY FS_Subset DEF Small
        <3>2. Cardinality(s) \in Nat
            BY <3>1, FS_CardinalityType
        <3> QED BY <3>1, <3>2, FS_EmptySet
    <2>2. Adds(g, P, 0, numbers)
        BY <2>1 DEF Adds, AddsUp
    <2> QED BY <1>3, <1>4, <2>2
<1>5. CASE r > 0
    <2>1. r - 1 \in Nat /\ r - 1 \in 0 .. r - 1 /\ (r - 1) + 1 = r
        BY <1>3, <1>5
    <2>2. PICK h : Adds(h, P, r - 1, numbers)
        BY <1>2, <2>1
    <2> DEFINE g == [s \in Small(P, r) |-> AddsUp(h, s, numbers)]
    <2>3. \A s \in Small(P, r) : s # {} => s \ {CHOOSE x \in s : TRUE} \in Small(P, r - 1)
        BY <2>1, Smalls
    <2>4. \A s \in Small(P, r - 1) : s \in Small(P, r) /\ g[s] = h[s]
        <3> SUFFICES ASSUME NEW s \in Small(P, r - 1) PROVE s \in Small(P, r) /\ g[s] = h[s]
            OBVIOUS
        <3>1. s \in Small(P, r)
            <4>1. IsFiniteSet(s)
                BY FS_Subset DEF Small
            <4> QED BY <1>3, <4>1, FS_CardinalityType DEF Small
        <3>2. h[s] = AddsUp(h, s, numbers)
            BY <2>2 DEF Adds
        <3> QED BY <3>1, <3>2
    <2>5. \A s \in Small(P, r) : g[s] = AddsUp(g, s, numbers)
        <3> SUFFICES ASSUME NEW s \in Small(P, r)
                     PROVE  AddsUp(h, s, numbers) = AddsUp(g, s, numbers)
            OBVIOUS
        <3> HIDE DEF g
        <3> QED BY <2>3, <2>4 DEF AddsUp
    <2>6. Adds(g, P, r, numbers)
        BY <2>5 DEF Adds
    <2> QED BY <1>3, <2>6
<1> QED BY <1>3, <1>4, <1>5

\* So the function that FoldSeq chooses exists, and it adds up.
LEMMA TotalAdds ==
    ASSUME NEW numbers, IsFiniteSet(DOMAIN numbers)
    PROVE  \E g : /\ g = [s \in SUBSET DOMAIN numbers |-> AddsUp(g, s, numbers)]
                  /\ Total(numbers) = g[DOMAIN numbers]
<1> DEFINE P == DOMAIN numbers
           g == CHOOSE g : g = [s \in SUBSET P |-> AddsUp(g, s, numbers)]
<1>1. Total(numbers) = g[P]
    BY DEF Total, FoldSeq, FoldFunction, FoldFunctionOnSet, MapThenFoldSet, AddsUp
<1>2. Small(P, Cardinality(P)) = SUBSET P /\ Cardinality(P) \in Nat
    BY FS_Subset, FS_CardinalityType DEF Small
<1>3. \E h : h = [s \in SUBSET P |-> AddsUp(h, s, numbers)]
    <2>1. PICK h : Adds(h, P, Cardinality(P), numbers)
        BY <1>2, AddsExist
    <2> QED BY <1>2, <2>1 DEF Adds
<1>4. g = [s \in SUBSET P |-> AddsUp(g, s, numbers)]
    BY <1>3
<1> QED BY <1>1, <1>4

\* A sum of natural numbers is one, and no more than as many times their bound.
LEMMA TotalBound ==
    ASSUME NEW numbers, IsFiniteSet(DOMAIN numbers), \A x \in DOMAIN numbers : numbers[x] \in Nat
    PROVE  /\ Total(numbers) \in Nat
           /\ \A b \in Nat : (\A x \in DOMAIN numbers : numbers[x] <= b) =>
                  Total(numbers) <= Cardinality(DOMAIN numbers) * b
<1> DEFINE P == DOMAIN numbers
<1>1. PICK g : /\ g = [s \in SUBSET P |-> AddsUp(g, s, numbers)]
               /\ Total(numbers) = g[P]
    BY TotalAdds
<1> DEFINE Fine(s) ==
        /\ g[s] \in Nat
        /\ \A b \in Nat : (\A x \in P : numbers[x] <= b) => g[s] <= Cardinality(s) * b
<1> SUFFICES ASSUME ~Fine(P) PROVE FALSE
    BY <1>1
<1> DEFINE T == {n \in Nat : \E s \in SUBSET P : Cardinality(s) = n /\ ~Fine(s)}
<1>2. \A s \in SUBSET P : IsFiniteSet(s) /\ Cardinality(s) \in Nat
    BY FS_Subset, FS_CardinalityType
<1>3. T \in SUBSET Nat /\ T # {}
    BY <1>2
<1>4. PICK r \in T : \A k \in 0 .. r - 1 : k \notin T
    BY <1>3, LeastOne
<1>5. PICK s \in SUBSET P : Cardinality(s) = r /\ ~Fine(s)
    BY <1>4
<1>6. g[s] = AddsUp(g, s, numbers)
    BY <1>1
<1>7. s # {}
    <2> SUFFICES ASSUME s = {} PROVE Fine(s)
        BY <1>5
    <2>1. g[s] = 0 /\ Cardinality(s) = 0
        BY <1>6, FS_EmptySet DEF AddsUp
    <2> QED BY <2>1
<1>8. PICK x \in s : g[s] = numbers[x] + g[s \ {x}]
    BY <1>6, <1>7 DEF AddsUp
<1>9. s \ {x} \in SUBSET P /\ Cardinality(s \ {x}) = r - 1 /\ r - 1 \in Nat /\ r - 1 \in 0 .. r - 1
    <2>1. Cardinality(s \ {x}) = Cardinality(s) - 1
        BY <1>2, <1>8, FS_RemoveElement
    <2>2. s \ {x} \in SUBSET P
        OBVIOUS
    <2>3. r - 1 \in Nat
        BY <1>2, <1>5, <2>1, <2>2
    <2> QED BY <1>5, <2>1, <2>2, <2>3
<1>10. Fine(s \ {x})
    BY <1>4, <1>9
<1>11. x \in P /\ numbers[x] \in Nat /\ r \in Nat
    BY <1>9
<1>12. g[s] \in Nat
    BY <1>8, <1>10, <1>11
<1>13. ASSUME NEW b \in Nat, \A y \in P : numbers[y] <= b PROVE g[s] <= r * b
    <2>1. g[s \ {x}] <= (r - 1) * b /\ numbers[x] <= b
        BY <1>9, <1>10, <1>11, <1>13
    <2>2. (r - 1) * b + b = r * b
        BY <1>11
    <2> QED BY <1>8, <1>10, <1>11, <2>1, <2>2
<1> QED BY <1>5, <1>12, <1>13

\* One step of the vendor's shrinking, and where it ends by g.
Shrinks(s, tier) == Patches(s[1], s[2]) > TIERS[tier].max_tokens /\ Min({s[1], s[2]}) > 1
Shrunk(s) == <<Max({1, (s[1] * 98) \div 100}), Max({1, (s[2] * 98) \div 100})>>
Ends(g, s, tier) == IF Shrinks(s, tier) THEN g[Shrunk(s)] ELSE s

Sizes(n) == {s \in Nat \X Nat : s[1] + s[2] <= n}
Fits(g, n, tier) == g = [s \in Sizes(n) |-> Ends(g, s, tier)]

\* The larger and the smaller of two numbers.
LEMMA OfTwo ==
    ASSUME NEW a \in Int, NEW b \in Int
    PROVE  /\ Max({a, b}) = IF a <= b THEN b ELSE a
           /\ Min({a, b}) = IF a <= b THEN a ELSE b
BY DEF Max, Min

\* Each step of the shrinking makes the sides shorter.
LEMMA ShrunkLess ==
    ASSUME NEW s \in Nat \X Nat, NEW tier, Shrinks(s, tier)
    PROVE  Shrunk(s) \in Nat \X Nat /\ Shrunk(s)[1] + Shrunk(s)[2] < s[1] + s[2]
<1>1. PICK a \in Nat, b \in Nat : s = <<a, b>>
    OBVIOUS
<1>2. a > 1 /\ b > 1
    <2>1. Min({a, b}) > 1
        BY <1>1 DEF Shrinks
    <2>2. Min({a, b}) = IF a <= b THEN a ELSE b
        <3>1. a \in Int /\ b \in Int
            OBVIOUS
        <3> QED BY <3>1, OfTwo
    <2> QED BY <2>1, <2>2
<1>3. \A k \in Nat : k > 1 => /\ (k * 98) \div 100 \in Nat /\ (k * 98) \div 100 < k
                              /\ Max({1, (k * 98) \div 100}) \in Nat
                              /\ Max({1, (k * 98) \div 100}) < k
    <2> SUFFICES ASSUME NEW k \in Nat, k > 1
                 PROVE  /\ (k * 98) \div 100 \in Nat /\ (k * 98) \div 100 < k
                        /\ Max({1, (k * 98) \div 100}) \in Nat
                        /\ Max({1, (k * 98) \div 100}) < k
        OBVIOUS
    <2>1. (k * 98) \div 100 \in Nat /\ (k * 98) \div 100 < k
        OBVIOUS
    <2> QED BY <2>1, OfTwo
<1>4. Shrunk(s) = <<Max({1, (a * 98) \div 100}), Max({1, (b * 98) \div 100})>>
    BY <1>1 DEF Shrunk
<1> QED BY <1>1, <1>2, <1>3, <1>4

\* There is a function that says where the shrinking ends, for every size.
LEMMA FitsExist ==
    ASSUME NEW tier
    PROVE  \A n \in Nat : \E g : Fits(g, n, tier)
<1> DEFINE T == {n \in Nat : ~\E g : Fits(g, n, tier)}
<1> SUFFICES ASSUME T # {} PROVE FALSE
    OBVIOUS
<1>1. T \in SUBSET Nat
    OBVIOUS
<1>2. PICK r \in T : \A k \in 0 .. r - 1 : k \notin T
    BY <1>1, LeastOne
<1>3. r \in Nat /\ ~\E g : Fits(g, r, tier)
    OBVIOUS
<1>4. \A s \in Sizes(r) : Shrinks(s, tier) => Shrunk(s) \in Sizes(r - 1) /\ r - 1 \in Nat
    <2> SUFFICES ASSUME NEW s \in Sizes(r), Shrinks(s, tier)
                 PROVE  Shrunk(s) \in Sizes(r - 1) /\ r - 1 \in Nat
        OBVIOUS
    <2>1. s \in Nat \X Nat /\ s[1] + s[2] <= r
        BY DEF Sizes
    <2>2. Shrunk(s) \in Nat \X Nat /\ Shrunk(s)[1] + Shrunk(s)[2] < s[1] + s[2]
        BY <2>1, ShrunkLess
    <2>3. PICK a \in Nat, b \in Nat, c \in Nat, d \in Nat : s = <<a, b>> /\ Shrunk(s) = <<c, d>>
        BY <2>1, <2>2
    <2> QED BY <1>3, <2>1, <2>2, <2>3 DEF Sizes
<1>5. PICK h : r = 0 \/ Fits(h, r - 1, tier)
    <2>1. CASE r > 0
        <3>1. r - 1 \in Nat /\ r - 1 \in 0 .. r - 1
            BY <1>3, <2>1
        <3> QED BY <1>2, <3>1
    <2> QED BY <1>3, <2>1
<1> DEFINE g == [s \in Sizes(r) |-> Ends(h, s, tier)]
<1>6. ASSUME NEW s \in Sizes(r), Shrinks(s, tier) PROVE g[Shrunk(s)] = h[Shrunk(s)]
    <2>1. Shrunk(s) \in Sizes(r - 1) /\ r - 1 \in Nat
        BY <1>4, <1>6
    <2>2. Shrunk(s) \in Sizes(r)
        <3>1. PICK c \in Nat, d \in Nat : Shrunk(s) = <<c, d>>
            BY <2>1 DEF Sizes
        <3> QED BY <1>3, <2>1, <3>1 DEF Sizes
    <2>3. h[Shrunk(s)] = Ends(h, Shrunk(s), tier)
        BY <1>3, <1>5, <2>1 DEF Fits
    <2> QED BY <2>2, <2>3
<1>7. \A s \in Sizes(r) : Ends(h, s, tier) = Ends(g, s, tier)
    <2> HIDE DEF g
    <2> QED BY <1>6 DEF Ends
<1>8. Fits(g, r, tier)
    BY <1>7 DEF Fits
<1> QED BY <1>3, <1>8

\* Whichever of them is asked, the end is the same.
LEMMA FitsAgree ==
    ASSUME NEW tier, NEW n \in Nat, NEW m \in Nat, NEW g, NEW h,
           Fits(g, n, tier), Fits(h, m, tier)
    PROVE  \A s \in Sizes(n) \cap Sizes(m) : g[s] = h[s]
<1> DEFINE T == {k \in Nat : \E s \in Sizes(n) \cap Sizes(m) : s[1] + s[2] = k /\ g[s] # h[s]}
<1> SUFFICES ASSUME NEW s \in Sizes(n) \cap Sizes(m), g[s] # h[s] PROVE FALSE
    OBVIOUS
<1>1. T \in SUBSET Nat /\ T # {}
    BY DEF Sizes
<1>2. PICK r \in T : \A k \in 0 .. r - 1 : k \notin T
    BY <1>1, LeastOne
<1>3. PICK t \in Sizes(n) \cap Sizes(m) : t[1] + t[2] = r /\ g[t] # h[t]
    BY <1>2
<1>4. g[t] = Ends(g, t, tier) /\ h[t] = Ends(h, t, tier)
    BY <1>3 DEF Fits
<1>5. Shrinks(t, tier) /\ g[Shrunk(t)] # h[Shrunk(t)]
    BY <1>3, <1>4 DEF Ends
<1>6. PICK a \in Nat, b \in Nat, c \in Nat, d \in Nat : t = <<a, b>> /\ Shrunk(t) = <<c, d>>
    BY <1>3, <1>5, ShrunkLess DEF Sizes
<1>7. c + d < r /\ a + b = r /\ a + b <= n /\ a + b <= m
    BY <1>3, <1>5, <1>6, ShrunkLess DEF Sizes
<1>8. Shrunk(t) \in Sizes(n) \cap Sizes(m) /\ c + d \in 0 .. r - 1
    BY <1>6, <1>7 DEF Sizes
<1>9. c + d \in T
    BY <1>5, <1>6, <1>8
<1> QED BY <1>2, <1>8, <1>9

\* What FitToTier says of every size, and of one that fits.
LEMMA FitKeeps ==
    ASSUME NEW w \in Nat, NEW h \in Nat, NEW tier \in DOMAIN TIERS, FitsTier(w, h, tier)
    PROVE  FitToTier(w, h, tier) = <<w, h>>
<1> DEFINE step == CHOOSE g : g = [s \in Nat \X Nat |-> Ends(g, s, tier)]
<1>1. \E g : g = [s \in Nat \X Nat |-> Ends(g, s, tier)]
    <2> DEFINE Upto(n) == CHOOSE g : Fits(g, n, tier)
               g == [s \in Nat \X Nat |-> Upto(s[1] + s[2])[s]]
    <2>1. \A n \in Nat : Fits(Upto(n), n, tier)
        BY FitsExist
    <2> HIDE DEF Upto
    <2>2. ASSUME NEW s \in Nat \X Nat PROVE g[s] = Ends(g, s, tier)
        <3>1. PICK n \in Nat : n = s[1] + s[2] /\ s \in Sizes(n)
            BY DEF Sizes
        <3>2. g[s] = Ends(Upto(n), s, tier)
            BY <2>1, <3>1 DEF Fits
        <3>3. ASSUME Shrinks(s, tier) PROVE Upto(n)[Shrunk(s)] = g[Shrunk(s)]
            <4>1. PICK a \in Nat, b \in Nat : Shrunk(s) = <<a, b>> /\ a + b < n
                BY <3>1, <3>3, ShrunkLess
            <4>2. Shrunk(s) \in Sizes(n) \cap Sizes(a + b) /\ a + b \in Nat
                BY <3>1, <4>1 DEF Sizes
            <4>3. Upto(n)[Shrunk(s)] = Upto(a + b)[Shrunk(s)]
                BY <2>1, <3>1, <4>2, FitsAgree
            <4> QED BY <4>1, <4>3
        <3> HIDE DEF g
        <3> QED BY <3>2, <3>3 DEF Ends
    <2> HIDE DEF g
    <2>3. g = [s \in Nat \X Nat |-> g[s]]
        BY DEF g
    <2> QED BY <2>2, <2>3
<1>2. step = [s \in Nat \X Nat |-> Ends(step, s, tier)]
    BY <1>1
<1>3. FitToTier(w, h, tier) =
        step[<<ToEdge(w, Max({w, h}), TIERS[tier].max_edge),
               ToEdge(h, Max({w, h}), TIERS[tier].max_edge)>>]
    BY DEF FitToTier, Ends, Shrinks, Shrunk
<1> HIDE DEF step
<1>4. FitToTier(w, h, tier) = step[<<w, h>>]
    BY <1>3 DEF FitsTier, ToEdge
<1>5. step[<<w, h>>] = Ends(step, <<w, h>>, tier)
    BY <1>2
<1>6. ~Shrinks(<<w, h>>, tier)
    <2>1. TIERS[tier].max_tokens \in Nat /\ Patches(w, h) <= TIERS[tier].max_tokens
        BY PagesAssumption DEF FitsTier
    <2>2. CLAUDE_PATCH \in Nat \ {0}
        BY PagesAssumption
    <2>3. Patches(w, h) \in Int
        BY <2>2 DEF Patches, CeilDiv
    <2> QED BY <2>1, <2>3 DEF Shrinks
<1> QED BY <1>4, <1>5, <1>6 DEF Ends

\* The whole part of a square root, as PageBox takes it.
LEMMA Root ==
    ASSUME NEW n \in Nat
    PROVE  \E r \in 0 .. n : r * r <= n /\ n < (r + 1) * (r + 1)
<1> DEFINE T == {r \in Nat : n < (r + 1) * (r + 1)}
<1>1. n < (n + 1) * (n + 1)
    OBVIOUS
<1>2. n \in T /\ T \subseteq Nat
    BY <1>1
<1> HIDE DEF T
<1>3. PICK r \in T : \A k \in 0 .. r - 1 : k \notin T
    BY <1>2, LeastOne
<1>5. r \in Nat /\ n < (r + 1) * (r + 1)
    BY <1>3 DEF T
<1>6. r * r <= n
    <2>1. CASE r = 0
        BY <2>1
    <2>2. CASE r > 0
        <3>1. r - 1 \in Nat /\ r - 1 \in 0 .. r - 1 /\ (r - 1) + 1 = r
            BY <1>5, <2>2
        <3>2. r - 1 \notin T
            BY <1>3, <3>1
        <3> QED BY <1>5, <3>1, <3>2 DEF T
    <2> QED BY <1>5, <2>1, <2>2
<1>7. r <= n
    BY <1>5, <1>6
<1> QED BY <1>5, <1>6, <1>7

LEMMA DivBounds ==
    ASSUME NEW a \in Int, NEW b \in Nat \ {0}
    PROVE  (a \div b) * b <= a /\ a < (a \div b) * b + b /\ a \div b \in Int
OBVIOUS

LEMMA CeilBounds ==
    ASSUME NEW a \in Int, NEW b \in Nat \ {0}
    PROVE  a <= CeilDiv(a, b) * b /\ CeilDiv(a, b) * b < a + b /\ CeilDiv(a, b) \in Int
BY DivBounds DEF CeilDiv

\* CeilDiv is the least number of pieces that is enough.
LEMMA CeilLeast ==
    ASSUME NEW a \in Int, NEW b \in Nat \ {0}, NEW k \in Int
    PROVE  CeilDiv(a, b) <= k <=> a <= k * b
<1>1. PICK c \in Int : c = CeilDiv(a, b) /\ a <= c * b /\ c * b < a + b
    BY CeilBounds
<1>2. c <= k => a <= k * b
    <2> SUFFICES ASSUME c <= k PROVE c * b <= k * b
        BY <1>1
    <2> QED OBVIOUS
<1>3. a <= k * b => c <= k
    <2> SUFFICES ASSUME a <= k * b, k + 1 <= c PROVE FALSE
        BY <1>1
    <2>1. (k + 1) * b <= c * b /\ (k + 1) * b = k * b + b
        OBVIOUS
    <2> QED BY <1>1, <2>1
<1> QED BY <1>1, <1>2, <1>3

LEMMA CeilGrows ==
    ASSUME NEW a \in Int, NEW c \in Int, a <= c, NEW b \in Nat \ {0}
    PROVE  CeilDiv(a, b) <= CeilDiv(c, b)
<1>1. PICK k \in Int : k = CeilDiv(c, b) /\ c <= k * b
    BY CeilBounds
<1>2. a <= k * b
    BY <1>1
<1> QED BY <1>1, <1>2, CeilLeast

LEMMA Larger ==
    ASSUME NEW a \in Int, NEW b \in Int, NEW c \in Nat, a <= b
    PROVE  a * c <= b * c
OBVIOUS

LEMMA TimesGrows ==
    ASSUME NEW a \in Nat, NEW b \in Nat, NEW c \in Int, NEW d \in Int, a <= c, b <= d
    PROVE  a * b <= c * d
<1>1. a * b <= c * b /\ c * b <= c * d
    OBVIOUS
<1> QED BY <1>1

\* A larger image has no fewer patches.
LEMMA PatchesGrow ==
    ASSUME NEW a \in Nat, NEW b \in Nat, NEW c \in Int, NEW d \in Int, a <= c, b <= d
    PROVE  Patches(a, b) \in Nat /\ Patches(c, d) \in Nat /\ Patches(a, b) <= Patches(c, d)
<1>1. CLAUDE_PATCH \in Nat \ {0}
    BY PagesAssumption
<1>2. PICK p \in Int, q \in Int, r \in Int, s \in Int :
        /\ p = CeilDiv(a, CLAUDE_PATCH) /\ q = CeilDiv(b, CLAUDE_PATCH)
        /\ r = CeilDiv(c, CLAUDE_PATCH) /\ s = CeilDiv(d, CLAUDE_PATCH)
    <2>1. \A k \in Int : CeilDiv(k, CLAUDE_PATCH) \in Int
        BY <1>1, CeilBounds
    <2> QED BY SMTT(40), <2>1
<1>3. p <= r /\ q <= s
    BY <1>1, <1>2, CeilGrows
<1>4. 0 <= p /\ 0 <= q
    <2>1. \A k \in Nat : 0 <= CeilDiv(k, CLAUDE_PATCH)
        BY <1>1 DEF CeilDiv
    <2> QED BY <1>2, <2>1
<1>5. p * q <= r * s /\ p * q \in Nat /\ r * s \in Nat
    BY <1>3, <1>4, TimesGrows
<1> QED BY <1>2, <1>5 DEF Patches

\* Fonts that fit on the pages of every tier a call may ask for.
GlyphsFit ==
    \A tier \in Tiers, density \in DOMAIN DENSITIES :
        /\ DENSITIES[density].char_width <= 10 * Usable(tier)
        /\ DENSITIES[density].line_height <= Usable(tier)

\* One tier is in use.
OneTier == \A a, b \in Tiers : a = b

\* The largest page of a tier is one the vendor leaves as it is.
LEMMA BoxFits ==
    ASSUME NEW tier \in DOMAIN TIERS
    PROVE  /\ PageBox[tier] \in Nat
           /\ PageBox[tier] <= TIERS[tier].max_edge
           /\ Patches(PageBox[tier], PageBox[tier]) <= TIERS[tier].max_tokens
<1> DEFINE tokens == TIERS[tier].max_tokens
           edge == TIERS[tier].max_edge
           side == CHOOSE n \in 0 .. tokens : n * n <= tokens /\ tokens < (n + 1) * (n + 1)
<1>1. tokens \in Nat /\ edge \in Nat /\ CLAUDE_PATCH \in Nat \ {0}
    BY PagesAssumption
<1>2. PageBox[tier] = Min({edge, side * CLAUDE_PATCH})
    BY DEF PageBox
<1>3. side \in Nat /\ side * side <= tokens
    <2> HIDE DEF tokens
    <2>1. \E n \in 0 .. tokens : n * n <= tokens /\ tokens < (n + 1) * (n + 1)
        BY <1>1, Root
    <2>2. side \in 0 .. tokens /\ side * side <= tokens
        BY <2>1
    <2> QED BY <1>1, <2>2
<1> HIDE DEF tokens, edge, side
<1>4. side * CLAUDE_PATCH \in Nat
    BY <1>1, <1>3
<1>5. PageBox[tier] \in Nat /\ PageBox[tier] <= edge /\ PageBox[tier] <= side * CLAUDE_PATCH
    <2>1. PICK a \in Int, b \in Int : a = edge /\ b = side * CLAUDE_PATCH
        BY <1>1, <1>4
    <2>2. Min({a, b}) = IF a <= b THEN a ELSE b
        BY OfTwo
    <2> QED BY <1>1, <1>2, <1>4, <2>1, <2>2
<1>6. PICK k \in Int : k = CeilDiv(PageBox[tier], CLAUDE_PATCH)
    <2>1. PageBox[tier] \in Int
        BY <1>5
    <2> QED BY <1>1, <2>1, CeilBounds
<1>7. k <= side
    BY <1>1, <1>3, <1>5, <1>6, CeilLeast
<1>8. 0 <= k
    BY <1>1, <1>5, <1>6 DEF CeilDiv
<1>9. k * k <= side * side
    BY <1>3, <1>7, <1>8, TimesGrows
<1> QED BY <1>1, <1>3, <1>5, <1>6, <1>9 DEF Patches, tokens, edge

\* So is every smaller one: it costs its patches.
LEMMA UpToBoxFits ==
    ASSUME NEW tier \in DOMAIN TIERS, NEW w \in Nat, NEW h \in Nat,
           w <= PageBox[tier], h <= PageBox[tier]
    PROVE  FitsTier(w, h, tier) /\ ImageTokens(w, h, tier) = Patches(w, h)
<1>1. Patches(w, h) <= TIERS[tier].max_tokens
    <2>1. /\ Patches(w, h) <= Patches(PageBox[tier], PageBox[tier])
          /\ Patches(w, h) \in Nat /\ Patches(PageBox[tier], PageBox[tier]) \in Nat
        BY BoxFits, PatchesGrow
    <2>2. TIERS[tier].max_tokens \in Nat
        BY PagesAssumption
    <2> QED BY <2>1, <2>2, BoxFits
<1>2. Max({w, h}) <= TIERS[tier].max_edge
    <2>1. TIERS[tier].max_edge \in Nat
        BY PagesAssumption
    <2> QED BY <2>1, BoxFits, OfTwo
<1>3. FitsTier(w, h, tier)
    BY <1>1, <1>2 DEF FitsTier
<1>4. ImageTokens(w, h, tier) = Patches(w, h)
    BY <1>3, FitKeeps DEF ImageTokens
<1> QED BY <1>3, <1>4

\* Lengths are numbers.
LEMMA LengthType == \A t \in Texts : Length(t) \in Nat /\ StreamLength(t) \in Nat
<1> SUFFICES ASSUME NEW t \in Texts PROVE Length(t) \in Nat /\ StreamLength(t) \in Nat
    OBVIOUS
<1>1. t.ascii \in Seq(Nat) /\ t.wide \in Nat /\ t.newlines \in Nat
    BY OpticalAssumption
<1>2. Total(t.ascii) \in Nat
    <2>1. Len(t.ascii) \in Nat /\ DOMAIN t.ascii = 1 .. Len(t.ascii)
        BY <1>1
    <2>2. IsFiniteSet(DOMAIN t.ascii)
        BY <2>1, FS_Interval
    <2> QED BY <1>1, <2>2, TotalBound
<1>3. Length(t) \in Nat
    BY <1>1, <1>2 DEF Length
<1>4. PICK spare \in Nat : spare = MARKER_CHARS - 1
    BY PagesAssumption
<1>5. t.newlines * spare \in Nat
    BY <1>1
<1> QED BY <1>3, <1>4, <1>5 DEF StreamLength

\* How the columns and rows of a layout fill a page.
LEMMA LayoutFits ==
    ASSUME GlyphsFit, NEW tier \in Tiers, NEW density \in DOMAIN DENSITIES
    PROVE  /\ Columns(density, tier) \in Nat \ {0} /\ Rows(density, tier) \in Nat \ {0}
           /\ Usable(tier) \in Nat
           /\ Columns(density, tier) * DENSITIES[density].char_width <= 10 * Usable(tier)
           /\ Rows(density, tier) * DENSITIES[density].line_height <= Usable(tier)
           /\ PerPage(density, tier) \in Nat \ {0}
           /\ DENSITIES[density].char_width \in Nat \ {0}
           /\ DENSITIES[density].line_height \in Nat \ {0}
<1> DEFINE cw == DENSITIES[density].char_width
           lh == DENSITIES[density].line_height
<1>1. cw \in Nat \ {0} /\ lh \in Nat \ {0} /\ PADDING_PX \in Nat
    BY PagesAssumption
<1>2. Usable(tier) \in Int
    BY <1>1, BoxFits, OpticalAssumption DEF Usable
<1>3. cw <= 10 * Usable(tier) /\ lh <= Usable(tier)
    BY DEF GlyphsFit
<1> HIDE DEF cw, lh
<1>4. PICK u \in Nat : u = Usable(tier)
    BY <1>1, <1>2, <1>3
<1>5. \A a \in Nat, b \in Nat \ {0} : b <= a => a \div b \in Nat \ {0} /\ (a \div b) * b <= a
    <2> SUFFICES ASSUME NEW a \in Nat, NEW b \in Nat \ {0}, b <= a
                 PROVE  a \div b \in Nat \ {0} /\ (a \div b) * b <= a
        OBVIOUS
    <2>1. PICK c \in Int : c = a \div b /\ c * b <= a /\ a < c * b + b
        BY DivBounds
    <2>2. c >= 1
        BY <2>1
    <2> QED BY <2>1, <2>2
<1>6. /\ (10 * u) \div cw \in Nat \ {0} /\ ((10 * u) \div cw) * cw <= 10 * u
      /\ u \div lh \in Nat \ {0} /\ (u \div lh) * lh <= u
    BY <1>1, <1>3, <1>4, <1>5
<1>7. Columns(density, tier) = (10 * u) \div cw /\ Rows(density, tier) = u \div lh
    BY <1>4, <1>6, OfTwo DEF Columns, Rows, cw, lh
<1>8. PerPage(density, tier) \in Nat \ {0}
    <2>1. \A a \in Nat \ {0}, b \in Nat \ {0} : a * b \in Nat \ {0}
        OBVIOUS
    <2> QED BY <1>6, <1>7, <2>1 DEF PerPage
<1> QED BY <1>1, <1>4, <1>6, <1>7, <1>8 DEF cw, lh

\* A picture of a page of a text: within the box, and as high as its lines.
LEMMA PictureFits ==
    ASSUME GlyphsFit, NEW t \in Texts, NEW density \in DOMAIN DENSITIES, NEW tier \in Tiers,
           NEW i \in 1 .. PageCount(t, density, tier)
    PROVE  LET q == Picture(t, density, tier, i)
           IN  /\ PageWidth(q) \in Nat /\ PageWidth(q) <= PageBox[tier]
               /\ PageHeight(q) \in Nat /\ PageHeight(q) <= PageBox[tier]
               /\ PageHeight(q) <= 2 * PADDING_PX
                      + CeilDiv(StreamLength(t), Columns(density, tier))
                          * DENSITIES[density].line_height
<1> DEFINE q == Picture(t, density, tier, i)
           n == PerPage(density, tier)
           len == StreamLength(t)
           cols == Columns(density, tier)
           rows == Rows(density, tier)
           cw == DENSITIES[density].char_width
           lh == DENSITIES[density].line_height
           u == Usable(tier)
<1>1. /\ n \in Nat \ {0} /\ len \in Nat /\ cols \in Nat \ {0} /\ rows \in Nat \ {0}
      /\ cw \in Nat \ {0} /\ lh \in Nat \ {0} /\ u \in Nat
      /\ cols * cw <= 10 * u /\ rows * lh <= u /\ n = cols * rows
    BY LengthType, LayoutFits DEF PerPage
<1>2. PADDING_PX \in Nat /\ PageBox[tier] \in Nat /\ PageBox[tier] = u + 2 * PADDING_PX
    <2>1. tier \in DOMAIN TIERS /\ PADDING_PX \in Nat
        BY PagesAssumption, OpticalAssumption
    <2>2. PageBox[tier] \in Nat
        BY <2>1, BoxFits
    <2>3. Usable(tier) = PageBox[tier] - 2 * PADDING_PX
        BY DEF Usable
    <2> QED BY <2>1, <2>2, <2>3
<1>3. q.columns = cols /\ q.density = density /\ q.from = (i - 1) * n /\ q.upto = Min({i * n, len})
    BY DEF Picture
<1>4. PageCount(t, density, tier) = CeilDiv(len, n)
    BY DEF PageCount
<1>5. i \in Nat \ {0} /\ ~(CeilDiv(len, n) <= i - 1)
    <2>1. PICK c \in Int : c = CeilDiv(len, n)
        <3>1. len \in Int
            BY <1>1
        <3> QED BY <1>1, <3>1, CeilBounds
    <2>2. i \in 1 .. c
        BY <1>4, <2>1
    <2> QED BY <2>1, <2>2
<1> HIDE DEF n, len, cols, rows, cw, lh, u, q
<1>6. ~(len <= (i - 1) * n)
    <2>1. len \in Int /\ i - 1 \in Int
        BY <1>1, <1>5
    <2> QED BY <1>1, <1>5, <2>1, CeilLeast
<1>7. i * n = (i - 1) * n + n /\ (i - 1) * n \in Nat
    BY <1>1, <1>5
<1>8. PICK shown \in Nat : shown = q.upto - q.from /\ shown <= n /\ shown <= len
    <2>1. PICK a \in Nat : a = (i - 1) * n /\ i * n = a + n /\ a < len
        BY <1>1, <1>6, <1>7
    <2>2. a + n \in Int /\ len \in Int
        BY <1>1, <2>1
    <2>3. Min({i * n, len}) = IF a + n <= len THEN a + n ELSE len
        BY ZenonT(60), <2>1, <2>2, OfTwo
    <2>4. q.upto = (IF a + n <= len THEN a + n ELSE len) /\ q.from = a
        BY <1>3, <2>1, <2>3
    <2>5. PICK up \in Nat : up = q.upto /\ up - a \in Nat /\ up - a <= n /\ up - a <= len
        <3>1. CASE a + n <= len
            BY <1>1, <2>1, <2>4, <3>1
        <3>2. CASE ~(a + n <= len)
            BY <1>1, <2>1, <2>4, <3>2
        <3> QED BY <3>1, <3>2
    <2> QED BY <2>4, <2>5
<1>9. PICK m \in Nat : m = Min({shown, cols}) /\ m <= cols
    <2>1. shown \in Int /\ cols \in Int
        BY <1>1, <1>8
    <2>2. Min({shown, cols}) = IF shown <= cols THEN shown ELSE cols
        BY <2>1, OfTwo
    <2> QED BY <1>1, <1>8, <2>2
<1>10. PageWidth(q) = 2 * PADDING_PX + (m * cw) \div 10
    BY <1>3, <1>8, <1>9 DEF PageWidth, cw
<1>11. (m * cw) \div 10 \in Nat /\ (m * cw) \div 10 <= u
    <2>1. PICK a \in Nat : a = m * cw /\ a <= cols * cw
        BY <1>1, <1>9, TimesGrows
    <2>2. a <= 10 * u
        BY <1>1, <2>1
    <2>3. a \div 10 \in Nat /\ a \div 10 <= u
        BY <1>1, <2>2
    <2> QED BY <2>1, <2>3
<1>12. PICK k \in Int : k = CeilDiv(shown, cols) /\ k <= rows /\ k <= CeilDiv(len, cols) /\ 0 <= k
    <2>1. CeilDiv(shown, cols) \in Int
        BY <1>1, <1>8, CeilBounds
    <2>2. CeilDiv(shown, cols) <= rows
        <3>1. shown <= rows * cols
            BY <1>1, <1>8
        <3> QED BY <1>1, <1>8, <3>1, CeilLeast
    <2>3. CeilDiv(shown, cols) <= CeilDiv(len, cols)
        BY <1>1, <1>8, CeilGrows
    <2>4. 0 <= CeilDiv(shown, cols)
        BY <1>1, <1>8 DEF CeilDiv
    <2> QED BY <2>1, <2>2, <2>3, <2>4
<1>13. PageHeight(q) = 2 * PADDING_PX + k * lh
    BY <1>3, <1>8, <1>12 DEF PageHeight, lh
<1>14. k * lh \in Nat /\ k * lh <= rows * lh /\ k * lh <= CeilDiv(len, cols) * lh
    <2>1. CeilDiv(len, cols) \in Int
        BY <1>1, CeilBounds
    <2> QED BY <1>1, <1>12, <2>1, TimesGrows
<1>15. CeilDiv(len, cols) * lh \in Int
    <2>1. PICK r \in Int : r = CeilDiv(len, cols)
        <3>1. len \in Int
            BY <1>1
        <3> QED BY <1>1, <3>1, CeilBounds
    <2>2. r * lh \in Int
        BY <1>1, <2>1
    <2> QED BY <2>1, <2>2
<1> QED BY <1>1, <1>2, <1>10, <1>11, <1>13, <1>14, <1>15 DEF q, len, cols, lh

-----------------------------------------------------------------------------
(* What the pages show and what they cost. *)

\* A picture of a page of some text, and the calls whose pages are those of their
\* own text, as many as there are by the time they are handed out.
Painted(s) ==
    \E t \in Texts, d \in DOMAIN DENSITIES, tier \in Tiers :
      \E i \in 1 .. PageCount(t, d, tier) : s = Picture(t, d, tier, i)

Showing(c, n) ==
    /\ c.pages = [i \in 1 .. n |-> Picture(c.text, c.density, c.tier, i)]
    /\ c.pc = "draw" => n < PageCount(c.text, c.density, c.tier)
    /\ c.pc = "store" => n > 0
    /\ c.pc \in {"put", "answer", "answered"} => n = PageCount(c.text, c.density, c.tier)

Showable(c) ==
    /\ c.text \in Texts /\ c.density \in DOMAIN DENSITIES /\ c.tier \in Tiers
    /\ PageCount(c.text, c.density, c.tier) <= MAX_PAGES

Shows(c) ==
    c.pc # "idle" =>
      /\ Showable(c)
      /\ \E n \in 0 .. PageCount(c.text, c.density, c.tier) : Showing(c, n)

Paged ==
    /\ \A s \in segments : Painted(s)
    /\ \A p \in Processes : Shows(compress[p])

\* A text has a number of pages.
LEMMA PageCountType ==
    ASSUME GlyphsFit, NEW t \in Texts, NEW d \in DOMAIN DENSITIES, NEW tier \in Tiers
    PROVE  PageCount(t, d, tier) \in Nat
<1>1. PICK len \in Nat, n \in Nat \ {0} : len = StreamLength(t) /\ n = PerPage(d, tier)
    BY LengthType, LayoutFits
<1>2. CeilDiv(len, n) \in Nat
    BY <1>1 DEF CeilDiv
<1> QED BY <1>1, <1>2 DEF PageCount

\* With one tier, the key of a picture tells everything about it.
LEMMA KeysTell ==
    ASSUME OneTier, NEW t \in Texts, NEW d \in DOMAIN DENSITIES, NEW tier \in Tiers, NEW i,
           NEW s, Painted(s), SegmentKey(s) = SegmentKey(Picture(t, d, tier, i))
    PROVE  s = Picture(t, d, tier, i)
<1>1. PICK u \in Texts, e \in DOMAIN DENSITIES, other \in Tiers, j \in Int :
        s = Picture(u, e, other, j)
    BY DEF Painted
<1>2. /\ s.text = u /\ s.density = e /\ s.columns = Columns(e, other)
      /\ s = [text |-> s.text, from |-> s.from, upto |-> s.upto, density |-> s.density,
              columns |-> s.columns]
    BY <1>1 DEF Picture
<1> DEFINE q == Picture(t, d, tier, i)
<1>3. /\ q.text = t /\ q.density = d /\ q.columns = Columns(d, tier)
      /\ q = [text |-> q.text, from |-> q.from, upto |-> q.upto, density |-> q.density,
              columns |-> q.columns]
    BY DEF Picture
<1>4. s.text = q.text /\ s.from = q.from /\ s.upto = q.upto /\ s.density = q.density
    BY DEF SegmentKey
<1>5. other = tier
    BY DEF OneTier
<1> QED BY <1>2, <1>3, <1>4, <1>5

\* The pages so far, and one more.
LEMMA OneMore ==
    ASSUME NEW c, NEW n \in Nat,
           c.pages = [i \in 1 .. n |-> Picture(c.text, c.density, c.tier, i)]
    PROVE  /\ Len(c.pages) = n
           /\ Append(c.pages, Picture(c.text, c.density, c.tier, n + 1))
                = [i \in 1 .. n + 1 |-> Picture(c.text, c.density, c.tier, i)]
<1> DEFINE F == [i \in Nat |-> Picture(c.text, c.density, c.tier, i)]
<1>1. c.pages = [i \in 1 .. n |-> F[i]]
    OBVIOUS
<1>2. [i \in 1 .. n + 1 |-> Picture(c.text, c.density, c.tier, i)] = [i \in 1 .. n + 1 |-> F[i]]
    OBVIOUS
<1>3. Picture(c.text, c.density, c.tier, n + 1) = F[n + 1]
    OBVIOUS
<1> HIDE DEF F
<1>4. [i \in 1 .. n |-> F[i]] \in Seq(Range(F) \cup {F[i] : i \in 1 .. n})
    OBVIOUS
<1> QED BY <1>1, <1>2, <1>3, <1>4

\* At first there is no picture and no call.
LEMMA PagedStart == Init => Paged
BY DEF Init, Paged, Shows, Idle

\* Whatever a step changes of one call.
LEMMA CallShows ==
    ASSUME Shapes, Paged, NEW p \in Processes, NEW c,
           compress' = [compress EXCEPT ![p] = c], Shows(c),
           \A s \in segments' : Painted(s)
    PROVE  Paged'
<1>1. \A q \in Processes : compress'[q] = IF q = p THEN c ELSE compress[q]
    BY DEF Shapes
<1> QED BY <1>1 DEF Paged

\* A step of a call that leaves its pages as they are.
LEMMA GoesOn ==
    ASSUME GlyphsFit, Shapes, Paged, NEW p \in Processes, NEW pc, Goto(p, pc), ~At(p, "idle"),
           pc = "draw" => ~Finished(p),
           pc = "store" => FALSE,
           pc \in {"put", "answer", "answered"} =>
               Finished(p) \/ compress[p].pc \in {"put", "answer", "answered"},
           \A s \in segments' : Painted(s)
    PROVE  Paged'
<1> DEFINE b == compress[p]
           c == [b EXCEPT !.pc = pc]
<1>1. /\ c.pc = pc /\ c.pages = b.pages /\ c.text = b.text /\ c.density = b.density
      /\ c.tier = b.tier
    BY DEF Shapes, IsACall
<1>2. PICK n \in 0 .. PageCount(b.text, b.density, b.tier) : Showing(b, n) /\ Showable(b)
    BY DEF At, Paged, Shows
<1>3. n \in Nat /\ Len(b.pages) = n
    BY <1>2, OneMore DEF Showing
<1>4. Finished(p) <=> n = PageCount(b.text, b.density, b.tier)
    BY <1>3 DEF Finished
<1>5. compress' = [compress EXCEPT ![p] = c]
    BY DEF Goto, Shapes
<1> HIDE DEF b, c
<1>6. Showing(c, n)
    <2>1. PageCount(b.text, b.density, b.tier) \in Nat
        BY <1>2, PageCountType DEF Showable
    <2>2. /\ pc = "draw" => n < PageCount(b.text, b.density, b.tier)
          /\ pc # "store"
        BY <1>2, <1>4, <2>1
    <2>3. pc \in {"put", "answer", "answered"} => n = PageCount(b.text, b.density, b.tier)
        BY <1>2, <1>4 DEF Showing, b
    <2>4. c.pages = [i \in 1 .. n |-> Picture(b.text, b.density, b.tier, i)]
        BY <1>1, <1>2 DEF Showing
    <2> QED BY <1>1, <2>2, <2>3, <2>4 DEF Showing
<1>7. Showable(c)
    BY <1>1, <1>2 DEF Showable
<1>8. Shows(c)
    BY <1>1, <1>2, <1>6, <1>7 DEF Shows
<1> QED BY <1>5, <1>8, CallShows

\* A step of a call that adds the next page to its pages.
LEMMA PageAdded ==
    ASSUME GlyphsFit, Shapes, Paged, NEW p \in Processes, NEW pc \in {"page", "store"},
           NEW picture, AddPage(p, picture, pc), ~At(p, "idle"),
           ~Finished(p), picture = Wanted(p), UNCHANGED segments
    PROVE  Paged'
<1> DEFINE b == compress[p]
           c == [b EXCEPT !.pages = Append(@, picture), !.pc = pc]
<1>1. /\ c.pc = pc /\ c.pages = Append(b.pages, picture) /\ c.text = b.text
      /\ c.density = b.density /\ c.tier = b.tier
    BY DEF Shapes, IsACall
<1>2. PICK n \in 0 .. PageCount(b.text, b.density, b.tier) : Showing(b, n) /\ Showable(b)
    BY DEF At, Paged, Shows
<1>3. n \in Nat /\ Len(b.pages) = n
    BY <1>2, OneMore DEF Showing
<1>4. /\ n # PageCount(b.text, b.density, b.tier)
      /\ picture = Picture(b.text, b.density, b.tier, n + 1)
    BY <1>3 DEF Finished, Wanted
<1>5. compress' = [compress EXCEPT ![p] = c]
    BY DEF AddPage, Shapes, IsACall
<1>6. b.pages = [i \in 1 .. n |-> Picture(b.text, b.density, b.tier, i)]
    BY <1>2 DEF Showing
<1> HIDE DEF b, c
<1>7. Append(b.pages, picture) = [i \in 1 .. n + 1 |-> Picture(b.text, b.density, b.tier, i)]
    BY <1>3, <1>4, <1>6, OneMore
<1>8. Showing(c, n + 1)
    BY <1>1, <1>3, <1>7 DEF Showing
<1>9. n + 1 \in 0 .. PageCount(b.text, b.density, b.tier)
    <2>1. PageCount(b.text, b.density, b.tier) \in Nat
        BY <1>2, PageCountType DEF Showable
    <2> QED BY <1>2, <1>4, <2>1
<1>10. Showable(c)
    BY <1>1, <1>2 DEF Showable
<1>11. Shows(c)
    BY <1>1, <1>8, <1>9, <1>10 DEF Shows
<1>12. \A s \in segments' : Painted(s)
    BY DEF Paged
<1> QED BY <1>5, <1>11, <1>12, CallShows

\* A call that has a next page: what is found in the cache under its key is it.
LEMMA NextPage ==
    ASSUME OneTier, GlyphsFit, Shapes, Paged, NEW p \in Processes, ~At(p, "idle"), ~Finished(p)
    PROVE  Painted(Wanted(p)) /\ \A s \in Cached(Wanted(p)) : s = Wanted(p)
<1> DEFINE b == compress[p]
<1>1. PICK n \in 0 .. PageCount(b.text, b.density, b.tier) : Showing(b, n) /\ Showable(b)
    BY DEF At, Paged, Shows
<1>2. n \in Nat /\ Len(b.pages) = n
    BY <1>1, OneMore DEF Showing
<1>3. /\ n # PageCount(b.text, b.density, b.tier)
      /\ Wanted(p) = Picture(b.text, b.density, b.tier, n + 1)
    BY <1>2 DEF Finished, Wanted
<1>4. b.text \in Texts /\ b.density \in DOMAIN DENSITIES /\ b.tier \in Tiers
    BY <1>1 DEF Showable
<1>5. PageCount(b.text, b.density, b.tier) \in Nat
    BY <1>4, PageCountType
<1>6. n + 1 \in 1 .. PageCount(b.text, b.density, b.tier)
    BY <1>1, <1>3, <1>5
<1>7. Painted(Wanted(p))
    BY <1>3, <1>4, <1>6 DEF Painted
<1>8. ASSUME NEW s \in Cached(Wanted(p)) PROVE s = Wanted(p)
    <2>1. Painted(s) /\ SegmentKey(s) = SegmentKey(Picture(b.text, b.density, b.tier, n + 1))
        BY <1>3 DEF Cached, Paged
    <2> QED BY <1>3, <1>4, <2>1, KeysTell
<1> QED BY <1>7, <1>8

\* A call that draws has a next page.
LEMMA DrawsNext ==
    ASSUME GlyphsFit, Paged, NEW p \in Processes, At(p, "draw")
    PROVE  ~Finished(p)
<1> DEFINE b == compress[p]
<1>1. PICK n \in 0 .. PageCount(b.text, b.density, b.tier) : Showing(b, n) /\ Showable(b)
    BY DEF At, Paged, Shows
<1>2. n \in Nat /\ Len(b.pages) = n
    BY <1>1, OneMore DEF Showing
<1>3. PageCount(b.text, b.density, b.tier) \in Nat
    BY <1>1, PageCountType DEF Showable
<1>4. n < PageCount(b.text, b.density, b.tier)
    BY <1>1 DEF Showing, At
<1> QED BY <1>2, <1>3, <1>4 DEF Finished

\* The steps of a call, one after the other.
LEMMA LookUpSegmentPaged ==
    ASSUME OneTier, GlyphsFit, Shapes, Paged, NEW p \in Processes, LookUpSegment(p)
    PROVE  Paged'
<1>1. ~At(p, "idle") /\ ~Finished(p) /\ UNCHANGED segments
    BY DEF LookUpSegment, At
<1>2. CASE Cached(Wanted(p)) # {}
    <2>1. PICK s \in Cached(Wanted(p)) : AddPage(p, s, "page")
        BY <1>2 DEF LookUpSegment
    <2>2. s = Wanted(p)
        BY <1>1, NextPage
    <2> QED BY <1>1, <2>1, <2>2, PageAdded
<1>3. CASE Cached(Wanted(p)) = {}
    <2>1. Goto(p, "draw")
        BY <1>3 DEF LookUpSegment
    <2>2. \A s \in segments' : Painted(s)
        BY <1>1 DEF Paged
    <2> QED BY <1>1, <2>1, <2>2, GoesOn
<1> QED BY <1>2, <1>3

LEMMA DrawPaged ==
    ASSUME GlyphsFit, Shapes, Paged, NEW p \in Processes, Draw(p)
    PROVE  Paged'
<1>1. At(p, "draw") /\ UNCHANGED segments
    BY DEF Draw
<1>2. ~At(p, "idle") /\ ~Finished(p)
    BY <1>1, DrawsNext DEF At
<1>3. PICK pc \in {"page", "store"} : AddPage(p, Wanted(p), pc)
    BY DEF Draw
<1> QED BY <1>1, <1>2, <1>3, PageAdded

LEMMA StoreSegmentPaged ==
    ASSUME GlyphsFit, Shapes, Paged, NEW p \in Processes, StoreSegment(p)
    PROVE  Paged'
<1> DEFINE b == compress[p]
<1>1. At(p, "store") /\ Goto(p, "page")
    BY DEF StoreSegment
<1>2. PICK n \in 0 .. PageCount(b.text, b.density, b.tier) : Showing(b, n) /\ Showable(b)
    BY <1>1 DEF At, Paged, Shows
<1>3. n \in Nat /\ n > 0 /\ Len(b.pages) = n
    BY <1>1, <1>2, OneMore DEF Showing, At
<1>4. Last(b.pages) = Picture(b.text, b.density, b.tier, n)
    BY <1>2, <1>3 DEF Last, Showing
<1>5. b.text \in Texts /\ b.density \in DOMAIN DENSITIES /\ b.tier \in Tiers
    BY <1>2 DEF Showable
<1>6. n \in 1 .. PageCount(b.text, b.density, b.tier)
    BY <1>2, <1>3
<1>7. Painted(Last(b.pages))
    BY <1>4, <1>5, <1>6 DEF Painted
<1>8. segments' \subseteq segments \cup {Last(b.pages)}
    BY DEF StoreSegment
<1>9. \A s \in segments' : Painted(s)
    BY <1>7, <1>8 DEF Paged
<1>10. ~At(p, "idle")
    BY <1>1 DEF At
<1> QED BY <1>1, <1>9, <1>10, GoesOn

LEMMA BeginPaged ==
    ASSUME GlyphsFit, Shapes, Paged, NEW p \in Processes, Begin(p)
    PROVE  Paged'
<1>1. UNCHANGED segments /\ \A s \in segments' : Painted(s)
    BY DEF Begin, Paged
<1>2. CASE UNCHANGED compress
    BY <1>1, <1>2 DEF Paged
<1>3. CASE compress' # compress
    <2>1. PICK t \in Texts, q \in Requests(p) :
            LET density == DensityFor(t, q.density)
            IN  /\ ~TooMany(t, density, q.tier)
                /\ compress' = [compress EXCEPT ![p] =
                    [Idle EXCEPT !.pc = "page", !.text = t, !.density = density,
                                 !.tier = q.tier]]
        BY <1>3 DEF Begin
    <2>2. PICK d \in DOMAIN DENSITIES, tier \in Tiers :
            d = DensityFor(t, q.density) /\ tier = q.tier
        BY OpticalAssumption DEF Requests, DensityFor
    <2> DEFINE c == [Idle EXCEPT !.pc = "page", !.text = t, !.density = d, !.tier = tier]
    <2>3. /\ c.pc = "page" /\ c.text = t /\ c.density = d /\ c.tier = tier /\ c.pages = <<>>
          /\ compress' = [compress EXCEPT ![p] = c]
        BY <2>1, <2>2 DEF Idle
    <2> HIDE DEF c
    <2>4. PageCount(t, d, tier) \in Nat
        BY PageCountType
    <2>5. PageCount(t, d, tier) <= MAX_PAGES
        BY <2>1, <2>2, <2>4, PagesAssumption DEF TooMany
    <2>6. Showing(c, 0) /\ Showable(c)
        BY <2>3, <2>5 DEF Showing, Showable
    <2>7. Shows(c)
        BY <2>3, <2>4, <2>6 DEF Shows
    <2> QED BY <1>1, <2>3, <2>7, CallShows
<1> QED BY <1>2, <1>3

LEMMA EndPaged ==
    ASSUME GlyphsFit, Shapes, Paged, NEW p \in Processes,
           LookUpOriginal(p) \/ PutOriginal(p) \/ Answer(p) \/ Breaks(p) \/ Return(p)
    PROVE  Paged'
<1>1. UNCHANGED segments /\ \A s \in segments' : Painted(s)
    BY DEF LookUpOriginal, PutOriginal, Answer, Breaks, Return, Paged
<1>2. GiveUp(p) => Paged'
    <2>1. Shows(Idle)
        BY DEF Shows, Idle
    <2> QED BY <1>1, <2>1, CallShows DEF GiveUp
<1>3. CASE LookUpOriginal(p)
    <2>1. ~At(p, "idle") /\ Finished(p)
        BY <1>3 DEF LookUpOriginal, At
    <2>2. PICK pc \in {"answer", "put"} : Goto(p, pc)
        BY <1>3 DEF LookUpOriginal
    <2> QED BY <1>1, <2>1, <2>2, GoesOn
<1>4. CASE PutOriginal(p)
    BY <1>1, <1>4, GoesOn DEF PutOriginal, At
<1>5. CASE Answer(p)
    <2>1. Goto(p, "answered") \/ GiveUp(p)
        BY <1>5 DEF Answer
    <2>2. Goto(p, "answered") => Paged'
        BY <1>1, <1>5, GoesOn DEF Answer, At
    <2> QED BY <1>2, <2>1, <2>2
<1>6. CASE Breaks(p) \/ Return(p)
    BY <1>2, <1>6 DEF Breaks, Return
<1> QED BY <1>3, <1>4, <1>5, <1>6

\* Whoever reads, prunes, ages or damages touches no page of a call.
LEMMA OthersPaged ==
    ASSUME Shapes, Paged,
           \/ \E r \in Readers : Ask(r) \/ Slice(r) \/ Leave(r)
           \/ PruneList \/ PruneStat \/ PruneUnlink \/ PruneSegments \/ UnlinkSegment \/ PruneEnds
           \/ \E t \in Texts : Ages(t) \/ Damaged(t)
    PROVE  Paged'
<1>1. CASE segments' \subseteq segments /\ UNCHANGED compress
    BY <1>1 DEF Paged
<1>2. ASSUME NEW t, Disturb(t), UNCHANGED segments PROVE Paged'
    <2>1. ASSUME NEW p \in Processes PROVE Shows(compress'[p])
        <3>1. \/ compress'[p] = compress[p]
              \/ compress'[p] = [compress[p] EXCEPT !.undisturbed = FALSE]
            BY <1>2 DEF Disturb
        <3>2. IsACall(compress[p]) /\ Shows(compress[p])
            BY DEF Shapes, Paged
        <3>3. /\ compress'[p].pc = compress[p].pc /\ compress'[p].pages = compress[p].pages
              /\ compress'[p].text = compress[p].text /\ compress'[p].density = compress[p].density
              /\ compress'[p].tier = compress[p].tier
            BY <3>1, <3>2 DEF IsACall
        <3> QED BY <3>2, <3>3 DEF Shows, Showing, Showable
    <2> QED BY <1>2, <2>1 DEF Paged
<1>3. CASE \E r \in Readers : Ask(r) \/ Slice(r) \/ Leave(r)
    BY <1>1, <1>3 DEF Ask, Slice, Leave
<1>4. CASE PruneList \/ PruneStat \/ PruneSegments \/ PruneEnds
    BY <1>1, <1>4 DEF PruneList, PruneStat, PruneSegments, PruneEnds
<1>5. CASE UnlinkSegment
    BY <1>1, <1>5 DEF UnlinkSegment
<1>6. CASE PruneUnlink
    BY <1>2, <1>6 DEF PruneUnlink
<1>7. CASE \E t \in Texts : Ages(t)
    BY <1>1, <1>7 DEF Ages
<1>8. CASE \E t \in Texts : Damaged(t)
    BY <1>2, <1>8 DEF Damaged
<1> QED BY <1>3, <1>4, <1>5, <1>6, <1>7, <1>8

LEMMA PagedStep ==
    ASSUME OneTier, GlyphsFit, Shapes, Paged, [Next]_vars
    PROVE  Paged'
<1>1. CASE UNCHANGED vars
    BY <1>1 DEF vars, Paged
<1>2. ASSUME NEW p \in Processes,
             \/ Begin(p) \/ LookUpSegment(p) \/ Draw(p) \/ StoreSegment(p)
             \/ LookUpOriginal(p) \/ PutOriginal(p) \/ Answer(p) \/ Breaks(p) \/ Return(p)
      PROVE  Paged'
    BY <1>2, BeginPaged, LookUpSegmentPaged, DrawPaged, StoreSegmentPaged, EndPaged
<1>3. CASE \/ \E r \in Readers : Ask(r) \/ Slice(r) \/ Leave(r)
           \/ PruneList \/ PruneStat \/ PruneUnlink \/ PruneSegments \/ UnlinkSegment \/ PruneEnds
           \/ \E t \in Texts : Ages(t) \/ Damaged(t)
    BY <1>3, OthersPaged
<1> QED BY <1>1, <1>2, <1>3 DEF Next

\* The pictures of a text each cost a number of tokens, no more than a full page.
LEMMA PictureCosts ==
    ASSUME GlyphsFit, NEW t \in Texts, NEW d \in DOMAIN DENSITIES, NEW tier \in Tiers,
           NEW i \in 1 .. PageCount(t, d, tier)
    PROVE  LET q == Picture(t, d, tier, i)
           IN  /\ FitsTier(PageWidth(q), PageHeight(q), tier)
               /\ PageTokens(q, tier) = Patches(PageWidth(q), PageHeight(q))
<1> DEFINE q == Picture(t, d, tier, i)
<1>1. /\ PageWidth(q) \in Nat /\ PageWidth(q) <= PageBox[tier]
      /\ PageHeight(q) \in Nat /\ PageHeight(q) <= PageBox[tier]
    BY PictureFits
<1>2. tier \in DOMAIN TIERS
    BY OpticalAssumption
<1> HIDE DEF q
<1>3. /\ FitsTier(PageWidth(q), PageHeight(q), tier)
      /\ ImageTokens(PageWidth(q), PageHeight(q), tier) = Patches(PageWidth(q), PageHeight(q))
    BY <1>1, <1>2, UpToBoxFits
<1> QED BY <1>3 DEF PageTokens, q

\* The pictures of a text cost no more than its projection: several pages no more
\* than as many full ones, a single page no more than its lines.
LEMMA CostOfPictures ==
    ASSUME GlyphsFit, NEW t \in Texts, NEW d \in DOMAIN DENSITIES, NEW tier \in Tiers
    PROVE  Total([i \in 1 .. PageCount(t, d, tier) |-> PageTokens(Picture(t, d, tier, i), tier)])
               <= Projected(t, d, tier)
<1> DEFINE box == PageBox[tier]
           lh == DENSITIES[d].line_height
           k == CeilDiv(StreamLength(t), Columns(d, tier))
           lines == Max({1, k})
           height == 2 * PADDING_PX + lines * lh
           low == Min({box, height})
           pages == PageCount(t, d, tier)
           cost == [i \in 1 .. pages |-> PageTokens(Picture(t, d, tier, i), tier)]
<1>1. tier \in DOMAIN TIERS /\ PADDING_PX \in Nat
    BY OpticalAssumption, PagesAssumption
<1>2. box \in Nat /\ lh \in Nat \ {0} /\ pages \in Nat
    BY <1>1, BoxFits, LayoutFits, PageCountType
<1>3. k \in Int
    <2>1. StreamLength(t) \in Int /\ Columns(d, tier) \in Nat \ {0}
        BY LengthType, LayoutFits
    <2> QED BY <2>1, CeilBounds
<1> HIDE DEF box, lh, k
<1>4. lines \in Nat /\ k <= lines
    <2>1. lines = IF 1 <= k THEN k ELSE 1
        BY <1>3, OfTwo
    <2> QED BY <1>3, <2>1
<1> HIDE DEF lines
<1>5. height \in Nat /\ k * lh <= lines * lh /\ k * lh \in Int /\ lines * lh \in Nat
    <2>1. lh \in Nat
        BY <1>2
    <2>2. k * lh <= lines * lh
        BY <1>3, <1>4, <2>1, Larger
    <2>3. k * lh \in Int /\ lines * lh \in Nat
        BY <1>3, <1>4, <2>1
    <2> QED BY <1>1, <2>2, <2>3
<1> HIDE DEF height
<1>6. low \in Nat /\ low <= box /\ \A h \in Nat : h <= box /\ h <= height => h <= low
    <2>1. box \in Int /\ height \in Int
        BY <1>2, <1>5
    <2>2. low = IF box <= height THEN box ELSE height
        BY <2>1, OfTwo
    <2>3. CASE box <= height
        BY <1>2, <2>2, <2>3
    <2>4. CASE ~(box <= height)
        <3>1. low = height /\ height <= box
            BY <1>2, <1>5, <2>2, <2>4
        <3> QED BY <1>5, <3>1
    <2> QED BY <2>3, <2>4
<1> HIDE DEF low
<1>7. /\ ImageTokens(box, box, tier) = Patches(box, box)
      /\ ImageTokens(box, low, tier) = Patches(box, low)
    BY <1>1, <1>2, <1>6, UpToBoxFits DEF box
<1>8. Patches(box, box) \in Nat /\ Patches(box, low) \in Nat
    <2>1. box \in Int /\ low \in Int /\ box <= box /\ low <= low
        BY <1>2, <1>6
    <2> QED BY <1>2, <1>6, <2>1, PatchesGrow
<1>9. ASSUME NEW i \in 1 .. pages
      PROVE  /\ cost[i] \in Nat /\ cost[i] <= Patches(box, box) /\ cost[i] <= Patches(box, low)
    <2>1. PICK w \in Nat, h \in Nat :
            /\ w = PageWidth(Picture(t, d, tier, i)) /\ h = PageHeight(Picture(t, d, tier, i))
            /\ w <= box /\ h <= box /\ h <= 2 * PADDING_PX + k * lh
        BY PictureFits DEF box, k, lh
    <2>2. cost[i] = Patches(w, h)
        BY <2>1, PictureCosts
    <2>3. h <= height
        BY <1>1, <1>5, <2>1 DEF height
    <2>4. h <= low
        BY <1>6, <2>1, <2>3
    <2>5. box \in Int /\ low \in Int
        BY <1>2, <1>6
    <2>6. /\ Patches(w, h) \in Nat
          /\ Patches(w, h) <= Patches(box, box) /\ Patches(w, h) <= Patches(box, low)
        BY <2>1, <2>4, <2>5, PatchesGrow
    <2> QED BY <2>2, <2>6
<1>10. DOMAIN cost = 1 .. pages
    OBVIOUS
<1> HIDE DEF cost, pages
<1>11. IsFiniteSet(1 .. pages) /\ Cardinality(1 .. pages) = pages
    BY <1>2, FS_Interval
<1>12. Total(cost) <= pages * Patches(box, box) /\ Total(cost) <= pages * Patches(box, low)
       /\ Total(cost) \in Nat
    BY <1>8, <1>9, <1>10, <1>11, TotalBound
<1>13. Max({1, pages}) = IF 1 <= pages THEN pages ELSE 1
    <2>1. pages \in Int
        BY <1>2
    <2> QED BY <2>1, OfTwo
<1>14. Projected(t, d, tier) = IF Max({1, pages}) = 1 THEN Patches(box, low)
                               ELSE Max({1, pages}) * Patches(box, box)
    BY <1>7 DEF Projected, box, lh, k, lines, height, low, pages
<1>15. CASE pages = 0
    BY <1>8, <1>12, <1>13, <1>14, <1>15 DEF cost, pages
<1>16. CASE pages = 1
    BY <1>8, <1>12, <1>13, <1>14, <1>16 DEF cost, pages
<1>17. CASE pages > 1
    BY <1>2, <1>8, <1>12, <1>13, <1>14, <1>17 DEF cost, pages
<1> QED BY <1>2, <1>15, <1>16, <1>17

\* A call whose pages are shown as they should be.
LEMMA PagedAnswers == GlyphsFit /\ Paged => PagesShowText
<1> SUFFICES ASSUME GlyphsFit, Paged, NEW p \in Processes, compress[p].pc = "answered"
             PROVE  LET c == compress[p] IN
                      /\ Len(c.pages) = PageCount(c.text, c.density, c.tier)
                      /\ Len(c.pages) <= MAX_PAGES
                      /\ \A i \in DOMAIN c.pages :
                           LET q == Picture(c.text, c.density, c.tier, i)
                           IN  /\ c.pages[i].text = q.text /\ c.pages[i].from = q.from
                               /\ c.pages[i].upto = q.upto /\ c.pages[i].density = q.density
                               /\ FitsTier(PageWidth(c.pages[i]), PageHeight(c.pages[i]), c.tier)
    BY DEF PagesShowText
<1> DEFINE c == compress[p]
<1>1. PICK n \in 0 .. PageCount(c.text, c.density, c.tier) : Showing(c, n) /\ Showable(c)
    BY DEF Paged, Shows
<1>2. n = PageCount(c.text, c.density, c.tier) /\ n \in Nat /\ n <= MAX_PAGES
    BY <1>1 DEF Showing, Showable
<1>3. c.pages = [i \in 1 .. n |-> Picture(c.text, c.density, c.tier, i)] /\ Len(c.pages) = n
    BY <1>1, <1>2, OneMore DEF Showing
<1>4. ASSUME NEW i \in DOMAIN c.pages
      PROVE  /\ c.pages[i] = Picture(c.text, c.density, c.tier, i)
             /\ FitsTier(PageWidth(c.pages[i]), PageHeight(c.pages[i]), c.tier)
    <2>1. i \in 1 .. PageCount(c.text, c.density, c.tier)
          /\ c.pages[i] = Picture(c.text, c.density, c.tier, i)
        BY <1>2, <1>3
    <2>2. FitsTier(PageWidth(Picture(c.text, c.density, c.tier, i)),
                   PageHeight(Picture(c.text, c.density, c.tier, i)), c.tier)
        BY <1>1, <2>1, PictureCosts DEF Showable
    <2> QED BY <2>1, <2>2
<1> QED BY <1>2, <1>3, <1>4

LEMMA PagedCosts == GlyphsFit /\ Paged => CostIsProjected
<1> SUFFICES ASSUME GlyphsFit, Paged, NEW p \in Processes, compress[p].pc = "answer"
             PROVE  TotalTokens(compress[p])
                      <= Projected(compress[p].text, compress[p].density, compress[p].tier)
    BY DEF CostIsProjected
<1> DEFINE c == compress[p]
<1>1. PICK n \in 0 .. PageCount(c.text, c.density, c.tier) : Showing(c, n) /\ Showable(c)
    BY DEF Paged, Shows
<1>2. c.pages = [i \in 1 .. PageCount(c.text, c.density, c.tier) |->
                   Picture(c.text, c.density, c.tier, i)]
    BY <1>1 DEF Showing
<1>3. TotalTokens(c) = Total([i \in 1 .. PageCount(c.text, c.density, c.tier) |->
                                PageTokens(Picture(c.text, c.density, c.tier, i), c.tier)])
    <2>1. [i \in DOMAIN c.pages |-> PageTokens(c.pages[i], c.tier)]
            = [i \in 1 .. PageCount(c.text, c.density, c.tier) |->
                 PageTokens(Picture(c.text, c.density, c.tier, i), c.tier)]
        BY <1>2
    <2> QED BY <2>1 DEF TotalTokens
<1>4. c.text \in Texts /\ c.density \in DOMAIN DENSITIES /\ c.tier \in Tiers
    BY <1>1 DEF Showable
<1> HIDE DEF c
<1>5. Total([i \in 1 .. PageCount(c.text, c.density, c.tier) |->
               PageTokens(Picture(c.text, c.density, c.tier, i), c.tier)])
        <= Projected(c.text, c.density, c.tier)
    BY <1>4, CostOfPictures
<1> QED BY <1>3, <1>5 DEF c


\* Whatever calls overlap, and whichever page of another call one finds, the pages
\* of an answer show its text in order, at its density and at their intended size
\* (render.render and its cache) - while one tier is in use.
THEOREM PagesTheorem ==
    ASSUME OneTier, GlyphsFit
    PROVE  Spec => []PagesShowText
<1>1. Init => Shapes /\ Paged
    BY AllStart, PagedStart DEF All
<1>2. All /\ Paged /\ [Next]_vars => Paged'
    BY PagedStep DEF All
<1>3. Paged => PagesShowText
    BY PagedAnswers
<1> QED BY <1>1, <1>2, <1>3, AllStart, AllStep, PTL DEF Spec

\* What was drawn never costs more than the preflight said (tokens.preflight against
\* the pages of render.render), for every size of page, font and text.
THEOREM CostTheorem ==
    ASSUME OneTier, GlyphsFit
    PROVE  Spec => []CostIsProjected
<1>1. Init => Shapes /\ Paged
    BY AllStart, PagedStart DEF All
<1>2. All /\ Paged /\ [Next]_vars => Paged'
    BY PagedStep DEF All
<1>3. Paged => CostIsProjected
    BY PagedCosts
<1> QED BY <1>1, <1>2, <1>3, AllStart, AllStep, PTL DEF Spec
=============================================================================
