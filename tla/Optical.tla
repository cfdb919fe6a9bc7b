------------------------------ MODULE Optical ------------------------------
(***************************************************************************)
(* The store of optical compression with the processes that share it       *)
(* (src/optical_compression/pipeline.py, store.py, render.py, hook.py,     *)
(* server.py): compressors (calls of optical_compress, and the hook, which *)
(* compresses what nobody asked for), readers (optical_retrieve) and one   *)
(* operator who prunes.  Each file operation is a step.                    *)
(***************************************************************************)
EXTENDS OpticalPages

CONSTANTS
    Texts,          \* what may be compressed: records of OpticalPages, with what
                    \* the guard's patterns find and how many characters are
                    \* in tokens that look like identifiers
    Tiers,          \* the tiers a call may ask for
    Tools, Hooks,   \* the compressing processes
    Readers, None,
    MIN_PAYLOAD_CHARS, HOOK_MIN_CHARS, HOOK_DENSITY, DEFAULT_TIER,
    DENSITY_CEILING,    \* share of such characters, in percent
    MaxCalls, MaxPrunes, MaxDamage

ASSUME OpticalAssumption ==
    /\ Texts \subseteq [ascii : Seq(Nat), wide : Nat, newlines : Nat,
                        shaped : BOOLEAN, covered : Nat]
    /\ Tiers \subseteq DOMAIN TIERS /\ DEFAULT_TIER \in Tiers
    /\ HOOK_DENSITY \in DOMAIN DENSITIES /\ {"safe", "aggressive"} \subseteq DOMAIN DENSITIES
    /\ Tools \cap Hooks = {}
    /\ None \notin Texts \cup [whole : BOOLEAN, old : BOOLEAN]
    /\ {MIN_PAYLOAD_CHARS, HOOK_MIN_CHARS, DENSITY_CEILING, MaxCalls, MaxPrunes, MaxDamage} \subseteq Nat

VARIABLES
    originals,  \* digest (here the text itself) -> its file
    segments,   \* the cached pictures
    compress,   \* per process: its call of the pipeline
    reader,     \* per reader: its call of optical_retrieve
    prune,      \* the command of the operator
    promised,   \* history: texts handed out and neither removed nor damaged since
    calls, prunes, damages

vars == <<originals, segments, compress, reader, prune, promised, calls, prunes, damages>>

Processes == Tools \cup Hooks

\* A file of an original: is it still what was written, is it past retention?
File(whole, old) == [whole |-> whole, old |-> old]
Files == [whole : BOOLEAN, old : BOOLEAN]

Idle == [pc |-> "idle", text |-> None, density |-> None, tier |-> None,
         pages |-> <<>>, undisturbed |-> TRUE]

Init ==
    /\ originals = [t \in Texts |-> None]
    /\ segments = {}
    /\ compress = [p \in Processes |-> Idle]
    /\ reader = [r \in Readers |-> [pc |-> "idle", asked |-> None, got |-> "nothing", kept |-> FALSE]]
    /\ prune = [pc |-> "idle", all |-> FALSE, todo |-> {}, found |-> None]
    /\ promised = {}
    /\ calls = 0 /\ prunes = 0 /\ damages = 0

Bounds == <<calls, prunes, damages>>
At(p, pc) == compress[p].pc = pc
GiveUp(p) == compress' = [compress EXCEPT ![p] = Idle]
Goto(p, pc) == compress' = [compress EXCEPT ![p].pc = pc]

------------------------------------------------------------------------------
(* The pipeline (pipeline.compress). *)

\* guard.scan: no pattern found, not too much that looks like an identifier.
SafeForAuto(t) == ~t.shaped /\ 100 * t.covered <= DENSITY_CEILING * Length(t)

Minimum(p) == IF p \in Hooks THEN HOOK_MIN_CHARS ELSE MIN_PAYLOAD_CHARS

\* What nobody asked to compress is compressed in one way only.
Requests(p) ==
    IF p \in Hooks THEN {[density |-> HOOK_DENSITY, tier |-> DEFAULT_TIER]}
    ELSE [density : DOMAIN DENSITIES, tier : Tiers]

\* Text with identifiers is not drawn at the density that garbles them.
DensityFor(t, density) ==
    IF ~SafeForAuto(t) /\ density = "aggressive" THEN "safe" ELSE density

Accepts(p, t, density, tier) ==
    /\ Length(t) >= Minimum(p)
    /\ p \in Hooks => SafeForAuto(t)
    /\ WorthIt(t, density, tier)

TooMany(t, density, tier) == PageCount(t, density, tier) > MAX_PAGES

\* A call up to its first look at the store.  A payload that is declined, or needs
\* too many pages, ends it.
Begin(p) ==
    /\ At(p, "idle") /\ calls < MaxCalls
    /\ \E t \in Texts, q \in Requests(p) :
         LET density == DensityFor(t, q.density)
         IN  IF Accepts(p, t, density, q.tier) /\ ~TooMany(t, density, q.tier)
             THEN compress' = [compress EXCEPT ![p] =
                    [Idle EXCEPT !.pc = "page", !.text = t, !.density = density,
                                 !.tier = q.tier]]
             ELSE UNCHANGED compress
    /\ calls' = calls + 1
    /\ UNCHANGED <<originals, segments, reader, prune, promised, prunes, damages>>

Wanted(p) ==
    LET c == compress[p] IN Picture(c.text, c.density, c.tier, Len(c.pages) + 1)
Finished(p) ==
    LET c == compress[p] IN Len(c.pages) = PageCount(c.text, c.density, c.tier)

\* Mutant: the key of the cache is the content alone.
ContentKey(picture) == <<picture.text, picture.from, picture.upto>>

\* The key of the cache: content and size of the font.
SegmentKey(picture) == <<picture.text, picture.from, picture.upto, picture.density>>

Cached(picture) == {s \in segments : SegmentKey(s) = SegmentKey(picture)}

AddPage(p, picture, pc) ==
    compress' = [compress EXCEPT ![p].pages = Append(@, picture), ![p].pc = pc]

\* A page is taken from the cache as it is, or has to be drawn.
LookUpSegment(p) ==
    /\ At(p, "page") /\ ~Finished(p)
    /\ IF Cached(Wanted(p)) # {}
       THEN \E s \in Cached(Wanted(p)) : AddPage(p, s, "page")
       ELSE Goto(p, "draw")
    /\ UNCHANGED <<originals, segments, reader, prune, promised, Bounds>>

\* Drawn, and stored unless another process has stored it meanwhile.
Draw(p) ==
    /\ At(p, "draw")
    /\ AddPage(p, Wanted(p), IF Cached(Wanted(p)) # {} THEN "page" ELSE "store")
    /\ UNCHANGED <<originals, segments, reader, prune, promised, Bounds>>

StoreSegment(p) ==
    /\ At(p, "store")
    /\ LET drawn == Last(compress[p].pages)
       IN  segments' = (segments \ Cached(drawn)) \cup {drawn}
    /\ Goto(p, "page")
    /\ UNCHANGED <<originals, reader, prune, promised, Bounds>>

\* Mutant: whatever a file holds is taken for the original.
ReadUnverified(t) == originals[t] # None

\* get_original: a file that does not have the text of its name counts as none.
Readable(t) == originals[t] # None /\ originals[t].whole

\* Mutant: a file under the name of the digest is good enough.
LookUpFile(p) ==
    /\ At(p, "page") /\ Finished(p)
    /\ Goto(p, IF originals[compress[p].text] # None THEN "answer" ELSE "put")
    /\ UNCHANGED <<originals, segments, reader, prune, promised, Bounds>>

LookUpOriginal(p) ==
    /\ At(p, "page") /\ Finished(p)
    /\ Goto(p, IF Readable(compress[p].text) THEN "answer" ELSE "put")
    /\ UNCHANGED <<originals, segments, reader, prune, promised, Bounds>>

PutOriginal(p) ==
    /\ At(p, "put")
    /\ originals' = [originals EXCEPT ![compress[p].text] = File(TRUE, FALSE)]
    /\ Goto(p, "answer")
    /\ UNCHANGED <<segments, reader, prune, promised, Bounds>>

\* What the pages cost.
TotalTokens(c) == Total([i \in DOMAIN c.pages |-> PageTokens(c.pages[i], c.tier)])

\* Reality may be worse than the projection; the hook hands out one page or none.
Answer(p) ==
    /\ At(p, "answer")
    /\ LET c == compress[p]
       IN  IF TotalTokens(c) < TextTokens(c.text) /\ (p \in Hooks => Len(c.pages) = 1)
           THEN /\ Goto(p, "answered")
                /\ promised' = IF c.undisturbed THEN promised \cup {c.text} ELSE promised
           ELSE GiveUp(p) /\ UNCHANGED promised
    /\ UNCHANGED <<originals, segments, reader, prune, Bounds>>

\* A file system error, too many bytes, or the end of the process, anywhere: the
\* tool reports an error, the hook prints nothing.
Breaks(p) ==
    /\ compress[p].pc \in {"page", "draw", "store", "put", "answer"}
    /\ GiveUp(p)
    /\ UNCHANGED <<originals, segments, reader, prune, promised, Bounds>>

\* The caller has the answer.
Return(p) ==
    /\ At(p, "answered")
    /\ GiveUp(p)
    /\ UNCHANGED <<originals, segments, reader, prune, promised, Bounds>>

------------------------------------------------------------------------------
(* optical_retrieve: one read to see whether there is something, one for it. *)

Ask(r) ==
    /\ reader[r].pc = "idle"
    /\ \E t \in Texts :
         reader' = [reader EXCEPT ![r] =
           [pc |-> IF Readable(t) THEN "slice" ELSE "not_found", asked |-> t,
            got |-> "nothing", kept |-> t \in promised]]
    /\ UNCHANGED <<originals, segments, compress, prune, promised, Bounds>>

\* Whatever the second read finds, the status is ok.
Slice(r) ==
    /\ reader[r].pc = "slice"
    /\ reader' = [reader EXCEPT ![r].pc = "ok",
         ![r].got = IF ~Readable(reader[r].asked) THEN "nothing"
                    ELSE IF originals[reader[r].asked].whole THEN "exact" ELSE "other"]
    /\ UNCHANGED <<originals, segments, compress, prune, promised, Bounds>>

Leave(r) ==
    /\ reader[r].pc \in {"ok", "not_found"}
    /\ reader' = [reader EXCEPT ![r] =
                    [pc |-> "idle", asked |-> None, got |-> "nothing", kept |-> FALSE]]
    /\ UNCHANGED <<originals, segments, compress, prune, promised, Bounds>>

------------------------------------------------------------------------------
(* prune, and what happens to files. *)

\* From now on nothing promises that the original of t is there.
Disturb(t) ==
    /\ promised' = promised \ {t}
    /\ compress' = [p \in Processes |-> IF compress[p].text = t
                      THEN [compress[p] EXCEPT !.undisturbed = FALSE] ELSE compress[p]]
    /\ reader' = [r \in Readers |-> IF reader[r].asked = t
                    THEN [reader[r] EXCEPT !.kept = FALSE] ELSE reader[r]]

\* The retention is the given days or, for 0, nothing is kept.
PruneList ==
    /\ prune.pc = "idle" /\ prunes < MaxPrunes
    /\ \E all \in BOOLEAN :
         prune' = [pc |-> "originals", all |-> all, found |-> None,
                   todo |-> {t \in Texts : originals[t] # None}]
    /\ prunes' = prunes + 1
    /\ UNCHANGED <<originals, segments, compress, reader, promised, calls, damages>>

PastRetention(t) == originals[t] # None /\ (prune.all \/ originals[t].old)

PruneStat ==
    /\ prune.pc = "originals" /\ prune.found = None
    /\ \E t \in prune.todo :
         prune' = [prune EXCEPT !.todo = @ \ {t},
                                !.found = IF PastRetention(t) THEN t ELSE None]
    /\ UNCHANGED <<originals, segments, compress, reader, promised, Bounds>>

\* It unlinks the file that has the name now.
PruneUnlink ==
    /\ prune.pc = "originals" /\ prune.found # None
    /\ originals' = [originals EXCEPT ![prune.found] = None]
    /\ Disturb(prune.found)
    /\ prune' = [prune EXCEPT !.found = None]
    /\ UNCHANGED <<segments, Bounds>>

PruneSegments ==
    /\ prune.pc = "originals" /\ prune.found = None /\ prune.todo = {}
    /\ prune' = [prune EXCEPT !.pc = "segments"]
    /\ UNCHANGED <<originals, segments, compress, reader, promised, Bounds>>

\* The age of a segment is any.
UnlinkSegment ==
    /\ prune.pc = "segments"
    /\ \E s \in segments : segments' = segments \ {s}
    /\ UNCHANGED <<originals, compress, reader, prune, promised, Bounds>>

\* It is done, or killed.
PruneEnds ==
    /\ prune.pc # "idle"
    /\ prune' = [pc |-> "idle", all |-> FALSE, todo |-> {}, found |-> None]
    /\ UNCHANGED <<originals, segments, compress, reader, promised, Bounds>>

\* Days pass.
Ages(t) ==
    /\ originals[t] # None
    /\ originals' = [originals EXCEPT ![t].old = TRUE]
    /\ UNCHANGED <<segments, compress, reader, prune, promised, Bounds>>

\* A file is cut short or changed on the disk.
Damaged(t) ==
    /\ originals[t] # None /\ damages < MaxDamage
    /\ originals' = [originals EXCEPT ![t].whole = FALSE]
    /\ Disturb(t)
    /\ damages' = damages + 1
    /\ UNCHANGED <<segments, prune, calls, prunes>>

Next ==
    \/ \E p \in Processes :
         \/ Begin(p) \/ LookUpSegment(p) \/ Draw(p) \/ StoreSegment(p)
         \/ LookUpOriginal(p) \/ PutOriginal(p) \/ Answer(p) \/ Breaks(p) \/ Return(p)
    \/ \E r \in Readers : Ask(r) \/ Slice(r) \/ Leave(r)
    \/ PruneList \/ PruneStat \/ PruneUnlink \/ PruneSegments \/ UnlinkSegment \/ PruneEnds
    \/ \E t \in Texts : Ages(t) \/ Damaged(t)

Spec == Init /\ [][Next]_vars

------------------------------------------------------------------------------
(* Properties. *)

\* Types and bounds; what the pages of a call are, PagesShowText says.
TypeOK ==
    /\ originals \in [Texts -> Files \cup {None}]
    /\ \A p \in Processes :
         /\ compress[p].pc \in {"idle", "page", "draw", "store", "put", "answer",
                                "answered"}
         /\ compress[p].text \in Texts \cup {None}
         /\ compress[p].undisturbed \in BOOLEAN
    /\ reader \in [Readers -> [pc : {"idle", "slice", "ok", "not_found"},
                               asked : Texts \cup {None},
                               got : {"nothing", "exact", "other"}, kept : BOOLEAN]]
    /\ prune \in [pc : {"idle", "originals", "segments"}, all : BOOLEAN,
                  todo : SUBSET Texts, found : Texts \cup {None}]
    /\ promised \subseteq Texts
    /\ calls \in 0 .. MaxCalls /\ prunes \in 0 .. MaxPrunes /\ damages \in 0 .. MaxDamage

\* A digest that was handed out can be read, unless the original was pruned or
\* damaged after the call that handed it out began ("The exact original text is
\* stored verbatim", pipeline.framing_text).
HandedOutIsThere == \A t \in promised : Readable(t)

\* An answer of optical_retrieve is the exact text or no text; it is the text
\* when that was promised and stayed undisturbed.
RetrieveIsExact ==
    \A r \in Readers :
      /\ reader[r].got # "other"
      /\ reader[r].pc \in {"ok", "not_found"} /\ reader[r].kept => reader[r].got = "exact"

\* The pages handed out show the whole text, in order, at the density the answer
\* names, wherever each of them came from; they are no more than the ceiling, and
\* each fits the tier, so that the vendor does not shrink it ("keeps every rendered
\* page at its intended font size", tokens.page_box).
PagesShowText ==
    \A p \in Processes : LET c == compress[p] IN
      c.pc = "answered" =>
        /\ Len(c.pages) = PageCount(c.text, c.density, c.tier)
        /\ Len(c.pages) <= MAX_PAGES
        /\ \A i \in DOMAIN c.pages :
             LET q == Picture(c.text, c.density, c.tier, i)
             IN  /\ c.pages[i].text = q.text /\ c.pages[i].from = q.from
                 /\ c.pages[i].upto = q.upto /\ c.pages[i].density = q.density
                 /\ FitsTier(PageWidth(c.pages[i]), PageHeight(c.pages[i]), c.tier)

\* The pages never cost more than was projected, so that nothing is drawn and
\* stored and then declined for its cost (pipeline.py, "reality said no").
CostIsProjected ==
    \A p \in Processes : LET c == compress[p] IN
      c.pc = "answer" => TotalTokens(c) <= Projected(c.text, c.density, c.tier)
=============================================================================
