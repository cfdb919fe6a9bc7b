---------------------------- MODULE OpticalPages ----------------------------
(***************************************************************************)
(* How a text is laid out on pages and what text and pages cost            *)
(* (src/optical_compression/tokens.py, render.py).  A text is a record: the *)
(* lengths of its runs of ASCII characters, its other characters, its       *)
(* newlines.  Widths are in tenths of a pixel.                              *)
(***************************************************************************)
EXTENDS Integers, Sequences, FiniteSets, FiniteSetsExt, SequencesExt

CONSTANTS
    TIERS,         \* tier -> [max_edge, max_tokens]
    DENSITIES,     \* density -> [char_width (tenths), line_height] of its font
    CLAUDE_PATCH, PADDING_PX, MAX_PAGES,
    MARKER_CHARS   \* length of NEWLINE_MARKER, which replaces a newline

ASSUME PagesAssumption ==
    /\ TIERS \in [DOMAIN TIERS -> [max_edge : Nat \ {0}, max_tokens : Nat \ {0}]]
    /\ DENSITIES \in [DOMAIN DENSITIES ->
                        [char_width : Nat \ {0}, line_height : Nat \ {0}]]
    /\ {CLAUDE_PATCH, MAX_PAGES, MARKER_CHARS} \subseteq Nat \ {0}
    /\ PADDING_PX \in Nat

CeilDiv(a, b) == (a + b - 1) \div b

Total(numbers) == FoldSeq(+, 0, numbers)

Length(t) == Total(t.ascii) + t.wide

\* Each run of ASCII characters costs a token per four, any other character one.
TextTokens(t) == Total([i \in DOMAIN t.ascii |-> CeilDiv(t.ascii[i], 4)]) + t.wide

Patches(width, height) == CeilDiv(width, CLAUDE_PATCH) * CeilDiv(height, CLAUDE_PATCH)

\* The vendor shrinks an image to the edge limit, then step by step until its
\* patches fit.
FitsTier(width, height, tier) ==
    /\ Max({width, height}) <= TIERS[tier].max_edge
    /\ Patches(width, height) <= TIERS[tier].max_tokens

ToEdge(side, longest, edge) ==
    IF longest <= edge THEN side ELSE Max({1, (side * edge) \div longest})

FitToTier(width, height, tier) ==
    LET edge == TIERS[tier].max_edge
        long == Max({width, height})
        step[s \in Nat \X Nat] ==
            IF Patches(s[1], s[2]) > TIERS[tier].max_tokens /\ Min({s[1], s[2]}) > 1
            THEN step[<<Max({1, (s[1] * 98) \div 100}), Max({1, (s[2] * 98) \div 100})>>]
            ELSE s
    IN  step[<<ToEdge(width, long, edge), ToEdge(height, long, edge)>>]

ImageTokens(width, height, tier) ==
    LET s == FitToTier(width, height, tier) IN Patches(s[1], s[2])

\* The largest square page that is not shrunk.
PageBox == [tier \in DOMAIN TIERS |->
    LET tokens == TIERS[tier].max_tokens
        perSide == CHOOSE n \in 0 .. tokens : n * n <= tokens /\ tokens < (n + 1) * (n + 1)
    IN  Min({TIERS[tier].max_edge, perSide * CLAUDE_PATCH})]

------------------------------------------------------------------------------
(* The layout of a page. *)

Usable(tier) == PageBox[tier] - 2 * PADDING_PX
Columns(density, tier) == Max({1, (10 * Usable(tier)) \div DENSITIES[density].char_width})
Rows(density, tier) == Max({1, Usable(tier) \div DENSITIES[density].line_height})
PerPage(density, tier) == Columns(density, tier) * Rows(density, tier)

StreamLength(t) == Length(t) + t.newlines * (MARKER_CHARS - 1)

PageCount(t, density, tier) == CeilDiv(StreamLength(t), PerPage(density, tier))

\* The picture of the i-th chunk of a text: from where to where in the stream,
\* in which font, and how many columns wide it was laid out.
Picture(t, density, tier, i) ==
    LET n == PerPage(density, tier)
    IN  [text |-> t, from |-> (i - 1) * n, upto |-> Min({i * n, StreamLength(t)}),
         density |-> density, columns |-> Columns(density, tier)]

\* The canvas is sized to the content.
PageWidth(picture) ==
    2 * PADDING_PX + (Min({picture.upto - picture.from, picture.columns})
                        * DENSITIES[picture.density].char_width) \div 10

PageHeight(picture) ==
    2 * PADDING_PX + CeilDiv(picture.upto - picture.from, picture.columns)
                        * DENSITIES[picture.density].line_height

PageTokens(picture, tier) == ImageTokens(PageWidth(picture), PageHeight(picture), tier)

------------------------------------------------------------------------------
(* Preflight: the cost predicted without drawing anything. *)

\* Mutant: newlines are counted as the one character they are in the text.
ProjectedShort(t, density, tier) ==
    LET pages == Max({1, CeilDiv(Length(t), PerPage(density, tier))})
        lines == Max({1, CeilDiv(Length(t), Columns(density, tier))})
        height == 2 * PADDING_PX + lines * DENSITIES[density].line_height
    IN  IF pages = 1 THEN ImageTokens(PageBox[tier], Min({PageBox[tier], height}), tier)
        ELSE pages * ImageTokens(PageBox[tier], PageBox[tier], tier)

\* Several pages are projected as full pages, a single one by its lines.
Projected(t, density, tier) ==
    LET box == PageBox[tier]
        pages == Max({1, PageCount(t, density, tier)})
        lines == Max({1, CeilDiv(StreamLength(t), Columns(density, tier))})
        height == 2 * PADDING_PX + lines * DENSITIES[density].line_height
    IN  IF pages = 1 THEN ImageTokens(box, Min({box, height}), tier)
        ELSE pages * ImageTokens(box, box, tier)

WorthIt(t, density, tier) == TextTokens(t) > Projected(t, density, tier)
=============================================================================
