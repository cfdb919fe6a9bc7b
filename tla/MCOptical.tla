----------------------------- MODULE MCOptical -----------------------------
(* Instances of Optical for TLC: the limits of constants.py, glyph sizes of a *)
(* monospace font; a text of one page, one with identifiers, and one of two   *)
(* or three pages.                                                            *)
EXTENDS Optical, TLC

CONSTANTS tool, hook, reader1

MCTIERS == "standard" :> [max_edge |-> 1568, max_tokens |-> 1568]
        @@ "highres" :> [max_edge |-> 2576, max_tokens |-> 4784]
MCDENSITIES == "safe" :> [char_width |-> 66, line_height |-> 14]
            @@ "balanced" :> [char_width |-> 55, line_height |-> 12]
            @@ "aggressive" :> [char_width |-> 44, line_height |-> 9]

OnePage == [ascii |-> <<12001>>, wide |-> 1, newlines |-> 300,
            shaped |-> FALSE, covered |-> 1000]
Coded == [ascii |-> <<12000>>, wide |-> 0, newlines |-> 0,
          shaped |-> TRUE, covered |-> 600]
TwoPages == [ascii |-> <<9000, 17002>>, wide |-> 1, newlines |-> 300,
             shaped |-> FALSE, covered |-> 1000]
MCTexts == {OnePage, Coded, TwoPages}
=============================================================================
