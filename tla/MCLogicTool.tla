---------------------------- MODULE MCLogicTool ----------------------------
(***************************************************************************)
(* LogicTool for TLC: the lines of MCIotools and, for the logic commands,  *)
(* operands on both sides of the widths.                                   *)
(***************************************************************************)
EXTENDS LogicTool, MCIotools

\* Words that spell numbers; every other word has no digits.
Numerals == [s \in {"-1", "0", "1", "2", "3", "4", "5", "6", "7", "11", "30", "63", "64"} |->
               CASE s = "-1" -> -1 [] s = "0" -> 0 [] s = "1" -> 1 [] s = "2" -> 2
                 [] s = "3" -> 3 [] s = "4" -> 4 [] s = "5" -> 5 [] s = "6" -> 6
                 [] s = "7" -> 7 [] s = "11" -> 11 [] s = "30" -> 30 [] s = "63" -> 63
                 [] s = "64" -> 64]
MCSpells(word) ==
  IF Len(word) = 1 /\ word[1] \in DOMAIN Numerals THEN Numerals[word[1]] ELSE 0

Word(s) == <<s>>
Wide == {"-1", "0", "5", "30"}
Counts == DOMAIN Numerals

FoldLines == {<<Word(c), Word(a), Word(b), Word(d)>> : c \in {"or", "and", "xor"},
                a \in Wide, b \in Wide, d \in {"0", "11"}}
PairLines == {<<Binary, Word(c), Word(a), Word(b)>> : c \in {"shl", "shr", "bts", "btr"},
                a \in Wide, b \in Counts}
NotLines == {<<Word("not"), Word(a)>> : a \in Counts}

MCToolLines == MCLines \union FoldLines \union PairLines \union NotLines
==============================================================================
