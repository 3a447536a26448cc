------------------------------ MODULE MCOutline ------------------------------
(* A small instance of Outline for TLC: every text of up to three lines of all *)
(* kinds, and of four lines of a checklist.                                    *)
EXTENDS Outline

L(lead, indent, mark, rest) == [lead |-> lead, indent |-> indent, mark |-> mark, rest |-> rest]

Tasks == {L("spaces", indent, " ", "text") : indent \in {0, 2, 4}}
Kinds == Tasks \cup {L("spaces", 0, mark, "text") : mark \in {"x", "-"}}
               \cup {L("spaces", 2, "~", "text"), L("spaces", 1, " ", "text"),
                     L("tab", 1, " ", "text")}
               \cup {L("spaces", 0, " ", rest) : rest \in {"none", "blanks", "bad"}}
               \cup {L("spaces", 0, NoMark, rest) : rest \in {"none", "text", "bad"}}

TextsOf(lines, lengths) == UNION {[1 .. n -> lines] : n \in lengths}

MCTexts == TextsOf(Kinds, 1 .. 3) \cup TextsOf(Tasks, {4})

MCScopes   == {"default", "s1"}
MCStatuses == {StatusOfMark[m] : m \in DOMAIN StatusOfMark}
NoUpdates == {}
MCTimes    == {3, 50}
MCBatches  == {}
=============================================================================
