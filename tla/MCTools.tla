------------------------------- MODULE MCTools -------------------------------
(* A small instance of Tools for TLC: the texts of MCOutline, and arguments     *)
(* that differ from the plain ones in one place or two.  A millisecond is 6     *)
(* units of a duration, a second 2, a minute 4, an hour 12 and a day 36         *)
(* milliseconds.                                                                *)
EXTENDS Tools, MCOutline

MCIsoFirst == -100

OneTask == <<L("spaces", 0, "x", "text")>>

ScopeArgs == [name : {"", "default", "s1", "bad name"}, padded : BOOLEAN]

Dates    == {-110, -3, 0, 5, 20, 40, 200}
DueArgs  == {[kind |-> kind] : kind \in {"", "blank", "word"}}
            \cup {[kind |-> "number", ms |-> ms] : ms \in Dates}
            \cup {[kind |-> "date", ms |-> ms] : ms \in {1, 41}}

VariedArgs == {[NoArgs EXCEPT !.scope = scope] : scope \in ScopeArgs}
             \cup {[NoArgs EXCEPT !.priority = word] : word \in {"high", "bad"}}
             \cup {[NoArgs EXCEPT !.difficulty = word] : word \in {"hard", "bad"}}
             \cup {[NoArgs EXCEPT !.due = due] : due \in DueArgs}

MCCalls == {<<input, NoArgs>> : input \in MCTexts} \cup {<<OneTask, a>> : a \in VariedArgs}

NoUpdate == [status |-> "", content |-> "", priority |-> "", difficulty |-> "",
             due |-> [kind |-> ""], clear |-> FALSE]

MCUpdateArgs ==
    {NoUpdate}
    \cup {[NoUpdate EXCEPT !.status = word] : word \in {"cancelled", "bad"}}
    \cup {[NoUpdate EXCEPT !.content = content] : content \in {"blank", "long", "bad"}}
    \cup {[NoUpdate EXCEPT !.priority = word] : word \in {"medium", "urgent", "bad"}}
    \cup {[NoUpdate EXCEPT !.difficulty = word] : word \in {"easy", "bad"}}
    \cup {[NoUpdate EXCEPT !.due = due, !.clear = clear] : due \in DueArgs, clear \in BOOLEAN}
    \cup {[NoUpdate EXCEPT !.priority = "low", !.due = [kind |-> "number", ms |-> 20]]}

MCDeleteArgs == [ids : SUBSET {"t1", "bad id"}, scope : ScopeArgs]

MCNoteTexts == {"", "text", "long", "bad"}
=============================================================================
