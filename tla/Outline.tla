------------------------------- MODULE Outline -------------------------------
(***************************************************************************)
(* How todo_write turns its text into tasks: parser.Parse (internal/       *)
(* parser), the check of every content (internal/validate) and the loop of *)
(* resolveParents (internal/store/todo.go), one step per line or per item. *)
(* TodoTables takes the outlines this may accept as its constant Batches   *)
(* and finds parents by a definition (Anchors) instead of the loop's map.  *)
(*                                                                         *)
(* A line is what the two regular expressions tell apart: the blanks it    *)
(* starts with, the mark of "- [.]" if there is one, and what follows.     *)
(***************************************************************************)
EXTENDS TodoTables

CONSTANT Texts   \* inputs a caller may submit: sequences of lines

NoMark == "none"

StatusOfMark == [m \in {" ", "x", "-", "~"} |->
    CASE m = " " -> "pending" [] m = "x" -> "completed"
      [] m = "-" -> "in_progress" [] m = "~" -> "cancelled"]

(* lead "tab" is a tab among the leading blanks, indent their number.  rest:  *)
(* "none" is at most one blank, "blanks" two or more, "bad" a text that is    *)
(* too long or has a forbidden control character.                            *)
Line == [lead : {"spaces", "tab"}, indent : Nat,
         mark : DOMAIN StatusOfMark \cup {NoMark},
         rest : {"none", "blanks", "text", "bad"}]

ASSUME TextsAssumption ==
    /\ Texts \subseteq Seq(Line)
    /\ \A m \in DOMAIN StatusOfMark : StatusOfMark[m] \in Statuses

Blank(line) == line.mark = NoMark /\ line.rest \in {"none", "blanks"}

VARIABLES text,         \* lines of the input, after Normalize
          stage,        \* where the call is
          pos,          \* the next line of the parsing loop
          items,        \* tasks parsed so far
          lastByDepth,  \* resolveParents: the last item at each depth
          parents       \* resolveParents: position of each item's parent, or NoTodo

outlineVars == <<text, stage, pos, items, lastByDepth, parents>>

-----------------------------------------------------------------------------
(* Blanks and empty lines at the end of the input are dropped. *)
Normalize(input) ==
    LET full == {i \in DOMAIN input : ~ Blank(input[i])}
        last == CHOOSE i \in full : \A j \in full : j <= i
    IN IF full = {} THEN << >>
       ELSE [SubSeq(input, 1, last) EXCEPT ![last].rest = IF @ = "blanks" THEN "none" ELSE @]

(* markdownDetectRE asks for a blank after the bracket, which the end of a line *)
(* is as well, and lets any blanks precede the dash.                           *)
LooksLikeTask(i) ==
    text[i].mark # NoMark /\ (text[i].rest # "none" \/ i < Len(text))

(* Mutant: the first line decides. *)
DetectByFirstLine == IF LooksLikeTask(1) THEN "markdown" ELSE "text"

Detect == IF \E i \in DOMAIN text : LooksLikeTask(i) THEN "markdown" ELSE "text"

(* markdownLineRE: the indent is of spaces only, and one character follows the *)
(* blank after the bracket.                                                   *)
MatchesLine(line) ==
    line.lead = "spaces" /\ line.mark # NoMark /\ line.rest # "none"

(* The lines parseMarkdown and parseText do not pass over. *)
IsTask(line) == IF Detect = "markdown" THEN MatchesLine(line) ELSE ~ Blank(line)

(* Mutant: any indent will do. *)
IndentAlwaysValid(line) == TRUE

IndentValid(line) == Detect = "text" \/ line.indent % 2 = 0

TrimmedContent(line) ==
    CASE line.rest = "blanks" -> ""
      [] line.rest = "bad" -> "bad"
      [] OTHER -> "text"

ItemOf(line) ==
    IF Detect = "markdown"
      THEN [depth |-> line.indent \div 2, status |-> StatusOfMark[line.mark],
            content |-> TrimmedContent(line)]
      ELSE [depth |-> 0, status |-> "pending", content |-> TrimmedContent(line)]

-----------------------------------------------------------------------------
OutlineInit ==
    /\ text = << >>
    /\ stage = "idle"
    /\ pos = 1
    /\ items = << >>
    /\ lastByDepth = [d \in {} |-> NoTodo]
    /\ parents = << >>

Submit(input) ==
    /\ stage = "idle"
    /\ text' = Normalize(input)
    /\ stage' = IF text' = << >> THEN "refused" ELSE "lines"
    /\ UNCHANGED <<pos, items, lastByDepth, parents>>

AtLine == stage = "lines" /\ pos <= Len(text)

SkipLine ==
    /\ AtLine
    /\ ~ IsTask(text[pos])
    /\ pos' = pos + 1
    /\ UNCHANGED <<text, stage, items, lastByDepth, parents>>

TakeLine ==
    /\ AtLine
    /\ IsTask(text[pos])
    /\ IndentValid(text[pos])
    /\ pos' = pos + 1
    /\ items' = Append(items, ItemOf(text[pos]))
    /\ UNCHANGED <<text, stage, lastByDepth, parents>>

OddIndent ==
    /\ AtLine
    /\ IsTask(text[pos])
    /\ ~ IndentValid(text[pos])
    /\ stage' = "refused"
    /\ UNCHANGED <<text, pos, items, lastByDepth, parents>>

(* No line was a task, or TodoContent refuses one of the contents: the call ends, *)
(* whatever the other lines said.  Otherwise InsertBatchDetailed gets the items.  *)
EndOfText ==
    /\ stage = "lines"
    /\ pos > Len(text)
    /\ stage' = IF items # << >> /\ \A i \in DOMAIN items : items[i].content = "text"
                  THEN "parents" ELSE "refused"
    /\ UNCHANGED <<text, pos, items, lastByDepth, parents>>

(* Mutant: the deeper levels are kept when an item returns to a shallower one. *)
NotedKeepingDeeper(i) ==
    [d \in DOMAIN lastByDepth \cup {items[i].depth} |->
        IF d = items[i].depth THEN i ELSE lastByDepth[d]]

(* lastByDepth[depth] = ids[i], and every deeper entry is deleted. *)
Noted(i) ==
    [d \in {e \in DOMAIN lastByDepth : e < items[i].depth} \cup {items[i].depth} |->
        IF d = items[i].depth THEN i ELSE lastByDepth[d]]

AtItem(i) == stage = "parents" /\ i = Len(parents) + 1 /\ i \in DOMAIN items

HasParent(i) == items[i].depth = 0 \/ items[i].depth - 1 \in DOMAIN lastByDepth

FindParent(i) ==
    /\ AtItem(i)
    /\ HasParent(i)
    /\ parents' = Append(parents, IF items[i].depth = 0 THEN NoTodo
                                  ELSE lastByDepth[items[i].depth - 1])
    /\ lastByDepth' = Noted(i)
    /\ UNCHANGED <<text, stage, pos, items>>

InvalidIndent(i) ==
    /\ AtItem(i)
    /\ ~ HasParent(i)
    /\ stage' = "refused"
    /\ UNCHANGED <<text, pos, items, lastByDepth, parents>>

Resolved ==
    /\ stage = "parents"
    /\ Len(parents) = Len(items)
    /\ stage' = "accepted"
    /\ UNCHANGED <<text, pos, items, lastByDepth, parents>>

(* The call returns; its locals are gone. *)
Forget ==
    /\ text' = << >>
    /\ stage' = "idle"
    /\ pos' = 1
    /\ items' = << >>
    /\ lastByDepth' = [d \in {} |-> NoTodo]
    /\ parents' = << >>

ReturnRefused == stage = "refused" /\ Forget

ReturnAccepted == stage = "accepted" /\ Forget

(* The steps between the two ends of a call. *)
OutlineStep ==
    \/ SkipLine \/ TakeLine \/ OddIndent \/ EndOfText
    \/ \E i \in DOMAIN items : FindParent(i) \/ InvalidIndent(i)
    \/ Resolved

OutlineNext ==
    \/ \E input \in Texts : Submit(input)
    \/ OutlineStep
    \/ ReturnRefused
    \/ ReturnAccepted

OutlineSpec == OutlineInit /\ [][OutlineNext]_outlineVars

-----------------------------------------------------------------------------
(* Properties.                                                             *)

OutlineTypeOK ==
    /\ text \in Seq(Line)
    /\ stage \in {"idle", "lines", "parents", "accepted", "refused"}
    /\ pos \in 1 .. Len(text) + 1
    /\ items \in Seq([depth : Nat, status : Statuses, content : {"", "text", "bad"}])
    /\ \A d \in DOMAIN lastByDepth : d \in Nat /\ lastByDepth[d] \in DOMAIN items
    /\ parents \in Seq(0 .. Len(items)) /\ Len(parents) <= Len(items)

(* resolveParents finds with its map what TodoTables defines without one: the   *)
(* parent of an item is the last item one level up that no shallower item has   *)
(* closed since; the loop stops exactly at the first item that has none.        *)
LoopFindsAnchors ==
    /\ \A i \in DOMAIN parents :
          /\ items[i].depth > 0 => Anchors(items, i) # {}
          /\ parents[i] = BatchParent(items, i, NoTodo, 1)
    /\ stage = "refused" /\ lastByDepth # [d \in {} |-> NoTodo] =>
          Anchors(items, Len(parents) + 1) = {}

(* The task a line of a checklist describes (the table in DESIGN.md 5). *)
TaskOf(line, item) ==
    2 * item.depth = line.indent /\ item.status = StatusOfMark[line.mark]

(* What an accepted text becomes: its tasks are lines of it, in their order;   *)
(* every line the checklist pattern matches is one of them, with the indent    *)
(* and the status it shows; a text without any such line is taken line by line. *)
OutlineKept ==
    stage = "accepted" =>
        LET lists == \E k \in DOMAIN text : MatchesLine(text[k])
            tasks == {k \in DOMAIN text :
                         IF lists THEN MatchesLine(text[k]) ELSE ~ Blank(text[k])}
        IN /\ Len(items) = Cardinality(tasks)
           /\ \A k \in tasks : LET i == Cardinality({j \in tasks : j <= k})
                               IN lists => TaskOf(text[k], items[i])
           /\ ~ lists => \A i \in DOMAIN items : items[i].depth = 0 /\ items[i].status = "pending"

(* A call is refused for a reason in its text and accepted only if there is    *)
(* none: nothing to do, an odd indent, a content TodoContent rejects, or an    *)
(* item without a parent.  All or nothing: no reason drops only its line.      *)
Faulty(k) ==
    \/ MatchesLine(text[k]) /\ (text[k].indent % 2 # 0 \/ text[k].rest = "blanks")
    \/ IsTask(text[k]) /\ text[k].rest = "bad"

RefusedForCause ==
    /\ stage = "accepted" => (\A k \in DOMAIN text : ~ Faulty(k)) /\ WellIndented(items)
    /\ stage = "refused" =>
          \/ \A k \in DOMAIN text : ~ IsTask(text[k])
          \/ \E k \in DOMAIN text : Faulty(k)
          \/ ~ WellIndented(items)

(* "Any line that fails to parse fails the whole input, so that no task is     *)
(* dropped silently" (the comment on Parse): every line that looks like a task *)
(* to Detect is a task of an accepted input.                                   *)
NoTaskDropped ==
    stage = "accepted" =>
        Len(items) >= Cardinality({k \in DOMAIN text : LooksLikeTask(k)})
=============================================================================
