----------------------------- MODULE ToolsProofs -----------------------------
(***************************************************************************)
(* Proofs about Tools, for all texts, arguments and dates: every row has a *)
(* value in each column, a delete takes only what it names, the relative   *)
(* date tells the truth about any distance a duration can hold, and what a *)
(* view shows may be sent back.                                            *)
(*                                                                         *)
(* The invariant joins that of Outline with the types of the row and says  *)
(* that the arguments of a todo_write in progress were found valid.        *)
(***************************************************************************)
EXTENDS Tools, OutlineProofs

(* A row has these columns and no other. *)
Column(row) ==
    row = [scope |-> row.scope, content |-> row.content, status |-> row.status,
           priority |-> row.priority, difficulty |-> row.difficulty, due |-> row.due,
           notes |-> row.notes]

(* A row as the handlers leave it. *)
RowOK(row) ==
    /\ Column(row)
    /\ ScopeValid([name |-> row.scope, padded |-> FALSE])
    /\ TodoContentValid(row.content)
    /\ row.status \in StatusWords
    /\ row.priority \in Priorities /\ row.difficulty \in Difficulties
    /\ row.due = {} \/ \E ms \in Int : row.due = {ms}
    /\ row.notes \in 0 .. MaxTodoNotes

TodoOK == todo = {} \/ \E row : RowOK(row) /\ todo = {row}

ArgsOK == stage # "idle" => /\ IsScopeArg(args.scope) /\ args.due \in DueArg
                            /\ WriteArgsValid(args)

ToolsInv == OutlineIInv /\ TodoOK /\ ArgsOK

-----------------------------------------------------------------------------
(* Integers.                                                               *)

LEMMA Scale ==
  /\ Second \in Nat /\ Half \in Nat /\ Millisecond \in Nat /\ Minute \in Nat
  /\ Hour \in Nat /\ Day \in Nat
  /\ 0 < Second /\ 0 < Millisecond /\ 0 < Minute /\ 0 < Half
  /\ Minute < Hour /\ Hour < Day /\ Day < Half
  BY ScaleAssumption

(* A duration that fits is left as it is. *)
LEMMA WrapFits ==
  ASSUME NEW x \in Int, -Half <= x, x < Half
  PROVE  Wrap(x) = x
  <1> DEFINE y == x + Half
             m == 2 * Half
  <1>1. y \in Int /\ m \in Int /\ 0 <= y /\ y < m
    BY Scale
  <1>2. y - Half = x
    BY Scale
  <1> HIDE DEF y, m
  <1>3. y % m = y
    BY <1>1
  <1>4. Wrap(x) = (y % m) - Half
    BY DEF Wrap, y, m
  <1> QED
    BY <1>2, <1>3, <1>4

(* The quotient is the whole number of units in an amount. *)
LEMMA WholeUnits ==
  ASSUME NEW d \in Nat, NEW unit \in Nat, 0 < unit, unit <= d
  PROVE  LET n == Quotient(d, unit)
         IN n \in Nat /\ n >= 1 /\ n * unit <= d /\ d < (n + 1) * unit
  <1> DEFINE n == d \div unit
             r == d % unit
  <1>1. n \in Nat /\ r \in Nat /\ r < unit /\ d = unit * n + r
    OBVIOUS
  <1>2. Quotient(d, unit) = n
    BY DEF Quotient
  <1> HIDE DEF n, r
  <1>3. n # 0
    BY <1>1
  <1>4. unit * n = n * unit /\ (n + 1) * unit = n * unit + unit
    BY <1>1
  <1> QED
    BY <1>1, <1>2, <1>3, <1>4

(* A distance whose product with a positive factor is below Half is below Half. *)
LEMMA Scaled ==
  ASSUME NEW a \in Nat, a * Millisecond < Half
  PROVE  a * Millisecond \in Nat /\ a < Half
  <1>1. a * Millisecond >= a
    BY Scale
  <1> QED
    BY <1>1, Scale

(* Whole seconds. *)
LEMMA WholeSecond ==
  ASSUME NEW ms \in Int
  PROVE  LET n == ms \div Second
         IN /\ n \in Int /\ n * Second \in Int
            /\ n * Second <= ms
            /\ n * Second = 0 <=> n = 0
            /\ IsoFirst <= ms => IsoFirst <= n * Second
  <1> DEFINE n == ms \div Second
             r == ms % Second
             p == IsoFirst \div Second
  <1>1. /\ n \in Int /\ r \in Int /\ 0 <= r /\ r < Second /\ ms = Second * n + r
    BY Scale
  <1>2. p \in Int /\ IsoFirst = Second * p
    <2>1. IsoFirst \in Int /\ IsoFirst % Second = 0
      BY ScaleAssumption
    <2> QED
      BY <2>1, Scale
  <1> HIDE DEF n, r, p
  <1>3. Second * n = n * Second /\ n * Second \in Int /\ Second * p \in Int
    BY <1>1, <1>2, Scale
  <1>4. n * Second = 0 <=> n = 0
    BY <1>1, Scale
  <1>5. IsoFirst <= ms => p <= n
    <2> SUFFICES ASSUME IsoFirst <= ms, n + 1 <= p PROVE FALSE
      BY <1>1, <1>2
    <2>1. Second * (n + 1) <= Second * p
      BY <1>1, <1>2, Scale
    <2>2. Second * (n + 1) = Second * n + Second
      BY <1>1, Scale
    <2> QED
      BY <1>1, <1>2, <1>3, <2>1, <2>2, Scale
  <1>6. IsoFirst <= ms => IsoFirst <= n * Second
    <2>1. p <= n => Second * p <= Second * n
      BY <1>1, <1>2, Scale
    <2> QED
      BY <1>2, <1>3, <1>5, <2>1
  <1>7. n * Second <= ms
    BY <1>1, <1>3
  <1> QED
    BY <1>1, <1>3, <1>4, <1>6, <1>7 DEF n

-----------------------------------------------------------------------------
(* Fields: what the arguments become.                                      *)

LEMMA DueParsed ==
  ASSUME NEW due \in DueArg
  PROVE  ParseDueAt(due) = {} \/ \E ms \in Int : ParseDueAt(due) = {ms}
  <1>1. due.kind \in {"number", "date"} => due.ms \in Int
    BY DEF DueArg
  <1> QED
    BY <1>1 DEF ParseDueAt

(* The two ways to say which scope leave no blanks around its name. *)
LEMMA ScopeResolved ==
  ASSUME NEW scope, IsScopeArg(scope), ScopeValid(ResolveScope(scope))
  PROVE  ScopeValid([name |-> ResolveScope(scope).name, padded |-> FALSE])
  BY DEF ResolveScope, TrimSpace, ScopeValid

(* The row a valid todo_write leaves. *)
LEMMA InsertedRow ==
  ASSUME NEW a, IsScopeArg(a.scope), a.due \in DueArg, WriteArgsValid(a),
         NEW item, item.content = "text", item.status \in StatusWords
  PROVE  RowOK([scope      |-> ResolveScope(a.scope).name,
                content    |-> item.content,
                status     |-> item.status,
                priority   |-> NormalizePriority(a.priority),
                difficulty |-> NormalizeDifficulty(a.difficulty),
                due        |-> ParseDueAt(a.due),
                notes      |-> 0])
  <1>1. NormalizePriority(a.priority) \in Priorities
    BY DEF WriteArgsValid, NormalizePriority, Priorities
  <1>2. NormalizeDifficulty(a.difficulty) \in Difficulties
    BY DEF WriteArgsValid, NormalizeDifficulty, Difficulties
  <1>3. ScopeValid([name |-> ResolveScope(a.scope).name, padded |-> FALSE])
    BY ScopeResolved DEF WriteArgsValid
  <1>4. ParseDueAt(a.due) = {} \/ \E ms \in Int : ParseDueAt(a.due) = {ms}
    BY DueParsed
  <1>5. 0 \in 0 .. MaxTodoNotes
    BY ToolsAssumption
  <1>6. TodoContentValid("text")
    BY DEF TodoContentValid
  <1> QED
    BY <1>1, <1>2, <1>3, <1>4, <1>5, <1>6 DEF RowOK, Column

(* What an update leaves, column by column. *)
LEMMA UpdatedColumns ==
  ASSUME NEW row, Column(row), NEW a
  PROVE  LET new == Updated(row, a)
         IN /\ Column(new)
            /\ new.scope = row.scope /\ new.notes = row.notes
            /\ new.status = IF a.status = "" THEN row.status ELSE a.status
            /\ new.content = IF a.content = "" THEN row.content ELSE a.content
            /\ new.priority = IF a.priority = "" THEN row.priority ELSE a.priority
            /\ new.difficulty = IF a.difficulty = "" THEN row.difficulty ELSE a.difficulty
            /\ new.due = NewDue(a, row.due)
  <1> DEFINE s == row.scope
             c == row.content
             st == row.status
             p == row.priority
             d == row.difficulty
             u == row.due
             n == row.notes
             r == [scope |-> s, content |-> c, status |-> st, priority |-> p,
                   difficulty |-> d, due |-> u, notes |-> n]
  <1>1. row = r
    BY DEF Column
  <1> HIDE DEF s, c, st, p, d, u, n
  <1> DEFINE c2  == IF a.content = "" THEN c ELSE a.content
             st2 == IF a.status = "" THEN st ELSE a.status
             p2  == IF a.priority = "" THEN p ELSE a.priority
             d2  == IF a.difficulty = "" THEN d ELSE a.difficulty
             u2  == NewDue(a, u)
             new == [scope |-> s, content |-> c2, status |-> st2, priority |-> p2,
                     difficulty |-> d2, due |-> u2, notes |-> n]
  <1>2. Updated(r, a) = new
    <2>1. /\ r.status = st /\ r.content = c /\ r.priority = p /\ r.difficulty = d
          /\ r.due = u
      OBVIOUS
    <2> HIDE DEF r
    <2>2. Updated(r, a) = [r EXCEPT !.status = st2, !.content = c2, !.priority = p2,
                                    !.difficulty = d2, !.due = u2]
      BY <2>1 DEF Updated
    <2> HIDE DEF c2, st2, p2, d2, u2, new
    <2>3. [r EXCEPT !.status = st2, !.content = c2, !.priority = p2,
                    !.difficulty = d2, !.due = u2] = new
      <3> DEFINE x == [r EXCEPT !.status = st2, !.content = c2, !.priority = p2,
                                !.difficulty = d2, !.due = u2]
                 Both == [scope : {s}, content : {c, c2}, status : {st, st2}, priority : {p, p2},
                          difficulty : {d, d2}, due : {u, u2}, notes : {n}]
      <3>1. r \in Both
        BY DEF r
      <3>2. /\ x.scope = s /\ x.content = c2 /\ x.status = st2 /\ x.priority = p2
            /\ x.difficulty = d2 /\ x.due = u2 /\ x.notes = n
        BY <3>1
      <3>3. x \in Both
        BY <3>1
      <3> HIDE DEF x
      <3>4. x = [scope |-> x.scope, content |-> x.content, status |-> x.status,
                 priority |-> x.priority, difficulty |-> x.difficulty, due |-> x.due,
                 notes |-> x.notes]
        BY <3>3
      <3> HIDE DEF Both
      <3>5. x = new
        BY <3>2, <3>4 DEF new
      <3> QED
        BY <3>5 DEF x
    <2> QED
      BY <2>2, <2>3
  <1> HIDE DEF r
  <1>3. Updated(row, a) = new
    BY <1>1, <1>2
  <1> HIDE DEF c2, st2, p2, d2, u2
  <1>4. /\ new.scope = s /\ new.content = c2 /\ new.status = st2 /\ new.priority = p2
        /\ new.difficulty = d2 /\ new.due = u2 /\ new.notes = n
    OBVIOUS
  <1>5. Column(new)
    BY <1>4 DEF Column
  <1> HIDE DEF new
  <1> QED
    BY <1>3, <1>4, <1>5 DEF s, c, st, p, d, u, n, c2, st2, p2, d2, u2

LEMMA UpdatedRow ==
  ASSUME NEW row, RowOK(row), NEW a, a.due \in DueArg, UpdateArgsValid(a)
  PROVE  RowOK(Updated(row, a))
  <1> DEFINE new == Updated(row, a)
  <1>1. Column(row)
    BY DEF RowOK
  <1>2. NewDue(a, row.due) = {} \/ \E ms \in Int : NewDue(a, row.due) = {ms}
    <2>1. CASE ParseDueAt(a.due) = {} \/ a.clear
      BY <2>1 DEF RowOK, NewDue
    <2>2. CASE ~ (ParseDueAt(a.due) = {} \/ a.clear)
      <3>1. PICK ms \in Int : ParseDueAt(a.due) = {ms}
        BY <2>2, DueParsed
      <3>2. NewDue(a, row.due) = {ms} \ {0}
        BY <2>2, <3>1 DEF NewDue
      <3> QED
        BY <3>2
    <2> QED
      BY <2>1, <2>2
  <1>3. /\ Column(new)
        /\ new.scope = row.scope /\ new.notes = row.notes
        /\ new.status = IF a.status = "" THEN row.status ELSE a.status
        /\ new.content = IF a.content = "" THEN row.content ELSE a.content
        /\ new.priority = IF a.priority = "" THEN row.priority ELSE a.priority
        /\ new.difficulty = IF a.difficulty = "" THEN row.difficulty ELSE a.difficulty
        /\ new.due = NewDue(a, row.due)
    BY <1>1, UpdatedColumns
  <1> HIDE DEF new
  <1>4. new.status \in StatusWords /\ new.priority \in Priorities
    BY <1>3 DEF RowOK, UpdateArgsValid
  <1>5. TodoContentValid(new.content) /\ new.difficulty \in Difficulties
    BY <1>3 DEF RowOK, UpdateArgsValid
  <1>6. RowOK(new)
    BY <1>2, <1>3, <1>4, <1>5 DEF RowOK
  <1> QED
    BY <1>6 DEF new

-----------------------------------------------------------------------------
(* The invariant.                                                          *)

(* The first item of an accepted text is there, with a content and a status. *)
LEMMA FirstItem ==
  ASSUME OutlineIInv, stage = "accepted"
  PROVE  items[1].content = "text" /\ items[1].status \in StatusWords
  <1>1. OutlineTypeOK /\ Phases /\ ItemsAreTasks
    BY DEF OutlineIInv
  <1>2. /\ DOMAIN items = 1 .. Len(items) /\ Len(items) \in Nat
        /\ DOMAIN text = 1 .. Len(text) /\ Len(text) \in Nat
        /\ \A k \in DOMAIN text : text[k] \in Line
        /\ pos \in Nat /\ pos <= Len(text) + 1
    BY <1>1, TypeFacts
  <1>3. items # << >> /\ \A i \in DOMAIN items : items[i].content = "text"
    BY <1>1 DEF Phases
  <1>4. 1 \in DOMAIN items
    <2>1. items \in Seq(Parsed)
      BY <1>1 DEF OutlineTypeOK, Parsed
    <2>2. Len(items) # 0
      BY <1>3, <2>1, EmptySeq
    <2> QED
      BY <1>2, <2>2
  <1>5. PICK k \in 1 .. pos - 1 : IsTask(text[k]) /\ items[1] = ItemOf(text[k])
    BY <1>1, <1>4 DEF ItemsAreTasks
  <1>6. k \in DOMAIN text /\ text[k] \in Line
    BY <1>2
  <1>7. ItemOf(text[k]).status \in StatusWords
    <2>1. CASE Detect = "markdown"
      <3>1. text[k].mark \in DOMAIN StatusOfMark
        BY <1>5, <1>6, <2>1, Checklist DEF MatchesLine, Line
      <3>2. \A m \in DOMAIN StatusOfMark : StatusOfMark[m] \in StatusWords
        BY DEF StatusOfMark, StatusWords
      <3>3. ItemOf(text[k]).status = StatusOfMark[text[k].mark]
        BY <2>1 DEF ItemOf
      <3> QED
        BY <3>1, <3>2, <3>3
    <2>2. CASE Detect # "markdown"
      BY <2>2 DEF ItemOf, StatusWords
    <2> QED
      BY <2>1, <2>2
  <1> QED
    BY <1>3, <1>4, <1>5, <1>7

LEMMA ToolsInitInv == ToolsInit => ToolsInv
  <1> SUFFICES ASSUME ToolsInit PROVE ToolsInv
    OBVIOUS
  <1>1. OutlineIInv /\ stage = "idle"
    BY OutlineInitInv DEF ToolsInit, OutlineInit
  <1> QED
    BY <1>1 DEF ToolsInit, ToolsInv, TodoOK, ArgsOK

(* What every step is for the parser: one of its own or none. *)
LEMMA ToolsIsOutline == [ToolsNext]_toolVars => [OutlineNext]_outlineVars
  <1> SUFFICES ASSUME [ToolsNext]_toolVars PROVE [OutlineNext]_outlineVars
    OBVIOUS
  <1>1. ASSUME NEW call \in Calls, WriteCall(call[1], call[2]) PROVE OutlineNext
    <2>1. call[1] \in Texts
      BY ToolsAssumption
    <2> QED
      BY <1>1, <2>1 DEF WriteCall, OutlineNext
  <1>2. WriteStep \/ Insert \/ WriteFails => OutlineNext
    BY DEF WriteStep, Insert, WriteFails, OutlineNext
  <1>3. ASSUME \/ UNCHANGED toolVars
               \/ \E call \in Calls : WriteRefused(call[2])
               \/ \E a \in UpdateArgs : Update(a) \/ UpdateRefused(a)
               \/ \E a \in DeleteArgs : Delete(a) \/ DeleteRefused(a)
               \/ \E content \in NoteTexts : AddNote(content) \/ NoteRefused(content)
        PROVE  UNCHANGED outlineVars
    BY <1>3 DEF toolVars, outlineVars, WriteRefused, Update, UpdateRefused, Delete,
                DeleteRefused, AddNote, NoteRefused
  <1> QED
    BY <1>1, <1>2, <1>3 DEF ToolsNext

LEMMA InsertInv == ToolsInv /\ Insert => TodoOK'
  <1> SUFFICES ASSUME ToolsInv, Insert PROVE TodoOK'
    OBVIOUS
  <1>1. OutlineIInv /\ ArgsOK /\ stage = "accepted"
    BY DEF ToolsInv, Insert, ReturnAccepted
  <1>2. items[1].content = "text" /\ items[1].status \in StatusWords
    BY <1>1, FirstItem
  <1>3. IsScopeArg(args.scope) /\ args.due \in DueArg /\ WriteArgsValid(args)
    BY <1>1 DEF ArgsOK
  <1> DEFINE row == [scope      |-> ResolveScope(args.scope).name,
                     content    |-> items[1].content,
                     status     |-> items[1].status,
                     priority   |-> NormalizePriority(args.priority),
                     difficulty |-> NormalizeDifficulty(args.difficulty),
                     due        |-> ParseDueAt(args.due),
                     notes      |-> 0]
  <1>4. RowOK(row)
    BY <1>2, <1>3, InsertedRow
  <1>5. todo' = {row}
    BY DEF Insert
  <1> HIDE DEF row
  <1> QED
    BY <1>4, <1>5 DEF TodoOK

LEMMA UpdateInv ==
  ASSUME ToolsInv, NEW a \in UpdateArgs, Update(a)
  PROVE  TodoOK'
  <1>1. TodoOK
    BY DEF ToolsInv
  <1>2. PICK row \in todo : todo' = {Updated(row, a)}
    BY DEF Update
  <1>3. RowOK(row)
    BY <1>1 DEF TodoOK
  <1>4. a.due \in DueArg /\ UpdateArgsValid(a)
    BY ToolsAssumption DEF Update
  <1>5. RowOK(Updated(row, a))
    BY <1>3, <1>4, UpdatedRow
  <1> QED
    BY <1>2, <1>5 DEF TodoOK

LEMMA DeleteInv ==
  ASSUME ToolsInv, NEW a \in DeleteArgs, Delete(a)
  PROVE  TodoOK'
  <1>1. TodoOK
    BY DEF ToolsInv
  <1>2. todo' \subseteq todo
    BY DEF Delete
  <1>3. todo' = {} \/ todo' = todo
    BY <1>1, <1>2 DEF TodoOK
  <1> QED
    BY <1>1, <1>3 DEF TodoOK

LEMMA AddNoteInv ==
  ASSUME ToolsInv, NEW content \in NoteTexts, AddNote(content)
  PROVE  TodoOK'
  <1>1. TodoOK
    BY DEF ToolsInv
  <1>2. PICK row \in todo :
           row.notes < MaxTodoNotes /\ todo' = {[row EXCEPT !.notes = row.notes + 1]}
    BY DEF AddNote
  <1>3. RowOK(row)
    BY <1>1 DEF TodoOK
  <1> DEFINE more == row.notes + 1
             new == [row EXCEPT !.notes = more]
  <1>4. more \in 0 .. MaxTodoNotes
    BY <1>2, <1>3, ToolsAssumption DEF RowOK
  <1>5. /\ new.scope = row.scope /\ new.content = row.content /\ new.status = row.status
        /\ new.priority = row.priority /\ new.difficulty = row.difficulty
        /\ new.due = row.due /\ new.notes = more /\ Column(new)
    <2> DEFINE Either == [scope : {row.scope}, content : {row.content}, status : {row.status},
                          priority : {row.priority}, difficulty : {row.difficulty},
                          due : {row.due}, notes : {row.notes, more}]
    <2>1. row \in Either
      BY <1>3 DEF RowOK, Column
    <2> HIDE DEF more
    <2>2. /\ new.scope = row.scope /\ new.content = row.content /\ new.status = row.status
          /\ new.priority = row.priority /\ new.difficulty = row.difficulty
          /\ new.due = row.due /\ new.notes = more
      BY <2>1
    <2>3. new \in Either
      BY <2>1
    <2> HIDE DEF new
    <2>4. Column(new)
      BY <2>3 DEF Column
    <2> QED
      BY <2>2, <2>4
  <1>6. todo' = {new}
    BY <1>2
  <1> HIDE DEF new, more
  <1>7. RowOK(new)
    BY <1>3, <1>4, <1>5 DEF RowOK
  <1> QED
    BY <1>6, <1>7 DEF TodoOK

LEMMA ToolsNextInv == ToolsInv /\ [ToolsNext]_toolVars => ToolsInv'
  <1> SUFFICES ASSUME ToolsInv, [ToolsNext]_toolVars PROVE ToolsInv'
    OBVIOUS
  <1>1. OutlineIInv'
    BY ToolsIsOutline, OutlineNextInv DEF ToolsInv
  <1>2. TodoOK /\ ArgsOK
    BY DEF ToolsInv
  <1>3. ASSUME NEW call \in Calls, WriteCall(call[1], call[2]) PROVE TodoOK' /\ ArgsOK'
    <2>1. todo' = todo /\ args' = call[2] /\ WriteArgsValid(call[2])
      BY <1>3 DEF WriteCall
    <2>2. IsScopeArg(call[2].scope) /\ call[2].due \in DueArg
      BY ToolsAssumption
    <2>3. ArgsOK'
      BY <2>1, <2>2 DEF ArgsOK
    <2>4. TodoOK'
      BY <1>2, <2>1 DEF TodoOK
    <2> QED
      BY <2>3, <2>4
  <1>4. ASSUME WriteStep PROVE TodoOK' /\ ArgsOK'
    <2>1. todo' = todo /\ args' = args
      BY <1>4 DEF WriteStep
    <2>2. stage # "idle"
      BY <1>4 DEF WriteStep, OutlineStep, SkipLine, TakeLine, OddIndent, EndOfText, AtLine,
                  FindParent, InvalidIndent, AtItem, Resolved
    <2> QED
      BY <1>2, <2>1, <2>2 DEF TodoOK, ArgsOK
  <1>5. ASSUME Insert PROVE TodoOK' /\ ArgsOK'
    <2>1. stage' = "idle"
      BY <1>5 DEF Insert, ReturnAccepted, Forget
    <2> QED
      BY <1>5, <2>1, InsertInv DEF ArgsOK
  <1>6. ASSUME WriteFails PROVE TodoOK' /\ ArgsOK'
    BY <1>2, <1>6 DEF WriteFails, ReturnRefused, Forget, TodoOK, ArgsOK
  <1>7. ASSUME UNCHANGED <<stage, args>> PROVE ArgsOK'
    BY <1>2, <1>7 DEF ArgsOK
  <1>8. ASSUME UNCHANGED <<todo, stage, args>> PROVE TodoOK' /\ ArgsOK'
    BY <1>2, <1>7, <1>8 DEF TodoOK
  <1>9. ASSUME NEW a \in UpdateArgs, Update(a) PROVE TodoOK' /\ ArgsOK'
    BY <1>7, <1>9, UpdateInv DEF Update, outlineVars
  <1>10. ASSUME NEW a \in DeleteArgs, Delete(a) PROVE TodoOK' /\ ArgsOK'
    BY <1>7, <1>10, DeleteInv DEF Delete, outlineVars
  <1>11. ASSUME NEW content \in NoteTexts, AddNote(content) PROVE TodoOK' /\ ArgsOK'
    BY <1>7, <1>11, AddNoteInv DEF AddNote, outlineVars
  <1>12. ASSUME \/ UNCHANGED toolVars
                \/ \E call \in Calls : WriteRefused(call[2])
                \/ \E a \in UpdateArgs : UpdateRefused(a)
                \/ \E a \in DeleteArgs : DeleteRefused(a)
                \/ \E content \in NoteTexts : NoteRefused(content)
         PROVE  UNCHANGED <<todo, stage, args>>
    BY <1>12 DEF toolVars, WriteRefused, UpdateRefused, DeleteRefused, NoteRefused
  <1>13. TodoOK' /\ ArgsOK'
    BY <1>3, <1>4, <1>5, <1>6, <1>8, <1>9, <1>10, <1>11, <1>12 DEF ToolsNext
  <1> QED
    BY <1>1, <1>13 DEF ToolsInv

LEMMA RowsOK ==
  ASSUME ToolsInv
  PROVE  /\ Cardinality(todo) <= 1
         /\ \A row \in todo : /\ RowOK(row)
                              /\ row.due \subseteq Int /\ Cardinality(row.due) <= 1
                              /\ \A other \in todo : other = row
  <1>1. TodoOK
    BY DEF ToolsInv
  <1>2. ASSUME NEW S, NEW x, S = {} \/ S = {x} PROVE Cardinality(S) <= 1
    <2>1. Cardinality(S) = 0 \/ Cardinality(S) = 1
      BY <1>2, FS_EmptySet, FS_Singleton, Zenon
    <2> QED
      BY <2>1
  <1>3. ASSUME NEW row \in todo
        PROVE  /\ RowOK(row) /\ row.due \subseteq Int /\ Cardinality(row.due) <= 1
               /\ \A other \in todo : other = row
    <2>1. RowOK(row) /\ \A other \in todo : other = row
      BY <1>1 DEF TodoOK
    <2>2. row.due = {} \/ \E ms \in Int : row.due = {ms}
      BY <2>1 DEF RowOK
    <2>3. row.due \subseteq Int
      BY <2>2
    <2>4. Cardinality(row.due) <= 1
      BY <1>2, <2>2, Zenon
    <2> QED
      BY <2>1, <2>3, <2>4
  <1>4. Cardinality(todo) <= 1
    BY <1>1, <1>2, Zenon DEF TodoOK
  <1> QED
    BY <1>3, <1>4

-----------------------------------------------------------------------------
(* Views.                                                                  *)

(* A duration of at least a minute, in the largest unit that fits. *)
LEMMA Humanized ==
  ASSUME NEW d \in Nat, Minute <= d
  PROVE  LET left == Humanize(d)
         IN left.n >= 1 /\ left.n * left.unit <= d /\ d < (left.n + 1) * left.unit
  <1>1. CASE d >= Day
    <2>1. Humanize(d) = [unit |-> Day, n |-> Quotient(d, Day)]
      BY <1>1, Scale DEF Humanize
    <2>2. /\ Quotient(d, Day) >= 1 /\ Quotient(d, Day) * Day <= d
          /\ d < (Quotient(d, Day) + 1) * Day
      BY <1>1, WholeUnits, Scale
    <2> QED
      BY <2>1, <2>2
  <1>2. CASE d >= Hour /\ d < Day
    <2>1. Humanize(d) = [unit |-> Hour, n |-> Quotient(d, Hour)]
      BY <1>2, Scale DEF Humanize
    <2>2. /\ Quotient(d, Hour) >= 1 /\ Quotient(d, Hour) * Hour <= d
          /\ d < (Quotient(d, Hour) + 1) * Hour
      BY <1>2, WholeUnits, Scale
    <2> QED
      BY <2>1, <2>2
  <1>3. CASE d < Hour
    <2>1. Humanize(d) = [unit |-> Minute, n |-> Quotient(d, Minute)]
      BY <1>3, Scale DEF Humanize
    <2>2. /\ Quotient(d, Minute) >= 1 /\ Quotient(d, Minute) * Minute <= d
          /\ d < (Quotient(d, Minute) + 1) * Minute
      BY WholeUnits, Scale
    <2> QED
      BY <2>1, <2>2
  <1> QED
    BY <1>1, <1>2, <1>3, Scale

LEMMA RelativeDueTrue ==
  ASSUME NEW due \in Int, NEW now \in Int
  PROVE  LET away == IF due < now THEN now - due ELSE due - now
             r    == RelativeDue(due, now)
         IN away * Millisecond < Half =>
               IF away * Millisecond < Minute THEN r = [kind |-> "now"]
               ELSE /\ r.kind = IF due < now THEN "overdue" ELSE "ahead"
                    /\ r.left.n >= 1
                    /\ r.left.n * r.left.unit <= away * Millisecond
                    /\ away * Millisecond < (r.left.n + 1) * r.left.unit
  <1> DEFINE away == IF due < now THEN now - due ELSE due - now
             r    == RelativeDue(due, now)
             span == away * Millisecond
             d    == Wrap(Wrap(due - now) * Millisecond)
  <1> SUFFICES ASSUME span < Half
               PROVE  IF span < Minute THEN r = [kind |-> "now"]
                      ELSE /\ r.kind = IF due < now THEN "overdue" ELSE "ahead"
                           /\ r.left.n >= 1
                           /\ r.left.n * r.left.unit <= span
                           /\ span < (r.left.n + 1) * r.left.unit
    OBVIOUS
  <1>1. away \in Nat /\ due - now \in Int
    OBVIOUS
  <1>2. due - now = IF due < now THEN -away ELSE away
    OBVIOUS
  <1> HIDE DEF away
  <1>3. span \in Nat /\ away < Half
    BY <1>1, Scaled
  <1>4. Wrap(due - now) = due - now
    BY <1>1, <1>2, <1>3, WrapFits, Scale
  <1>5. (due - now) * Millisecond = IF due < now THEN -span ELSE span
    <2>1. (-away) * Millisecond = - (away * Millisecond)
      BY <1>1, Scale
    <2> QED
      BY <1>2, <2>1
  <1>6. d = IF due < now THEN -span ELSE span
    <2> DEFINE product == (due - now) * Millisecond
    <2>1. product \in Int /\ -Half <= product /\ product < Half
      BY <1>3, <1>5, Scale
    <2> HIDE DEF product
    <2>2. Wrap(product) = product
      BY <2>1, WrapFits
    <2> QED
      BY <1>4, <1>5, <2>2 DEF product
  <1>7. r = CASE Absolute(d) < Minute -> [kind |-> "now"]
             [] Absolute(d) >= Minute /\ d < 0 -> [kind |-> "overdue", left |-> Humanize(Wrap(-d))]
             [] OTHER -> [kind |-> "ahead", left |-> Humanize(d)]
    BY DEF RelativeDue
  <1>8. Absolute(d) = span
    <2> HIDE DEF span, d
    <2> QED
      BY <1>3, <1>6, Scale DEF Absolute
  <1> HIDE DEF span, d, r
  <1>9. CASE span < Minute
    BY <1>3, <1>7, <1>8, <1>9, Scale
  <1>10. CASE ~ (span < Minute)
    <2>1. Minute <= span
      BY <1>3, <1>10, Scale
    <2>2. /\ Humanize(span).n >= 1
          /\ Humanize(span).n * Humanize(span).unit <= span
          /\ span < (Humanize(span).n + 1) * Humanize(span).unit
      BY <1>3, <2>1, Humanized
    <2>3. CASE due < now
      <3>1. d = -span /\ d < 0 /\ -d = span
        BY <1>3, <1>6, <2>1, <2>3, Scale
      <3>2. Wrap(-d) = span
        BY <1>3, <3>1, WrapFits, Scale
      <3>3. r = [kind |-> "overdue", left |-> Humanize(span)]
        BY <1>7, <1>8, <1>10, <2>1, <3>1, <3>2
      <3>4. r.kind = "overdue" /\ r.left = Humanize(span)
        BY <3>3
      <3> QED
        BY <1>10, <2>2, <2>3, <3>4
    <2>4. CASE ~ (due < now)
      <3>1. d = span /\ ~ (d < 0)
        BY <1>3, <1>6, <2>4
      <3>2. r = [kind |-> "ahead", left |-> Humanize(span)]
        BY <1>7, <1>8, <1>10, <3>1
      <3>3. r.kind = "ahead" /\ r.left = Humanize(span)
        BY <3>2
      <3> QED
        BY <1>10, <2>2, <2>4, <3>3
    <2> QED
      BY <2>3, <2>4
  <1> QED
    BY <1>9, <1>10

LEMMA KindOf == \A k : [kind |-> k].kind = k
  BY Zenon

(* The dates of the views: only a date in full is read again, as its second. *)
LEMMA ShownDates ==
  ASSUME NEW ms \in Int, NEW now
  PROVE  /\ ~ DueAtValid(RelativeDue(ms, now))
         /\ LET shown == MsToISO(ms)
                second == ms \div Second
            IN IF DueAtValid(shown)
                 THEN ParseDueAt(shown) = {second * Second} /\ (second * Second = 0 <=> second = 0)
                 ELSE ms \notin IsoFirst .. IsoLast
  <1> DEFINE second == ms \div Second
             s == second * Second
  <1>1. RelativeDue(ms, now).kind \in {"now", "overdue", "ahead"}
    <2> DEFINE d == Wrap(Wrap(ms - now) * Millisecond)
    <2>1. RelativeDue(ms, now) =
            CASE Absolute(d) < Minute -> [kind |-> "now"]
              [] Absolute(d) >= Minute /\ d < 0 -> [kind |-> "overdue", left |-> Humanize(Wrap(-d))]
              [] OTHER -> [kind |-> "ahead", left |-> Humanize(d)]
      BY DEF RelativeDue
    <2> HIDE DEF d
    <2> QED
      BY <2>1
  <1>2. ~ DueAtValid(RelativeDue(ms, now))
    BY <1>1 DEF DueAtValid
  <1>3. /\ second \in Int /\ s \in Int /\ s <= ms /\ (s = 0 <=> second = 0)
        /\ IsoFirst <= ms => IsoFirst <= s
    BY WholeSecond
  <1>4. MsToISO(ms) = IF s \in IsoFirst .. IsoLast THEN [kind |-> "date", ms |-> s]
                      ELSE [kind |-> "far date"]
    BY DEF MsToISO
  <1> HIDE DEF s, second
  <1>5. CASE s \in IsoFirst .. IsoLast
    <2>1. MsToISO(ms) = [kind |-> "date", ms |-> s]
      BY <1>4, <1>5
    <2>2. DueAtValid(MsToISO(ms)) /\ ParseDueAt(MsToISO(ms)) = {s}
      BY <2>1 DEF DueAtValid, ParseDueAt
    <2> QED
      BY <1>2, <1>3, <2>2 DEF s, second
  <1>6. CASE s \notin IsoFirst .. IsoLast
    <2>1. MsToISO(ms) = [kind |-> "far date"]
      BY <1>4, <1>6
    <2>2. ~ DueAtValid(MsToISO(ms))
      <3>1. MsToISO(ms).kind = "far date"
        BY <2>1, KindOf
      <3> QED
        BY <3>1 DEF DueAtValid
    <2>3. ms \notin IsoFirst .. IsoLast
      BY <1>3, <1>6, ScaleAssumption
    <2> QED
      BY <1>2, <2>2, <2>3
  <1> QED
    BY <1>5, <1>6

LEMMA EchoKeepsRow ==
  ASSUME NEW row, RowOK(row), NEW mode \in {"compact", "full"}, NEW now
  PROVE  LET a   == Echo(RenderTodo(row, mode, now))
             new == Updated(row, a)
         IN IF UpdateArgsValid(a)
              THEN /\ [new EXCEPT !.due = row.due] = row
                   /\ row.due = {} => new.due = {}
                   /\ \A due \in row.due :
                         LET second == due \div Second
                         IN new.due = IF second = 0 THEN {} ELSE {second * Second}
              ELSE \E due \in row.due : mode = "compact" \/ due \notin IsoFirst .. IsoLast
  <1> DEFINE view == RenderTodo(row, mode, now)
             a    == Echo(view)
             new  == Updated(row, a)
  <1>1. /\ a.status = row.status /\ a.content = row.content /\ ~ a.clear
        /\ a.priority = row.priority \/ (a.priority = "" /\ row.priority = "medium")
        /\ a.difficulty = row.difficulty \/ (a.difficulty = "" /\ row.difficulty = "medium")
        /\ a.due = view.due
    <2>1. /\ view.status = row.status /\ view.content = row.content
          /\ view.priority =
                IF mode = "compact" /\ row.priority = "medium" THEN "" ELSE row.priority
          /\ view.difficulty =
                IF mode = "compact" /\ row.difficulty = "medium" THEN "" ELSE row.difficulty
      BY DEF RenderTodo
    <2> HIDE DEF view
    <2>2. /\ a.status = view.status /\ a.content = view.content
          /\ a.priority = view.priority /\ a.difficulty = view.difficulty
          /\ a.due = view.due /\ ~ a.clear
      BY DEF Echo
    <2> HIDE DEF a
    <2> QED
      BY <2>1, <2>2
  <1>2. /\ Column(row)
        /\ row.status \in StatusWords /\ TodoContentValid(row.content)
        /\ row.priority \in Priorities /\ row.difficulty \in Difficulties
        /\ row.due = {} \/ \E ms \in Int : row.due = {ms}
    BY DEF RowOK
  <1> HIDE DEF a, view
  <1>3. /\ Column(new) /\ new.scope = row.scope /\ new.notes = row.notes
        /\ new.status = IF a.status = "" THEN row.status ELSE a.status
        /\ new.content = IF a.content = "" THEN row.content ELSE a.content
        /\ new.priority = IF a.priority = "" THEN row.priority ELSE a.priority
        /\ new.difficulty = IF a.difficulty = "" THEN row.difficulty ELSE a.difficulty
        /\ new.due = NewDue(a, row.due)
    BY <1>2, UpdatedColumns
  <1> HIDE DEF new
  <1>4. UpdateArgsValid(a) <=> DueAtValid(a.due)
    <2>1. /\ a.status \in StatusWords \cup {""}
          /\ a.content # "" => TodoContentValid(a.content)
          /\ a.priority \in Priorities \cup {""}
          /\ a.difficulty \in Difficulties \cup {""}
          /\ ~ a.clear
      BY <1>1, <1>2
    <2>2. a.status # ""
      BY <1>1, <1>2 DEF StatusWords
    <2> QED
      BY <2>1, <2>2 DEF UpdateArgsValid, NamesField
  <1>5. [new EXCEPT !.due = row.due] = row
    <2>1. /\ new.status = row.status /\ new.content = row.content
          /\ new.priority = row.priority /\ new.difficulty = row.difficulty
      BY <1>1, <1>3
    <2> DEFINE back == [new EXCEPT !.due = row.due]
               Either == [scope : {row.scope}, content : {row.content}, status : {row.status},
                          priority : {row.priority}, difficulty : {row.difficulty},
                          due : {row.due, new.due}, notes : {row.notes}]
    <2>2. new \in Either
      BY <1>3, <2>1 DEF Column
    <2>3. back \in Either /\ back.due = row.due
      BY <2>2
    <2> HIDE DEF back
    <2>4. back = [scope |-> row.scope, content |-> row.content, status |-> row.status,
                  priority |-> row.priority, difficulty |-> row.difficulty, due |-> row.due,
                  notes |-> row.notes]
      BY <2>3
    <2>5. back = row
      BY <1>2, <2>4 DEF Column
    <2> QED
      BY <2>5 DEF back
  <1>6. CASE row.due = {}
    <2>1. DueAtValid(a.due) /\ ParseDueAt(a.due) = {}
      <3>1. view.due = [kind |-> ""]
        BY <1>6 DEF RenderTodo, view
      <3>2. a.due.kind = ""
        BY <1>1, <3>1, KindOf
      <3> QED
        BY <3>2 DEF DueAtValid, ParseDueAt
    <2>2. new.due = {}
      BY <1>1, <1>3, <1>6, <2>1 DEF NewDue
    <2> QED
      BY <1>4, <1>5, <1>6, <2>1, <2>2 DEF a, view, new
  <1>7. ASSUME NEW ms \in Int, row.due = {ms}
        PROVE  IF DueAtValid(a.due)
                 THEN new.due = IF ms \div Second = 0 THEN {} ELSE {(ms \div Second) * Second}
                 ELSE mode = "compact" \/ ms \notin IsoFirst .. IsoLast
    <2>1. a.due = IF mode = "compact" THEN RelativeDue(ms, now) ELSE MsToISO(ms)
      <3> DEFINE first == CHOOSE due \in row.due : TRUE
      <3>1. first = ms /\ row.due # {}
        BY <1>7
      <3>2. view.due = IF row.due = {} THEN [kind |-> ""]
                       ELSE IF mode = "compact" THEN RelativeDue(first, now) ELSE MsToISO(first)
        BY DEF RenderTodo, view
      <3> HIDE DEF first
      <3> QED
        BY <1>1, <3>1, <3>2
    <2> DEFINE second == ms \div Second
               s == second * Second
    <2>2. /\ ~ DueAtValid(RelativeDue(ms, now))
          /\ IF DueAtValid(MsToISO(ms))
               THEN ParseDueAt(MsToISO(ms)) = {s} /\ (s = 0 <=> second = 0)
               ELSE ms \notin IsoFirst .. IsoLast
      BY ShownDates
    <2> HIDE DEF s, second
    <2>3. CASE mode = "compact"
      BY <2>1, <2>2, <2>3
    <2>4. CASE mode # "compact"
      <3>1. a.due = MsToISO(ms)
        BY <2>1, <2>4
      <3>2. CASE DueAtValid(a.due)
        <4>1. ParseDueAt(a.due) = {s} /\ (s = 0 <=> second = 0)
          BY <2>2, <3>1, <3>2
        <4>2. new.due = {s} \ {0}
          BY <1>1, <1>3, <4>1 DEF NewDue
        <4>3. new.due = IF second = 0 THEN {} ELSE {s}
          BY <4>1, <4>2
        <4> QED
          BY <3>2, <4>3 DEF s, second
      <3> QED
        BY <2>2, <3>1, <3>2
    <2> QED
      BY <2>3, <2>4
  <1>8. ASSUME NEW ms \in Int, row.due = {ms}
        PROVE  IF UpdateArgsValid(a)
                 THEN /\ [new EXCEPT !.due = row.due] = row
                      /\ row.due = {} => new.due = {}
                      /\ \A due \in row.due :
                            LET second == due \div Second
                            IN new.due = IF second = 0 THEN {} ELSE {second * Second}
                 ELSE \E due \in row.due : mode = "compact" \/ due \notin IsoFirst .. IsoLast
    <2>1. /\ ms \in row.due /\ row.due # {} /\ \A due \in row.due : due = ms
      BY <1>8
    <2> QED
      BY <1>4, <1>5, <1>7, <1>8, <2>1
  <1> QED
    BY <1>2, <1>6, <1>8 DEF a, view, new

-----------------------------------------------------------------------------
(* The theorems.                                                           *)

THEOREM ToolsInvariant == ToolsSpec => []ToolsInv
  BY ToolsInitInv, ToolsNextInv, PTL DEF ToolsSpec

LEMMA ToolsInvImplies ==
  ToolsInv => ToolsTypeOK /\ RelativeDueIsTrue /\ EchoHarmless
  <1> SUFFICES ASSUME ToolsInv PROVE ToolsTypeOK /\ RelativeDueIsTrue /\ EchoHarmless
    OBVIOUS
  <1>1. Cardinality(todo) <= 1
    BY RowsOK
  <1>2. \A row \in todo : RowOK(row) /\ row.due \subseteq Int /\ Cardinality(row.due) <= 1
    BY RowsOK
  <1>3. OutlineTypeOK
    BY DEF ToolsInv, OutlineIInv
  <1>4. ToolsTypeOK
    BY <1>1, <1>2, <1>3 DEF ToolsTypeOK, RowOK
  <1>5. Times \subseteq Int
    BY ToolsAssumption
  <1>6. RelativeDueIsTrue
    <2> SUFFICES ASSUME NEW row \in todo, NEW now \in Times, NEW due \in row.due
        PROVE  LET away == IF due < now THEN now - due ELSE due - now
                   r    == RelativeDue(due, now)
               IN away * Millisecond < Half =>
                     IF away * Millisecond < Minute THEN r = [kind |-> "now"]
                     ELSE /\ r.kind = IF due < now THEN "overdue" ELSE "ahead"
                          /\ r.left.n >= 1
                          /\ r.left.n * r.left.unit <= away * Millisecond
                          /\ away * Millisecond < (r.left.n + 1) * r.left.unit
      BY Zenon DEF RelativeDueIsTrue
    <2>1. due \in Int /\ now \in Int
      BY <1>2, <1>5
    <2> QED
      BY <2>1, RelativeDueTrue, Zenon
  <1>7. EchoHarmless
    BY <1>2, EchoKeepsRow, Zenon DEF EchoHarmless
  <1> QED
    BY <1>4, <1>6, <1>7

(* Whatever the arguments, the row has a value in every column that needs one,  *)
(* and no refused word, name, content or date.                                  *)
THEOREM ToolsTypeCorrect == ToolsSpec => []ToolsTypeOK
  BY ToolsInvImplies, ToolsInvariant, PTL

(* What an accepted call, a refused one and the loop of resolveParents mean for *)
(* the text holds of the parser as todo_write runs it.                          *)
THEOREM TextsTreatedRight ==
  ToolsSpec => [](LoopFindsAnchors /\ OutlineKept /\ RefusedForCause)
  <1>1. ToolsInv => LoopFindsAnchors /\ OutlineKept /\ RefusedForCause
    BY AcceptedIsKept DEF ToolsInv, OutlineIInv
  <1> QED
    BY <1>1, ToolsInvariant, PTL

(* relativeDue tells on which side of now a date lies and how far, in whole     *)
(* units, for every date whose distance fits a duration.                        *)
THEOREM RelativeDueTells == ToolsSpec => []RelativeDueIsTrue
  BY ToolsInvImplies, ToolsInvariant, PTL

(* The fields of a view, sent back by todo_update, change nothing but the       *)
(* fraction of a second of the date, or the date at second 0.                   *)
THEOREM EchoChangesNothing == ToolsSpec => []EchoHarmless
  BY ToolsInvImplies, ToolsInvariant, PTL

(* todo_delete takes a todo only by its id or by its scope as it is spelled.    *)
THEOREM DeleteIsExplicit == ToolsSpec => DeleteNamesItsScope
  <1>1. ASSUME NEW a \in DeleteArgs, Delete(a), NEW row \in todo \ todo'
        PROVE  OwnId \in a.ids \/ a.scope = [name |-> row.scope, padded |-> FALSE]
    <2>1. DeleteSelects(a, row) /\ DeleteArgsValid(a)
      BY <1>1 DEF Delete
    <2>2. CASE a.ids # {}
      BY <2>1, <2>2 DEF DeleteSelects
    <2>3. CASE a.ids = {}
      <3>1. a.scope.name = row.scope /\ ~ a.scope.padded
        BY <2>1, <2>3 DEF DeleteSelects, DeleteArgsValid, ScopeValid
      <3>2. a.scope.padded = FALSE
        BY <3>1, ToolsAssumption DEF IsScopeArg
      <3>3. a.scope = [name |-> a.scope.name, padded |-> a.scope.padded]
        BY ToolsAssumption DEF IsScopeArg
      <3> QED
        BY <3>1, <3>2, <3>3
    <2> QED
      BY <2>2, <2>3
  <1>2. [\A a \in DeleteArgs : Delete(a) =>
           \A row \in todo \ todo' :
              OwnId \in a.ids \/ a.scope = [name |-> row.scope, padded |-> FALSE]]_toolVars
    BY <1>1, Zenon
  <1> QED
    BY <1>2, PTL DEF DeleteNamesItsScope
=============================================================================
