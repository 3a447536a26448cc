------------------------------- MODULE Fields --------------------------------
(***************************************************************************)
(* What the tool handlers make of their arguments before the store sees    *)
(* them (internal/mcp/util.go, todo_write.go, todo_update.go, and          *)
(* internal/validate), and how internal/view shows a row again.            *)
(*                                                                         *)
(* Dates are integers, in milliseconds; durations are int64 nanoseconds    *)
(* that wrap.  The constants scale both down to a size TLC can enumerate.  *)
(* An optional value (a *int64, a NULL column) is a set of at most one.    *)
(***************************************************************************)
EXTENDS Integers

CONSTANTS Second,                 \* milliseconds in a second
          IsoFirst, IsoLast,      \* the first second and the last date RFC 3339 writes with
                                  \* a year of four digits
          Half,                   \* 2^63: durations are in -Half .. Half - 1
          Millisecond, Minute, Hour, Day   \* in units of a duration

ASSUME ScaleAssumption ==
    /\ {Second, Half, Millisecond, Minute, Hour, Day} \subseteq Nat \ {0}
    /\ Millisecond <= Minute /\ Minute < Hour /\ Hour < Day /\ Day < Half
    /\ IsoFirst \in Int /\ IsoLast \in Int /\ IsoFirst % Second = 0

Priorities   == {"low", "medium", "high", "urgent"}
Difficulties == {"trivial", "easy", "medium", "hard"}
StatusWords  == {"pending", "in_progress", "completed", "cancelled"}

-----------------------------------------------------------------------------
(* A scope argument: its name, and whether blanks surround it. *)

TrimSpace(scope) == [scope EXCEPT !.padded = FALSE]

(* todo_write and todo_list; todo_delete validates its argument as it is. *)
ResolveScope(scope) ==
    IF scope.name = "" THEN [name |-> "default", padded |-> FALSE] ELSE TrimSpace(scope)

(* scopeRE; "bad name" stands for every name it refuses. *)
ScopeValid(scope) == ~ scope.padded /\ scope.name \notin {"", "bad name"}

(* validate.ID; "bad id" stands for every id it refuses. *)
IdValid(id) == id \notin {"", "bad id"}

(* "long" fits a note and not a todo, "bad" has a forbidden control character or *)
(* fits neither; a text of blanks only is not empty.                            *)
TodoContentValid(content) == content \notin {"", "long", "bad"}
NoteContentValid(content) == content \notin {"", "bad"}

(* Mutant: an omitted priority stays empty, as an omitted status does. *)
NormalizePriorityAsIs(word) == word

(* normalizePriority, normalizeDifficulty: an omitted argument is the default. *)
NormalizePriority(word) == IF word = "" THEN "medium" ELSE word

NormalizeDifficulty(word) == IF word = "" THEN "medium" ELSE word

(* Mutant: the seconds of an RFC 3339 date are taken for milliseconds. *)
ParseDueAtInSeconds(due) ==
    CASE due.kind = "number" -> {due.ms} [] due.kind = "date" -> {due.ms \div Second}
      [] OTHER -> {}

(* parseDueAt.  A due_at argument is empty, blanks only, a number, an RFC 3339   *)
(* date, or some other text, which is refused.                                  *)
ParseDueAt(due) == IF due.kind \in {"number", "date"} THEN {due.ms} ELSE {}

DueAtValid(due) == due.kind \in {"", "blank", "number", "date"}

-----------------------------------------------------------------------------
(* todo_write: the columns a batch shares. *)
WriteArgsValid(args) ==
    /\ ScopeValid(ResolveScope(args.scope))
    /\ args.priority \in Priorities \cup {""}
    /\ args.difficulty \in Difficulties \cup {""}
    /\ DueAtValid(args.due)

(* buildUpdateFields, and ErrEmptyUpdate of UpdateDetailed: a due_at of blanks   *)
(* only is given but changes nothing.                                           *)
NamesField(args) ==
    \/ args.status # "" \/ args.content # "" \/ args.priority # "" \/ args.difficulty # ""
    \/ args.clear \/ ParseDueAt(args.due) # {}

UpdateArgsValid(args) ==
    /\ args.status \in StatusWords \cup {""}
    /\ args.content # "" => TodoContentValid(args.content)
    /\ args.priority \in Priorities \cup {""}
    /\ args.difficulty \in Difficulties \cup {""}
    /\ DueAtValid(args.due)
    /\ args.clear => args.due.kind = ""
    /\ NamesField(args)

(* buildUpdateSets: 0 is the value that clears the date, whoever sends it. *)
NewDue(args, due) ==
    IF args.clear THEN {}
    ELSE IF ParseDueAt(args.due) = {} THEN due ELSE ParseDueAt(args.due) \ {0}

(* UPDATE todos SET ... for the fields named. *)
Updated(row, args) ==
    [row EXCEPT !.status     = IF args.status = "" THEN @ ELSE args.status,
                !.content    = IF args.content = "" THEN @ ELSE args.content,
                !.priority   = IF args.priority = "" THEN @ ELSE args.priority,
                !.difficulty = IF args.difficulty = "" THEN @ ELSE args.difficulty,
                !.due        = NewDue(args, @)]

-----------------------------------------------------------------------------
(* int64 arithmetic. *)
Wrap(x) == ((x + Half) % (2 * Half)) - Half

Quotient(a, b) == IF a >= 0 THEN a \div b ELSE -((-a) \div b)

(* Duration.Abs: the one duration without a positive counterpart becomes the largest. *)
Absolute(d) == IF d >= 0 THEN d ELSE IF d = -Half THEN Half - 1 ELSE -d

(* humanizeDuration: the largest unit, rounded down. *)
Humanize(d) ==
    CASE d >= Day  -> [unit |-> Day,    n |-> Quotient(d, Day)]
      [] d >= Hour /\ d < Day -> [unit |-> Hour, n |-> Quotient(d, Hour)]
      [] OTHER     -> [unit |-> Minute, n |-> Quotient(d, Minute)]

(* Mutant: whatever is not a minute ahead is now. *)
RelativeDueSigned(due, now) ==
    LET d == Wrap(Wrap(due - now) * Millisecond)
    IN CASE d < Minute -> [kind |-> "now"]
         [] OTHER      -> [kind |-> "ahead", left |-> Humanize(d)]

RelativeDue(due, now) ==
    LET d == Wrap(Wrap(due - now) * Millisecond)
    IN CASE Absolute(d) < Minute -> [kind |-> "now"]
         [] Absolute(d) >= Minute /\ d < 0 -> [kind |-> "overdue", left |-> Humanize(Wrap(-d))]
         [] OTHER -> [kind |-> "ahead", left |-> Humanize(d)]

(* msToISO: whole seconds, rounded down.  A year of more than four digits (or a  *)
(* negative one) is written, but RFC 3339 does not read it.                      *)
MsToISO(ms) ==
    LET s == (ms \div Second) * Second
    IN IF s \in IsoFirst .. IsoLast THEN [kind |-> "date", ms |-> s] ELSE [kind |-> "far date"]

(* RenderTodo: the compact view leaves out the defaults and shows a relative date. *)
RenderTodo(row, mode, now) ==
    LET hide(word) == IF mode = "compact" /\ word = "medium" THEN "" ELSE word
    IN [status     |-> row.status,
        content    |-> row.content,
        priority   |-> hide(row.priority),
        difficulty |-> hide(row.difficulty),
        due        |-> IF row.due = {} THEN [kind |-> ""]
                       ELSE LET ms == CHOOSE ms \in row.due : TRUE
                            IN IF mode = "compact" THEN RelativeDue(ms, now) ELSE MsToISO(ms),
        notes      |-> row.notes]
=============================================================================
