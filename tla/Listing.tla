------------------------------- MODULE Listing --------------------------------
(***************************************************************************)
(* The paged queries: todo_list (Store.List) and todo_get_notes            *)
(* (Store.ListNotes), as an agent reads them page after page while others  *)
(* write.                                                                  *)
(*                                                                         *)
(* Neither runs in a transaction.  List reads the cursor, the counts, the  *)
(* total and the rows in four statements, ListNotes checks the todo and    *)
(* reads the notes in two, and writers commit in between.  The agent       *)
(* remembers one reading at a time, a list or the notes of a todo.         *)
(***************************************************************************)
EXTENDS TodoStore, ShortId

CONSTANTS ListArgs,      \* the calls of todo_list the agent makes
          NoteLimits,    \* page sizes of todo_get_notes, after its default and cap
          DefaultLimit,  \* 100 in the code
          MaxLimit       \* 500 in the code

StatusNames == {"pending", "in_progress", "completed", "cancelled"}
NoDue       == -1       \* due_at IS NULL
AnyParent   == -1       \* no filter on the parent; NoTodo asks for top-level rows

(* The columns an update may overwrite, as far as a list looks at them. *)
Columns == [status : StatusNames, priority : {"low", "medium", "high", "urgent"},
            due : Nat \cup {NoDue}]

ASSUME ListAssumption ==
    /\ Statuses \subseteq Columns
    /\ Times \subseteq Nat
    /\ ListArgs \subseteq [scope : Scopes, ids : SUBSET KnownIds,
                           status : {"", "active", "all"} \cup StatusNames,
                           parent : {AnyParent, NoTodo} \cup KnownIds,
                           sort : {"created", "priority", "due"}, limit : Int]
    /\ \A a \in ListArgs : IsFiniteSet(a.ids)
    /\ NoteLimits \subseteq Nat \ {0}
    /\ DefaultLimit \in Nat \ {0} /\ MaxLimit \in Nat \ {0}

VARIABLES stage,    \* "idle", or the next statement of the call in progress
          list,     \* the call of todo_list in progress, and what it has read
          answer,   \* the last answer of todo_list
          seen,     \* history: the ids on the pages of the current listing
          quiet,    \* history: no row has changed since its first page began
          reading   \* the pages of notes read so far

listVars == <<stage, list, answer, seen, quiet, reading>>

NoList    == [offset |-> 0]
NoCounts  == [s \in StatusNames |-> 0]
NoAnswer  == [hasMore |-> FALSE]
NoReading == [todo |-> NoTodo, offset |-> 0, limit |-> 0, ids |-> {}, more |-> FALSE, upTo |-> 0]

ListInit ==
    /\ Init
    /\ stage = "idle" /\ list = NoList /\ answer = NoAnswer
    /\ seen = {} /\ quiet = TRUE /\ reading = NoReading

-----------------------------------------------------------------------------
(* Arguments: normalizeListStatuses, and the two steps that set the limit. *)

WantedStatuses(a) ==
    CASE a.status = "active" \/ (a.status = "" /\ a.ids = {}) -> {"pending", "in_progress"}
      [] a.status = "all" \/ (a.status = "" /\ a.ids # {})    -> StatusNames
      [] a.status \in StatusNames                             -> {a.status}

Clamp(n, default, max) == IF n <= 0 THEN default ELSE IF n > max THEN max ELSE n

PageLimit(a) ==
    Clamp(IF a.ids # {} /\ a.limit <= 0 THEN Cardinality(a.ids) ELSE a.limit,
          DefaultLimit, MaxLimit)

-----------------------------------------------------------------------------
(* WHERE and ORDER BY.                                                     *)

BaseRows(a) ==
    {i \in Live(db) :
        /\ db.todos[i].scope = a.scope
        /\ a.ids # {} => i \in a.ids
        /\ a.parent # AnyParent => db.todos[i].parent = a.parent}

Matching(a) == {i \in BaseRows(a) : db.todos[i].status.status \in WantedStatuses(a)}

PriorityRank == [urgent |-> 0, high |-> 1, medium |-> 2, low |-> 3]

SortColumns(sort, row) ==
    LET due == <<IF row.status.due = NoDue THEN 1 ELSE 0, row.status.due, row.created>>
    IN CASE sort = "priority" -> <<PriorityRank[row.status.priority]>> \o due
         [] sort = "due"      -> due
         [] sort = "created"  -> <<row.created>>

(* The columns in turn, then the text of the id. *)
ListBefore(sort, i, j) ==
    TextBefore(SortColumns(sort, db.todos[i]) \o Encode[i],
               SortColumns(sort, db.todos[j]) \o Encode[j])

(* LIMIT and OFFSET: the rows that have from offset to offset + limit - 1 before *)
(* them.                                                                         *)
PageOf(a, offset) ==
    LET rank(i) == Cardinality({j \in Matching(a) : ListBefore(a.sort, j, i)})
    IN {i \in Matching(a) : rank(i) \in offset .. offset + PageLimit(a) - 1}

-----------------------------------------------------------------------------
(* Store.List, statement by statement.                                     *)

ReadCursor(a, offset) ==
    /\ stage' = "counts"
    /\ list' = [call |-> a, offset |-> offset, cursor |-> db.version,
                counts |-> NoCounts, total |-> 0]
    /\ reading' = NoReading
    /\ UNCHANGED <<db, reply>>

(* A first page, and the next one: the offset moves by the rows received. *)
StartList(a) ==
    /\ stage = "idle"
    /\ ReadCursor(a, 0)
    /\ answer' = NoAnswer /\ seen' = {} /\ quiet' = TRUE

NextPage ==
    /\ stage = "idle"
    /\ answer.hasMore
    /\ ReadCursor(answer.call, answer.offset + Cardinality(DOMAIN answer.items))
    /\ UNCHANGED <<answer, seen, quiet>>

(* How many of the rows have each status: GROUP BY status. *)
CountsOf(rows) ==
    [s \in StatusNames |-> Cardinality({i \in rows : db.todos[i].status.status = s})]

(* Mutant: the counts are taken under the status filter. *)
CountMatchingByStatus ==
    /\ stage = "counts"
    /\ stage' = "total"
    /\ list' = [list EXCEPT !.counts = CountsOf(Matching(list.call))]
    /\ UNCHANGED <<db, reply, answer, seen, quiet, reading>>

CountByStatus ==
    /\ stage = "counts"
    /\ stage' = "total"
    /\ list' = [list EXCEPT !.counts = CountsOf(BaseRows(list.call))]
    /\ UNCHANGED <<db, reply, answer, seen, quiet, reading>>

CountTotal ==
    /\ stage = "total"
    /\ stage' = "items"
    /\ list' = [list EXCEPT !.total = Cardinality(Matching(list.call))]
    /\ UNCHANGED <<db, reply, answer, seen, quiet, reading>>

(* The answer with the rows of a page; has_more compares them with the total *)
(* read before.                                                              *)
AnswerWith(page) ==
    [call |-> list.call, offset |-> list.offset, cursor |-> list.cursor,
     counts |-> list.counts, total |-> list.total,
     items |-> [i \in page |-> db.todos[i]],
     hasMore |-> list.offset + Cardinality(page) < list.total]

(* Mutant: the cursor is read after the rows, by a statement of its own. *)
ReadItemsThenCursor ==
    \/ /\ stage = "items"
       /\ stage' = "cursor"
       /\ answer' = AnswerWith(PageOf(list.call, list.offset))
       /\ UNCHANGED <<db, reply, list, seen, quiet, reading>>
    \/ /\ stage = "cursor"
       /\ stage' = "idle"
       /\ answer' = [answer EXCEPT !.cursor = db.version]
       /\ list' = NoList
       /\ UNCHANGED <<db, reply, seen, quiet, reading>>

ReadItems ==
    LET page == PageOf(list.call, list.offset)
    IN /\ stage = "items"
       /\ stage' = "idle"
       /\ answer' = AnswerWith(page)
       /\ seen' = seen \cup page
       /\ list' = NoList
       /\ UNCHANGED <<db, reply, quiet, reading>>

-----------------------------------------------------------------------------
(* Store.ListNotes.                                                        *)

NotesOf(id) == {n \in DOMAIN db.notes : db.notes[n] = id}

(* assertTodoExistsRO; a todo that is not there ends the reading. *)
CheckTodo(id, r) ==
    /\ IF id \in Live(db)
         THEN stage' = "notes" /\ reading' = r
         ELSE stage' = "idle" /\ reading' = NoReading
    /\ list' = NoList /\ answer' = NoAnswer /\ seen' = {} /\ quiet' = TRUE
    /\ UNCHANGED <<db, reply>>

StartNotes(id, limit) ==
    /\ stage = "idle"
    /\ CheckTodo(id, [NoReading EXCEPT !.todo = id, !.limit = limit])

NextNotes ==
    /\ stage = "idle"
    /\ reading.more
    /\ CheckTodo(reading.todo, reading)

(* Mutant: the newest note first. *)
NotesBeforeNewestFirst(n) == {m \in NotesOf(db.notes[n]) : m > n}

(* ORDER BY id ASC *)
NotesBefore(n) == {m \in NotesOf(db.notes[n]) : m < n}

(* LIMIT limit + 1 OFFSET offset; the extra row tells whether there is more. *)
ReadNotes ==
    LET end  == reading.offset + reading.limit
        page == {n \in NotesOf(reading.todo) :
                    Cardinality(NotesBefore(n)) \in reading.offset .. end - 1}
    IN /\ stage = "notes"
       /\ stage' = "idle"
       /\ reading' = [reading EXCEPT !.offset = @ + Cardinality(page),
                                     !.ids    = @ \cup page,
                                     !.more   = Cardinality(NotesOf(reading.todo)) > end,
                                     !.upTo   = db.noteSeq]
       /\ UNCHANGED <<db, reply, list, answer, seen, quiet>>

-----------------------------------------------------------------------------
(* A statement of the call fails, or the answer is lost. *)
ReadFails ==
    /\ stage # "idle"
    /\ stage' = "idle"
    /\ list' = NoList /\ answer' = NoAnswer /\ seen' = {} /\ quiet' = TRUE /\ reading' = NoReading
    /\ UNCHANGED <<db, reply>>

(* A refused call changes nothing a query reads. *)
WriteMeanwhile ==
    /\ Next
    /\ db' # db
    /\ quiet' = (quiet /\ db'.todos = db.todos)
    /\ UNCHANGED <<stage, list, answer, seen, reading>>

ListNext ==
    \/ WriteMeanwhile
    \/ \E a \in ListArgs : StartList(a)
    \/ NextPage
    \/ CountByStatus
    \/ CountTotal
    \/ ReadItems
    \/ \E id \in KnownIds, limit \in NoteLimits : StartNotes(id, limit)
    \/ NextNotes
    \/ ReadNotes
    \/ ReadFails

ListSpec == ListInit /\ [][ListNext]_<<vars, listVars>>

-----------------------------------------------------------------------------
(* Properties.                                                             *)

IsAnswer == stage = "idle" /\ answer # NoAnswer

Unfiltered(a) == a.status = "all" /\ a.ids = {} /\ a.parent = AnyParent

SumOver(counts, S) == LET n(s) == IF s \in S THEN counts[s] ELSE 0
                      IN n("pending") + n("in_progress") + n("completed") + n("cancelled")

(* Calls in progress and answers have the parts their stage has read. *)
ListTypeOK ==
    /\ TypeOK
    /\ stage \in {"idle", "counts", "total", "items", "notes"}
    /\ stage \in {"counts", "total", "items"} =>
          list.call \in ListArgs /\ list.cursor \in 0 .. db.version /\ list.offset \in Nat
    /\ answer # NoAnswer => answer.cursor \in 0 .. db.version /\ answer.total \in Nat
    /\ reading.ids \subseteq 1 .. db.noteSeq

(* While nothing is written, the pages of a listing are disjoint and together   *)
(* hold every matching row once has_more is false, and the total and the counts *)
(* of the answer, which come from other statements, agree with the rows.        *)
QuietListingIsExact ==
    IsAnswer /\ quiet =>
        /\ Cardinality(seen) = answer.offset + Cardinality(DOMAIN answer.items)
        /\ ~ answer.hasMore => seen = Matching(answer.call)
        /\ answer.total = SumOver(answer.counts, WantedStatuses(answer.call))
        /\ SumOver(answer.counts, StatusNames) = Cardinality(BaseRows(answer.call))

(* What the answer promises about its cursor.                                  *)
Covers(ans) ==
    /\ \A i \in Live(db) :
          db.todos[i].scope = ans.call.scope /\ db.todos[i].version <= ans.cursor =>
              i \in DOMAIN ans.items /\ ans.items[i] = db.todos[i]
    /\ \A i \in Dead(db) :
          db.deletions[i].version <= ans.cursor => i \notin DOMAIN ans.items

(* "The global version before the query; diff continues from here and misses   *)
(* nothing" (todo.go:192): if the whole scope was asked for and the first page  *)
(* is not full, then everything up to the cursor is on it, whatever was         *)
(* committed between the four statements and since.                             *)
ListSeedsFeed ==
    IsAnswer /\ answer.offset = 0 /\ Unfiltered(answer.call)
             /\ Cardinality(DOMAIN answer.items) < PageLimit(answer.call) => Covers(answer)

(* Notes are only appended, so offset paging reads each note once, in order,    *)
(* also when notes are added between the pages; and the page that says there    *)
(* are no more completes all notes that were there when it was read.            *)
NotesReadOnce ==
    stage = "idle" =>
        /\ Cardinality(reading.ids) = reading.offset
        /\ \A n \in NotesOf(reading.todo), m \in reading.ids : n < m => n \in reading.ids
        /\ ~ reading.more => \A n \in NotesOf(reading.todo) : n <= reading.upTo => n \in reading.ids

(* The same promise as ListSeedsFeed taken at its word, has_more (todo.go:191)  *)
(* being what tells the agent that the page is the whole list.                  *)
LastPageSeedsFeed ==
    IsAnswer /\ answer.offset = 0 /\ Unfiltered(answer.call) /\ ~ answer.hasMore => Covers(answer)
=============================================================================
