-------------------------------- MODULE Tools --------------------------------
(***************************************************************************)
(* The handlers of todo_write, todo_update, todo_delete and todo_add_note  *)
(* (internal/mcp) from their arguments to the row they leave: Outline      *)
(* parses the text of todo_write, Fields checks and converts the other     *)
(* arguments, and the store's statement sets the columns.  One agent and   *)
(* the first todo of its batch are enough for that: what concurrent calls  *)
(* do to many rows is in TodoStore, WriteTx and ChangeFeed.                *)
(***************************************************************************)
EXTENDS Outline, Fields

CONSTANTS Calls,       \* calls of todo_write: pairs of a text and the other arguments
          UpdateArgs,  \* arguments of todo_update
          DeleteArgs,  \* arguments of todo_delete
          NoteTexts,   \* contents of notes
          MaxTodoNotes \* bound on the notes of the todo

(* Forms of the arguments a handler reads. *)
DueArg == [kind : {"", "blank", "word"}] \cup [kind : {"number", "date"}, ms : Int]

IsScopeArg(scope) ==
    scope.padded \in BOOLEAN /\ scope = [name |-> scope.name, padded |-> scope.padded]

ASSUME ToolsAssumption ==
    /\ \A call \in Calls : /\ call[1] \in Texts
                           /\ IsScopeArg(call[2].scope) /\ call[2].due \in DueArg
    /\ \A a \in UpdateArgs : a.due \in DueArg
    /\ \A a \in DeleteArgs : IsScopeArg(a.scope)
    /\ MaxTodoNotes \in Nat
    /\ Times \subseteq Int

VARIABLES todo,   \* the row followed, if there is one
          args    \* todo_write in progress: the columns of its batch

toolVars == <<text, stage, pos, items, lastByDepth, parents, todo, args>>

NoArgs == [scope |-> [name |-> "", padded |-> FALSE], priority |-> "", difficulty |-> "",
           due |-> [kind |-> ""]]

(* The id of the todo followed. *)
OwnId == "t1"

ToolsInit == OutlineInit /\ todo = {} /\ args = NoArgs

Idle == stage = "idle"

-----------------------------------------------------------------------------
(* todo_write.  parent_id is left out: its check is that of any id (IdValid), and *)
(* what a missing or deleted parent does to the batch is in TodoStore and WriteTx. *)
WriteCall(input, a) ==
    /\ WriteArgsValid(a)
    /\ Submit(input)
    /\ args' = a
    /\ UNCHANGED todo

WriteRefused(a) ==
    /\ ~ WriteArgsValid(a)
    /\ UNCHANGED toolVars

WriteStep == OutlineStep /\ UNCHANGED <<todo, args>>

(* InsertBatchDetailed commits; the todo of the first item is the one followed. *)
Insert ==
    /\ ReturnAccepted
    /\ todo' = {[scope      |-> ResolveScope(args.scope).name,
                 content    |-> items[1].content,
                 status     |-> items[1].status,
                 priority   |-> NormalizePriority(args.priority),
                 difficulty |-> NormalizeDifficulty(args.difficulty),
                 due        |-> ParseDueAt(args.due),
                 notes      |-> 0]}
    /\ args' = NoArgs

WriteFails == ReturnRefused /\ args' = NoArgs /\ UNCHANGED todo

-----------------------------------------------------------------------------
(* todo_update of the todo followed. *)
Update(a) ==
    /\ Idle
    /\ UpdateArgsValid(a)
    /\ \E row \in todo : todo' = {Updated(row, a)}
    /\ UNCHANGED <<outlineVars, args>>

UpdateRefused(a) ==
    /\ Idle
    /\ ~ UpdateArgsValid(a) \/ todo = {}
    /\ UNCHANGED toolVars

DeleteArgsValid(a) ==
    \/ a.ids # {} /\ a.scope = NoArgs.scope /\ \A id \in a.ids : IdValid(id)
    \/ a.ids = {} /\ ScopeValid(a.scope)

(* The condition of todo_delete; its scope is compared as it was sent. *)
DeleteSelects(a, row) == IF a.ids # {} THEN OwnId \in a.ids ELSE a.scope.name = row.scope

(* Mutant: todo_delete resolves its scope as todo_write does. *)
DeleteResolvingScope(a) ==
    LET r == [a EXCEPT !.scope = IF a.ids = {} THEN ResolveScope(@) ELSE @]
    IN /\ Idle
       /\ DeleteArgsValid(r)
       /\ todo' = {row \in todo : ~ DeleteSelects(r, row)}
       /\ UNCHANGED <<outlineVars, args>>

Delete(a) ==
    /\ Idle
    /\ DeleteArgsValid(a)
    /\ todo' = {row \in todo : ~ DeleteSelects(a, row)}
    /\ UNCHANGED <<outlineVars, args>>

DeleteRefused(a) ==
    /\ Idle
    /\ ~ DeleteArgsValid(a)
    /\ UNCHANGED toolVars

AddNote(content) ==
    /\ Idle
    /\ NoteContentValid(content)
    /\ \E row \in todo : /\ row.notes < MaxTodoNotes
                         /\ todo' = {[row EXCEPT !.notes = @ + 1]}
    /\ UNCHANGED <<outlineVars, args>>

NoteRefused(content) ==
    /\ Idle
    /\ ~ NoteContentValid(content) \/ todo = {}
    /\ UNCHANGED toolVars

(* Bound: todo_write is called only while no todo is followed. *)
ToolsNext ==
    \/ Idle /\ todo = {} /\ \E call \in Calls : WriteCall(call[1], call[2])
    \/ Idle /\ todo = {} /\ \E call \in Calls : WriteRefused(call[2])
    \/ WriteStep
    \/ Insert
    \/ WriteFails
    \/ \E a \in UpdateArgs : Update(a)
    \/ \E a \in UpdateArgs : UpdateRefused(a)
    \/ \E a \in DeleteArgs : Delete(a)
    \/ \E a \in DeleteArgs : DeleteRefused(a)
    \/ \E content \in NoteTexts : AddNote(content)
    \/ \E content \in NoteTexts : NoteRefused(content)

ToolsSpec == ToolsInit /\ [][ToolsNext]_toolVars
-----------------------------------------------------------------------------
(* Properties.                                                             *)

(* Whatever the arguments, a row has a value in every column that needs one:    *)
(* no column is left empty and no refused word, name or content is stored.      *)
ToolsTypeOK ==
    /\ OutlineTypeOK
    /\ Cardinality(todo) <= 1
    /\ \A row \in todo :
          /\ ScopeValid([name |-> row.scope, padded |-> FALSE])
          /\ TodoContentValid(row.content)
          /\ row.status \in StatusWords
          /\ row.priority \in Priorities /\ row.difficulty \in Difficulties
          /\ row.due \subseteq Int /\ Cardinality(row.due) <= 1
          /\ row.notes \in 0 .. MaxTodoNotes

(* A delete takes a todo only by its id or by its scope, spelled out: a call    *)
(* that names nothing, or a scope that needs the default or a trim, never       *)
(* empties a scope.                                                             *)
DeleteNamesItsScope ==
    [][\A a \in DeleteArgs : Delete(a) =>
          \A row \in todo \ todo' :
             OwnId \in a.ids \/ a.scope = [name |-> row.scope, padded |-> FALSE]]_toolVars

(* The relative date of the compact view is true: the side of now is right and  *)
(* the amount is the whole number of its unit, for every date whose distance a  *)
(* duration can hold.                                                           *)
RelativeDueIsTrue ==
    \A row \in todo, now \in Times : \A due \in row.due :
        LET away == IF due < now THEN now - due ELSE due - now
            r    == RelativeDue(due, now)
        IN away * Millisecond < Half =>
              IF away * Millisecond < Minute THEN r = [kind |-> "now"]
              ELSE /\ r.kind = IF due < now THEN "overdue" ELSE "ahead"
                   /\ r.left.n >= 1
                   /\ r.left.n * r.left.unit <= away * Millisecond
                   /\ away * Millisecond < (r.left.n + 1) * r.left.unit

(* An agent may send back what it was shown: the fields of a view, given to     *)
(* todo_update, leave the todo as it is.  The date keeps its second, except     *)
(* that second 0 clears it; a relative or a far date is refused.                *)
Echo(view) ==
    [status |-> view.status, content |-> view.content, priority |-> view.priority,
     difficulty |-> view.difficulty, due |-> view.due, clear |-> FALSE]

EchoHarmless ==
    \A row \in todo, mode \in {"compact", "full"}, now \in Times :
        LET a   == Echo(RenderTodo(row, mode, now))
            new == Updated(row, a)
        IN IF UpdateArgsValid(a)
             THEN /\ [new EXCEPT !.due = row.due] = row
                  /\ row.due = {} => new.due = {}
                  /\ \A due \in row.due :
                        LET second == due \div Second
                        IN new.due = IF second = 0 THEN {} ELSE {second * Second}
             ELSE \E due \in row.due : mode = "compact" \/ due \notin IsoFirst .. IsoLast
=============================================================================
