------------------------------ MODULE TodoTables ------------------------------
(***************************************************************************)
(* The tables of one tido database (internal/store/migration.go) and the   *)
(* effect of every SQL statement the store runs inside a transaction, one  *)
(* operator per statement: each takes the contents of the database and     *)
(* returns the new contents.  TodoStore composes them into atomic calls,   *)
(* WriteTx runs them one at a time inside a transaction.                   *)
(*                                                                         *)
(* A short id "t" + base36(n) is modelled by its number n (ShortId has the *)
(* text and the order of texts).  The field "status" of a row is a         *)
(* function: the columns an update may overwrite (status, content,         *)
(* priority, difficulty, due_at, or those an instance needs) to their      *)
(* values.  updated_at and deleted_at are never read back by the store and *)
(* are left out.                                                           *)
(***************************************************************************)
EXTENDS Integers, Sequences, FiniteSets

CONSTANTS Scopes,       \* names of scopes
          Statuses,     \* values of the columns an update may overwrite, together
          UpdateFields, \* what an update may ask for: some of the columns, with new values
          Times,        \* values of created_at
          Batches       \* outlines a caller may submit: nonempty sequences of items

Item == [depth : Nat, status : Statuses]

ASSUME BatchesAssumption == Batches \subseteq Seq(Item) \ {<< >>}

(* UPDATE todos SET ... names the columns that were asked for and no other. *)
Overwritten(columns, fields) ==
    [c \in DOMAIN columns |-> IF c \in DOMAIN fields THEN fields[c] ELSE columns[c]]

ASSUME UpdateFieldsAssumption ==
    \A columns \in Statuses, fields \in UpdateFields : Overwritten(columns, fields) \in Statuses

(* parent_id IS NULL, and the absent RootParentID of a batch. *)
NoTodo == 0

-----------------------------------------------------------------------------
(* Contents of the database: meta.last_id, meta.version, the tables todos, *)
(* deletions and notes keyed by their primary keys, and the AUTOINCREMENT  *)
(* counter of notes.                                                       *)

Row       == [scope : Scopes, status : Statuses, parent : Nat,
              version : Nat, created : Times]
Tombstone == [scope : Scopes, version : Nat]

EmptyDb == [lastId |-> 0, version |-> 0,
            todos     |-> [i \in {} |-> NoTodo],
            deletions |-> [i \in {} |-> NoTodo],
            notes     |-> [i \in {} |-> NoTodo], noteSeq |-> 0]

Live(d) == DOMAIN d.todos
Dead(d) == DOMAIN d.deletions

(* The tables have their columns, every id was handed out by last_id, every *)
(* note id by the counter of notes.                                         *)
TypedDb(d) ==
    /\ DOMAIN d = {"lastId", "version", "todos", "deletions", "notes", "noteSeq"}
    /\ d.lastId \in Nat /\ d.version \in Nat /\ d.noteSeq \in Nat
    /\ d.todos \in [Live(d) -> Row]
    /\ d.deletions \in [Dead(d) -> Tombstone]
    /\ d.notes \in [DOMAIN d.notes -> Nat]
    /\ Live(d) \cup Dead(d) \subseteq 1 .. d.lastId
    /\ DOMAIN d.notes \subseteq 1 .. d.noteSeq

-----------------------------------------------------------------------------
(* UPDATE meta SET value = value + 1 ... and value + n.                    *)

NextVersion(d) == [d EXCEPT !.version = @ + 1]

(* Mutant: value + 1, whatever the length of the batch. *)
AllocateOneID(d, n) == [d EXCEPT !.lastId = @ + 1]

AllocateIDs(d, n) == [d EXCEPT !.lastId = @ + n]

(* The n ids the last AllocateIDs handed out, in order of the items. *)
AllocatedIDs(d, n) == (d.lastId - n + 1) .. d.lastId

-----------------------------------------------------------------------------
(* Parents inside a batch.  When resolveParents reaches item i,            *)
(* lastByDepth[depth - 1] holds the last item one level up that no         *)
(* shallower item has invalidated since: every item in between is at least *)
(* as deep as i.                                                           *)

Anchors(batch, i) ==
    {j \in 1 .. i - 1 :
        /\ batch[j].depth + 1 = batch[i].depth
        /\ \A k \in j + 1 .. i - 1 : batch[k].depth >= batch[i].depth}

(* The batches resolveParents accepts; it refuses the others (ErrInvalidIndent). *)
WellIndented(batch) ==
    \A i \in DOMAIN batch : batch[i].depth > 0 => Anchors(batch, i) # {}

(* The parent of item i in a batch whose first item has the id first. *)
BatchParent(batch, i, root, first) ==
    IF batch[i].depth = 0
      THEN root
      ELSE first - 1 + (CHOOSE j \in Anchors(batch, i) : TRUE)

(* INSERT INTO todos ... VALUES (...), (...): all rows carry the version just *)
(* allocated and the caller's clock.                                          *)
InsertRows(d, scope, root, batch, now) ==
    LET ids   == AllocatedIDs(d, Len(batch))
        first == d.lastId - Len(batch) + 1
        row(i) == [scope   |-> scope,
                   status  |-> batch[i - first + 1].status,
                   parent  |-> BatchParent(batch, i - first + 1, root, first),
                   version |-> d.version,
                   created |-> now]
    IN [d EXCEPT !.todos = [i \in Live(d) \cup ids |->
                               IF i \in ids THEN row(i) ELSE d.todos[i]]]

(* Mutant: the row keeps its old version. *)
UpdateRowUnstamped(d, id, fields) ==
    [d EXCEPT !.todos = [i \in Live(d) |->
        IF i = id THEN [d.todos[i] EXCEPT !.status = Overwritten(@, fields)] ELSE d.todos[i]]]

(* UPDATE todos SET ..., version = ? WHERE id = ?; SET has the columns of fields. *)
UpdateRow(d, id, fields) ==
    [d EXCEPT !.todos = [i \in Live(d) |->
        IF i = id THEN [d.todos[i] EXCEPT !.status = Overwritten(@, fields), !.version = d.version]
                  ELSE d.todos[i]]]

-----------------------------------------------------------------------------
(* DELETE FROM todos WHERE ...                                             *)

(* A set of rows that contains the children of all its members, in whatever *)
(* scope those are.                                                         *)
ClosedUnderChildren(todos, S) ==
    \A i \in DOMAIN todos : todos[i].parent \in S => i \in S

(* Mutant: foreign_keys is OFF. *)
NoCascade(todos, hits) == hits

(* parent_id ... ON DELETE CASCADE: the smallest closed set that contains the *)
(* rows the WHERE clause selects.                                             *)
Cascade(todos, hits) ==
    {i \in DOMAIN todos :
        \A S \in SUBSET DOMAIN todos :
            hits \subseteq S /\ ClosedUnderChildren(todos, S) => i \in S}

(* trg_todos_after_delete, fired for every row of the cascade because         *)
(* recursive_triggers is ON; INSERT OR IGNORE keeps an existing tombstone.    *)
Tombstones(d, gone) ==
    [i \in Dead(d) \cup gone |->
        IF i \in Dead(d) THEN d.deletions[i]
        ELSE [scope |-> d.todos[i].scope, version |-> d.version]]

(* Mutant: notes has no foreign key. *)
AllNotesLeft(d, gone) == d.notes

(* notes.todo_id ... ON DELETE CASCADE. *)
NotesLeft(d, gone) ==
    [n \in {m \in DOMAIN d.notes : d.notes[m] \notin gone} |-> d.notes[n]]

(* Mutant: recursive_triggers is OFF, the cascade leaves no tombstones. *)
DeleteRowsQuietCascade(d, hits) ==
    LET gone == Cascade(d.todos, hits)
    IN [d EXCEPT !.todos     = [i \in Live(d) \ gone |-> d.todos[i]],
                 !.deletions = Tombstones(d, hits),
                 !.notes     = NotesLeft(d, gone)]

DeleteRows(d, hits) ==
    LET gone == Cascade(d.todos, hits)
    IN [d EXCEPT !.todos     = [i \in Live(d) \ gone |-> d.todos[i]],
                 !.deletions = Tombstones(d, gone),
                 !.notes     = NotesLeft(d, gone)]

-----------------------------------------------------------------------------
(* INSERT INTO notes: AUTOINCREMENT never hands out an id twice. *)
InsertNote(d, id) ==
    LET seq == d.noteSeq + 1
    IN [d EXCEPT !.noteSeq = seq,
                 !.notes = [n \in DOMAIN d.notes \cup {seq} |->
                               IF n = seq THEN id ELSE d.notes[n]]]
=============================================================================
