------------------------------ MODULE TodoStore ------------------------------
(***************************************************************************)
(* What internal/store promises its callers: every mutation is one atomic  *)
(* step on the tables.  WriteTx shows that the transactions of concurrent  *)
(* processes, with crashes, timeouts and rollbacks, implement it.          *)
(*                                                                         *)
(* A call either commits, and reply names the ids and the cursor it        *)
(* returns, or is refused and leaves the database as it was.               *)
(***************************************************************************)
EXTENDS TodoTables

CONSTANTS MaxId,       \* bound on meta.last_id
          MaxVersion,  \* bound on meta.version
          MaxNotes     \* bound on the notes counter

VARIABLES db,      \* contents of the database
          reply    \* what the last call returned

vars == <<db, reply>>

(* Ids a caller may name: live, deleted, or never allocated. *)
KnownIds == 1 .. MaxId

Refused == [op |-> "refused", ids |-> {}, cursor |-> 0]

Init == /\ db = EmptyDb
        /\ reply = Refused

-----------------------------------------------------------------------------
(* InsertBatchDetailed: parent check, nextVersion, allocateIDs, INSERT. *)

BatchAccepted(root, batch) ==
    /\ root # NoTodo => root \in Live(db)
    /\ WellIndented(batch)

InsertBatch(scope, root, batch, now) ==
    LET d == AllocateIDs(NextVersion(db), Len(batch))
    IN /\ BatchAccepted(root, batch)
       /\ d.version <= MaxVersion
       /\ d.lastId <= MaxId
       /\ db' = InsertRows(d, scope, root, batch, now)
       /\ reply' = [op |-> "insert", ids |-> AllocatedIDs(d, Len(batch)),
                    cursor |-> d.version]

(* ErrInvalidParent or ErrInvalidIndent: the transaction is rolled back, the *)
(* version and the ids it took included.                                     *)
InsertRefused(root, batch) ==
    /\ ~ BatchAccepted(root, batch)
    /\ reply' = Refused
    /\ UNCHANGED db

(* UpdateDetailed with at least one field. *)
Update(id, fields) ==
    LET d == NextVersion(db)
    IN /\ id \in Live(db)
       /\ d.version <= MaxVersion
       /\ db' = UpdateRow(d, id, fields)
       /\ reply' = [op |-> "update", ids |-> {id}, cursor |-> d.version]

(* ErrNotFound of UpdateDetailed and AddNote. *)
NotFound(id) ==
    /\ id \notin Live(db)
    /\ reply' = Refused
    /\ UNCHANGED db

(* Mutant: the DELETE runs before nextVersion. *)
DeleteHitsThenVersion(hits) ==
    /\ hits # {}
    /\ db.version < MaxVersion
    /\ db' = NextVersion(DeleteRows(db, hits))
    /\ reply' = [op |-> "delete", ids |-> hits, cursor |-> db.version + 1]

(* deleteByCondition: the ids returned are those the WHERE clause selects, not *)
(* those the cascade takes with them; nextVersion comes before the DELETE so   *)
(* that the trigger stamps the tombstones with the new version.  A condition   *)
(* that selects nothing takes no version and returns cursor 0.                 *)
DeleteHits(hits) ==
    LET d == NextVersion(db)
    IN \/ /\ hits # {}
          /\ d.version <= MaxVersion
          /\ db' = DeleteRows(d, hits)
          /\ reply' = [op |-> "delete", ids |-> hits, cursor |-> d.version]
       \/ /\ hits = {}
          /\ reply' = [op |-> "delete", ids |-> {}, cursor |-> 0]
          /\ UNCHANGED db

(* Mutant: the ids asked for are returned, not the ids found. *)
HitsAsAsked(ids) == IF ids \cap Live(db) = {} THEN {} ELSE ids

(* The rows a condition selects: id IN (...), or scope = ?. *)
HitsByIDs(ids)     == ids \cap Live(db)
HitsByScope(scope) == {i \in Live(db) : db.todos[i].scope = scope}

DeleteByIDs(ids)     == DeleteHits(HitsByIDs(ids))
DeleteByScope(scope) == DeleteHits(HitsByScope(scope))

(* AddNote takes no version: the todo's row is left alone. *)
AddNote(id) ==
    /\ id \in Live(db)
    /\ db.noteSeq < MaxNotes
    /\ db' = InsertNote(db, id)
    /\ reply' = [op |-> "note", ids |-> {id}, cursor |-> 0]

Next ==
    \/ \E scope \in Scopes, root \in KnownIds \cup {NoTodo}, batch \in Batches, now \in Times :
          InsertBatch(scope, root, batch, now)
    \/ \E root \in KnownIds \cup {NoTodo}, batch \in Batches : InsertRefused(root, batch)
    \/ \E id \in KnownIds, fields \in UpdateFields : Update(id, fields)
    \/ \E id \in KnownIds : NotFound(id)
    \/ \E ids \in (SUBSET KnownIds) \ {{}} : DeleteByIDs(ids)
    \/ \E scope \in Scopes : DeleteByScope(scope)
    \/ \E id \in KnownIds : AddNote(id)

Spec == Init /\ [][Next]_vars

-----------------------------------------------------------------------------
(* Properties.                                                             *)

(* Tables and replies are well typed, and every id in a table or a reply was    *)
(* handed out.                                                                  *)
TypeOK ==
    /\ TypedDb(db)
    /\ reply \in [op : {"refused", "insert", "update", "delete", "note"},
                  ids : SUBSET (1 .. db.lastId), cursor : Nat]

(* Every id ever handed out is either a live row or has exactly one tombstone:  *)
(* no id is reused and no delete, cascades included, goes unrecorded            *)
(* (allocateIDs, the delete trigger, recursive_triggers).                       *)
IdsAccountedFor ==
    /\ Live(db) \cup Dead(db) = 1 .. db.lastId
    /\ Live(db) \cap Dead(db) = {}

(* The parent of a live row is a live row with a smaller id, so the rows form a *)
(* forest: resolveParents never points forward and the cascade never leaves an  *)
(* orphan, across scopes included.                                              *)
ParentsPrecede ==
    \A i \in Live(db) : LET p == db.todos[i].parent
                        IN p # NoTodo => p \in Live(db) /\ p < i

(* One call, one version: a row and a tombstone never carry the same version,   *)
(* rows that carry the same version are in one scope, and nothing carries a     *)
(* version not yet handed out (nextVersion before every write, in the same      *)
(* transaction).  That the rows are those of one call is CallLog's              *)
(* LastWordStands.                                                              *)
OneCallPerVersion ==
    /\ \A i \in Live(db) : db.todos[i].version \in 1 .. db.version
    /\ \A i \in Dead(db) : db.deletions[i].version \in 1 .. db.version
    /\ \A i \in Live(db), j \in Dead(db) :
          db.todos[i].version # db.deletions[j].version
    /\ \A i, j \in Live(db) :
          db.todos[i].version = db.todos[j].version =>
              db.todos[i].scope = db.todos[j].scope

(* Notes belong to live todos: a cascade through several levels takes the notes *)
(* of every row it removes.                                                     *)
NotesAttached ==
    \A n \in DOMAIN db.notes : db.notes[n] \in Live(db)

(* The reply names the commit it reports: an insert or an update returns        *)
(* exactly the rows that carry the returned cursor, a delete only ids that have *)
(* a tombstone with that cursor.                                                *)
ReplyNamesTheCommit ==
    LET stamped == {i \in Live(db) : db.todos[i].version = reply.cursor}
        buried  == {i \in Dead(db) : db.deletions[i].version = reply.cursor}
    IN /\ reply.op \in {"insert", "update"} => reply.ids = stamped
       /\ reply.op = "delete" => reply.ids \subseteq buried
       /\ reply.cursor # 0 => reply.cursor = db.version /\ reply.ids # {}

(* What todo_diff relies on: whatever a call does to a row is visible as a      *)
(* stamp above every earlier version - the row itself if it still exists, else  *)
(* a tombstone in the row's own scope - and a tombstone is never rewritten, nor *)
(* written for an id that had no row.  The counters never go back.              *)
RowChangeIsStamped(i) ==
    IF i \in Live(db)'
      THEN /\ \/ i \in Live(db) /\ db'.todos[i] = db.todos[i]
              \/ db.version < db'.version /\ db'.todos[i].version = db'.version
           /\ i \in Live(db) => db'.todos[i].scope = db.todos[i].scope
      ELSE /\ db.version < db'.version
           /\ i \in Dead(db)'
           /\ db'.deletions[i] = [scope |-> db.todos[i].scope, version |-> db'.version]

TombstoneStays(i) == i \in Dead(db)' /\ db'.deletions[i] = db.deletions[i]

Stamped == /\ \A i \in Live(db) \cup Live(db)' : RowChangeIsStamped(i)
           /\ \A i \in Dead(db) : TombstoneStays(i)
           /\ Dead(db)' \subseteq Dead(db) \cup Live(db)
           /\ db.version <= db'.version /\ db.lastId <= db'.lastId

(* Every call, whatever it changes, stamps the change (nextVersion, the trigger). *)
EveryChangeIsStamped == [][Stamped]_vars
=============================================================================
