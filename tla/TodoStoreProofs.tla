--------------------------- MODULE TodoStoreProofs ---------------------------
(***************************************************************************)
(* Proofs about TodoStore, for every set of scopes, columns and outlines   *)
(* and every bound.                                                        *)
(*                                                                         *)
(* The lemmas come in two layers: what each composite of SQL statements    *)
(* makes of well-typed tables (InsertEffect, UpdateEffect, DeleteEffect,   *)
(* NoteEffect), then one lemma per group of invariants.                    *)
(***************************************************************************)
EXTENDS TodoStore, TLAPS

-----------------------------------------------------------------------------
(* Outlines.                                                               *)

(* A batch is a nonempty sequence of items. *)
LEMMA BatchType ==
  ASSUME NEW batch \in Batches
  PROVE  /\ batch \in Seq(Item)
         /\ Len(batch) \in Nat \ {0}
         /\ DOMAIN batch = 1 .. Len(batch)
         /\ \A i \in 1 .. Len(batch) : batch[i] \in Item
<1>1. batch \in Seq(Item) /\ batch # << >>
  BY BatchesAssumption
<1> HIDE DEF Item
<1>2. QED
  BY <1>1

(* Inside an accepted batch an item hangs under the root or under an earlier *)
(* item (resolveParents).                                                    *)
LEMMA BatchParentEarlier ==
  ASSUME NEW batch \in Batches, WellIndented(batch),
         NEW root, NEW first \in Nat, NEW i \in 1 .. Len(batch)
  PROVE  \/ BatchParent(batch, i, root, first) = root
         \/ BatchParent(batch, i, root, first) \in first .. (first + i - 2)
<1>1. CASE batch[i].depth = 0
  BY <1>1 DEF BatchParent
<1>2. CASE batch[i].depth # 0
  <2>1. batch[i].depth > 0
    BY <1>2, BatchType DEF Item
  <2>2. Anchors(batch, i) # {}
    BY <2>1, BatchType DEF WellIndented
  <2>3. (CHOOSE j \in Anchors(batch, i) : TRUE) \in 1 .. i - 1
    BY <2>2 DEF Anchors
  <2>4. QED
    BY <1>2, <2>3 DEF BatchParent
<1>3. QED
  BY <1>1, <1>2

-----------------------------------------------------------------------------
(* Effects of the transactions on well-typed tables.                       *)

(* e is d with n new rows of one scope, under root or under each other. *)
Inserted(d, e, scope, root, n) ==
    /\ TypedDb(e)
    /\ e.version = d.version + 1
    /\ e.lastId = d.lastId + n
    /\ e.deletions = d.deletions
    /\ e.notes = d.notes /\ e.noteSeq = d.noteSeq
    /\ Live(e) = Live(d) \cup (d.lastId + 1 .. e.lastId)
    /\ \A i \in Live(d) : e.todos[i] = d.todos[i]
    /\ \A i \in d.lastId + 1 .. e.lastId :
          /\ e.todos[i].scope = scope
          /\ e.todos[i].version = e.version
          /\ \/ e.todos[i].parent = root
             \/ e.todos[i].parent \in d.lastId + 1 .. i - 1

(* nextVersion, allocateIDs and the INSERT of an accepted batch. *)
LEMMA InsertEffect ==
  ASSUME NEW d, TypedDb(d),
         NEW scope \in Scopes, NEW root \in Live(d) \cup {NoTodo},
         NEW batch \in Batches, WellIndented(batch), NEW now \in Times,
         NEW e, e = InsertRows(AllocateIDs(NextVersion(d), Len(batch)),
                               scope, root, batch, now)
  PROVE  Inserted(d, e, scope, root, Len(batch))
<1> DEFINE n == Len(batch)
           c == AllocateIDs(NextVersion(d), n)
           ids == d.lastId + 1 .. d.lastId + n
           row(i) == [scope   |-> scope,
                      status  |-> batch[i - (d.lastId + 1) + 1].status,
                      parent  |-> BatchParent(batch, i - (d.lastId + 1) + 1, root, d.lastId + 1),
                      version |-> d.version + 1,
                      created |-> now]
<1>1. n \in Nat \ {0} /\ d.lastId \in Nat /\ d.version \in Nat
  BY BatchType DEF TypedDb
<1>2. /\ DOMAIN c = DOMAIN d
      /\ c.lastId = d.lastId + n /\ c.version = d.version + 1
      /\ c.todos = d.todos /\ c.deletions = d.deletions
      /\ c.notes = d.notes /\ c.noteSeq = d.noteSeq
  BY <1>1 DEF AllocateIDs, NextVersion, TypedDb
<1>3. AllocatedIDs(c, n) = ids /\ c.lastId - n + 1 = d.lastId + 1
  BY <1>1, <1>2 DEF AllocatedIDs
<1>4. e = [c EXCEPT !.todos = [i \in Live(d) \cup ids |->
                                  IF i \in ids THEN row(i) ELSE d.todos[i]]]
  BY <1>2, <1>3, Zenon DEF InsertRows, Live
<1>5. /\ DOMAIN e = DOMAIN d
      /\ e.lastId = d.lastId + n /\ e.version = d.version + 1
      /\ e.deletions = d.deletions /\ e.notes = d.notes /\ e.noteSeq = d.noteSeq
      /\ e.todos = [i \in Live(d) \cup ids |->
                       IF i \in ids THEN row(i) ELSE d.todos[i]]
  <2> HIDE DEF row
  <2> QED BY <1>2, <1>4 DEF TypedDb
<1>6. \A i \in ids : /\ row(i) \in Row
                     /\ \/ row(i).parent = root
                        \/ row(i).parent \in d.lastId + 1 .. i - 1
  <2> SUFFICES ASSUME NEW i \in ids
               PROVE  /\ row(i) \in Row
                      /\ \/ row(i).parent = root
                         \/ row(i).parent \in d.lastId + 1 .. i - 1
    OBVIOUS
  <2>1. i - (d.lastId + 1) + 1 \in 1 .. n
    BY <1>1
  <2>2. batch[i - (d.lastId + 1) + 1].status \in Statuses
    BY <2>1, BatchType DEF Item
  <2>3. root \in Nat
    BY DEF TypedDb, NoTodo
  <2>4. \/ row(i).parent = root
        \/ row(i).parent \in d.lastId + 1 .. i - 1
    BY <2>1, <1>1, BatchParentEarlier
  <2>5. row(i).parent \in Nat
    BY <2>3, <2>4, <1>1
  <2> QED
    BY <2>2, <2>4, <2>5, <1>1 DEF Row
<1>7. Live(d) \cap ids = {} /\ Live(d) \subseteq 1 .. d.lastId /\ Dead(d) \subseteq 1 .. d.lastId
  BY <1>1 DEF TypedDb
<1>8. /\ Live(e) = Live(d) \cup ids
      /\ \A i \in Live(d) : e.todos[i] = d.todos[i]
      /\ \A i \in ids : e.todos[i] = row(i)
  <2> HIDE DEF row
  <2> QED BY <1>5, <1>7 DEF Live
<1>9. e.todos \in [Live(e) -> Row]
  <2> HIDE DEF row
  <2>1. \A i \in Live(d) : d.todos[i] \in Row
    BY DEF TypedDb
  <2> QED BY <1>5, <1>6, <1>8, <2>1 DEF Live
<1>10. TypedDb(e)
  <2>1. Live(e) \cup Dead(e) \subseteq 1 .. e.lastId
    BY <1>1, <1>5, <1>7, <1>8 DEF Dead
  <2> HIDE DEF row
  <2> QED BY <1>1, <1>5, <1>9, <2>1 DEF TypedDb, Dead
<1>11. \A i \in ids : row(i).scope = scope /\ row(i).version = d.version + 1
  OBVIOUS
<1>12. QED
  <2> HIDE DEF row
  <2> QED BY <1>1, <1>5, <1>6, <1>8, <1>10, <1>11 DEF Inserted

(* nextVersion and the UPDATE of a live row. *)
LEMMA UpdateEffect ==
  ASSUME NEW d, TypedDb(d), NEW id \in Live(d), NEW fields \in UpdateFields,
         NEW e, e = UpdateRow(NextVersion(d), id, fields)
  PROVE  /\ TypedDb(e)
         /\ e.version = d.version + 1
         /\ e.lastId = d.lastId
         /\ e.deletions = d.deletions
         /\ e.notes = d.notes /\ e.noteSeq = d.noteSeq
         /\ Live(e) = Live(d)
         /\ \A i \in Live(d) : i # id => e.todos[i] = d.todos[i]
         /\ e.todos[id].version = e.version
         /\ e.todos[id].scope = d.todos[id].scope
         /\ e.todos[id].parent = d.todos[id].parent
<1> DEFINE c == NextVersion(d)
           new    == Overwritten(d.todos[id].status, fields)
           row(i) == IF i = id THEN [d.todos[i] EXCEPT !.status = new, !.version = d.version + 1]
                               ELSE d.todos[i]
<1>1. /\ DOMAIN c = DOMAIN d
      /\ c.lastId = d.lastId /\ c.version = d.version + 1
      /\ c.todos = d.todos /\ c.deletions = d.deletions
      /\ c.notes = d.notes /\ c.noteSeq = d.noteSeq
  BY DEF NextVersion, TypedDb
<1>2. e = [c EXCEPT !.todos = [i \in Live(d) |-> row(i)]]
  BY <1>1 DEF UpdateRow, Live
<1>a. new \in Statuses
  <2>1. d.todos[id].status \in Statuses
    BY DEF TypedDb, Row
  <2>2. QED
    BY <2>1, UpdateFieldsAssumption
<1> HIDE DEF new
<1>3. \A i \in Live(d) : /\ row(i) \in Row
                         /\ row(i).scope = d.todos[i].scope
                         /\ row(i).parent = d.todos[i].parent
                         /\ i # id => row(i) = d.todos[i]
                         /\ i = id => row(i).version = d.version + 1
  <2> SUFFICES ASSUME NEW i \in Live(d)
               PROVE  /\ row(i) \in Row
                      /\ row(i).scope = d.todos[i].scope
                      /\ row(i).parent = d.todos[i].parent
                      /\ i # id => row(i) = d.todos[i]
                      /\ i = id => row(i).version = d.version + 1
    OBVIOUS
  <2>1. d.todos[i] \in Row /\ d.version + 1 \in Nat
    BY DEF TypedDb
  <2>2. CASE i = id
    BY <2>1, <2>2, <1>a DEF Row
  <2>3. CASE i # id
    BY <2>1, <2>3
  <2>4. QED
    BY <2>2, <2>3
<1> HIDE DEF row
<1>4. /\ DOMAIN e = DOMAIN d
      /\ e.lastId = d.lastId /\ e.version = d.version + 1
      /\ e.deletions = d.deletions /\ e.notes = d.notes /\ e.noteSeq = d.noteSeq
      /\ e.todos = [i \in Live(d) |-> row(i)]
  BY <1>1, <1>2 DEF TypedDb
<1>5. /\ Live(e) = Live(d)
      /\ \A i \in Live(d) : e.todos[i] = row(i)
      /\ e.todos \in [Live(e) -> Row]
  BY <1>3, <1>4 DEF Live
<1>6. TypedDb(e)
  BY <1>4, <1>5 DEF TypedDb, Dead
<1>7. QED
  BY <1>3, <1>4, <1>5, <1>6

(* The cascade takes the selected rows and, transitively, their children: what *)
(* it leaves has no parent in it.                                              *)
LEMMA CascadeClosed ==
  ASSUME NEW todos, NEW hits \in SUBSET DOMAIN todos
  PROVE  /\ Cascade(todos, hits) \subseteq DOMAIN todos
         /\ hits \subseteq Cascade(todos, hits)
         /\ \A i \in DOMAIN todos : todos[i].parent \in Cascade(todos, hits)
                                      => i \in Cascade(todos, hits)
<1>1. Cascade(todos, hits) \subseteq DOMAIN todos
  BY DEF Cascade
<1>2. hits \subseteq Cascade(todos, hits)
  BY DEF Cascade
<1>3. ASSUME NEW i \in DOMAIN todos, todos[i].parent \in Cascade(todos, hits)
      PROVE  i \in Cascade(todos, hits)
  <2> SUFFICES ASSUME NEW S \in SUBSET DOMAIN todos,
                      hits \subseteq S, ClosedUnderChildren(todos, S)
               PROVE  i \in S
    BY DEF Cascade
  <2>1. todos[i].parent \in S
    BY <1>3 DEF Cascade
  <2>2. QED
    BY <2>1 DEF ClosedUnderChildren
<1>4. QED
  BY <1>1, <1>2, <1>3

(* nextVersion and the DELETE, with its cascade and its trigger. *)
LEMMA DeleteEffect ==
  ASSUME NEW d, TypedDb(d), Live(d) \cap Dead(d) = {},
         NEW hits \in SUBSET Live(d),
         NEW e, e = DeleteRows(NextVersion(d), hits)
  PROVE  LET gone == Cascade(d.todos, hits)
         IN /\ TypedDb(e)
            /\ e.version = d.version + 1
            /\ e.lastId = d.lastId
            /\ hits \subseteq gone
            /\ gone \subseteq Live(d)
            /\ Live(e) = Live(d) \ gone
            /\ \A i \in Live(e) : e.todos[i] = d.todos[i] /\ e.todos[i].parent \notin gone
            /\ Dead(e) = Dead(d) \cup gone
            /\ \A i \in Dead(d) : e.deletions[i] = d.deletions[i]
            /\ \A i \in gone :
                  e.deletions[i] = [scope |-> d.todos[i].scope, version |-> e.version]
            /\ e.noteSeq = d.noteSeq
            /\ DOMAIN e.notes = {n \in DOMAIN d.notes : d.notes[n] \notin gone}
            /\ \A n \in DOMAIN e.notes : e.notes[n] = d.notes[n]
<1> DEFINE c == NextVersion(d)
           gone == Cascade(d.todos, hits)
           tomb(i) == IF i \in Dead(d) THEN d.deletions[i]
                      ELSE [scope |-> d.todos[i].scope, version |-> d.version + 1]
           left == {n \in DOMAIN d.notes : d.notes[n] \notin gone}
<1>1. /\ DOMAIN c = DOMAIN d
      /\ c.lastId = d.lastId /\ c.version = d.version + 1
      /\ c.todos = d.todos /\ c.deletions = d.deletions
      /\ c.notes = d.notes /\ c.noteSeq = d.noteSeq
  BY DEF NextVersion, TypedDb
<1>2. /\ hits \subseteq gone /\ gone \subseteq Live(d)
      /\ \A i \in Live(d) : d.todos[i].parent \in gone => i \in gone
  BY CascadeClosed DEF Live
<1>3. /\ Tombstones(c, gone) = [i \in Dead(d) \cup gone |-> tomb(i)]
      /\ NotesLeft(c, gone) = [n \in left |-> d.notes[n]]
  BY <1>1 DEF Tombstones, NotesLeft, Dead
<1>4. e = [c EXCEPT !.todos     = [i \in Live(d) \ gone |-> d.todos[i]],
                    !.deletions = [i \in Dead(d) \cup gone |-> tomb(i)],
                    !.notes     = [n \in left |-> d.notes[n]]]
  <2>1. Cascade(c.todos, hits) = gone
    BY <1>1
  <2> HIDE DEF gone, tomb, left
  <2> QED BY <1>1, <1>3, <2>1, Zenon DEF DeleteRows, Live
<1>5. \A i \in Dead(d) \cup gone :
          /\ tomb(i) \in Tombstone
          /\ i \in Dead(d) => tomb(i) = d.deletions[i]
          /\ i \in gone => tomb(i) = [scope |-> d.todos[i].scope, version |-> d.version + 1]
  BY <1>2 DEF TypedDb, Tombstone, Row
<1> HIDE DEF gone, tomb, left
<1>6. /\ DOMAIN e = DOMAIN d
      /\ e.lastId = d.lastId /\ e.version = d.version + 1 /\ e.noteSeq = d.noteSeq
      /\ e.todos = [i \in Live(d) \ gone |-> d.todos[i]]
      /\ e.deletions = [i \in Dead(d) \cup gone |-> tomb(i)]
      /\ e.notes = [n \in left |-> d.notes[n]]
  BY <1>1, <1>4 DEF TypedDb
<1>7. /\ Live(e) = Live(d) \ gone
      /\ e.todos \in [Live(e) -> Row]
      /\ \A i \in Live(e) : e.todos[i] = d.todos[i] /\ e.todos[i].parent \notin gone
  BY <1>2, <1>6 DEF Live, TypedDb
<1>8. /\ Dead(e) = Dead(d) \cup gone
      /\ e.deletions \in [Dead(e) -> Tombstone]
      /\ \A i \in Dead(d) : e.deletions[i] = d.deletions[i]
      /\ \A i \in gone : e.deletions[i] = [scope |-> d.todos[i].scope, version |-> e.version]
  BY <1>5, <1>6 DEF Dead
<1>9. /\ DOMAIN e.notes = left
      /\ e.notes \in [left -> Nat]
      /\ \A n \in left : e.notes[n] = d.notes[n]
  BY <1>6 DEF TypedDb, left
<1>10. TypedDb(e)
  <2>1. Live(e) \cup Dead(e) \subseteq 1 .. e.lastId
    BY <1>2, <1>6, <1>7, <1>8 DEF TypedDb
  <2>2. DOMAIN e.notes \subseteq 1 .. e.noteSeq
    BY <1>6, <1>9 DEF TypedDb, left
  <2>3. QED
    BY <1>6, <1>7, <1>8, <1>9, <2>1, <2>2 DEF TypedDb
<1>11. QED
  BY <1>2, <1>6, <1>7, <1>8, <1>9, <1>10 DEF gone, left

(* The INSERT of a note on a live row. *)
LEMMA NoteEffect ==
  ASSUME NEW d, TypedDb(d), NEW id \in Live(d), NEW e, e = InsertNote(d, id)
  PROVE  /\ TypedDb(e)
         /\ e.version = d.version
         /\ e.lastId = d.lastId
         /\ e.todos = d.todos
         /\ e.deletions = d.deletions
         /\ e.noteSeq = d.noteSeq + 1
         /\ DOMAIN e.notes = DOMAIN d.notes \cup {e.noteSeq}
         /\ \A n \in DOMAIN d.notes : e.notes[n] = d.notes[n]
         /\ e.notes[e.noteSeq] = id
<1> DEFINE seq == d.noteSeq + 1
           note(n) == IF n = seq THEN id ELSE d.notes[n]
<1>1. e = [d EXCEPT !.noteSeq = seq,
                    !.notes = [n \in DOMAIN d.notes \cup {seq} |-> note(n)]]
  BY Zenon DEF InsertNote
<1>2. id \in Nat /\ seq \in Nat
  BY DEF TypedDb
<1>3. /\ DOMAIN e = DOMAIN d
      /\ e.lastId = d.lastId /\ e.version = d.version /\ e.noteSeq = seq
      /\ e.todos = d.todos /\ e.deletions = d.deletions
      /\ e.notes = [n \in DOMAIN d.notes \cup {seq} |-> note(n)]
  <2> HIDE DEF note
  <2> QED BY <1>1 DEF TypedDb
<1>4. \A n \in DOMAIN d.notes \cup {seq} :
          note(n) \in Nat /\ (note(n) = id \/ (n \in DOMAIN d.notes /\ note(n) = d.notes[n]))
  <2>1. \A n \in DOMAIN d.notes : d.notes[n] \in Nat
    BY DEF TypedDb
  <2>2. QED
    BY <1>2, <2>1
<1>5. DOMAIN e.notes \subseteq 1 .. e.noteSeq /\ seq \notin DOMAIN d.notes
  BY <1>2, <1>3 DEF TypedDb
<1>6. /\ DOMAIN e.notes = DOMAIN d.notes \cup {e.noteSeq}
      /\ \A n \in DOMAIN d.notes : e.notes[n] = d.notes[n]
      /\ e.notes[e.noteSeq] = id
  BY <1>3, <1>5
<1>7. TypedDb(e)
  <2> HIDE DEF note
  <2> QED BY <1>2, <1>3, <1>4, <1>5 DEF TypedDb, Live, Dead
<1>8. QED
  BY <1>3, <1>6, <1>7

-----------------------------------------------------------------------------
(* The inductive invariant.  OneCallPerVersion needs IdsAccountedFor (a row and *)
(* a tombstone of one id would clash), ParentsPrecede needs TypeOK (a new id is *)
(* above every id in use), and NotesAttached needs nothing but the cascade.     *)

Tables == IdsAccountedFor /\ ParentsPrecede /\ OneCallPerVersion /\ NotesAttached

IInv == TypeOK /\ Tables

(* The counters of well-typed tables can be compared. *)
LEMMA CountersAreNaturals ==
  ASSUME IInv
  PROVE  db.version \in Nat /\ db.lastId \in Nat
BY DEF IInv, TypeOK, TypedDb

(* The empty database. *)
LEMMA InitInv == Init => IInv
<1> SUFFICES ASSUME Init PROVE IInv
  OBVIOUS
<1>1. TypedDb(EmptyDb)
  BY DEF TypedDb, EmptyDb, Live, Dead
<1>2. Live(EmptyDb) = {} /\ Dead(EmptyDb) = {} /\ DOMAIN EmptyDb.notes = {}
      /\ EmptyDb.lastId = 0 /\ EmptyDb.version = 0
  BY DEF EmptyDb, Live, Dead
<1>3. QED
  BY <1>1, <1>2 DEF Init, IInv, Tables, TypeOK, Refused, IdsAccountedFor, ParentsPrecede,
                    OneCallPerVersion, NotesAttached

(* todo_write: fresh ids, one version, parents before children. *)
LEMMA InsertInv ==
  ASSUME IInv, NEW scope \in Scopes, NEW root \in KnownIds \cup {NoTodo},
         NEW batch \in Batches, NEW now \in Times,
         InsertBatch(scope, root, batch, now)
  PROVE  IInv' /\ Stamped /\ ReplyNamesTheCommit'
<1> DEFINE new == db.lastId + 1 .. db'.lastId
           d == AllocateIDs(NextVersion(db), Len(batch))
<1>1. /\ TypedDb(db')
      /\ db'.version = db.version + 1
      /\ db'.lastId = db.lastId + Len(batch)
      /\ db'.deletions = db.deletions
      /\ db'.notes = db.notes
      /\ Live(db') = Live(db) \cup new
      /\ \A i \in Live(db) : db'.todos[i] = db.todos[i]
      /\ \A i \in new : /\ db'.todos[i].scope = scope
                        /\ db'.todos[i].version = db'.version
                        /\ \/ db'.todos[i].parent = root
                           \/ db'.todos[i].parent \in db.lastId + 1 .. i - 1
  <2>1. root \in Live(db) \cup {NoTodo} /\ WellIndented(batch)
    BY DEF InsertBatch, BatchAccepted
  <2>2. db' = InsertRows(AllocateIDs(NextVersion(db), Len(batch)), scope, root, batch, now)
    BY DEF InsertBatch
  <2>3. TypedDb(db)
    BY DEF IInv, TypeOK
  <2>4. Inserted(db, db', scope, root, Len(batch))
    BY <2>1, <2>2, <2>3, InsertEffect, Zenon
  <2>5. QED
    BY <2>4 DEF Inserted
<1>2. /\ db.lastId \in Nat /\ db.version \in Nat /\ Len(batch) \in Nat \ {0}
      /\ Live(db) \subseteq 1 .. db.lastId /\ Dead(db) \subseteq 1 .. db.lastId
  BY BatchType DEF IInv, TypeOK, TypedDb
<1>3. /\ reply'.op = "insert" /\ reply'.ids = new /\ reply'.cursor = db'.version
      /\ reply' \in [op : {"insert"}, ids : SUBSET (1 .. db'.lastId), cursor : Nat]
  <2>1. d.lastId = db.lastId + Len(batch) /\ d.version = db.version + 1
    BY <1>2 DEF AllocateIDs, NextVersion, IInv, TypeOK, TypedDb
  <2>2. AllocatedIDs(d, Len(batch)) = new
    BY <1>1, <1>2, <2>1 DEF AllocatedIDs
  <2>3. reply' = [op |-> "insert", ids |-> new, cursor |-> db'.version]
    BY <1>1, <2>1, <2>2 DEF InsertBatch
  <2>4. new \subseteq 1 .. db'.lastId /\ db'.version \in Nat
    BY <1>1, <1>2
  <2>5. QED
    BY <2>3, <2>4
<1>4. TypeOK'
  BY <1>1, <1>3 DEF TypeOK
<1>5. Dead(db') = Dead(db)
  BY <1>1 DEF Dead
<1>6. IdsAccountedFor'
  BY <1>1, <1>2, <1>5 DEF IdsAccountedFor, IInv, Tables
<1>7. ParentsPrecede'
  <2>1. ASSUME NEW i \in Live(db'), db'.todos[i].parent # NoTodo
        PROVE  db'.todos[i].parent \in Live(db') /\ db'.todos[i].parent < i
    <3>1. CASE i \in Live(db)
      BY <1>1, <2>1, <3>1 DEF ParentsPrecede, IInv, Tables
    <3>2. CASE i \in new /\ db'.todos[i].parent = root
      <4>1. root \in Live(db)
        BY <2>1, <3>2 DEF InsertBatch, BatchAccepted
      <4>2. QED
        BY <1>1, <1>2, <3>2, <4>1
    <3>3. CASE i \in new /\ db'.todos[i].parent \in db.lastId + 1 .. i - 1
      BY <1>1, <1>2, <3>3
    <3>4. QED
      BY <1>1, <2>1, <3>1, <3>2, <3>3
  <2>2. QED
    BY <2>1 DEF ParentsPrecede
<1>8. OneCallPerVersion'
  <2>1. \A i \in Live(db') :
           \/ /\ i \in Live(db) /\ db'.todos[i] = db.todos[i]
              /\ db'.todos[i].version \in 1 .. db.version
           \/ db'.todos[i].version = db.version + 1 /\ db'.todos[i].scope = scope
    BY <1>1 DEF OneCallPerVersion, IInv, Tables
  <2>2. \A i \in Dead(db') : /\ i \in Dead(db) /\ db'.deletions[i] = db.deletions[i]
                             /\ db'.deletions[i].version \in 1 .. db.version
    BY <1>1, <1>5 DEF OneCallPerVersion, IInv, Tables
  <2>0. db.version \in Nat /\ db'.version = db.version + 1
    BY <1>1, <1>2
  <2>3. /\ \A i \in Live(db') : db'.todos[i].version \in 1 .. db'.version
        /\ \A i \in Dead(db') : db'.deletions[i].version \in 1 .. db'.version
    <3>1. ASSUME NEW i \in Live(db') PROVE db'.todos[i].version \in 1 .. db'.version
      BY <2>0, <2>1, SMTT(30)
    <3>2. ASSUME NEW i \in Dead(db') PROVE db'.deletions[i].version \in 1 .. db'.version
      BY <2>0, <2>2, SMTT(30)
    <3>3. QED
      BY <3>1, <3>2
  <2>4. \A i \in Live(db'), j \in Dead(db') :
           db'.todos[i].version # db'.deletions[j].version
    <3>1. \A i \in Live(db), j \in Dead(db) : db.todos[i].version # db.deletions[j].version
      BY DEF OneCallPerVersion, IInv, Tables
    <3>2. QED
      BY <2>0, <2>1, <2>2, <3>1, SMTT(30)
  <2>5. \A i, j \in Live(db') :
           db'.todos[i].version = db'.todos[j].version =>
               db'.todos[i].scope = db'.todos[j].scope
    <3>1. \A i, j \in Live(db) : db.todos[i].version = db.todos[j].version =>
                                    db.todos[i].scope = db.todos[j].scope
      BY DEF OneCallPerVersion, IInv, Tables
    <3>2. QED
      BY <2>0, <2>1, <3>1, SMTT(30)
  <2>6. QED
    BY <2>3, <2>4, <2>5 DEF OneCallPerVersion
<1>9. NotesAttached'
  BY <1>1 DEF NotesAttached, IInv, Tables
<1>10. Stamped
  BY <1>1, <1>2, <1>5 DEF Stamped, RowChangeIsStamped, TombstoneStays
<1>11. ReplyNamesTheCommit'
  <2>1. \A i \in Live(db) : db'.todos[i].version < db'.version
    BY <1>1, <1>2 DEF OneCallPerVersion, IInv, Tables
  <2>2. {i \in Live(db') : db'.todos[i].version = db'.version} = new
    BY <1>1, <1>2, <2>1
  <2>3. new # {}
    BY <1>1, <1>2
  <2>4. QED
    BY <1>3, <2>2, <2>3 DEF ReplyNamesTheCommit
<1>12. QED
  BY <1>4, <1>6, <1>7, <1>8, <1>9, <1>10, <1>11 DEF IInv, Tables

(* todo_update: one row moves to a fresh version. *)
LEMMA UpdateInv ==
  ASSUME IInv, NEW id \in KnownIds, NEW fields \in UpdateFields, Update(id, fields)
  PROVE  IInv' /\ Stamped /\ ReplyNamesTheCommit'
<1>1. /\ TypedDb(db')
      /\ db'.version = db.version + 1
      /\ db'.lastId = db.lastId
      /\ db'.deletions = db.deletions
      /\ db'.notes = db.notes
      /\ Live(db') = Live(db)
      /\ \A i \in Live(db) : i # id => db'.todos[i] = db.todos[i]
      /\ db'.todos[id].version = db'.version
      /\ db'.todos[id].scope = db.todos[id].scope
      /\ db'.todos[id].parent = db.todos[id].parent
      /\ id \in Live(db)
  BY UpdateEffect DEF Update, IInv, TypeOK
<1>2. /\ db.version \in Nat /\ Live(db) \subseteq 1 .. db.lastId
      /\ Dead(db') = Dead(db)
  BY <1>1 DEF IInv, TypeOK, TypedDb, Dead
<1>3. reply' = [op |-> "update", ids |-> {id}, cursor |-> db'.version]
  BY <1>1 DEF Update, NextVersion, IInv, TypeOK, TypedDb
<1>4. TypeOK'
  BY <1>1, <1>2, <1>3 DEF TypeOK
<1>5. IdsAccountedFor' /\ NotesAttached'
  BY <1>1, <1>2 DEF IdsAccountedFor, NotesAttached, IInv, Tables
<1>6. ParentsPrecede'
  BY <1>1 DEF ParentsPrecede, IInv, Tables
<1>7. \A i \in Live(db) : db.todos[i].version \in 1 .. db.version
  BY DEF OneCallPerVersion, IInv, Tables
<1>8. OneCallPerVersion'
  BY <1>1, <1>2, <1>7 DEF OneCallPerVersion, IInv, Tables
<1>9. Stamped
  BY <1>1, <1>2, CountersAreNaturals DEF Stamped, RowChangeIsStamped, TombstoneStays
<1>10. ReplyNamesTheCommit'
  <2>1. {i \in Live(db') : db'.todos[i].version = db'.version} = {id}
    BY <1>1, <1>2, <1>7
  <2>2. QED
    BY <1>3, <2>1 DEF ReplyNamesTheCommit
<1>11. QED
  BY <1>4, <1>5, <1>6, <1>8, <1>9, <1>10 DEF IInv, Tables

(* todo_delete and the clearing of a scope: the cascade moves rows to tombstones. *)
LEMMA DeleteInv ==
  ASSUME IInv, NEW hits \in SUBSET Live(db), DeleteHits(hits)
  PROVE  IInv' /\ Stamped /\ ReplyNamesTheCommit'
<1>1. CASE hits # {} /\ db' = DeleteRows(NextVersion(db), hits)
           /\ reply' = [op |-> "delete", ids |-> hits, cursor |-> NextVersion(db).version]
  <2> DEFINE gone == Cascade(db.todos, hits)
  <2>1. /\ TypedDb(db')
        /\ db'.version = db.version + 1
        /\ db'.lastId = db.lastId
        /\ hits \subseteq gone
        /\ gone \subseteq Live(db)
        /\ Live(db') = Live(db) \ gone
        /\ \A i \in Live(db') : db'.todos[i] = db.todos[i] /\ db'.todos[i].parent \notin gone
        /\ Dead(db') = Dead(db) \cup gone
        /\ \A i \in Dead(db) : db'.deletions[i] = db.deletions[i]
        /\ \A i \in gone :
              db'.deletions[i] = [scope |-> db.todos[i].scope, version |-> db'.version]
        /\ DOMAIN db'.notes = {n \in DOMAIN db.notes : db.notes[n] \notin gone}
        /\ \A n \in DOMAIN db'.notes : db'.notes[n] = db.notes[n]
    <3>1. TypedDb(db) /\ Live(db) \cap Dead(db) = {}
      BY DEF IInv, Tables, TypeOK, IdsAccountedFor
    <3>2. db' = DeleteRows(NextVersion(db), hits)
      BY <1>1
    <3>3. QED
      BY <3>1, <3>2, DeleteEffect, SMTT(30)
  <2> HIDE DEF gone
  <2>2. db.version \in Nat /\ Live(db) \subseteq 1 .. db.lastId
    BY DEF IInv, TypeOK, TypedDb
  <2>3. reply' = [op |-> "delete", ids |-> hits, cursor |-> db'.version]
    BY <1>1, <2>1 DEF NextVersion, IInv, TypeOK, TypedDb
  <2>4. TypeOK'
    BY <2>1, <2>2, <2>3 DEF TypeOK
  <2>5. IdsAccountedFor'
    BY <2>1 DEF IdsAccountedFor, IInv, Tables
  <2>6. ParentsPrecede'
    BY <2>1 DEF ParentsPrecede, IInv, Tables
  <2>7. OneCallPerVersion'
    <3>1. \A i \in Live(db') : /\ i \in Live(db) /\ db'.todos[i] = db.todos[i]
                               /\ db'.todos[i].version \in 1 .. db.version
      BY <2>1 DEF OneCallPerVersion, IInv, Tables
    <3>2. \A i \in Dead(db') : \/ /\ i \in Dead(db) /\ db'.deletions[i] = db.deletions[i]
                                  /\ db'.deletions[i].version \in 1 .. db.version
                               \/ db'.deletions[i].version = db.version + 1
      <4>1. ASSUME NEW i \in gone PROVE db'.deletions[i].version = db.version + 1
        <5>1. db'.deletions[i] = [scope |-> db.todos[i].scope, version |-> db'.version]
          BY <2>1
        <5>2. QED
          BY <2>1, <5>1
      <4>2. QED
        BY <2>1, <4>1 DEF OneCallPerVersion, IInv, Tables
    <3>3. QED
      BY <2>1, <2>2, <3>1, <3>2 DEF OneCallPerVersion, IInv, Tables
  <2>8. NotesAttached'
    BY <2>1 DEF NotesAttached, IInv, Tables
  <2>9. Stamped
    BY <2>1, <2>2, CountersAreNaturals DEF Stamped, RowChangeIsStamped, TombstoneStays
  <2>10. ReplyNamesTheCommit'
    <3>1. ASSUME NEW i \in gone
          PROVE  i \in Dead(db') /\ db'.deletions[i].version = db'.version
      <4>1. db'.deletions[i] = [scope |-> db.todos[i].scope, version |-> db'.version]
        BY <2>1
      <4>2. QED
        BY <2>1, <4>1
    <3>2. hits \subseteq gone
      BY <2>1
    <3>3. QED
      BY <1>1, <2>3, <3>1, <3>2 DEF ReplyNamesTheCommit
  <2>11. QED
    BY <2>4, <2>5, <2>6, <2>7, <2>8, <2>9, <2>10 DEF IInv, Tables
<1>2. CASE UNCHANGED db /\ reply' = [op |-> "delete", ids |-> {}, cursor |-> 0]
  <2>1. TypeOK'
    BY <1>2 DEF IInv, TypeOK
  <2>2. Tables' /\ Stamped
    BY <1>2, CountersAreNaturals DEF IInv, Tables, IdsAccountedFor, ParentsPrecede, OneCallPerVersion, NotesAttached,
                Stamped, RowChangeIsStamped, TombstoneStays
  <2>3. ReplyNamesTheCommit'
    BY <1>2 DEF ReplyNamesTheCommit
  <2>4. QED
    BY <2>1, <2>2, <2>3 DEF IInv
<1>3. QED
  BY <1>1, <1>2 DEF DeleteHits

(* todo_add_note: a note of a live row, nothing else. *)
LEMMA NoteInv ==
  ASSUME IInv, NEW id \in KnownIds, AddNote(id)
  PROVE  IInv' /\ Stamped /\ ReplyNamesTheCommit'
<1>1. /\ TypedDb(db')
      /\ db'.version = db.version
      /\ db'.lastId = db.lastId
      /\ db'.todos = db.todos
      /\ db'.deletions = db.deletions
      /\ \A n \in DOMAIN db'.notes :
            db'.notes[n] = id \/ (n \in DOMAIN db.notes /\ db'.notes[n] = db.notes[n])
      /\ id \in Live(db)
      /\ reply' = [op |-> "note", ids |-> {id}, cursor |-> 0]
  BY NoteEffect DEF AddNote, IInv, TypeOK
<1>2. Live(db') = Live(db) /\ Dead(db') = Dead(db) /\ Live(db) \subseteq 1 .. db.lastId
  BY <1>1 DEF Live, Dead, IInv, TypeOK, TypedDb
<1>3. TypeOK'
  BY <1>1, <1>2 DEF TypeOK
<1>4. IdsAccountedFor' /\ ParentsPrecede' /\ OneCallPerVersion'
  BY <1>1, <1>2 DEF IdsAccountedFor, ParentsPrecede, OneCallPerVersion, IInv, Tables
<1>5. NotesAttached'
  BY <1>1, <1>2 DEF NotesAttached, IInv, Tables
<1>6. Stamped
  BY <1>1, <1>2, CountersAreNaturals DEF Stamped, RowChangeIsStamped, TombstoneStays
<1>7. ReplyNamesTheCommit'
  BY <1>1 DEF ReplyNamesTheCommit
<1>8. QED
  BY <1>3, <1>4, <1>5, <1>6, <1>7 DEF IInv, Tables

(* A refused call leaves the tables alone. *)
LEMMA RefusedInv ==
  ASSUME IInv, UNCHANGED db, reply' = Refused
  PROVE  IInv' /\ Stamped /\ ReplyNamesTheCommit'
<1>1. TypeOK' /\ ReplyNamesTheCommit'
  BY DEF IInv, TypeOK, Refused, ReplyNamesTheCommit
<1>2. Tables' /\ Stamped
  BY CountersAreNaturals DEF IInv, Tables, IdsAccountedFor, ParentsPrecede, OneCallPerVersion, NotesAttached,
         Stamped, RowChangeIsStamped, TombstoneStays
<1>3. QED
  BY <1>1, <1>2 DEF IInv

(* Every call of the store preserves the invariant and stamps what it changes. *)
LEMMA NextInv ==
  ASSUME IInv, Next
  PROVE  IInv' /\ Stamped /\ ReplyNamesTheCommit'
<1>1. CASE \E scope \in Scopes, root \in KnownIds \cup {NoTodo}, batch \in Batches, now \in Times :
              InsertBatch(scope, root, batch, now)
  BY <1>1, InsertInv
<1>2. CASE \E root \in KnownIds \cup {NoTodo}, batch \in Batches : InsertRefused(root, batch)
  BY <1>2, RefusedInv DEF InsertRefused
<1>3. CASE \E id \in KnownIds, fields \in UpdateFields : Update(id, fields)
  BY <1>3, UpdateInv
<1>4. CASE \E id \in KnownIds : NotFound(id)
  BY <1>4, RefusedInv DEF NotFound
<1>5. CASE \E ids \in (SUBSET KnownIds) \ {{}} : DeleteByIDs(ids)
  BY <1>5, DeleteInv DEF DeleteByIDs, HitsByIDs
<1>6. CASE \E scope \in Scopes : DeleteByScope(scope)
  BY <1>6, DeleteInv DEF DeleteByScope, HitsByScope
<1>7. CASE \E id \in KnownIds : AddNote(id)
  BY <1>7, NoteInv
<1>8. QED
  BY <1>1, <1>2, <1>3, <1>4, <1>5, <1>6, <1>7 DEF Next

(* Stuttering. *)
LEMMA StutterInv ==
  ASSUME IInv, UNCHANGED vars
  PROVE  IInv'
BY DEF vars, IInv, TypeOK, Tables, IdsAccountedFor, ParentsPrecede, OneCallPerVersion,
       NotesAttached

-----------------------------------------------------------------------------
(* Theorems.                                                               *)

(* The invariant holds of every state of the store, whatever its callers do. *)
THEOREM InductiveInvariant == Spec => []IInv
<1>1. IInv /\ [Next]_vars => IInv'
  BY NextInv, StutterInv
<1>2. QED
  BY InitInv, <1>1, PTL DEF Spec

(* The tables and the replies keep their types. *)
THEOREM TypeCorrect == Spec => []TypeOK
<1>1. IInv => TypeOK
  BY DEF IInv
<1>2. QED
  BY InductiveInvariant, <1>1, PTL

(* Ids are never reused and every deleted id, by cascade or not, has exactly one *)
(* tombstone.                                                                    *)
THEOREM IdsCorrect == Spec => []IdsAccountedFor
<1>1. IInv => IdsAccountedFor
  BY DEF IInv, Tables
<1>2. QED
  BY InductiveInvariant, <1>1, PTL

(* The parent relation is a forest of live rows. *)
THEOREM ForestCorrect == Spec => []ParentsPrecede
<1>1. IInv => ParentsPrecede
  BY DEF IInv, Tables
<1>2. QED
  BY InductiveInvariant, <1>1, PTL

(* One mutating call takes one version. *)
THEOREM VersionsCorrect == Spec => []OneCallPerVersion
<1>1. IInv => OneCallPerVersion
  BY DEF IInv, Tables
<1>2. QED
  BY InductiveInvariant, <1>1, PTL

(* No note outlives its todo. *)
THEOREM NotesCorrect == Spec => []NotesAttached
<1>1. IInv => NotesAttached
  BY DEF IInv, Tables
<1>2. QED
  BY InductiveInvariant, <1>1, PTL

(* A reply names the rows or the tombstones of the commit it reports. *)
THEOREM RepliesCorrect == Spec => []ReplyNamesTheCommit
<1>1. Init => ReplyNamesTheCommit
  BY DEF Init, Refused, ReplyNamesTheCommit
<1>2. IInv /\ ReplyNamesTheCommit /\ [Next]_vars => ReplyNamesTheCommit'
  <2>1. ASSUME ReplyNamesTheCommit, UNCHANGED vars PROVE ReplyNamesTheCommit'
    BY <2>1 DEF vars, ReplyNamesTheCommit
  <2>2. QED
    BY <2>1, NextInv
<1>3. QED
  BY InductiveInvariant, <1>1, <1>2, PTL DEF Spec

(* Every change to a row is visible above all earlier versions, as the row or as *)
(* a tombstone in its scope: the fact todo_diff is built on.                     *)
THEOREM ChangesStamped == Spec => EveryChangeIsStamped
<1>1. IInv /\ [Next]_vars => [Stamped]_vars
  BY NextInv
<1>2. QED
  BY InductiveInvariant, <1>1, PTL DEF Spec, EveryChangeIsStamped
=============================================================================
