---------------------------- MODULE WriteTxProofs ----------------------------
(***************************************************************************)
(* Proofs about WriteTx, for any callers, requests and bounds: however the *)
(* statements of concurrent calls interleave, fail or die, the lock is     *)
(* held exactly inside a transaction, and what a COMMIT publishes is what  *)
(* one atomic call of TodoStore makes of the database.                     *)
(*                                                                         *)
(* The argument: only the holder of the lock publishes, so the view of a   *)
(* caller inside its transaction is still a function of the database and   *)
(* of the request (Reached); at "commit" that function is the whole call.  *)
(*                                                                         *)
(* And about CallLog, its history: since a COMMIT is one whole call on the *)
(* rows it found, each column of a row holds what the last call that names *)
(* it asked for.                                                           *)
(***************************************************************************)
EXTENDS CallLog, TLAPS, SequenceTheorems

(* The lemmas of TodoStoreProofs, about the same database and the last answer. *)
Proofs == INSTANCE TodoStoreProofs WITH reply <- last

Labels == {"idle", "begin", "check", "select", "version", "ids", "rows", "commit", "reply"}

(* The rows a delete selects in d. *)
Hits(d, r) ==
    IF r.op = "delete" THEN r.ids \cap Live(d)
                       ELSE {i \in Live(d) : d.todos[i].scope = r.scope}

Answer(op, ids, cursor) == [op |-> op, ids |-> ids, cursor |-> cursor]

(* What the first statement has found out in the database d. *)
Found(d, r) ==
    CASE r.op = "insert"             -> r.root # NoTodo => r.root \in Live(d)
      [] r.op \in {"update", "note"} -> r.id \in Live(d)
      [] OTHER                       -> Hits(d, r) # {}

Numbered(d, r) == AllocateIDs(NextVersion(d), Len(r.batch))

(* What the transaction is going to publish: the effect of one whole call on d. *)
Decided(d, r, w, res) ==
    \/ /\ r.op = "insert" /\ Found(d, r) /\ WellIndented(r.batch)
       /\ Numbered(d, r).version <= MaxVersion /\ Numbered(d, r).lastId <= MaxId
       /\ w = InsertRows(Numbered(d, r), r.scope, r.root, r.batch, r.now)
       /\ res = Answer("insert", AllocatedIDs(Numbered(d, r), Len(r.batch)), Numbered(d, r).version)
    \/ /\ r.op = "update" /\ Found(d, r)
       /\ NextVersion(d).version <= MaxVersion
       /\ w = UpdateRow(NextVersion(d), r.id, r.fields)
       /\ res = Answer("update", {r.id}, NextVersion(d).version)
    \/ /\ r.op \in {"delete", "clear"} /\ Found(d, r)
       /\ NextVersion(d).version <= MaxVersion
       /\ w = DeleteRows(NextVersion(d), Hits(d, r))
       /\ res = Answer("delete", Hits(d, r), NextVersion(d).version)
    \/ /\ r.op \in {"delete", "clear"} /\ Hits(d, r) = {}
       /\ w = d
       /\ res = Answer("delete", {}, 0)
    \/ /\ r.op = "note" /\ Found(d, r)
       /\ d.noteSeq < MaxNotes
       /\ w = InsertNote(d, r.id)
       /\ res = Answer("note", {r.id}, 0)

(* Before the statement that changes the rows. *)
Prepared(d, r, w, res) ==
    /\ Found(d, r)
    /\ \/ /\ r.op = "insert" /\ WellIndented(r.batch)
          /\ w = Numbered(d, r) /\ w.version <= MaxVersion /\ w.lastId <= MaxId
          /\ res = Answer("insert", AllocatedIDs(w, Len(r.batch)), w.version)
       \/ /\ r.op = "update"
          /\ w = NextVersion(d) /\ w.version <= MaxVersion
          /\ res = Answer("refused", {}, w.version)
       \/ /\ r.op \in {"delete", "clear"}
          /\ w = NextVersion(d) /\ w.version <= MaxVersion
          /\ res = Answer("delete", Hits(d, r), w.version)
       \/ r.op = "note" /\ w = d /\ res = Refused

(* The view w and the answer res of a caller that has reached a statement are *)
(* what its request r makes of the committed database d so far.               *)
Reached(label, d, r, w, res) ==
    /\ label \in {"idle", "begin"} => res = Refused
    /\ label = "check" => /\ r.op \in {"update", "note"} \/ (r.op = "insert" /\ r.root # NoTodo)
                          /\ w = d /\ res = Refused
    /\ label = "select" => r.op \in {"delete", "clear"} /\ w = d /\ res = Refused
    /\ label = "version" =>
          /\ r.op # "note" /\ Found(d, r) /\ w = d
          /\ res = IF r.op \in {"delete", "clear"} THEN Answer("delete", Hits(d, r), 0)
                                                   ELSE Refused
    /\ label = "ids" => /\ r.op = "insert" /\ Found(d, r)
                        /\ w = NextVersion(d) /\ w.version <= MaxVersion
                        /\ res = Answer("refused", {}, w.version)
    /\ label = "rows" => Prepared(d, r, w, res)
    /\ label = "commit" => Decided(d, r, w, res)

CallerOK(p) ==
    /\ pc[p] \in Labels
    /\ request[p] \in Requests \cup {NoRequest}
    /\ request[p] = NoRequest <=> pc[p] = "idle"
    /\ ~ InTx(p) => work[p] = EmptyDb
    /\ holder = p <=> InTx(p)
    /\ Reached(pc[p], db, request[p], work[p], result[p])

(* The inductive invariant. *)
TxIInv ==
    /\ Proofs!IInv
    /\ holder \in Callers \cup {NoCaller}
    /\ DOMAIN pc = Callers /\ DOMAIN request = Callers
    /\ DOMAIN work = Callers /\ DOMAIN result = Callers
    /\ \A p \in Callers : CallerOK(p)

-----------------------------------------------------------------------------
(* Three copies of the same operators: of TodoTables, of TodoStore as the  *)
(* promise, and of TodoStore as TodoStoreProofs sees it.                   *)

(* The assumptions under which the lemmas of TodoStoreProofs hold. *)
LEMMA ConstantsTyped ==
  /\ Batches \subseteq Seq(Proofs!Item) \ {<< >>}
  /\ \A columns \in Statuses, fields \in UpdateFields :
        Proofs!Overwritten(columns, fields) \in Statuses
<1>1. Batches \subseteq Seq(Proofs!Item) \ {<< >>}
  BY BatchesAssumption DEF Proofs!Item, Item
<1>2. \A columns \in Statuses, fields \in UpdateFields :
        Proofs!Overwritten(columns, fields) \in Statuses
  BY UpdateFieldsAssumption DEF Proofs!Overwritten, Overwritten
<1>3. QED
  BY <1>1, <1>2

(* The calls of the two instances of TodoStore are the same actions. *)
LEMMA SameCalls == Proofs!Next <=> Store!Next
  BY Zenon DEF Proofs!Next, Proofs!KnownIds, Proofs!NoTodo, Proofs!InsertBatch, Proofs!InsertRefused,
               Proofs!Update, Proofs!NotFound, Proofs!DeleteByIDs, Proofs!DeleteByScope,
               Proofs!AddNote, Proofs!BatchAccepted, Proofs!Live, Proofs!WellIndented,
               Proofs!Anchors, Proofs!AllocateIDs, Proofs!NextVersion,
               Proofs!InsertRows, Proofs!AllocatedIDs, Proofs!BatchParent,
               Proofs!UpdateRow, Proofs!Overwritten, Proofs!Refused, Proofs!HitsByIDs, Proofs!HitsByScope,
               Proofs!DeleteHits, Proofs!DeleteRows, Proofs!Cascade,
               Proofs!ClosedUnderChildren, Proofs!Tombstones, Proofs!Dead,
               Proofs!NotesLeft, Proofs!InsertNote, Store!Next, Store!KnownIds,
               Store!NoTodo, Store!InsertBatch, Store!InsertRefused, Store!Update,
               Store!NotFound, Store!DeleteByIDs, Store!DeleteByScope, Store!AddNote,
               Store!BatchAccepted, Store!Live, Store!WellIndented, Store!Anchors,
               Store!AllocateIDs, Store!NextVersion, Store!InsertRows,
               Store!AllocatedIDs, Store!BatchParent, Store!UpdateRow, Store!Overwritten,
               Store!Refused,
               Store!HitsByIDs, Store!HitsByScope, Store!DeleteHits, Store!DeleteRows,
               Store!Cascade, Store!ClosedUnderChildren, Store!Tombstones, Store!Dead,
               Store!NotesLeft, Store!InsertNote

(* The statements TodoStore composes are those WriteTx runs. *)
LEMMA SameStatements ==
  /\ \A d : Store!NextVersion(d) = NextVersion(d)
  /\ \A d : Store!Live(d) = Live(d)
  /\ \A d, n : Store!AllocateIDs(d, n) = AllocateIDs(d, n)
  /\ \A d, n : Store!AllocatedIDs(d, n) = AllocatedIDs(d, n)
  /\ \A b : Store!WellIndented(b) <=> WellIndented(b)
  /\ \A d, s, r, b, t : Store!InsertRows(d, s, r, b, t) = InsertRows(d, s, r, b, t)
  /\ \A d, i, s : Store!UpdateRow(d, i, s) = UpdateRow(d, i, s)
  /\ \A d, h : Store!DeleteRows(d, h) = DeleteRows(d, h)
  /\ \A d, i : Store!InsertNote(d, i) = InsertNote(d, i)
  /\ Store!NoTodo = NoTodo
<1>1. \A d : Store!NextVersion(d) = NextVersion(d)
  BY Zenon DEF Store!NextVersion, NextVersion
<1>2. \A d : Store!Live(d) = Live(d)
  BY Zenon DEF Store!Live, Live
<1>3. \A d, n : Store!AllocateIDs(d, n) = AllocateIDs(d, n)
  BY Zenon DEF Store!AllocateIDs, AllocateIDs
<1>4. \A d, n : Store!AllocatedIDs(d, n) = AllocatedIDs(d, n)
  BY Zenon DEF Store!AllocatedIDs, AllocatedIDs
<1>5. \A b : Store!WellIndented(b) <=> WellIndented(b)
  BY Zenon DEF Store!WellIndented, Store!Anchors, WellIndented, Anchors
<1>6. ASSUME NEW d, NEW s, NEW r, NEW b, NEW t
      PROVE  Store!InsertRows(d, s, r, b, t) = InsertRows(d, s, r, b, t)
  BY Zenon DEF Store!InsertRows, Store!AllocatedIDs, Store!BatchParent, Store!Anchors, Store!Live,
               InsertRows, AllocatedIDs, BatchParent, Anchors, Live
<1>7. \A d, i, s : Store!UpdateRow(d, i, s) = UpdateRow(d, i, s)
  BY Zenon DEF Store!UpdateRow, Store!Overwritten, Store!Live, UpdateRow, Overwritten, Live
<1>8. \A d, h : Store!DeleteRows(d, h) = DeleteRows(d, h)
  BY Zenon DEF Store!DeleteRows, Store!Live, Store!Dead, Store!Cascade, Store!ClosedUnderChildren,
               Store!Tombstones, Store!NotesLeft, DeleteRows, Live, Dead, Cascade,
               ClosedUnderChildren, Tombstones, NotesLeft
<1>9. \A d, i : Store!InsertNote(d, i) = InsertNote(d, i)
  BY Zenon DEF Store!InsertNote, InsertNote
<1>10. Store!NoTodo = NoTodo
  BY Zenon DEF Store!NoTodo, NoTodo
<1>11. QED
  BY <1>1, <1>2, <1>3, <1>4, <1>5, <1>6, <1>7, <1>8, <1>9, <1>10

(* And those TodoStoreProofs has lemmas about. *)
LEMMA SameTables ==
  /\ \A d : Proofs!TypedDb(d) <=> TypedDb(d)
  /\ \A d : Proofs!Dead(d) = Dead(d)
  /\ \A d : Proofs!NextVersion(d) = NextVersion(d)
  /\ \A d : Proofs!Live(d) = Live(d)
  /\ \A d, n : Proofs!AllocateIDs(d, n) = AllocateIDs(d, n)
  /\ \A b : Proofs!WellIndented(b) <=> WellIndented(b)
  /\ \A d, s, r, b, t : Proofs!InsertRows(d, s, r, b, t) = InsertRows(d, s, r, b, t)
  /\ \A d, i, s : Proofs!UpdateRow(d, i, s) = UpdateRow(d, i, s)
  /\ \A d, h : Proofs!DeleteRows(d, h) = DeleteRows(d, h)
  /\ \A d, i : Proofs!InsertNote(d, i) = InsertNote(d, i)
  /\ Proofs!NoTodo = NoTodo
<1>1. \A d : Proofs!TypedDb(d) <=> TypedDb(d)
  BY DEF Proofs!TypedDb, Proofs!Live, Proofs!Dead, Proofs!Row, Proofs!Tombstone, TypedDb, Live,
               Dead, Row, Tombstone
<1>2. \A d : Proofs!Dead(d) = Dead(d)
  BY Zenon DEF Proofs!Dead, Dead
<1>3. \A d : Proofs!NextVersion(d) = NextVersion(d)
  BY Zenon DEF Proofs!NextVersion, NextVersion
<1>4. \A d : Proofs!Live(d) = Live(d)
  BY Zenon DEF Proofs!Live, Live
<1>5. \A d, n : Proofs!AllocateIDs(d, n) = AllocateIDs(d, n)
  BY Zenon DEF Proofs!AllocateIDs, AllocateIDs
<1>6. \A b : Proofs!WellIndented(b) <=> WellIndented(b)
  BY Zenon DEF Proofs!WellIndented, Proofs!Anchors, WellIndented, Anchors
<1>7. ASSUME NEW d, NEW s, NEW r, NEW b, NEW t
      PROVE  Proofs!InsertRows(d, s, r, b, t) = InsertRows(d, s, r, b, t)
  BY Zenon DEF Proofs!InsertRows, Proofs!AllocatedIDs, Proofs!BatchParent, Proofs!Anchors, Proofs!Live,
               InsertRows, AllocatedIDs, BatchParent, Anchors, Live
<1>8. \A d, i, s : Proofs!UpdateRow(d, i, s) = UpdateRow(d, i, s)
  BY Zenon DEF Proofs!UpdateRow, Proofs!Overwritten, Proofs!Live, UpdateRow, Overwritten, Live
<1>9. \A d, h : Proofs!DeleteRows(d, h) = DeleteRows(d, h)
  BY Zenon DEF Proofs!DeleteRows, Proofs!Live, Proofs!Dead, Proofs!Cascade, Proofs!ClosedUnderChildren,
               Proofs!Tombstones, Proofs!NotesLeft, DeleteRows, Live, Dead, Cascade,
               ClosedUnderChildren, Tombstones, NotesLeft
<1>10. \A d, i : Proofs!InsertNote(d, i) = InsertNote(d, i)
  BY Zenon DEF Proofs!InsertNote, InsertNote
<1>11. Proofs!NoTodo = NoTodo
  BY Zenon DEF Proofs!NoTodo, NoTodo
<1>12. QED
  BY <1>1, <1>2, <1>3, <1>4, <1>5, <1>6, <1>7, <1>8, <1>9, <1>10, <1>11

-----------------------------------------------------------------------------
(* What a transaction publishes is one atomic call.                        *)

(* The arguments of a call, kind by kind. *)
RequestOK(r) ==
    \/ /\ r.op = "insert" /\ r.scope \in Scopes /\ r.root \in Store!KnownIds \cup {NoTodo}
       /\ r.batch \in Batches /\ r.now \in Times
    \/ r.op = "update" /\ r.id \in Store!KnownIds /\ r.fields \in UpdateFields
    \/ r.op = "delete" /\ r.ids \in (SUBSET Store!KnownIds) \ {{}}
    \/ r.op = "clear" /\ r.scope \in Scopes
    \/ r.op = "note" /\ r.id \in Store!KnownIds

LEMMA RequestType ==
  ASSUME NEW r \in Requests
  PROVE  RequestOK(r) /\ r # NoRequest
<1>1. \/ r \in [op : {"insert"}, scope : Scopes, root : Store!KnownIds \cup {NoTodo},
                batch : Batches, now : Times]
      \/ r \in [op : {"update"}, id : Store!KnownIds, fields : UpdateFields]
      \/ r \in [op : {"delete"}, ids : (SUBSET Store!KnownIds) \ {{}}]
      \/ r \in [op : {"clear"}, scope : Scopes]
      \/ r \in [op : {"note"}, id : Store!KnownIds]
  BY RequestsAssumption
<1>2. RequestOK(r)
  BY <1>1 DEF RequestOK
<1>3. QED
  BY <1>2 DEF RequestOK, NoRequest

(* What a whole transaction makes of the database is what one call of TodoStore *)
(* makes of it.                                                                 *)
LEMMA CommitIsCall ==
  ASSUME NEW r \in Requests, NEW w, NEW res, Decided(db, r, w, res),
         db' = w, last' = res
  PROVE  Store!Next
<1>1. CASE r.op = "insert"
  <2> DEFINE d == AllocateIDs(NextVersion(db), Len(r.batch))
  <2>1. /\ Found(db, r) /\ WellIndented(r.batch)
        /\ d.version <= MaxVersion /\ d.lastId <= MaxId
        /\ db' = InsertRows(d, r.scope, r.root, r.batch, r.now)
        /\ last' = Answer("insert", AllocatedIDs(d, Len(r.batch)), d.version)
    BY <1>1 DEF Decided, Numbered
  <2>2. r.root # NoTodo => r.root \in Live(db)
    BY <1>1, <2>1 DEF Found
  <2>3. r.scope \in Scopes /\ r.root \in Store!KnownIds \cup {NoTodo}
        /\ r.batch \in Batches /\ r.now \in Times
    BY <1>1, RequestType DEF RequestOK
  <2>4. Store!InsertBatch(r.scope, r.root, r.batch, r.now)
    BY <2>1, <2>2, SameStatements, Zenon DEF Store!InsertBatch, Store!BatchAccepted, Answer
  <2>5. QED
    BY <2>3, <2>4, SameStatements DEF Store!Next
<1>2. CASE r.op = "update"
  <2>1. r.id \in Store!KnownIds /\ r.fields \in UpdateFields
    BY <1>2, RequestType DEF RequestOK
  <2>2. /\ r.id \in Live(db) /\ NextVersion(db).version <= MaxVersion
        /\ db' = UpdateRow(NextVersion(db), r.id, r.fields)
        /\ last' = Answer("update", {r.id}, NextVersion(db).version)
    BY <1>2 DEF Decided, Found
  <2>3. Store!Update(r.id, r.fields)
    BY <2>2, SameStatements, Zenon DEF Store!Update, Answer
  <2>4. QED
    BY <2>1, <2>3 DEF Store!Next
<1>3. CASE r.op \in {"delete", "clear"}
  <2>1. Store!DeleteHits(Hits(db, r))
    <3>1. \/ /\ Hits(db, r) # {}
             /\ NextVersion(db).version <= MaxVersion
             /\ db' = DeleteRows(NextVersion(db), Hits(db, r))
             /\ last' = Answer("delete", Hits(db, r), NextVersion(db).version)
          \/ /\ Hits(db, r) = {}
             /\ db' = db
             /\ last' = Answer("delete", {}, 0)
      BY <1>3 DEF Decided, Found
    <3>2. QED
      BY <3>1, SameStatements, Zenon DEF Store!DeleteHits, Answer
  <2>2. CASE r.op = "delete"
    <3>1. r.ids \in (SUBSET Store!KnownIds) \ {{}}
      BY <2>2, RequestType DEF RequestOK
    <3>2. Store!DeleteByIDs(r.ids)
      BY <2>1, <2>2, SameStatements, Zenon DEF Store!DeleteByIDs, Store!HitsByIDs, Hits
    <3>3. QED
      BY <3>1, <3>2 DEF Store!Next
  <2>3. CASE r.op = "clear"
    <3>1. r.scope \in Scopes
      BY <2>3, RequestType DEF RequestOK
    <3>2. Hits(db, r) = Store!HitsByScope(r.scope)
      BY <2>3, SameStatements DEF Store!HitsByScope, Hits
    <3>3. QED
      BY <2>1, <3>1, <3>2 DEF Store!Next, Store!DeleteByScope
  <2>4. QED
    BY <1>3, <2>2, <2>3
<1>4. CASE r.op = "note"
  <2>1. r.id \in Store!KnownIds
    BY <1>4, RequestType DEF RequestOK
  <2>2. /\ r.id \in Live(db) /\ db.noteSeq < MaxNotes
        /\ db' = InsertNote(db, r.id)
        /\ last' = Answer("note", {r.id}, 0)
    BY <1>4 DEF Decided, Found
  <2>3. Store!AddNote(r.id)
    BY <2>2, SameStatements, Zenon DEF Store!AddNote, Answer
  <2>4. QED
    BY <2>1, <2>3 DEF Store!Next
<1>5. QED
  BY <1>1, <1>2, <1>3, <1>4, RequestType DEF RequestOK

(* A refusal is a call of TodoStore too. *)
LEMMA RefusalIsCall ==
  ASSUME NEW r \in Requests, db' = db, last' = Refused,
         \/ r.op \in {"update", "note"} /\ r.id \notin Live(db)
         \/ /\ r.op = "insert"
            /\ ~ WellIndented(r.batch) \/ (r.root # NoTodo /\ r.root \notin Live(db))
  PROVE  Store!Next
<1>1. CASE r.op \in {"update", "note"}
  <2>1. r.id \in Store!KnownIds
    BY <1>1, RequestType DEF RequestOK
  <2>2. Store!NotFound(r.id)
    BY <1>1, SameStatements DEF Store!NotFound, Refused
  <2>3. QED
    BY <2>1, <2>2 DEF Store!Next
<1>2. CASE r.op = "insert"
  <2>1. r.root \in Store!KnownIds \cup {NoTodo} /\ r.batch \in Batches
    BY <1>2, RequestType DEF RequestOK
  <2>2. Store!InsertRefused(r.root, r.batch)
    BY <1>2, SameStatements DEF Store!InsertRefused, Store!BatchAccepted, Refused
  <2>3. QED
    BY <2>1, <2>2, SameStatements DEF Store!Next
<1>3. QED
  BY <1>1, <1>2

(* The invariant of TodoStore survives every step that is one of its calls. *)
LEMMA StoreStepInv ==
  ASSUME Proofs!IInv, [Store!Next]_(Store!vars)
  PROVE  Proofs!IInv'
<1>1. CASE Store!Next
  BY <1>1, SameCalls, ConstantsTyped, Proofs!NextInv
<1>2. CASE UNCHANGED Store!vars
  BY <1>2, ConstantsTyped, Proofs!StutterInv DEF Store!vars, Proofs!vars
<1>3. QED
  BY <1>1, <1>2

-----------------------------------------------------------------------------
(* Steps.                                                                  *)

(* What the invariant of the store says of the committed database. *)
LEMMA StoreFacts ==
  ASSUME Proofs!IInv
  PROVE  TypedDb(db) /\ Live(db) \cap Dead(db) = {}
BY SameTables DEF Proofs!IInv, Proofs!TypeOK, Proofs!Tables, Proofs!IdsAccountedFor

(* A step of p: its own columns move, the others' do not, and the database *)
(* moves only under the lock.                                              *)
Moves(p) ==
    /\ db' = db \/ InTx(p)
    /\ holder' \in Callers \cup {NoCaller}
    /\ DOMAIN pc' = Callers /\ DOMAIN request' = Callers
    /\ DOMAIN work' = Callers /\ DOMAIN result' = Callers
    /\ \A q \in Callers \ {p} :
          /\ pc'[q] = pc[q] /\ request'[q] = request[q]
          /\ work'[q] = work[q] /\ result'[q] = result[q]
          /\ holder' = q <=> holder = q

(* What every step of p has to be. *)
Sound(p) == Moves(p) /\ CallerOK(p)' /\ [Store!Next]_(Store!vars)

(* A caller that does not move keeps its invariant: if it is inside its own      *)
(* transaction it holds the lock, and nobody else can have moved the database.   *)
LEMMA OthersKeep ==
  ASSUME TxIInv, NEW p \in Callers, Moves(p), NEW q \in Callers \ {p}
  PROVE  CallerOK(q)'
<1>1. /\ CallerOK(p) /\ CallerOK(q)
      /\ pc'[q] = pc[q] /\ request'[q] = request[q]
      /\ work'[q] = work[q] /\ result'[q] = result[q]
      /\ holder' = q <=> holder = q
      /\ db' = db \/ InTx(p)
  BY DEF TxIInv, Moves
<1>2. InTx(q)' <=> InTx(q)
  BY <1>1 DEF InTx
<1>3. Reached(pc'[q], db', request'[q], work'[q], result'[q])
  <2>1. CASE db' = db
    BY <1>1, <2>1, Zenon DEF CallerOK
  <2>2. CASE InTx(p)
    <3>1. ~ InTx(q)
      BY <1>1, <2>2 DEF CallerOK
    <3>2. pc[q] \in {"idle", "begin", "reply"}
      BY <1>1, <3>1 DEF CallerOK, InTx, Labels
    <3>3. QED
      BY <1>1, <3>2 DEF CallerOK, Reached
  <2>3. QED
    BY <1>1, <2>1, <2>2
<1>4. QED
  BY <1>1, <1>2, <1>3 DEF CallerOK

(* A sound step preserves the invariant. *)
LEMMA SoundStep ==
  ASSUME TxIInv, NEW p \in Callers, Sound(p)
  PROVE  TxIInv'
<1>1. Proofs!IInv'
  BY StoreStepInv DEF TxIInv, Sound
<1>2. \A q \in Callers : CallerOK(q)'
  BY OthersKeep DEF Sound
<1>3. QED
  BY <1>1, <1>2 DEF TxIInv, Sound, Moves

(* A statement that keeps the transaction open. *)
LEMMA GoOnSound ==
  ASSUME TxIInv, NEW p \in Callers, InTx(p),
         NEW label \in {"version", "ids", "rows", "commit"}, NEW d, NEW res,
         GoOn(p, label, d, res), Reached(label, db, request[p], d, res)
  PROVE  Sound(p)
<1>1. /\ CallerOK(p) /\ holder \in Callers \cup {NoCaller}
      /\ DOMAIN pc = Callers /\ DOMAIN request = Callers
      /\ DOMAIN work = Callers /\ DOMAIN result = Callers
  BY DEF TxIInv
<1>2. /\ pc' = [pc EXCEPT ![p] = label]
      /\ work' = [work EXCEPT ![p] = d]
      /\ result' = [result EXCEPT ![p] = res]
      /\ UNCHANGED <<db, holder, request, answer, last>>
  BY DEF GoOn
<1>3. Moves(p)
  BY <1>1, <1>2 DEF Moves
<1>4. /\ pc'[p] = label /\ work'[p] = d /\ result'[p] = res
      /\ request'[p] = request[p] /\ holder' = holder /\ db' = db
  BY <1>1, <1>2
<1>5. InTx(p)' /\ label \in Labels /\ label # "idle"
  BY <1>4 DEF InTx, Labels
<1>6. request[p] # NoRequest /\ request[p] \in Requests \cup {NoRequest} /\ holder = p
  BY <1>1 DEF CallerOK, InTx
<1>7. Reached(pc'[p], db', request'[p], work'[p], result'[p])
  BY <1>4, Zenon
<1>8. CallerOK(p)'
  BY <1>4, <1>5, <1>6, <1>7 DEF CallerOK
<1>9. QED
  BY <1>2, <1>3, <1>8 DEF Sound, Store!vars

(* A step that takes p out of its transaction. *)
LEMMA LeaveSound ==
  ASSUME TxIInv, NEW p \in Callers, InTx(p),
         holder' = NoCaller, work' = [work EXCEPT ![p] = EmptyDb],
         pc' = [pc EXCEPT ![p] = "reply"], request' = request,
         result' = result \/ result' = [result EXCEPT ![p] = Refused],
         [Store!Next]_(Store!vars)
  PROVE  Sound(p)
<1>1. /\ CallerOK(p) /\ holder = p
      /\ DOMAIN pc = Callers /\ DOMAIN request = Callers
      /\ DOMAIN work = Callers /\ DOMAIN result = Callers
      /\ NoCaller \notin Callers
  BY CallersAssumption DEF TxIInv, CallerOK
<1>2. Moves(p)
  BY <1>1 DEF Moves
<1>3. /\ pc'[p] = "reply" /\ work'[p] = EmptyDb /\ request'[p] = request[p] /\ holder' # p
  BY <1>1
<1>4. request[p] \in Requests \cup {NoRequest} /\ request[p] # NoRequest
  BY <1>1 DEF CallerOK, InTx
<1>5. ~ InTx(p)' /\ Reached(pc'[p], db', request'[p], work'[p], result'[p])
  BY <1>3 DEF InTx, Reached
<1>6. CallerOK(p)'
  BY <1>3, <1>4, <1>5 DEF CallerOK, Labels
<1>7. QED
  BY <1>2, <1>6 DEF Sound

(* A caller that is in progress has a request. *)
LEMMA InProgress ==
  ASSUME TxIInv, NEW p \in Callers, pc[p] # "idle"
  PROVE  /\ request[p] \in Requests /\ RequestOK(request[p]) /\ request[p] # NoRequest
         /\ CallerOK(p)
         /\ Reached(pc[p], db, request[p], work[p], result[p])
BY RequestType DEF TxIInv, CallerOK

LEMMA CallSound ==
  ASSUME TxIInv, NEW p \in Callers, NEW r \in Requests, Call(p, r)
  PROVE  Sound(p)
<1>1. /\ CallerOK(p) /\ holder \in Callers \cup {NoCaller} /\ r # NoRequest
      /\ DOMAIN pc = Callers /\ DOMAIN request = Callers
      /\ DOMAIN work = Callers /\ DOMAIN result = Callers
  BY RequestType DEF TxIInv
<1>2. /\ pc'[p] = "begin" /\ request'[p] = r /\ work'[p] = work[p] /\ result'[p] = result[p]
      /\ holder' = holder /\ db' = db /\ last' = last /\ pc[p] = "idle"
  BY <1>1 DEF Call
<1>3. Moves(p)
  BY <1>1 DEF Moves, Call
<1>4. ~ InTx(p) /\ ~ InTx(p)'
  BY <1>2 DEF InTx
<1>5. Reached(pc'[p], db', request'[p], work'[p], result'[p])
  BY <1>1, <1>2 DEF CallerOK, Reached
<1>6. CallerOK(p)'
  BY <1>1, <1>2, <1>4, <1>5 DEF CallerOK, Labels
<1>7. QED
  BY <1>2, <1>3, <1>6 DEF Sound, Store!vars

(* The view of a transaction starts as the committed database. *)
LEMMA BeginSound ==
  ASSUME TxIInv, NEW p \in Callers, Begin(p)
  PROVE  Sound(p)
<1> DEFINE r == request[p]
           label == FirstStatement(r)
<1>1. /\ holder \in Callers \cup {NoCaller} /\ NoCaller \notin Callers
      /\ DOMAIN pc = Callers /\ DOMAIN request = Callers
      /\ DOMAIN work = Callers /\ DOMAIN result = Callers
  BY CallersAssumption DEF TxIInv
<1>2. /\ pc[p] = "begin" /\ holder = NoCaller
      /\ pc'[p] = label /\ request' = request /\ work'[p] = db /\ result' = result
      /\ holder' = p /\ db' = db /\ last' = last
  BY <1>1 DEF Begin
<1>3. /\ r \in Requests /\ RequestOK(r) /\ r # NoRequest
      /\ result[p] = Refused
  BY <1>2, InProgress DEF Reached
<1>4. Moves(p)
  BY <1>1, <1>2 DEF Moves, Begin
<1>5. \/ r.op \in {"update", "note"} /\ label = "check"
      \/ r.op \in {"delete", "clear"} /\ label = "select"
      \/ r.op = "insert" /\ r.root # NoTodo /\ label = "check"
      \/ r.op = "insert" /\ r.root = NoTodo /\ label = "version"
  BY <1>3 DEF RequestOK, FirstStatement
<1> HIDE DEF r, label
<1>6. InTx(p)' /\ pc'[p] \in Labels /\ pc'[p] # "idle"
  BY <1>2, <1>5 DEF InTx, Labels
<1>7. Reached(label, db, r, db, Refused)
  BY <1>5 DEF Reached, Found
<1>8. CallerOK(p)'
  BY <1>2, <1>3, <1>6, <1>7 DEF CallerOK, r
<1>9. QED
  BY <1>2, <1>4, <1>8 DEF Sound, Store!vars

LEMMA BusySound ==
  ASSUME TxIInv, NEW p \in Callers, Busy(p)
  PROVE  Sound(p)
<1>1. /\ CallerOK(p) /\ holder \in Callers \cup {NoCaller}
      /\ DOMAIN pc = Callers /\ DOMAIN request = Callers
      /\ DOMAIN work = Callers /\ DOMAIN result = Callers
  BY DEF TxIInv
<1>2. /\ pc[p] = "begin" /\ pc'[p] = "reply" /\ request' = request /\ work' = work
      /\ result' = result /\ holder' = holder /\ db' = db /\ last' = last
  BY <1>1 DEF Busy
<1>3. Moves(p)
  BY <1>1, <1>2 DEF Moves, Busy
<1>4. ~ InTx(p) /\ ~ InTx(p)' /\ Reached(pc'[p], db', request'[p], work'[p], result'[p])
  BY <1>2 DEF InTx, Reached
<1>5. CallerOK(p)'
  BY <1>1, <1>2, <1>4 DEF CallerOK, Labels
<1>6. QED
  BY <1>2, <1>3, <1>5 DEF Sound, Store!vars

(* A refusal undoes the version and the ids the transaction took. *)
LEMMA RefuseSound ==
  ASSUME TxIInv, NEW p \in Callers, InTx(p), Refuse(p),
         LET r == request[p]
         IN \/ r.op \in {"update", "note"} /\ r.id \notin Live(db)
            \/ /\ r.op = "insert"
               /\ ~ WellIndented(r.batch) \/ (r.root # NoTodo /\ r.root \notin Live(db))
  PROVE  Sound(p)
<1>1. request[p] \in Requests
  BY InProgress DEF InTx
<1>2. db' = db /\ last' = Refused
  BY DEF Refuse
<1>3. Store!Next
  BY <1>1, <1>2, RefusalIsCall
<1>4. QED
  BY <1>3, LeaveSound DEF Refuse, Rollback

LEMMA CheckExistsSound ==
  ASSUME TxIInv, NEW p \in Callers, CheckExists(p)
  PROVE  Sound(p)
<1> DEFINE r  == request[p]
           id == IF r.op = "insert" THEN r.root ELSE r.id
<1>1. /\ pc[p] = "check" /\ InTx(p)
      /\ IF id \in Live(work[p])
           THEN GoOn(p, IF r.op = "note" THEN "rows" ELSE "version", work[p], result[p])
           ELSE Refuse(p)
  BY DEF CheckExists, At, InTx
<1>2. /\ RequestOK(r) /\ work[p] = db /\ result[p] = Refused
      /\ r.op \in {"update", "note"} \/ (r.op = "insert" /\ r.root # NoTodo)
  BY <1>1, InProgress DEF Reached
<1>3. CASE id \in Live(db) /\ r.op = "note"
  <2>1. GoOn(p, "rows", db, Refused)
    BY <1>1, <1>2, <1>3
  <2>2. Reached("rows", db, r, db, Refused)
    BY <1>3 DEF Reached, Prepared, Found
  <2>3. QED
    BY <1>1, <2>1, <2>2, GoOnSound
<1>4. CASE id \in Live(db) /\ r.op # "note"
  <2>1. GoOn(p, "version", db, Refused)
    BY <1>1, <1>2, <1>4
  <2>2. Reached("version", db, r, db, Refused)
    BY <1>2, <1>4 DEF Reached, Found
  <2>3. QED
    BY <1>1, <2>1, <2>2, GoOnSound
<1>5. CASE id \notin Live(db)
  <2>1. Refuse(p)
    BY <1>1, <1>2, <1>5
  <2>2. QED
    BY <1>1, <1>2, <1>5, <2>1, RefuseSound
<1>6. QED
  BY <1>3, <1>4, <1>5

LEMMA SelectIDsSound ==
  ASSUME TxIInv, NEW p \in Callers, SelectIDs(p)
  PROVE  Sound(p)
<1> DEFINE r == request[p]
           hits == Selected(p)
<1>1. /\ pc[p] = "select" /\ InTx(p)
      /\ GoOn(p, IF hits = {} THEN "commit" ELSE "version", work[p],
              [op |-> "delete", ids |-> hits, cursor |-> 0])
  BY DEF SelectIDs, At, InTx
<1>2. work[p] = db /\ r.op \in {"delete", "clear"}
  BY <1>1, InProgress DEF Reached
<1>3. hits = Hits(db, r)
  BY <1>2 DEF Selected, Hits
<1> HIDE DEF r, hits
<1>4. CASE hits = {}
  <2>1. GoOn(p, "commit", db, Answer("delete", {}, 0))
    BY <1>1, <1>2, <1>4 DEF Answer
  <2>2. Reached("commit", db, r, db, Answer("delete", {}, 0))
    BY <1>2, <1>3, <1>4 DEF Reached, Decided
  <2>3. QED
    BY <1>1, <2>1, <2>2, GoOnSound DEF r
<1>5. CASE hits # {}
  <2>1. GoOn(p, "version", db, Answer("delete", Hits(db, r), 0))
    BY <1>1, <1>2, <1>3, <1>5 DEF Answer
  <2>2. Reached("version", db, r, db, Answer("delete", Hits(db, r), 0))
    BY <1>2, <1>3, <1>5 DEF Reached, Found
  <2>3. QED
    BY <1>1, <2>1, <2>2, GoOnSound DEF r
<1>6. QED
  BY <1>4, <1>5

LEMMA TakeVersionSound ==
  ASSUME TxIInv, NEW p \in Callers, TakeVersion(p)
  PROVE  Sound(p)
<1> DEFINE r == request[p]
           d == NextVersion(db)
<1>1. pc[p] = "version" /\ InTx(p)
  BY DEF TakeVersion, At, InTx
<1>2. /\ RequestOK(r) /\ r.op # "note" /\ Found(db, r) /\ work[p] = db
      /\ result[p] = IF r.op \in {"delete", "clear"} THEN Answer("delete", Hits(db, r), 0)
                                                     ELSE Refused
  BY <1>1, InProgress DEF Reached
<1>3. /\ d.version <= MaxVersion
      /\ GoOn(p, IF r.op = "insert" THEN "ids" ELSE "rows", d,
              [result[p] EXCEPT !.cursor = d.version])
  BY <1>2 DEF TakeVersion
<1> HIDE DEF r, d
<1>4. CASE r.op = "insert"
  <2>1. GoOn(p, "ids", d, Answer("refused", {}, d.version))
    BY <1>2, <1>3, <1>4 DEF Answer, Refused, Store!Refused
  <2>2. Reached("ids", db, r, d, Answer("refused", {}, d.version))
    BY <1>2, <1>3, <1>4 DEF Reached, d
  <2>3. QED
    BY <1>1, <2>1, <2>2, GoOnSound DEF r
<1>5. CASE r.op = "update"
  <2>1. GoOn(p, "rows", d, Answer("refused", {}, d.version))
    BY <1>2, <1>3, <1>5 DEF Answer, Refused, Store!Refused
  <2>2. Reached("rows", db, r, d, Answer("refused", {}, d.version))
    BY <1>2, <1>3, <1>5 DEF Reached, Prepared, d
  <2>3. QED
    BY <1>1, <2>1, <2>2, GoOnSound DEF r
<1>6. CASE r.op \in {"delete", "clear"}
  <2>1. GoOn(p, "rows", d, Answer("delete", Hits(db, r), d.version))
    BY <1>2, <1>3, <1>6 DEF Answer
  <2>2. Reached("rows", db, r, d, Answer("delete", Hits(db, r), d.version))
    BY <1>2, <1>3, <1>6 DEF Reached, Prepared, d
  <2>3. QED
    BY <1>1, <2>1, <2>2, GoOnSound DEF r
<1>7. QED
  BY <1>2, <1>4, <1>5, <1>6 DEF RequestOK

(* An answer that has its version gets its kind and its ids. *)
Filled(res, op, ids) == [res EXCEPT !.op = op, !.ids = ids]

LEMMA FilledAnswer ==
  ASSUME NEW op, NEW ids, NEW v
  PROVE  Filled(Answer("refused", {}, v), op, ids) = Answer(op, ids, v)
<1>1. [Answer("refused", {}, v) EXCEPT !.op = op] = Answer(op, {}, v)
  BY DEF Answer
<1>2. [Answer(op, {}, v) EXCEPT !.ids = ids] = Answer(op, ids, v)
  BY DEF Answer
<1>3. QED
  BY <1>1, <1>2 DEF Filled

(* The ids and the version of one call are taken under the same lock. *)
LEMMA TakeIDsSound ==
  ASSUME TxIInv, NEW p \in Callers, TakeIDs(p)
  PROVE  Sound(p)
<1> DEFINE r == request[p]
           w == NextVersion(db)
           d == AllocateIDs(w, Len(r.batch))
<1>1. pc[p] = "ids" /\ InTx(p)
  BY DEF TakeIDs, At, InTx
<1>2. /\ r.op = "insert" /\ Found(db, r) /\ work[p] = w /\ w.version <= MaxVersion
      /\ result[p] = Answer("refused", {}, w.version)
  BY <1>1, InProgress DEF Reached
<1>3. CASE WellIndented(r.batch)
  <2>1. /\ d.lastId <= MaxId
        /\ GoOn(p, "rows", d, Filled(result[p], "insert", AllocatedIDs(d, Len(r.batch))))
    <3>1. /\ d.lastId <= MaxId
          /\ GoOn(p, "rows", d, [result[p] EXCEPT !.op = "insert",
                                                 !.ids = AllocatedIDs(d, Len(r.batch))])
      BY <1>2, <1>3, Zenon DEF TakeIDs
    <3>2. QED
      BY <3>1 DEF Filled
  <2>2. d.version = w.version
    BY StoreFacts DEF TxIInv, TypedDb, AllocateIDs, NextVersion
  <2> HIDE DEF d, w, r
  <2>3. Filled(result[p], "insert", AllocatedIDs(d, Len(r.batch)))
           = Answer("insert", AllocatedIDs(d, Len(r.batch)), d.version)
    <3>1. result[p] = Answer("refused", {}, d.version)
      BY <1>2, <2>2
    <3>2. QED
      BY <3>1, FilledAnswer
  <2>4. GoOn(p, "rows", d, Answer("insert", AllocatedIDs(d, Len(r.batch)), d.version))
    BY <2>1, <2>3
  <2>5. Prepared(db, r, d, Answer("insert", AllocatedIDs(d, Len(r.batch)), d.version))
    BY <1>2, <1>3, <2>1, <2>2 DEF Prepared, Numbered, d, w
  <2>6. Reached("rows", db, r, d, Answer("insert", AllocatedIDs(d, Len(r.batch)), d.version))
    BY <2>5 DEF Reached
  <2>7. QED
    BY <1>1, <2>4, <2>6, GoOnSound DEF r
<1>4. CASE ~ WellIndented(r.batch)
  <2>1. Refuse(p)
    BY <1>4 DEF TakeIDs
  <2>2. QED
    BY <1>1, <1>2, <1>4, <2>1, RefuseSound
<1>5. QED
  BY <1>3, <1>4

LEMMA ChangeRowsSound ==
  ASSUME TxIInv, NEW p \in Callers, ChangeRows(p)
  PROVE  Sound(p)
<1> DEFINE r == request[p]
           w == work[p]
<1>1. pc[p] = "rows" /\ InTx(p)
  BY DEF ChangeRows, At, InTx
<1>2. Prepared(db, r, w, result[p]) /\ Found(db, r)
  BY <1>1, InProgress DEF Reached, Prepared
<1> SUFFICES ASSUME NEW d, NEW res, GoOn(p, "commit", d, res), Decided(db, r, d, res)
             PROVE  Sound(p)
  <2>1. CASE r.op = "insert"
    <3>1. GoOn(p, "commit", InsertRows(w, r.scope, r.root, r.batch, r.now), result[p])
      BY <2>1 DEF ChangeRows
    <3>2. Decided(db, r, InsertRows(w, r.scope, r.root, r.batch, r.now), result[p])
      BY <1>2, <2>1 DEF Prepared, Decided
    <3>3. QED
      BY <3>1, <3>2
  <2>2. CASE r.op = "update"
    <3>1. GoOn(p, "commit", UpdateRow(w, r.id, r.fields),
               Filled(result[p], "update", {r.id}))
      BY <2>2 DEF ChangeRows, Filled
    <3>2. w = NextVersion(db) /\ w.version <= MaxVersion
          /\ result[p] = Answer("refused", {}, w.version)
      BY <1>2, <2>2 DEF Prepared
    <3>3. Filled(result[p], "update", {r.id}) = Answer("update", {r.id}, w.version)
      BY <3>2, FilledAnswer, Zenon
    <3>4. Decided(db, r, UpdateRow(w, r.id, r.fields), Answer("update", {r.id}, w.version))
      BY <1>2, <2>2, <3>2 DEF Decided
    <3>5. QED
      BY <3>1, <3>3, <3>4
  <2>3. CASE r.op \in {"delete", "clear"}
    <3>1. GoOn(p, "commit", DeleteRows(w, Selected(p)), result[p])
      BY <2>3 DEF ChangeRows
    <3>2. w = NextVersion(db) /\ w.version <= MaxVersion
          /\ result[p] = Answer("delete", Hits(db, r), w.version)
      BY <1>2, <2>3 DEF Prepared
    <3>3. w.todos = db.todos
      BY <3>2, StoreFacts DEF TxIInv, TypedDb, NextVersion
    <3>4. Selected(p) = Hits(db, r)
      BY <3>3 DEF Selected, Hits, Live
    <3>5. Decided(db, r, DeleteRows(w, Selected(p)), result[p])
      BY <1>2, <2>3, <3>2, <3>4 DEF Decided
    <3>6. QED
      BY <3>1, <3>5
  <2>4. CASE r.op = "note"
    <3>1. w.noteSeq < MaxNotes /\ w = db
          /\ GoOn(p, "commit", InsertNote(w, r.id), Answer("note", {r.id}, 0))
      BY <1>2, <2>4 DEF ChangeRows, Prepared, Answer
    <3>2. Decided(db, r, InsertNote(w, r.id), Answer("note", {r.id}, 0))
      BY <1>2, <2>4, <3>1 DEF Decided
    <3>3. QED
      BY <3>1, <3>2
  <2>5. QED
    BY <2>1, <2>2, <2>3, <2>4 DEF ChangeRows
<1>3. Reached("commit", db, r, d, res)
  BY DEF Reached
<1>4. QED
  BY <1>1, <1>3, GoOnSound

(* The commit publishes what the transaction decided under the lock. *)
LEMMA CommitSound ==
  ASSUME TxIInv, NEW p \in Callers, Commit(p)
  PROVE  Sound(p)
<1>1. /\ pc[p] = "commit" /\ InTx(p)
      /\ db' = work[p] /\ last' = result[p]
  BY DEF Commit, At, InTx
<1>2. request[p] \in Requests /\ Decided(db, request[p], work[p], result[p])
  BY <1>1, InProgress DEF Reached
<1>3. Store!Next
  BY <1>1, <1>2, CommitIsCall
<1>4. QED
  BY <1>1, <1>3, LeaveSound DEF Commit

LEMMA FailSound ==
  ASSUME TxIInv, NEW p \in Callers, Fail(p)
  PROVE  Sound(p)
<1>1. [Store!Next]_(Store!vars)
  BY DEF Fail, Store!vars
<1>2. QED
  BY <1>1, LeaveSound DEF Fail, Rollback

(* A caller that goes idle, dead or answered, leaves nothing behind. *)
LEMMA IdleSound ==
  ASSUME TxIInv, NEW p \in Callers, Die(p) \/ Reply(p)
  PROVE  Sound(p)
<1>1. /\ CallerOK(p) /\ holder \in Callers \cup {NoCaller} /\ NoCaller \notin Callers
      /\ DOMAIN pc = Callers /\ DOMAIN request = Callers
      /\ DOMAIN work = Callers /\ DOMAIN result = Callers
  BY CallersAssumption DEF TxIInv
<1>2. /\ pc' = [pc EXCEPT ![p] = "idle"]
      /\ request' = [request EXCEPT ![p] = NoRequest]
      /\ result' = [result EXCEPT ![p] = Refused]
      /\ work' = [work EXCEPT ![p] = EmptyDb] \/ (work' = work /\ pc[p] = "reply")
      /\ holder' = (IF holder = p THEN NoCaller ELSE holder) \/ (holder' = holder /\ pc[p] = "reply")
      /\ UNCHANGED <<db, last>>
  BY DEF Die, Reply, At
<1>3. pc[p] = "reply" => ~ InTx(p) /\ holder # p /\ work[p] = EmptyDb
  BY <1>1 DEF CallerOK, InTx
<1>4. /\ pc'[p] = "idle" /\ request'[p] = NoRequest /\ result'[p] = Refused
      /\ work'[p] = EmptyDb /\ holder' # p
  BY <1>1, <1>2, <1>3
<1>5. Moves(p)
  BY <1>1, <1>2 DEF Moves
<1>6. ~ InTx(p)' /\ Reached(pc'[p], db', request'[p], work'[p], result'[p])
  BY <1>4 DEF InTx, Reached
<1>7. CallerOK(p)'
  BY <1>4, <1>6 DEF CallerOK, Labels
<1>8. QED
  BY <1>2, <1>5, <1>7 DEF Sound, Store!vars

-----------------------------------------------------------------------------
(* Views and answers.                                                      *)

(* An answer a caller may have got from the database d: its version and the *)
(* ids it names as new were handed out.                                     *)
Old(a, d) ==
    /\ a.cursor \in 0 .. d.version
    /\ a.op = "insert" => a.ids \subseteq 1 .. d.lastId

(* An answer whose version and new ids nobody has seen in the database d. *)
Fresh(a, d) ==
    /\ a.cursor # 0 => a.cursor > d.version
    /\ a.op = "insert" => a.ids \cap (1 .. d.lastId) = {}

(* The counters and the ids an insert takes. *)
LEMMA NumberedType ==
  ASSUME Proofs!IInv, NEW r \in Requests, r.op = "insert"
  PROVE  LET d == Numbered(db, r)
             n == Len(r.batch)
         IN /\ TypedDb(d) /\ n \in Nat \ {0}
            /\ d.version = db.version + 1 /\ d.lastId = db.lastId + n
            /\ AllocatedIDs(d, n) = db.lastId + 1 .. db.lastId + n
            /\ d.todos = db.todos
<1>1. Len(r.batch) \in Nat \ {0}
  BY ConstantsTyped, Proofs!BatchType, RequestType DEF RequestOK
<1>2. TypedDb(db)
  BY StoreFacts
<1>3. TypedDb(NextVersion(db)) /\ NextVersion(db).version = db.version + 1
      /\ NextVersion(db).lastId = db.lastId /\ NextVersion(db).todos = db.todos
  BY <1>2 DEF TypedDb, NextVersion, Live, Dead
<1>4. \A n \in Nat : \A d : TypedDb(d) =>
          /\ TypedDb(AllocateIDs(d, n)) /\ AllocateIDs(d, n).version = d.version
          /\ AllocateIDs(d, n).lastId = d.lastId + n /\ AllocateIDs(d, n).todos = d.todos
  BY DEF TypedDb, AllocateIDs, Live, Dead
<1> DEFINE d == Numbered(db, r)
           n == Len(r.batch)
<1>5. TypedDb(d) /\ d.version = db.version + 1 /\ d.lastId = db.lastId + n /\ d.todos = db.todos
  BY <1>1, <1>3, <1>4 DEF Numbered
<1>6. db.lastId \in Nat
  BY <1>2 DEF TypedDb
<1> HIDE DEF d, n
<1>7. AllocatedIDs(d, n) = db.lastId + 1 .. db.lastId + n
  BY <1>1, <1>5, <1>6 DEF AllocatedIDs, n
<1>8. QED
  BY <1>1, <1>5, <1>7 DEF d, n

(* What a transaction is going to publish is well typed, goes on from the       *)
(* database, and its answer is fresh.                                           *)
LEMMA DecidedEffect ==
  ASSUME Proofs!IInv, NEW r \in Requests, NEW w, NEW res, Decided(db, r, w, res)
  PROVE  /\ TypedDb(w) /\ db.version <= w.version /\ db.lastId <= w.lastId
         /\ Old(res, w) /\ Fresh(res, db)
<1>1. /\ TypedDb(db) /\ Live(db) \cap Dead(db) = {}
      /\ db.version \in Nat /\ db.lastId \in Nat
      /\ NextVersion(db).version = db.version + 1
  BY StoreFacts DEF TypedDb, NextVersion
<1>2. CASE r.op = "insert"
  <2> DEFINE n == Len(r.batch)
  <2>1. /\ Found(db, r) /\ WellIndented(r.batch)
        /\ w = InsertRows(AllocateIDs(NextVersion(db), n), r.scope, r.root, r.batch, r.now)
        /\ res = Answer("insert", AllocatedIDs(Numbered(db, r), n), Numbered(db, r).version)
    BY <1>2 DEF Decided, Numbered
  <2>2. /\ r.scope \in Scopes /\ r.root \in Live(db) \cup {NoTodo}
        /\ r.batch \in Batches /\ r.now \in Times
    BY <1>2, <2>1, RequestType DEF RequestOK, Found
  <2>3. Proofs!Inserted(db, w, r.scope, r.root, n)
    BY <1>1, <2>1, <2>2, SameTables, ConstantsTyped, Proofs!InsertEffect, Zenon
  <2>4. TypedDb(w) /\ w.version = db.version + 1 /\ w.lastId = db.lastId + n
    BY <2>3, SameTables DEF Proofs!Inserted
  <2>5. /\ n \in Nat \ {0} /\ Numbered(db, r).version = db.version + 1
        /\ AllocatedIDs(Numbered(db, r), n) = db.lastId + 1 .. db.lastId + n
    BY <1>2, NumberedType
  <2>6. res.cursor = db.version + 1 /\ res.ids = db.lastId + 1 .. db.lastId + n
    BY <2>1, <2>5 DEF Answer
  <2> HIDE DEF n
  <2>7. QED
    BY <1>1, <2>4, <2>5, <2>6 DEF Old, Fresh
<1>3. CASE r.op = "update"
  <2>1. /\ r.id \in Live(db) /\ r.fields \in UpdateFields
        /\ w = UpdateRow(NextVersion(db), r.id, r.fields)
        /\ res = Answer("update", {r.id}, db.version + 1)
    BY <1>1, <1>3, RequestType DEF Decided, Found, RequestOK
  <2>2. TypedDb(w) /\ w.version = db.version + 1 /\ w.lastId = db.lastId
    BY <1>1, <2>1, SameTables, ConstantsTyped, Proofs!UpdateEffect
  <2>3. QED
    BY <1>1, <2>1, <2>2 DEF Old, Fresh, Answer
<1>4. CASE r.op \in {"delete", "clear"} /\ Hits(db, r) # {}
  <2>1. /\ Hits(db, r) \in SUBSET Live(db)
        /\ w = DeleteRows(NextVersion(db), Hits(db, r))
        /\ res = Answer("delete", Hits(db, r), db.version + 1)
    BY <1>1, <1>4 DEF Decided, Hits
  <2>2. TypedDb(w) /\ w.version = db.version + 1 /\ w.lastId = db.lastId
    BY <1>1, <2>1, SameTables, ConstantsTyped, Proofs!DeleteEffect
  <2>3. QED
    BY <1>1, <2>1, <2>2 DEF Old, Fresh, Answer
<1>5. CASE r.op \in {"delete", "clear"} /\ Hits(db, r) = {}
  <2>1. w = db /\ res = Answer("delete", {}, 0)
    BY <1>5 DEF Decided, Found
  <2>2. QED
    BY <1>1, <2>1 DEF Old, Fresh, Answer
<1>6. CASE r.op = "note"
  <2>1. /\ r.id \in Live(db) /\ w = InsertNote(db, r.id)
        /\ res = Answer("note", {r.id}, 0)
    BY <1>6 DEF Decided, Found
  <2>2. TypedDb(w) /\ w.version = db.version /\ w.lastId = db.lastId
    BY <1>1, <2>1, SameTables, ConstantsTyped, Proofs!NoteEffect
  <2>3. QED
    BY <1>1, <2>1, <2>2 DEF Old, Fresh, Answer
<1>7. QED
  BY <1>2, <1>3, <1>4, <1>5, <1>6, RequestType DEF RequestOK

(* The view of a caller inside its transaction is well typed. *)
LEMMA ViewTyped ==
  ASSUME TxIInv, NEW p \in Callers
  PROVE  TypedDb(work[p])
<1> DEFINE r == request[p]
<1>1. CallerOK(p) /\ Proofs!IInv
  BY DEF TxIInv
<1>2. TypedDb(db) /\ TypedDb(EmptyDb) /\ TypedDb(NextVersion(db))
  <2>1. TypedDb(db)
    BY <1>1, StoreFacts
  <2>2. QED
    BY <2>1 DEF TypedDb, NextVersion, EmptyDb, Live, Dead
<1>3. CASE ~ InTx(p)
  BY <1>1, <1>2, <1>3 DEF CallerOK
<1>4. CASE pc[p] \in {"check", "select", "version", "ids"}
  BY <1>1, <1>2, <1>4 DEF CallerOK, Reached
<1>5. CASE pc[p] = "rows"
  <2>1. Prepared(db, r, work[p], result[p]) /\ r \in Requests
    BY <1>5, InProgress DEF Reached
  <2>2. CASE r.op = "insert"
    <3>1. work[p] = Numbered(db, r)
      BY <2>1, <2>2 DEF Prepared
    <3>2. QED
      BY <1>1, <2>1, <2>2, <3>1, NumberedType
  <2>3. CASE r.op # "insert"
    BY <1>2, <2>1, <2>3 DEF Prepared
  <2>4. QED
    BY <2>2, <2>3
<1>6. CASE pc[p] = "commit"
  <2>1. Decided(db, r, work[p], result[p]) /\ r \in Requests
    BY <1>6, InProgress DEF Reached
  <2>2. QED
    BY <1>1, <2>1, DecidedEffect
<1>7. QED
  BY <1>3, <1>4, <1>5, <1>6 DEF InTx

-----------------------------------------------------------------------------
(* The inductive invariant and the refinement.                             *)

LEMMA TxInitInv == TxInit => TxIInv
<1> SUFFICES ASSUME TxInit PROVE TxIInv
  OBVIOUS
<1>1. Proofs!Init
  BY SameTables DEF TxInit, Proofs!Init, Proofs!EmptyDb, EmptyDb, Refused, Store!Refused,
                    Proofs!Refused
<1>2. Proofs!IInv
  BY <1>1, ConstantsTyped, Proofs!InitInv
<1>3. ASSUME NEW p \in Callers PROVE CallerOK(p)
  BY CallersAssumption DEF TxInit, CallerOK, InTx, Labels, Reached
<1>4. QED
  BY <1>2, <1>3 DEF TxInit, TxIInv

(* Whatever a caller does. *)
LEMMA EveryStepSound ==
  ASSUME TxIInv, NEW p \in Callers,
         (\E r \in Requests : Call(p, r)) \/ Advance(p) \/ Die(p)
  PROVE  Sound(p)
<1>1. CASE \E r \in Requests : Call(p, r)
  BY <1>1, CallSound
<1>2. CASE Begin(p)
  BY <1>2, BeginSound
<1>3. CASE Busy(p)
  BY <1>3, BusySound
<1>4. CASE CheckExists(p)
  BY <1>4, CheckExistsSound
<1>5. CASE SelectIDs(p)
  BY <1>5, SelectIDsSound
<1>6. CASE TakeVersion(p)
  BY <1>6, TakeVersionSound
<1>7. CASE TakeIDs(p)
  BY <1>7, TakeIDsSound
<1>8. CASE ChangeRows(p)
  BY <1>8, ChangeRowsSound
<1>9. CASE Commit(p)
  BY <1>9, CommitSound
<1>10. CASE Fail(p)
  BY <1>10, FailSound
<1>11. CASE Die(p) \/ Reply(p)
  BY <1>11, IdleSound
<1>12. QED
  BY <1>1, <1>2, <1>3, <1>4, <1>5, <1>6, <1>7, <1>8, <1>9, <1>10, <1>11
     DEF Advance, Statement

LEMMA TxStutterInv ==
  ASSUME TxIInv, UNCHANGED txVars
  PROVE  TxIInv' /\ UNCHANGED Store!vars
<1>1. UNCHANGED Store!vars
  BY DEF txVars, Store!vars
<1>2. Proofs!IInv'
  BY <1>1, StoreStepInv DEF TxIInv
<1>3. ASSUME NEW p \in Callers PROVE CallerOK(p)'
  <2>1. CallerOK(p)
    BY DEF TxIInv
  <2>2. InTx(p)' <=> InTx(p)
    BY DEF InTx, txVars
  <2>3. Reached(pc'[p], db', request'[p], work'[p], result'[p])
    BY <2>1 DEF CallerOK, txVars
  <2>4. QED
    BY <2>1, <2>2, <2>3 DEF CallerOK, txVars
<1>4. QED
  BY <1>1, <1>2, <1>3 DEF TxIInv, txVars

LEMMA TxStep ==
  ASSUME TxIInv, [TxNext]_txVars
  PROVE  TxIInv' /\ [Store!Next]_(Store!vars)
<1>1. CASE TxNext
  <2>1. PICK p \in Callers : (\E r \in Requests : Call(p, r)) \/ Advance(p) \/ Die(p)
    BY <1>1 DEF TxNext
  <2>2. Sound(p)
    BY <2>1, EveryStepSound
  <2>3. QED
    BY <2>2, SoundStep DEF Sound
<1>2. CASE UNCHANGED txVars
  BY <1>2, TxStutterInv
<1>3. QED
  BY <1>1, <1>2

(* However the statements of the callers interleave, fail or die, the view of a  *)
(* caller is what its request makes of the committed database.                   *)
THEOREM TxInvariant == TxSpec => []TxIInv
<1>1. TxIInv /\ [TxNext]_txVars => TxIInv'
  BY TxStep
<1>2. QED
  BY TxInitInv, <1>1, PTL DEF TxSpec

(* A caller has a view of well-typed tables exactly while it is inside its *)
(* transaction.                                                            *)
THEOREM TxTypeCorrect == TxSpec => []TxTypeOK
<1>1. TxIInv => TxTypeOK
  <2> SUFFICES ASSUME TxIInv PROVE TxTypeOK
    OBVIOUS
  <2>1. TypedDb(db) /\ holder \in Callers \cup {NoCaller}
    BY StoreFacts DEF TxIInv
  <2>2. ASSUME NEW p \in Callers
        PROVE  /\ pc[p] \in {"idle", "begin", "reply"} \/ InTx(p)
               /\ request[p] \in Requests \cup {NoRequest}
               /\ request[p] = NoRequest <=> pc[p] = "idle"
               /\ TypedDb(work[p])
               /\ ~ InTx(p) => work[p] = EmptyDb
    <3>1. CallerOK(p) /\ TypedDb(work[p])
      BY ViewTyped DEF TxIInv
    <3>2. QED
      BY <3>1 DEF CallerOK, InTx, Labels
  <2>3. QED
    BY <2>1, <2>2 DEF TxTypeOK
<1>2. QED
  BY TxInvariant, <1>1, PTL

(* Every way out of a transaction gives the write lock back, and nobody is inside *)
(* a transaction without it.                                                      *)
THEOREM LockCorrect == TxSpec => []LockOnlyInside
<1>1. TxIInv => LockOnlyInside
  BY DEF TxIInv, CallerOK, LockOnlyInside
<1>2. QED
  BY TxInvariant, <1>1, PTL

(* The transactions of concurrent callers, with their refusals, failures, deaths  *)
(* and timeouts, implement the atomic calls of TodoStore: a COMMIT or a refusal   *)
(* is one call, every other step leaves the database and the last answer alone.   *)
THEOREM Implementation == TxSpec => ImplementsStore
<1>1. TxInit => Store!Init
  BY SameStatements DEF TxInit, Store!Init, Store!EmptyDb, EmptyDb, Refused
<1>2. TxIInv /\ [TxNext]_txVars => [Store!Next]_(Store!vars)
  BY TxStep
<1>3. QED
  BY TxInvariant, <1>1, <1>2, PTL DEF TxSpec, ImplementsStore, Store!Spec

(* So what TodoStoreProofs proves of atomic calls holds of the committed database *)
(* at every moment of every interleaving: each id handed out is a row or has its  *)
(* one tombstone, the rows form a forest, one call took each version, and no note *)
(* outlives its todo.                                                             *)
THEOREM CommittedTables ==
  TxSpec => [](Proofs!IdsAccountedFor /\ Proofs!ParentsPrecede
               /\ Proofs!OneCallPerVersion /\ Proofs!NotesAttached)
<1>1. TxIInv => /\ Proofs!IdsAccountedFor /\ Proofs!ParentsPrecede
                /\ Proofs!OneCallPerVersion /\ Proofs!NotesAttached
  BY DEF TxIInv, Proofs!IInv, Proofs!Tables
<1>2. QED
  BY TxInvariant, <1>1, PTL

(* And every change a COMMIT publishes is stamped above the version it found: *)
(* todo_diff may rely on it whatever the other callers do.                    *)
THEOREM CommittedChangesStamped == TxSpec => Proofs!EveryChangeIsStamped
<1>1. ASSUME TxIInv, [TxNext]_txVars
      PROVE  [Proofs!Stamped]_(Proofs!vars)
  <2>1. [Store!Next]_(Store!vars) /\ Proofs!IInv
    BY <1>1, TxStep DEF TxIInv
  <2>2. CASE Store!Next
    BY <2>1, <2>2, SameCalls, ConstantsTyped, Proofs!NextInv
  <2>3. CASE UNCHANGED Store!vars
    BY <2>3 DEF Store!vars, Proofs!vars
  <2>4. QED
    BY <2>1, <2>2, <2>3
<1>2. QED
  BY TxInvariant, <1>1, PTL DEF TxSpec, Proofs!EveryChangeIsStamped

-----------------------------------------------------------------------------
(* No two callers are told the same version or the same new id.            *)

(* The answers p has, or is about to have. *)
Given(p) == {answer[p]} \cup (IF pc[p] = "reply" THEN {result[p]} ELSE {})

Apart(a, b) ==
    a.cursor # 0 /\ b.cursor # 0 =>
        /\ a.cursor # b.cursor
        /\ a.op = "insert" /\ b.op = "insert" => a.ids \cap b.ids = {}

(* Answers are of the past, and those of different callers are apart: a new one *)
(* is above everything the lock let anybody take before.                        *)
AnswersOK ==
    /\ DOMAIN answer = Callers
    /\ \A p \in Callers : \A a \in Given(p) : Old(a, db)
    /\ \A p, q \in Callers : p # q => \A a \in Given(p), b \in Given(q) : Apart(a, b)

(* A refusal names nothing. *)
LEMMA RefusalNamesNothing ==
  ASSUME Proofs!IInv
  PROVE  /\ Old(Refused, db)
         /\ \A a : Apart(Refused, a) /\ Apart(a, Refused)
<1>1. db.version \in Nat
  BY StoreFacts DEF TypedDb
<1>2. QED
  BY <1>1 DEF Old, Apart, Refused, Store!Refused

(* A fresh answer is apart from every older one. *)
LEMMA FreshIsApart ==
  ASSUME TypedDb(db), NEW a, Fresh(a, db), NEW b, Old(b, db)
  PROVE  Apart(a, b) /\ Apart(b, a)
<1>1. b.cursor # a.cursor \/ a.cursor = 0
  BY DEF Fresh, Old, TypedDb
<1>2. a.op = "insert" /\ b.op = "insert" => a.ids \cap b.ids = {}
  BY DEF Fresh, Old
<1>3. QED
  BY <1>1, <1>2 DEF Apart

(* Steps that publish nothing add at most a refusal. *)
LEMMA QuietAnswers ==
  ASSUME TxIInv, AnswersOK, NEW p \in Callers, UNCHANGED db,
         DOMAIN answer' = Callers,
         Given(p)' \subseteq Given(p) \cup {Refused},
         \A q \in Callers \ {p} : Given(q)' = Given(q)
  PROVE  AnswersOK'
<1>1. \A q \in Callers : Given(q)' \subseteq Given(q) \cup {Refused}
  OBVIOUS
<1>2. /\ Old(Refused, db)
      /\ \A a : Apart(Refused, a) /\ Apart(a, Refused)
  BY RefusalNamesNothing DEF TxIInv
<1>3. \A q \in Callers : \A a \in Given(q)' : Old(a, db')
  BY <1>1, <1>2 DEF AnswersOK
<1>4. \A q1, q2 \in Callers : q1 # q2 => \A a \in Given(q1)', b \in Given(q2)' : Apart(a, b)
  BY <1>1, <1>2 DEF AnswersOK
<1>5. QED
  BY <1>3, <1>4 DEF AnswersOK

(* A commit adds an answer above all the others. *)
LEMMA CommitAnswers ==
  ASSUME TxIInv, AnswersOK, NEW p \in Callers, Commit(p)
  PROVE  AnswersOK'
<1>1. /\ db' = work[p] /\ answer' = answer /\ result' = result /\ pc[p] = "commit"
      /\ pc' = [pc EXCEPT ![p] = "reply"] /\ DOMAIN pc = Callers
  BY DEF Commit, At, TxIInv
<1>2. /\ TypedDb(db) /\ TypedDb(db')
      /\ db.version <= db'.version /\ db.lastId <= db'.lastId
      /\ Old(result[p], db') /\ Fresh(result[p], db)
  <2>1. request[p] \in Requests /\ Decided(db, request[p], work[p], result[p])
    BY <1>1, InProgress DEF Reached
  <2>2. Proofs!IInv
    BY DEF TxIInv
  <2>3. QED
    BY <1>1, <2>1, <2>2, DecidedEffect, StoreFacts, Zenon
<1>3. \A a : Old(a, db) => Old(a, db')
  BY <1>2 DEF Old, TypedDb
<1>4. /\ Given(p)' = Given(p) \cup {result[p]}
      /\ \A q \in Callers \ {p} : Given(q)' = Given(q)
  BY <1>1 DEF Given
<1>5. \A q \in Callers : \A a \in Given(q)' : Old(a, db')
  BY <1>2, <1>3, <1>4 DEF AnswersOK
<1>6. \A q \in Callers \ {p} : \A b \in Given(q) : Apart(result[p], b) /\ Apart(b, result[p])
  BY <1>2, FreshIsApart DEF AnswersOK
<1>7. ASSUME NEW q1 \in Callers, NEW q2 \in Callers, q1 # q2,
             NEW a \in Given(q1)', NEW b \in Given(q2)'
      PROVE  Apart(a, b)
  <2>1. CASE a \in Given(q1) /\ b \in Given(q2)
    BY <1>7, <2>1 DEF AnswersOK
  <2>2. CASE q1 = p /\ a = result[p]
    BY <1>4, <1>6, <1>7, <2>2
  <2>3. CASE q2 = p /\ b = result[p]
    BY <1>4, <1>6, <1>7, <2>3
  <2>4. QED
    BY <1>4, <1>7, <2>1, <2>2, <2>3
<1>8. QED
  BY <1>1, <1>5, <1>7 DEF AnswersOK

LEMMA AnswersStep ==
  ASSUME TxIInv, AnswersOK, [TxNext]_txVars
  PROVE  AnswersOK'
<1>1. CASE UNCHANGED txVars
  BY <1>1 DEF txVars, AnswersOK, Given
<1>2. CASE TxNext
  <2>1. PICK p \in Callers : (\E r \in Requests : Call(p, r)) \/ Advance(p) \/ Die(p)
    BY <1>2 DEF TxNext
  <2>2. /\ Sound(p) /\ DOMAIN answer = Callers
        /\ DOMAIN pc = Callers /\ DOMAIN result = Callers
    BY <2>1, EveryStepSound DEF TxIInv, AnswersOK
  <2>3. /\ \A q \in Callers \ {p} : pc'[q] = pc[q] /\ result'[q] = result[q]
        /\ holder' = p => InTx(p)'
    BY <2>2 DEF Sound, Moves, CallerOK
  <2>4. CASE Commit(p)
    BY <2>4, CommitAnswers
  <2>5. CASE Reply(p)
    <3>1. /\ pc[p] = "reply" /\ pc'[p] = "idle" /\ UNCHANGED db
          /\ answer' = [answer EXCEPT ![p] = result[p]]
      BY <2>2, <2>5 DEF Reply, At
    <3>2. /\ Given(p)' \subseteq Given(p)
          /\ \A q \in Callers \ {p} : Given(q)' = Given(q)
          /\ DOMAIN answer' = Callers
      BY <2>2, <2>3, <3>1 DEF Given
    <3>3. QED
      BY <3>1, <3>2, QuietAnswers
  <2>6. CASE \E r \in Requests : Call(p, r)
    <3>1. /\ pc'[p] = "begin" /\ UNCHANGED db
          /\ answer' = [answer EXCEPT ![p] = Refused]
      BY <2>2, <2>6 DEF Call
    <3>2. /\ Given(p)' \subseteq Given(p) \cup {Refused}
          /\ \A q \in Callers \ {p} : Given(q)' = Given(q)
          /\ DOMAIN answer' = Callers
      BY <2>2, <2>3, <3>1 DEF Given
    <3>3. QED
      BY <3>1, <3>2, QuietAnswers
  <2>7. CASE ~ Commit(p) /\ ~ Reply(p) /\ ~ (\E r \in Requests : Call(p, r))
    <3>1. UNCHANGED <<db, answer>> /\ (pc'[p] = "reply" => result'[p] = Refused)
      <4>1. CASE Die(p) \/ Fail(p)
        BY <2>2, <4>1 DEF Die, Fail, Rollback
      <4>2. CASE Begin(p)
        BY <2>3, <4>2 DEF Begin, InTx
      <4>3. CASE Busy(p)
        <5>1. result[p] = Refused
          BY <4>3, InProgress DEF Busy, Reached
        <5>2. QED
          BY <4>3, <5>1 DEF Busy
      <4>4. CASE CheckExists(p) \/ SelectIDs(p) \/ TakeVersion(p) \/ TakeIDs(p) \/ ChangeRows(p)
        <5>1. \/ \E d, res : \E label \in {"version", "ids", "rows", "commit"} :
                    GoOn(p, label, d, res)
              \/ Refuse(p)
          BY <4>4 DEF CheckExists, SelectIDs, TakeVersion, TakeIDs, ChangeRows
        <5>2. CASE Refuse(p)
          BY <2>2, <5>2 DEF Refuse, Rollback
        <5>3. CASE \E d, res : \E label \in {"version", "ids", "rows", "commit"} :
                      GoOn(p, label, d, res)
          BY <2>2, <5>3 DEF GoOn
        <5>4. QED
          BY <5>1, <5>2, <5>3
      <4>5. QED
        BY <2>1, <2>7, <4>1, <4>2, <4>3, <4>4 DEF Advance, Statement
    <3>2. /\ Given(p)' \subseteq Given(p) \cup {Refused}
          /\ \A q \in Callers \ {p} : Given(q)' = Given(q)
      BY <2>3, <3>1 DEF Given
    <3>3. QED
      BY <2>2, <3>1, <3>2, QuietAnswers
  <2>8. QED
    BY <2>4, <2>5, <2>6, <2>7
<1>3. QED
  BY <1>1, <1>2

(* Two callers are never told the same version, nor the same new id: what the    *)
(* agents remember as cursors and short ids names one commit and one todo.       *)
THEOREM NoAnswerTwice == TxSpec => []AnswersDistinct
<1>1. TxInit => AnswersOK
  <2> SUFFICES ASSUME TxInit PROVE AnswersOK
    OBVIOUS
  <2>1. TxIInv
    BY TxInitInv
  <2>2. \A p \in Callers : Given(p) = {Refused}
    BY DEF TxInit, Given
  <2>3. QED
    BY <2>1, <2>2, RefusalNamesNothing DEF TxIInv, TxInit, AnswersOK
<1>2. AnswersOK => AnswersDistinct
  BY DEF AnswersOK, Given, Apart, AnswersDistinct
<1>3. TxIInv /\ AnswersOK /\ [TxNext]_txVars => AnswersOK'
  BY AnswersStep
<1>4. QED
  BY TxInvariant, <1>1, <1>2, <1>3, PTL DEF TxSpec

-----------------------------------------------------------------------------
(* The history of CallLog.                                                 *)

Entries == [call : Requests, ids : SUBSET Nat, base : Nat]

(* The inductive invariant: a call is executed as it was asked for, and the k-th *)
(* call that took a version took version k.                                      *)
LogIInv ==
    /\ TxIInv
    /\ asked = request
    /\ calls \in Seq(Entries)
    /\ Len(calls) = db.version
    /\ LastWordStands

(* A call that overwrites rows. *)
Writing(r) == r.op \in {"insert", "update"}

(* What the call r makes of the rows of d: w has in the rows the call is about *)
(* what it asks for under the new version, and every other row as it was.      *)
Rewritten(d, w, r, ids) ==
    \A i \in Live(w) :
        IF Writing(r) /\ i \in ids
          THEN /\ w.todos[i].version = w.version
               /\ IF r.op = "insert"
                    THEN w.todos[i].status = r.batch[i - d.lastId].status
                    ELSE /\ i \in Live(d)
                         /\ w.todos[i].status = Overwritten(d.todos[i].status, r.fields)
          ELSE i \in Live(d) /\ w.todos[i] = d.todos[i]

LEMMA DecidedRows ==
  ASSUME Proofs!IInv, NEW r \in Requests, NEW w, NEW res, Decided(db, r, w, res)
  PROVE  /\ Rewritten(db, w, r, res.ids)
         /\ res.ids \in SUBSET Nat
         /\ IF res.cursor = 0 THEN w.version = db.version ELSE w.version = db.version + 1
<1>1. /\ TypedDb(db) /\ Live(db) \cap Dead(db) = {}
      /\ db.version \in Nat /\ db.lastId \in Nat
      /\ NextVersion(db).version = db.version + 1
      /\ Live(db) \subseteq Nat
  BY StoreFacts DEF TypedDb, NextVersion
<1>2. CASE r.op = "insert"
  <2> DEFINE n == Len(r.batch)
             d == Numbered(db, r)
             new == db.lastId + 1 .. db.lastId + n
             row(i) == [scope   |-> r.scope,
                        status  |-> r.batch[i - (d.lastId - n + 1) + 1].status,
                        parent  |-> BatchParent(r.batch, i - (d.lastId - n + 1) + 1, r.root,
                                                d.lastId - n + 1),
                        version |-> d.version,
                        created |-> r.now]
  <2>1. /\ w = InsertRows(d, r.scope, r.root, r.batch, r.now)
        /\ res = Answer("insert", AllocatedIDs(d, n), d.version)
    BY <1>2 DEF Decided
  <2>2. /\ TypedDb(d) /\ n \in Nat \ {0}
        /\ d.version = db.version + 1 /\ d.lastId = db.lastId + n
        /\ AllocatedIDs(d, n) = new
        /\ d.todos = db.todos
    BY <1>2, NumberedType
  <2>3. w = [d EXCEPT !.todos = [i \in Live(d) \cup new |->
                                    IF i \in new THEN row(i) ELSE d.todos[i]]]
    BY <2>1, <2>2, Zenon DEF InsertRows
  <2>4. \A i \in new : /\ row(i).version = d.version
                       /\ row(i).status = r.batch[i - db.lastId].status
    <3>1. \A i \in new : i - (d.lastId - n + 1) + 1 = i - db.lastId
      BY <1>1, <2>2
    <3>2. QED
      BY <3>1
  <2> HIDE DEF d, n, row
  <2>5. /\ w.version = d.version
        /\ w.todos = [i \in Live(d) \cup new |-> IF i \in new THEN row(i) ELSE d.todos[i]]
    BY <2>2, <2>3 DEF TypedDb
  <2>6. Live(d) = Live(db) /\ Live(w) = Live(db) \cup new
    BY <2>2, <2>5 DEF Live
  <2>7. res.ids = new /\ res.cursor = db.version + 1
    BY <2>1, <2>2 DEF Answer
  <2>8. Rewritten(db, w, r, new)
    BY <1>2, <2>2, <2>4, <2>5, <2>6 DEF Rewritten, Writing
  <2>9. new \in SUBSET Nat
    BY <1>1, <2>2
  <2>10. QED
    BY <1>1, <2>2, <2>5, <2>7, <2>8, <2>9
<1>3. CASE r.op = "update"
  <2>1. /\ r.id \in Live(db) /\ r.fields \in UpdateFields
        /\ w = UpdateRow(NextVersion(db), r.id, r.fields)
        /\ res = Answer("update", {r.id}, db.version + 1)
    BY <1>1, <1>3, RequestType DEF Decided, Found, RequestOK
  <2>2. /\ w.version = db.version + 1
        /\ Live(w) = Live(db)
        /\ \A i \in Live(db) : i # r.id => w.todos[i] = db.todos[i]
        /\ w.todos[r.id].version = w.version
    BY <1>1, <2>1, SameTables, ConstantsTyped, Proofs!UpdateEffect
  <2>3. w.todos[r.id].status = Overwritten(db.todos[r.id].status, r.fields)
    <3> DEFINE d == NextVersion(db)
               row(i) == IF i = r.id
                           THEN [d.todos[i] EXCEPT !.status = Overwritten(@, r.fields),
                                                   !.version = d.version]
                           ELSE d.todos[i]
    <3>1. d.todos = db.todos /\ DOMAIN d = DOMAIN db
      BY <1>1 DEF NextVersion, TypedDb
    <3>2. w = [d EXCEPT !.todos = [i \in Live(d) |-> row(i)]]
      BY <2>1, Zenon DEF UpdateRow
    <3>3. db.todos[r.id] \in Row
      BY <1>1, <2>1 DEF TypedDb
    <3>4. row(r.id).status = Overwritten(db.todos[r.id].status, r.fields)
      BY <3>1, <3>3 DEF Row
    <3> HIDE DEF d, row
    <3>5. w.todos = [i \in Live(d) |-> row(i)]
      BY <1>1, <3>1, <3>2 DEF TypedDb
    <3>6. QED
      BY <2>1, <3>1, <3>4, <3>5 DEF Live
  <2>4. res.ids = {r.id} /\ res.cursor = db.version + 1
    BY <2>1 DEF Answer
  <2>5. Rewritten(db, w, r, {r.id})
    BY <1>3, <2>1, <2>2, <2>3 DEF Rewritten, Writing
  <2>6. {r.id} \in SUBSET Nat
    BY <1>1, <2>1
  <2>7. Rewritten(db, w, r, res.ids) /\ res.ids \in SUBSET Nat
    BY <2>4, <2>5, <2>6, Zenon
  <2>8. QED
    BY <1>1, <2>2, <2>4, <2>7
<1>4. CASE r.op \in {"delete", "clear"} /\ Hits(db, r) # {}
  <2>1. /\ Hits(db, r) \in SUBSET Live(db)
        /\ w = DeleteRows(NextVersion(db), Hits(db, r))
        /\ res = Answer("delete", Hits(db, r), db.version + 1)
    BY <1>1, <1>4 DEF Decided, Hits
  <2>2. /\ w.version = db.version + 1
        /\ Live(w) \subseteq Live(db)
        /\ \A i \in Live(w) : w.todos[i] = db.todos[i]
    BY <1>1, <2>1, SameTables, ConstantsTyped, Proofs!DeleteEffect
  <2>3. res.ids = Hits(db, r) /\ res.cursor = db.version + 1
    BY <2>1 DEF Answer
  <2>4. Rewritten(db, w, r, res.ids)
    BY <1>4, <2>2 DEF Rewritten, Writing
  <2>5. QED
    BY <1>1, <2>1, <2>2, <2>3, <2>4
<1>5. CASE r.op \in {"delete", "clear"} /\ Hits(db, r) = {}
  <2>1. w = db /\ res = Answer("delete", {}, 0)
    BY <1>5 DEF Decided, Found
  <2>2. Rewritten(db, w, r, res.ids)
    BY <1>5, <2>1 DEF Rewritten, Writing
  <2>3. QED
    BY <2>1, <2>2 DEF Answer
<1>6. CASE r.op = "note"
  <2>1. /\ r.id \in Live(db) /\ w = InsertNote(db, r.id)
        /\ res = Answer("note", {r.id}, 0)
    BY <1>6 DEF Decided, Found
  <2>2. w.version = db.version /\ w.todos = db.todos
    BY <1>1, <2>1, SameTables, ConstantsTyped, Proofs!NoteEffect
  <2>3. Rewritten(db, w, r, res.ids)
    BY <1>6, <2>2 DEF Rewritten, Writing, Live
  <2>4. QED
    BY <1>1, <2>1, <2>2, <2>3 DEF Answer
<1>7. QED
  BY <1>2, <1>3, <1>4, <1>5, <1>6, RequestType DEF RequestOK

(* A call that overwrites rows takes a version. *)
LEMMA DecidedCursor ==
  ASSUME Proofs!IInv, NEW r \in Requests, NEW w, NEW res, Decided(db, r, w, res),
         res.cursor = 0
  PROVE  ~ Writing(r)
<1>1. db.version \in Nat /\ NextVersion(db).version = db.version + 1
  BY StoreFacts DEF TypedDb, NextVersion
<1>2. r.op # "insert"
  BY <1>1, NumberedType DEF Decided, Answer
<1>3. r.op # "update"
  BY <1>1 DEF Decided, Answer
<1>4. QED
  BY <1>2, <1>3 DEF Writing

(* Row i holds what LastWordStands says. *)
RowStands(i) ==
    /\ IsLast(db.todos[i].version, Writers(i))
    /\ \A c \in DOMAIN db.todos[i].status :
          \E k \in Naming(i, c) : /\ IsLast(k, Naming(i, c))
                                  /\ db.todos[i].status[c] = AskedFor(k, i, c)

(* A row that a step leaves alone, while the history gains at most a call that *)
(* did not write it.                                                           *)
LEMMA RowLeftAlone ==
  ASSUME NEW i, RowStands(i), db'.todos[i] = db.todos[i],
         DOMAIN calls \subseteq DOMAIN calls',
         \A k \in DOMAIN calls : calls'[k] = calls[k],
         \A k \in DOMAIN calls' \ DOMAIN calls :
             ~ (i \in calls'[k].ids /\ Writing(calls'[k].call))
  PROVE  RowStands(i)'
<1>1. Writers(i)' = Writers(i)
  BY DEF Writers, Writing
<1>2. \A c : Naming(i, c)' = Naming(i, c)
  BY <1>1 DEF Naming, Writers
<1>3. \A c : \A k \in Naming(i, c) : AskedFor(k, i, c)' = AskedFor(k, i, c)
  BY DEF Naming, Writers, AskedFor
<1>4. QED
  BY <1>1, <1>2, <1>3 DEF RowStands, IsLast

(* The history with one call more. *)
LEMMA OneMore ==
  ASSUME calls \in Seq(Entries), NEW e \in Entries, calls' = Append(calls, e)
  PROVE  LET n == Len(calls) + 1
         IN /\ calls' \in Seq(Entries) /\ Len(calls') = n
            /\ DOMAIN calls = 1 .. Len(calls)
            /\ DOMAIN calls' = DOMAIN calls \cup {n}
            /\ n \notin DOMAIN calls /\ \A m \in DOMAIN calls' : m <= n
            /\ \A k \in DOMAIN calls : calls'[k] = calls[k]
            /\ calls'[n] = e
<1> HIDE DEF Entries
<1>1. Len(calls) \in Nat
  OBVIOUS
<1>2. QED
  BY <1>1

(* The call a caller commits has the last word on the columns it names, and on *)
(* no others.                                                                  *)
LEMMA RowWritten ==
  ASSUME calls \in Seq(Entries), NEW e \in Entries, calls' = Append(calls, e),
         NEW i \in e.ids, Writing(e.call),
         db'.todos[i].version = Len(calls) + 1,
         IF e.call.op = "insert"
           THEN db'.todos[i].status = e.call.batch[i - e.base].status
           ELSE /\ RowStands(i)
                /\ db'.todos[i].status = Overwritten(db.todos[i].status, e.call.fields)
  PROVE  RowStands(i)'
<1> SUFFICES ASSUME NEW n, n = Len(calls) + 1
             PROVE  RowStands(i)'
  OBVIOUS
<1>1. /\ DOMAIN calls' = DOMAIN calls \cup {n}
      /\ n \notin DOMAIN calls /\ \A m \in DOMAIN calls' : m <= n
      /\ \A k \in DOMAIN calls : calls'[k] = calls[k]
      /\ calls'[n] = e
  BY OneMore
<1>2. Writers(i)' = Writers(i) \cup {n}
  BY <1>1 DEF Writers, Writing
<1>3. IsLast(n, Writers(i)')
  BY <1>1, <1>2 DEF IsLast, Writers
<1>4. db'.todos[i].version = n
  OBVIOUS
<1>5. ASSUME NEW c, c \in DOMAIN db'.todos[i].status
      PROVE  \E k \in Naming(i, c)' : /\ IsLast(k, Naming(i, c)')
                                      /\ db'.todos[i].status[c] = AskedFor(k, i, c)'
  <2>1. CASE e.call.op = "insert" \/ (e.call.op = "update" /\ c \in DOMAIN e.call.fields)
    <3>1. n \in Naming(i, c)'
      BY <1>1, <1>2, <2>1 DEF Naming
    <3>2. IsLast(n, Naming(i, c)')
      BY <1>1, <3>1 DEF IsLast, Naming, Writers
    <3>3. db'.todos[i].status[c] = AskedFor(n, i, c)'
      <4>1. CASE e.call.op = "insert"
        BY <1>1, <4>1 DEF AskedFor
      <4>2. CASE e.call.op # "insert"
        BY <1>1, <1>5, <2>1, <4>2 DEF AskedFor, Overwritten
      <4>3. QED
        BY <4>1, <4>2
    <3>4. QED
      BY <3>1, <3>2, <3>3
  <2>2. CASE e.call.op = "update" /\ c \notin DOMAIN e.call.fields
    <3>1. Naming(i, c)' = Naming(i, c)
      BY <1>1, <1>2, <2>2 DEF Naming, Writers
    <3>2. c \in DOMAIN db.todos[i].status /\ db'.todos[i].status[c] = db.todos[i].status[c]
      BY <1>5, <2>2 DEF Overwritten
    <3>3. PICK k \in Naming(i, c) : /\ IsLast(k, Naming(i, c))
                                    /\ db.todos[i].status[c] = AskedFor(k, i, c)
      BY <2>2, <3>2 DEF RowStands
    <3>4. AskedFor(k, i, c)' = AskedFor(k, i, c)
      BY <1>1 DEF AskedFor, Naming, Writers
    <3>5. QED
      BY <3>1, <3>2, <3>3, <3>4
  <2>3. QED
    BY <2>1, <2>2 DEF Writing
<1>6. QED
  BY <1>3, <1>4, <1>5 DEF RowStands

LEMMA LogCommitInv ==
  ASSUME LogIInv, NEW p \in Callers, LogCommit(p)
  PROVE  Len(calls') = db'.version /\ calls' \in Seq(Entries) /\ LastWordStands'
<1> DEFINE r == request[p]
           res == result[p]
           e == Entry(p)
<1>1. /\ pc[p] = "commit" /\ db' = work[p]
      /\ calls' = IF res.cursor = 0 THEN calls ELSE Append(calls, e)
  BY DEF LogCommit, Commit, At
<1>2. TxIInv /\ Proofs!IInv /\ asked[p] = r
  BY DEF LogIInv, TxIInv
<1>3. r \in Requests /\ Decided(db, r, db', res)
  BY <1>1, <1>2, InProgress DEF Reached
<1>4. /\ Rewritten(db, db', r, res.ids)
      /\ res.ids \in SUBSET Nat
      /\ IF res.cursor = 0 THEN db'.version = db.version ELSE db'.version = db.version + 1
  BY <1>2, <1>3, DecidedRows
<1>5. db.lastId \in Nat /\ db.version \in Nat
  BY <1>2, StoreFacts DEF TypedDb
<1>6. e = [call |-> r, ids |-> res.ids, base |-> db.lastId]
  BY <1>2 DEF Entry
<1>7. e \in Entries /\ e.call = r /\ e.ids = res.ids /\ e.base = db.lastId
  BY <1>3, <1>4, <1>5, <1>6 DEF Entries
<1>8. calls \in Seq(Entries) /\ Len(calls) = db.version
  BY DEF LogIInv
<1>9. \A i \in Live(db) : RowStands(i)
  BY DEF LogIInv, LastWordStands, RowStands
<1> HIDE DEF e, r, res
<1>10. Len(calls') = db'.version /\ calls' \in Seq(Entries)
  BY <1>1, <1>4, <1>7, <1>8, OneMore
<1>11. ASSUME NEW i \in Live(db') PROVE RowStands(i)'
  <2>1. CASE res.cursor = 0
    <3>1. calls' = calls
      BY <1>1, <2>1
    <3>2. ~ (Writing(r) /\ i \in res.ids)
      BY <1>2, <1>3, <2>1, DecidedCursor
    <3>3. i \in Live(db) /\ db'.todos[i] = db.todos[i]
      BY <1>4, <3>2 DEF Rewritten
    <3>4. QED
      BY <1>9, <3>1, <3>3, RowLeftAlone
  <2>2. CASE res.cursor # 0 /\ Writing(r) /\ i \in res.ids
    <3>1. /\ calls' = Append(calls, e) /\ db'.version = Len(calls) + 1
          /\ db'.todos[i].version = db'.version
          /\ IF r.op = "insert"
               THEN db'.todos[i].status = r.batch[i - db.lastId].status
               ELSE /\ i \in Live(db)
                    /\ db'.todos[i].status = Overwritten(db.todos[i].status, r.fields)
      BY <1>1, <1>4, <1>8, <2>2 DEF Rewritten
    <3>2. QED
      BY <1>7, <1>8, <1>9, <2>2, <3>1, RowWritten
  <2>3. CASE res.cursor # 0 /\ ~ (Writing(r) /\ i \in res.ids)
    <3>1. i \in Live(db) /\ db'.todos[i] = db.todos[i]
      BY <1>4, <2>3 DEF Rewritten
    <3>2. calls' = Append(calls, e)
      BY <1>1, <2>3
    <3>3. /\ DOMAIN calls \subseteq DOMAIN calls'
          /\ \A k \in DOMAIN calls : calls'[k] = calls[k]
          /\ \A k \in DOMAIN calls' \ DOMAIN calls : calls'[k] = e
      BY <1>7, <1>8, <3>2, OneMore
    <3>4. QED
      BY <1>7, <1>9, <2>3, <3>1, <3>3, RowLeftAlone
  <2>4. QED
    BY <2>1, <2>2, <2>3
<1>12. LastWordStands'
  BY <1>11 DEF LastWordStands, RowStands
<1>13. QED
  BY <1>10, <1>12

(* A step that changes neither the database nor the history. *)
LEMMA QuietLog ==
  ASSUME LogIInv, TxIInv', UNCHANGED <<db, calls>>, asked' = request'
  PROVE  LogIInv'
<1>1. LastWordStands'
  BY DEF LogIInv, LastWordStands, Writers, Naming, AskedFor, IsLast, Live
<1>2. QED
  BY <1>1 DEF LogIInv

(* Every step of LogNext is a step of WriteTx. *)
LEMMA LogStepsAreTxSteps == [LogNext]_logVars => [TxNext]_txVars
BY DEF LogNext, logVars, txVars, LogCall, LogCommit, LogStep, LogEnd, TxNext, Advance, Statement

LEMMA LogInitInv == LogInit => LogIInv
<1> SUFFICES ASSUME LogInit PROVE LogIInv
  OBVIOUS
<1>1. TxIInv
  BY TxInitInv DEF LogInit
<1>2. db.version = 0 /\ Live(db) = {} /\ asked = request /\ calls = << >>
  BY DEF LogInit, TxInit, EmptyDb, Live
<1>3. calls \in Seq(Entries) /\ Len(calls) = 0
  BY <1>2
<1>4. LastWordStands
  BY <1>2 DEF LastWordStands
<1>5. QED
  BY <1>1, <1>2, <1>3, <1>4 DEF LogIInv

LEMMA LogStepInv ==
  ASSUME LogIInv, [LogNext]_logVars
  PROVE  LogIInv'
<1>1. TxIInv'
  BY LogStepsAreTxSteps, TxStep, TxStutterInv DEF LogIInv
<1>2. asked = request
  BY DEF LogIInv
<1>3. CASE UNCHANGED logVars
  BY <1>1, <1>2, <1>3, QuietLog DEF logVars
<1>4. CASE LogNext
  <2>1. PICK p \in Callers : LogCall(p) \/ LogCommit(p) \/ LogStep(p) \/ LogEnd(p)
    BY <1>4 DEF LogNext
  <2>2. CASE LogCall(p)
    <3>1. UNCHANGED <<db, calls>> /\ asked' = request'
      BY <1>2, <2>2 DEF LogCall, Call
    <3>2. QED
      BY <1>1, <3>1, QuietLog
  <2>3. CASE LogCommit(p)
    <3>1. asked' = request'
      BY <1>2, <2>3 DEF LogCommit, Commit
    <3>2. QED
      BY <1>1, <2>3, <3>1, LogCommitInv DEF LogIInv
  <2>4. CASE LogStep(p)
    <3>1. UNCHANGED <<db, calls, asked, request>>
      BY <2>4 DEF LogStep, Begin, Busy, CheckExists, SelectIDs, TakeVersion, TakeIDs, ChangeRows,
                  Fail, GoOn, Refuse
    <3>2. QED
      BY <1>1, <1>2, <3>1, QuietLog
  <2>5. CASE LogEnd(p)
    <3>1. UNCHANGED <<db, calls>> /\ asked' = request'
      BY <1>2, <2>5 DEF LogEnd, Reply, Die
    <3>2. QED
      BY <1>1, <3>1, QuietLog
  <2>6. QED
    BY <2>1, <2>2, <2>3, <2>4, <2>5
<1>5. QED
  BY <1>3, <1>4

(* No committed update is lost and none writes a column it was not asked for:   *)
(* every column of every row holds what the last committed call that names it   *)
(* asked for, however the calls interleaved, failed or died (buildUpdateSets,   *)
(* BEGIN IMMEDIATE).                                                            *)
THEOREM LastWord == LogSpec => []LastWordStands
<1>1. LogIInv => LastWordStands
  BY DEF LogIInv
<1>2. LogIInv /\ [LogNext]_logVars => LogIInv'
  BY LogStepInv
<1>3. QED
  BY LogInitInv, <1>1, <1>2, PTL DEF LogSpec
=============================================================================
