---------------------------- MODULE ListingProofs ----------------------------
(***************************************************************************)
(* Proofs about Listing, for any calls, page sizes, bases of the short ids *)
(* and writers: an undisturbed listing is exact, a first page that is not  *)
(* full holds every change up to its cursor, and offset paging through the *)
(* notes of a todo reads each once.                                        *)
(*                                                                         *)
(* All rest on ranks.  A page that is not full leaves out nothing, because *)
(* the first row it left out would have fewer rows before it than the      *)
(* limit (ShortPageIsAll).  The rows shown by the pages so far are those   *)
(* with fewer rows before them than the offset (PageExtends), and so are   *)
(* the notes; no write changes that of notes, which are only appended      *)
(* while a deleted todo's id never comes back (WriteKeepsReading).         *)
(***************************************************************************)
EXTENDS Listing, TodoStoreProofs, ShortIdProofs, FiniteSetTheorems

-----------------------------------------------------------------------------
(* Ranks.  Before[n] are the members of a finite set that come before n.   *)

(* In a total order a set that contains whatever comes before its members holds *)
(* exactly those that have fewer before them than it has members.               *)
LEMMA Ranks ==
  ASSUME NEW S, IsFiniteSet(S), NEW Before \in [S -> SUBSET S],
         \A n \in S : n \notin Before[n],
         \A m, n \in S : m # n => m \in Before[n] \/ n \in Before[m],
         NEW D \in SUBSET S, \A n \in D : Before[n] \subseteq D
  PROVE  \A n \in S : n \in D <=> Cardinality(Before[n]) < Cardinality(D)
<1> SUFFICES ASSUME NEW n \in S
             PROVE  n \in D <=> Cardinality(Before[n]) < Cardinality(D)
  OBVIOUS
<1>1. IsFiniteSet(D) /\ IsFiniteSet(Before[n])
  BY FS_Subset
<1>2. Cardinality(D) \in Nat /\ Cardinality(Before[n]) \in Nat
  BY <1>1, FS_CardinalityType
<1>3. CASE n \in D
  <2>1. Before[n] \in SUBSET D /\ Before[n] # D
    BY <1>3
  <2>2. Cardinality(Before[n]) <= Cardinality(D) /\ Cardinality(D) # Cardinality(Before[n])
    BY <1>1, <2>1, FS_Subset
  <2>3. QED
    BY <1>2, <1>3, <2>2
<1>4. CASE n \notin D
  <2>1. D \in SUBSET Before[n]
    BY <1>4
  <2>2. Cardinality(D) <= Cardinality(Before[n])
    BY <1>1, <2>1, FS_Subset
  <2>3. QED
    BY <1>2, <1>4, <2>2
<1>5. QED
  BY <1>3, <1>4

(* In any strict order, if those that have fewer than limit before them are     *)
(* fewer than limit, they are all there is: the first one left out would have   *)
(* only them before it.                                                         *)
LEMMA FewAreAll ==
  ASSUME NEW S, IsFiniteSet(S), NEW Before \in [S -> SUBSET S],
         \A n \in S : n \notin Before[n],
         \A n \in S : \A m \in Before[n] : Before[m] \subseteq Before[n],
         NEW limit \in Nat, NEW D \in SUBSET S,
         \A n \in S : n \in D <=> Cardinality(Before[n]) < limit,
         Cardinality(D) < limit
  PROVE  D = S
<1> DEFINE rank(i) == Cardinality(Before[i])
<1>1. \A n \in S : IsFiniteSet(Before[n]) /\ rank(n) \in Nat
  <2> SUFFICES ASSUME NEW n \in S PROVE IsFiniteSet(Before[n]) /\ rank(n) \in Nat
    OBVIOUS
  <2>1. IsFiniteSet(Before[n])
    BY FS_Subset
  <2>2. QED
    BY <2>1, FS_CardinalityType
<1>2. \A n \in S : \A m \in Before[n] : rank(m) < rank(n)
  <2> SUFFICES ASSUME NEW n \in S, NEW m \in Before[n] PROVE rank(m) < rank(n)
    OBVIOUS
  <2>1. m \in S /\ Before[m] \in SUBSET Before[n] /\ Before[m] # Before[n]
    OBVIOUS
  <2>2. rank(m) <= rank(n) /\ rank(n) # rank(m)
    BY <1>1, <2>1, FS_Subset
  <2>3. QED
    BY <1>1, <2>1, <2>2
<1>3. SUFFICES ASSUME D # S PROVE FALSE
  OBVIOUS
<1> DEFINE left == {rank(n) : n \in S \ D}
<1>4. left \in SUBSET Nat /\ left # {}
  BY <1>1, <1>3
<1>5. PICK n \in S \ D : \A m \in S \ D : rank(n) <= rank(m)
  <2>1. PICK k \in left : \A h \in left : k <= h
    BY <1>4, LeastNatural
  <2>2. PICK n \in S \ D : k = rank(n)
    BY <2>1
  <2>3. QED
    BY <2>1, <2>2
<1>6. Before[n] \in SUBSET D
  <2> SUFFICES ASSUME NEW m \in Before[n], m \notin D PROVE FALSE
    OBVIOUS
  <2>1. rank(m) < rank(n) /\ rank(n) <= rank(m)
    BY <1>2, <1>5
  <2>2. QED
    BY <1>1, <2>1
<1>7. IsFiniteSet(D) /\ Cardinality(D) \in Nat
  <2>1. IsFiniteSet(D)
    BY FS_Subset
  <2>2. QED
    BY <2>1, FS_CardinalityType
<1>8. rank(n) <= Cardinality(D)
  BY <1>6, <1>7, FS_Subset
<1>9. rank(n) < limit
  BY <1>1, <1>7, <1>8
<1>10. QED
  BY <1>5, <1>9

-----------------------------------------------------------------------------
(* ORDER BY is a strict order.                                             *)

(* How many columns an order has before the id. *)
Width(sort) == IF sort = "priority" THEN 4 ELSE IF sort = "due" THEN 3 ELSE 1

(* The columns of ORDER BY are numbers. *)
LEMMA SortColumnsType ==
  ASSUME NEW sort \in {"created", "priority", "due"}, NEW row \in Row
  PROVE  SortColumns(sort, row) \in Seq(Int) /\ Len(SortColumns(sort, row)) = Width(sort)
<1>1. /\ row.status.due \in Int /\ row.created \in Int
      /\ row.status.priority \in {"low", "medium", "high", "urgent"}
  <2>1. Statuses \subseteq Columns /\ Times \subseteq Nat
    BY ListAssumption
  <2>2. row.status \in Statuses /\ row.created \in Times
    BY DEF Row
  <2>3. row.status \in Columns
    BY <2>1, <2>2
  <2>4. row.status.due \in Int /\ row.status.priority \in {"low", "medium", "high", "urgent"}
    BY <2>3 DEF Columns, NoDue
  <2>5. row.created \in Nat
    BY <2>1, <2>2, Zenon
  <2>6. QED
    BY <2>4, <2>5
<1> DEFINE due  == <<IF row.status.due = NoDue THEN 1 ELSE 0, row.status.due, row.created>>
           rank == <<PriorityRank[row.status.priority]>>
<1>2. PriorityRank[row.status.priority] \in Int
  BY <1>1 DEF PriorityRank
<1>3. /\ due \in Seq(Int) /\ Len(due) = 3
      /\ rank \in Seq(Int) /\ Len(rank) = 1
      /\ <<row.created>> \in Seq(Int) /\ Len(<<row.created>>) = 1
  BY <1>1, <1>2
<1> HIDE DEF due, rank
<1>4. rank \o due \in Seq(Int) /\ Len(rank \o due) = 4
  <2>1. rank \in Seq(Int) /\ due \in Seq(Int) /\ Len(rank) = 1 /\ Len(due) = 3
    BY <1>3
  <2>2. rank \o due \in Seq(Int) /\ Len(rank \o due) = Len(rank) + Len(due)
    BY <2>1, ConcatProperties
  <2>3. QED
    BY <2>1, <2>2
<1>5. QED
  BY <1>3, <1>4 DEF SortColumns, due, rank, Width

(* Texts that differ still differ behind columns of one width. *)
LEMMA ConcatDiffers ==
  ASSUME NEW c \in Seq(Int), NEW d \in Seq(Int), Len(c) = Len(d),
         NEW s \in Seq(Int), NEW t \in Seq(Int), s # t
  PROVE  c \o s # d \o t
<1> SUFFICES ASSUME c \o s = d \o t PROVE s = t
  OBVIOUS
<1>1. Len(c) \in Nat /\ Len(s) \in Nat /\ Len(t) \in Nat
  BY LenProperties
<1>2. /\ Len(c \o s) = Len(c) + Len(s) /\ Len(d \o t) = Len(d) + Len(t)
      /\ \A k \in 1 .. Len(c) + Len(s) : (c \o s)[k] = IF k <= Len(c) THEN c[k] ELSE s[k - Len(c)]
      /\ \A k \in 1 .. Len(d) + Len(t) : (d \o t)[k] = IF k <= Len(d) THEN d[k] ELSE t[k - Len(d)]
  BY ConcatProperties
<1>3. Len(s) = Len(t)
  BY <1>1, <1>2
<1>4. ASSUME NEW k \in 1 .. Len(s)
      PROVE  s[k] = t[k]
  <2>1. Len(c) + k \in 1 .. Len(c) + Len(s) /\ ~ (Len(c) + k <= Len(c)) /\ (Len(c) + k) - Len(c) = k
    BY <1>1
  <2>2. (c \o s)[Len(c) + k] = s[k]
    BY <1>2, <2>1
  <2>3. (d \o t)[Len(c) + k] = t[k]
    BY <1>2, <1>3, <2>1
  <2>4. QED
    BY <2>2, <2>3
<1>5. QED
  BY <1>3, <1>4, SeqEqual

(* As no two ids have the same text (TextsDistinct), ORDER BY leaves no choice. *)
LEMMA ListOrder ==
  ASSUME IInv, NEW sort \in {"created", "priority", "due"}
  PROVE  /\ \A i \in Live(db) : ~ ListBefore(sort, i, i)
         /\ \A i, j, k \in Live(db) :
               ListBefore(sort, i, j) /\ ListBefore(sort, j, k) => ListBefore(sort, i, k)
         /\ \A i, j \in Live(db) : i # j => ListBefore(sort, i, j) \/ ListBefore(sort, j, i)
<1> DEFINE columns(i) == SortColumns(sort, db.todos[i])
           key(i)     == columns(i) \o Encode[i]
<1>1. \A i \in Live(db) : /\ columns(i) \in Seq(Int) /\ Len(columns(i)) = Width(sort)
                          /\ Encode[i] \in Seq(Int) /\ key(i) \in Seq(Int)
  <2> SUFFICES ASSUME NEW i \in Live(db)
               PROVE  /\ columns(i) \in Seq(Int) /\ Len(columns(i)) = Width(sort)
                      /\ Encode[i] \in Seq(Int) /\ key(i) \in Seq(Int)
    OBVIOUS
  <2>1. db.todos[i] \in Row /\ i \in Nat
    BY DEF IInv, TypeOK, TypedDb
  <2>2. columns(i) \in Seq(Int) /\ Len(columns(i)) = Width(sort) /\ Encode[i] \in Seq(Int)
    BY <2>1, SortColumnsType, EncodeType
  <2>3. QED
    BY <2>2, ConcatProperties
<1>2. \A i, j : ListBefore(sort, i, j) <=> TextBefore(key(i), key(j))
  BY DEF ListBefore
<1> HIDE DEF columns
<1>3. ASSUME NEW i \in Live(db), NEW j \in Live(db), i # j
      PROVE  key(i) # key(j)
  <2>1. i \in Nat /\ j \in Nat
    BY DEF IInv, TypeOK, TypedDb
  <2>2. Encode[i] # Encode[j]
    BY <1>3, <2>1, TextsDistinct
  <2>3. QED
    BY <1>1, <2>2, ConcatDiffers
<1> HIDE DEF key
<1>4. QED
  BY <1>1, <1>2, <1>3, TextBeforeIrreflexive, TextBeforeTransitive, TextBeforeTotal

-----------------------------------------------------------------------------
(* What a call of the store may do to the notes: append, and remove those of *)
(* the todos it removes, whose ids are never handed out again.               *)

NotesAppended ==
    /\ db.noteSeq \in Nat /\ db'.noteSeq \in Nat /\ db.noteSeq <= db'.noteSeq
    /\ \A i \in Live(db') : i \in Live(db) \/ i \in db.lastId + 1 .. db'.lastId
    /\ DOMAIN db.notes \subseteq 1 .. db.noteSeq
    /\ \A n \in DOMAIN db'.notes : \/ n \in DOMAIN db.notes /\ db'.notes[n] = db.notes[n]
                                   \/ n \in db.noteSeq + 1 .. db'.noteSeq
    /\ \A n \in DOMAIN db.notes : db.notes[n] \in Live(db') => n \in DOMAIN db'.notes

LEMMA InsertAppends ==
  ASSUME IInv, NEW scope \in Scopes, NEW root \in KnownIds \cup {NoTodo},
         NEW batch \in Batches, NEW now \in Times,
         InsertBatch(scope, root, batch, now)
  PROVE  NotesAppended
<1>1. root \in Live(db) \cup {NoTodo} /\ WellIndented(batch)
  BY DEF InsertBatch, BatchAccepted
<1>2. db' = InsertRows(AllocateIDs(NextVersion(db), Len(batch)), scope, root, batch, now)
  BY DEF InsertBatch
<1>3. TypedDb(db)
  BY DEF IInv, TypeOK
<1>4. Inserted(db, db', scope, root, Len(batch))
  BY <1>1, <1>2, <1>3, InsertEffect
<1>5. /\ db'.notes = db.notes /\ db'.noteSeq = db.noteSeq
      /\ Live(db') = Live(db) \cup (db.lastId + 1 .. db'.lastId)
  BY <1>4 DEF Inserted
<1>6. db.noteSeq \in Nat /\ DOMAIN db.notes \subseteq 1 .. db.noteSeq
  BY <1>3 DEF TypedDb
<1>7. QED
  BY <1>5, <1>6 DEF NotesAppended

LEMMA UpdateAppends ==
  ASSUME IInv, NEW id \in KnownIds, NEW fields \in UpdateFields, Update(id, fields)
  PROVE  NotesAppended
<1>1. TypedDb(db) /\ id \in Live(db) /\ db' = UpdateRow(NextVersion(db), id, fields)
  BY DEF IInv, TypeOK, Update
<1>2. db'.notes = db.notes /\ db'.noteSeq = db.noteSeq /\ Live(db') = Live(db)
  BY <1>1, UpdateEffect
<1>3. db.noteSeq \in Nat /\ DOMAIN db.notes \subseteq 1 .. db.noteSeq
  BY <1>1 DEF TypedDb
<1>4. QED
  BY <1>2, <1>3 DEF NotesAppended

LEMMA DeleteAppends ==
  ASSUME IInv, NEW hits \in SUBSET Live(db), DeleteHits(hits), db' # db
  PROVE  NotesAppended
<1> DEFINE gone == Cascade(db.todos, hits)
<1>1. TypedDb(db) /\ Live(db) \cap Dead(db) = {} /\ db' = DeleteRows(NextVersion(db), hits)
  BY DEF IInv, TypeOK, Tables, IdsAccountedFor, DeleteHits
<1>2. /\ Live(db') = Live(db) \ gone
      /\ db'.noteSeq = db.noteSeq
      /\ DOMAIN db'.notes = {n \in DOMAIN db.notes : db.notes[n] \notin gone}
      /\ \A n \in DOMAIN db'.notes : db'.notes[n] = db.notes[n]
  BY <1>1, DeleteEffect
<1> HIDE DEF gone
<1>3. db.noteSeq \in Nat /\ DOMAIN db.notes \subseteq 1 .. db.noteSeq
  BY <1>1 DEF TypedDb
<1>4. QED
  BY <1>2, <1>3 DEF NotesAppended

LEMMA NoteAppends ==
  ASSUME IInv, NEW id \in KnownIds, AddNote(id)
  PROVE  NotesAppended
<1>1. TypedDb(db) /\ id \in Live(db) /\ db' = InsertNote(db, id)
  BY DEF IInv, TypeOK, AddNote
<1>2. /\ db'.todos = db.todos
      /\ db'.noteSeq = db.noteSeq + 1
      /\ DOMAIN db'.notes = DOMAIN db.notes \cup {db'.noteSeq}
      /\ \A n \in DOMAIN db.notes : db'.notes[n] = db.notes[n]
  BY <1>1, NoteEffect
<1>3. db.noteSeq \in Nat /\ DOMAIN db.notes \subseteq 1 .. db.noteSeq
  BY <1>1 DEF TypedDb
<1>4. Live(db') = Live(db)
  BY <1>2 DEF Live
<1>5. QED
  BY <1>2, <1>3, <1>4 DEF NotesAppended

LEMMA NextAppends ==
  ASSUME IInv, Next, db' # db
  PROVE  NotesAppended
<1>1. CASE \E scope \in Scopes, root \in KnownIds \cup {NoTodo}, batch \in Batches, now \in Times :
              InsertBatch(scope, root, batch, now)
  BY <1>1, InsertAppends
<1>2. CASE \E root \in KnownIds \cup {NoTodo}, batch \in Batches : InsertRefused(root, batch)
  BY <1>2 DEF InsertRefused
<1>3. CASE \E id \in KnownIds, fields \in UpdateFields : Update(id, fields)
  BY <1>3, UpdateAppends
<1>4. CASE \E id \in KnownIds : NotFound(id)
  BY <1>4 DEF NotFound
<1>5. CASE \E ids \in (SUBSET KnownIds) \ {{}} : DeleteByIDs(ids)
  BY <1>5, DeleteAppends DEF DeleteByIDs, HitsByIDs
<1>6. CASE \E scope \in Scopes : DeleteByScope(scope)
  BY <1>6, DeleteAppends DEF DeleteByScope, HitsByScope
<1>7. CASE \E id \in KnownIds : AddNote(id)
  BY <1>7, NoteAppends
<1>8. QED
  BY <1>1, <1>2, <1>3, <1>4, <1>5, <1>6, <1>7 DEF Next

-----------------------------------------------------------------------------
(* Paging through the notes of a todo.                                     *)

(* The notes a reading r holds are the first ones of its todo, as many as its *)
(* offset says: a note that comes before one of them is one of them.          *)
ReadingOK(r) ==
    /\ r \in [todo : 0 .. db.lastId, offset : Nat, limit : Nat,
              ids : SUBSET (1 .. db.noteSeq), more : BOOLEAN, upTo : 0 .. db.noteSeq]
    /\ Cardinality(r.ids) = r.offset
    /\ r.todo \in Live(db) => r.ids \subseteq NotesOf(r.todo)
    /\ \A n \in NotesOf(r.todo), m \in r.ids : n < m => n \in r.ids
    /\ ~ r.more => \A n \in NotesOf(r.todo) : n <= r.upTo => n \in r.ids

LEMMA NotesType ==
  ASSUME IInv
  PROVE  /\ db.noteSeq \in Nat /\ db.lastId \in Nat
         /\ Live(db) \subseteq 1 .. db.lastId
         /\ \A id : /\ NotesOf(id) \in SUBSET (1 .. db.noteSeq)
                    /\ IsFiniteSet(NotesOf(id))
                    /\ id \notin Live(db) => NotesOf(id) = {}
<1>1. db.noteSeq \in Nat /\ db.lastId \in Nat /\ Live(db) \subseteq 1 .. db.lastId
      /\ DOMAIN db.notes \subseteq 1 .. db.noteSeq
  BY DEF IInv, TypeOK, TypedDb
<1>2. \A id : NotesOf(id) \in SUBSET (1 .. db.noteSeq)
  BY <1>1 DEF NotesOf
<1>3. \A id : id \notin Live(db) => NotesOf(id) = {}
  BY DEF NotesOf, IInv, Tables, NotesAttached
<1>4. IsFiniteSet(1 .. db.noteSeq)
  BY <1>1, FS_Interval
<1>5. \A id : IsFiniteSet(NotesOf(id))
  BY <1>2, <1>4, FS_Subset
<1>6. QED
  BY <1>1, <1>2, <1>3, <1>5

(* Writers only append, so the notes read stay the first ones. *)
LEMMA WriteKeepsReading ==
  ASSUME IInv, IInv', Stamped, NotesAppended, ReadingOK(reading), reading' = reading
  PROVE  ReadingOK(reading)'
<1> DEFINE id == reading.todo
<1>1. /\ db.lastId \in Nat /\ db'.lastId \in Nat /\ db.lastId <= db'.lastId
      /\ db.noteSeq \in Nat /\ db'.noteSeq \in Nat /\ db.noteSeq <= db'.noteSeq
  BY DEF IInv, TypeOK, TypedDb, Stamped, NotesAppended
<1>2. /\ id \in 0 .. db.lastId /\ reading.ids \in SUBSET (1 .. db.noteSeq)
      /\ reading.upTo \in 0 .. db.noteSeq
  BY DEF ReadingOK
<1>3. reading \in [todo : 0 .. db'.lastId, offset : Nat, limit : Nat,
                   ids : SUBSET (1 .. db'.noteSeq), more : BOOLEAN, upTo : 0 .. db'.noteSeq]
  <2>1. 0 .. db.lastId \subseteq 0 .. db'.lastId /\ 0 .. db.noteSeq \subseteq 0 .. db'.noteSeq
        /\ SUBSET (1 .. db.noteSeq) \subseteq SUBSET (1 .. db'.noteSeq)
    BY <1>1
  <2>2. reading \in [todo : 0 .. db.lastId, offset : Nat, limit : Nat,
                     ids : SUBSET (1 .. db.noteSeq), more : BOOLEAN, upTo : 0 .. db.noteSeq]
    BY DEF ReadingOK
  <2>3. QED
    BY <2>1, <2>2
<1>4. \A n \in NotesOf(id)' : n \in NotesOf(id) \/ n > db.noteSeq
  BY <1>1 DEF NotesAppended, NotesOf
<1>5. Cardinality(reading.ids) = reading.offset
  BY DEF ReadingOK
<1>6. ASSUME id \in Live(db')
      PROVE  reading.ids \subseteq NotesOf(id)'
  <2>1. id \in Live(db)
    BY <1>1, <1>2, <1>6 DEF NotesAppended
  <2>2. reading.ids \subseteq NotesOf(id)
    BY <2>1 DEF ReadingOK
  <2>3. \A n \in NotesOf(id) : n \in DOMAIN db'.notes
    BY <1>6 DEF NotesAppended, NotesOf
  <2>4. \A n \in reading.ids : n \in DOMAIN db'.notes /\ db'.notes[n] = db.notes[n]
    BY <1>1, <1>2, <2>2, <2>3 DEF NotesAppended
  <2>5. QED
    BY <2>2, <2>4 DEF NotesOf
<1>7. \A n \in NotesOf(id)', m \in reading.ids : n < m => n \in reading.ids
  <2>1. \A n \in NotesOf(id), m \in reading.ids : n < m => n \in reading.ids
    BY DEF ReadingOK
  <2>2. \A n \in NotesOf(id)' : n \in Int
    BY DEF NotesOf, IInv, TypeOK, TypedDb
  <2>3. QED
    BY <1>1, <1>2, <1>4, <2>1, <2>2
<1>8. ASSUME ~ reading.more, NEW n \in NotesOf(id)', n <= reading.upTo
      PROVE  n \in reading.ids
  <2>1. n \in Int
    BY DEF NotesOf, IInv, TypeOK, TypedDb
  <2>2. n \in NotesOf(id)
    BY <1>1, <1>2, <1>4, <1>8, <2>1
  <2>3. QED
    BY <1>8, <2>2 DEF ReadingOK
<1>9. QED
  BY <1>3, <1>5, <1>6, <1>7, <1>8 DEF ReadingOK

(* Nothing has been read. *)
LEMMA FreshReading ==
  ASSUME IInv, NEW id \in 0 .. db.lastId, NEW limit \in Nat
  PROVE  ReadingOK([NoReading EXCEPT !.todo = id, !.limit = limit])
<1> DEFINE r == [todo |-> id, offset |-> 0, limit |-> limit, ids |-> {}, more |-> FALSE, upTo |-> 0]
<1>1. [NoReading EXCEPT !.todo = id, !.limit = limit] = r
  <2> DEFINE e == NoReading
  <2>1. e \in [todo : {0}, offset : {0}, limit : {0}, ids : {{}}, more : {FALSE}, upTo : {0}]
    BY DEF NoReading, NoTodo
  <2> HIDE DEF e
  <2> DEFINE f == [e EXCEPT !.todo = id, !.limit = limit]
  <2>2. f \in [todo : {id}, offset : {0}, limit : {limit}, ids : {{}}, more : {FALSE}, upTo : {0}]
    BY <2>1
  <2> HIDE DEF f
  <2>3. f = r
    BY <2>2
  <2>4. QED
    BY <2>3 DEF e, f
<1>2. r \in [todo : 0 .. db.lastId, offset : Nat, limit : Nat,
             ids : SUBSET (1 .. db.noteSeq), more : BOOLEAN, upTo : 0 .. db.noteSeq]
  BY NotesType
<1>3. Cardinality(r.ids) = r.offset
  BY FS_EmptySet
<1>4. \A n \in NotesOf(r.todo) : ~ (n <= r.upTo)
  BY NotesType
<1>5. QED
  BY <1>1, <1>2, <1>3, <1>4 DEF ReadingOK

LEMMA NoReadingOK ==
  ASSUME IInv
  PROVE  ReadingOK(NoReading)
<1>1. 0 \in 0 .. db.lastId
  BY NotesType
<1>2. NoReading = [NoReading EXCEPT !.todo = 0, !.limit = 0]
  <2> DEFINE e == NoReading
  <2>1. e \in [todo : {0}, offset : {0}, limit : {0}, ids : {{}}, more : {FALSE}, upTo : {0}]
    BY DEF NoReading, NoTodo
  <2> HIDE DEF e
  <2>2. e = [e EXCEPT !.todo = 0, !.limit = 0]
    BY <2>1
  <2>3. QED
    BY <2>2 DEF e
<1>3. QED
  BY <1>1, <1>2, FreshReading

(* The next page adds the notes that follow those read: as the ids are handed   *)
(* out in order, the rank of a note is below the offset exactly if it was read. *)
LEMMA ReadKeepsReading ==
  ASSUME IInv, ReadingOK(reading), ReadNotes
  PROVE  ReadingOK(reading')
<1> DEFINE id     == reading.todo
           S      == NotesOf(id)
           Before == [n \in S |-> {m \in S : m < n}]
           end    == reading.offset + reading.limit
           page   == {n \in S : Cardinality(NotesBefore(n)) \in reading.offset .. end - 1}
           ids    == reading.ids \cup page
           more   == Cardinality(S) > end
           r      == [todo |-> id, offset |-> reading.offset + Cardinality(page),
                      limit |-> reading.limit, ids |-> ids, more |-> more, upTo |-> db.noteSeq]
<1>1. /\ reading \in [todo : 0 .. db.lastId, offset : Nat, limit : Nat,
                      ids : SUBSET (1 .. db.noteSeq), more : BOOLEAN, upTo : 0 .. db.noteSeq]
      /\ Cardinality(reading.ids) = reading.offset
      /\ id \in Live(db) => reading.ids \subseteq S
      /\ \A n \in S, m \in reading.ids : n < m => n \in reading.ids
  BY DEF ReadingOK
<1>2. /\ S \in SUBSET (1 .. db.noteSeq) /\ IsFiniteSet(S) /\ db.noteSeq \in Nat
      /\ id \notin Live(db) => S = {}
  BY NotesType
<1>3. reading' = r
  <2>1. reading' = [reading EXCEPT !.offset = @ + Cardinality(page), !.ids = @ \cup page,
                                   !.more = more, !.upTo = db.noteSeq]
    BY DEF ReadNotes
  <2>2. QED
    BY <1>1, <2>1
<1>4. Before \in [S -> SUBSET S]
  OBVIOUS
<1>5. \A n \in S : Before[n] = NotesBefore(n)
  BY DEF NotesBefore, NotesOf
<1>6. page \in SUBSET S /\ IsFiniteSet(page) /\ Cardinality(page) \in Nat
  BY <1>2, FS_Subset, FS_CardinalityType
<1>7. IsFiniteSet(reading.ids)
  <2>1. reading.ids \in SUBSET (1 .. db.noteSeq)
    BY <1>1
  <2>2. IsFiniteSet(1 .. db.noteSeq)
    BY <1>2, FS_Interval
  <2>3. QED
    BY <2>1, <2>2, FS_Subset
<1>8. \A n \in S : n \in reading.ids <=> Cardinality(Before[n]) < reading.offset
  <2>1. CASE id \in Live(db)
    <3>1. reading.ids \in SUBSET S /\ \A n \in reading.ids : Before[n] \subseteq reading.ids
      BY <1>1, <2>1
    <3>2. /\ \A n \in S : n \notin Before[n]
          /\ \A m, n \in S : m # n => m \in Before[n] \/ n \in Before[m]
      BY <1>2
    <3> HIDE DEF Before
    <3>3. QED
      BY <1>1, <1>2, <1>4, <3>1, <3>2, Ranks
  <2>2. CASE id \notin Live(db)
    BY <1>2, <2>2
  <2>3. QED
    BY <2>1, <2>2
<1>9. \A n \in S : /\ IsFiniteSet(Before[n]) /\ Cardinality(Before[n]) \in Nat
                   /\ Cardinality(Before[n]) < Cardinality(S)
                   /\ \A m \in Before[n] : Cardinality(Before[m]) <= Cardinality(Before[n])
  <2> SUFFICES ASSUME NEW n \in S
               PROVE  /\ IsFiniteSet(Before[n]) /\ Cardinality(Before[n]) \in Nat
                      /\ Cardinality(Before[n]) < Cardinality(S)
                      /\ \A m \in Before[n] : Cardinality(Before[m]) <= Cardinality(Before[n])
    OBVIOUS
  <2>1. Before[n] \in SUBSET S /\ Before[n] # S
    BY <1>2
  <2>2. \A m \in Before[n] : Before[m] \in SUBSET Before[n]
    BY <1>2
  <2> HIDE DEF Before
  <2>3. IsFiniteSet(Before[n])
    BY <1>2, <2>1, FS_Subset
  <2>4. Cardinality(Before[n]) \in Nat /\ Cardinality(S) \in Nat
    BY <1>2, <2>3, FS_CardinalityType
  <2>5. Cardinality(Before[n]) <= Cardinality(S) /\ Cardinality(S) # Cardinality(Before[n])
    BY <1>2, <2>1, FS_Subset
  <2>6. \A m \in Before[n] : Cardinality(Before[m]) <= Cardinality(Before[n])
    BY <2>2, <2>3, FS_Subset
  <2>7. QED
    BY <2>3, <2>4, <2>5, <2>6
<1>10. \A n \in S : n \in page <=> Cardinality(Before[n]) \in reading.offset .. end - 1
  BY <1>5
<1> HIDE DEF Before, page
<1>11. Cardinality(ids) = reading.offset + Cardinality(page)
  <2>1. reading.ids \cap page = {}
    BY <1>1, <1>6, <1>8, <1>9, <1>10
  <2>2. Cardinality(ids) = Cardinality(reading.ids) + Cardinality(page) - Cardinality({})
    BY <1>6, <1>7, <2>1, FS_Union
  <2>3. reading.offset \in Nat
    BY <1>1
  <2>4. QED
    BY <1>1, <1>6, <2>2, <2>3, FS_EmptySet
<1>12. ASSUME NEW n \in S, NEW m \in ids, n < m
       PROVE  n \in ids
  <2>1. CASE m \in reading.ids
    BY <1>1, <1>12, <2>1
  <2>2. CASE m \in page
    <3>1. m \in S /\ n \in Before[m]
      BY <1>6, <1>12, <2>2 DEF Before
    <3>2. Cardinality(Before[n]) <= Cardinality(Before[m]) /\ Cardinality(Before[m]) <= end - 1
      BY <1>1, <1>9, <1>10, <2>2, <3>1
    <3>3. QED
      BY <1>1, <1>8, <1>9, <1>10, <3>1, <3>2
  <2>3. QED
    BY <2>1, <2>2
<1>13. ASSUME ~ more, NEW n \in S
       PROVE  n \in ids
  <2>1. Cardinality(S) \in Nat /\ ~ (Cardinality(S) > end)
    BY <1>2, <1>13, FS_CardinalityType
  <2>2. Cardinality(Before[n]) <= end - 1
    BY <1>1, <1>9, <2>1
  <2>3. QED
    BY <1>1, <1>8, <1>9, <1>10, <2>2
<1>14. r \in [todo : 0 .. db.lastId, offset : Nat, limit : Nat,
              ids : SUBSET (1 .. db.noteSeq), more : BOOLEAN, upTo : 0 .. db.noteSeq]
  BY <1>1, <1>2, <1>6
<1>15. id \in Live(db) => ids \subseteq S
  BY <1>1, <1>6
<1> HIDE DEF ids, more, S
<1>16. QED
  BY <1>3, <1>11, <1>12, <1>13, <1>14, <1>15 DEF ReadingOK, S

-----------------------------------------------------------------------------
(* The rows a call of todo_list reads.                                     *)

LEMMA RowsType ==
  ASSUME IInv, NEW a
  PROVE  /\ BaseRows(a) \in SUBSET Live(db) /\ IsFiniteSet(BaseRows(a))
         /\ Matching(a) \in SUBSET BaseRows(a) /\ IsFiniteSet(Matching(a))
         /\ Cardinality(Matching(a)) \in Nat
         /\ PageOf(a, 0) \in SUBSET Matching(a)
         /\ \A offset : PageOf(a, offset) \in SUBSET Matching(a)
                        /\ IsFiniteSet(PageOf(a, offset))
<1>1. Live(db) \in SUBSET (1 .. db.lastId) /\ db.lastId \in Nat
  BY NotesType
<1>2. IsFiniteSet(Live(db))
  <2>1. IsFiniteSet(1 .. db.lastId)
    BY <1>1, FS_Interval
  <2>2. QED
    BY <1>1, <2>1, FS_Subset
<1>3. BaseRows(a) \in SUBSET Live(db) /\ Matching(a) \in SUBSET BaseRows(a)
  BY DEF BaseRows, Matching
<1>4. IsFiniteSet(BaseRows(a))
  BY <1>2, <1>3, FS_Subset
<1>5. IsFiniteSet(Matching(a))
  BY <1>3, <1>4, FS_Subset
<1>6. \A offset : PageOf(a, offset) \in SUBSET Matching(a)
  BY DEF PageOf
<1>7. \A offset : IsFiniteSet(PageOf(a, offset))
  BY <1>5, <1>6, FS_Subset
<1>8. QED
  BY <1>3, <1>4, <1>5, <1>6, <1>7, FS_CardinalityType

LEMMA CountsType ==
  ASSUME NEW rows, IsFiniteSet(rows)
  PROVE  CountsOf(rows) \in [StatusNames -> Nat]
<1> SUFFICES ASSUME NEW s \in StatusNames
             PROVE  Cardinality({i \in rows : db.todos[i].status.status = s}) \in Nat
  BY DEF CountsOf
<1>1. IsFiniteSet({i \in rows : db.todos[i].status.status = s})
  BY FS_Subset
<1>2. QED
  BY <1>1, FS_CardinalityType

(* A first page that is not full holds every matching row. *)
LEMMA ShortPageIsAll ==
  ASSUME IInv, NEW a \in ListArgs, PageLimit(a) \in Nat,
         Cardinality(PageOf(a, 0)) < PageLimit(a)
  PROVE  PageOf(a, 0) = Matching(a)
<1> DEFINE S      == Matching(a)
           Before == [i \in S |-> {j \in S : ListBefore(a.sort, j, i)}]
<1>1. a.sort \in {"created", "priority", "due"}
  BY ListAssumption
<1>2. S \in SUBSET Live(db) /\ IsFiniteSet(S)
  BY RowsType
<1>3. /\ \A i \in Live(db) : ~ ListBefore(a.sort, i, i)
      /\ \A i, j, k \in Live(db) :
            ListBefore(a.sort, i, j) /\ ListBefore(a.sort, j, k) => ListBefore(a.sort, i, k)
  BY <1>1, ListOrder
<1>4. Before \in [S -> SUBSET S]
  OBVIOUS
<1>5. \A i \in S : i \notin Before[i]
  BY <1>2, <1>3
<1>6. \A i \in S : \A j \in Before[i] : Before[j] \subseteq Before[i]
  BY <1>2, <1>3
<1>7. \A i \in S : i \in PageOf(a, 0) <=> Cardinality(Before[i]) \in 0 .. 0 + PageLimit(a) - 1
  BY DEF PageOf
<1>8. PageOf(a, 0) \in SUBSET S
  BY DEF PageOf
<1> HIDE DEF S, Before
<1>9. \A i \in S : Cardinality(Before[i]) \in Nat
  BY <1>2, <1>4, FS_Subset, FS_CardinalityType
<1>10. \A i \in S : i \in PageOf(a, 0) <=> Cardinality(Before[i]) < PageLimit(a)
  BY <1>7, <1>9
<1>11. PageOf(a, 0) = S
  BY <1>2, <1>4, <1>5, <1>6, <1>8, <1>10, FewAreAll
<1>12. QED
  BY <1>11 DEF S

(* Every status a row can have is one of the four. *)
LEMMA StatusOfRow ==
  ASSUME IInv, NEW i \in Live(db)
  PROVE  db.todos[i].status.status \in StatusNames
<1>1. db.todos[i] \in Row
  BY DEF IInv, TypeOK, TypedDb
<1>2. db.todos[i].status \in Columns
  BY <1>1, ListAssumption, Zenon DEF Row
<1>3. QED
  BY <1>2 DEF Columns

(* Without filters every row of the scope matches. *)
LEMMA UnfilteredIsScope ==
  ASSUME IInv, NEW a \in ListArgs, Unfiltered(a)
  PROVE  /\ Matching(a) = {i \in Live(db) : db.todos[i].scope = a.scope}
         /\ PageLimit(a) \in Nat
<1>1. /\ a.status = "all" /\ a.ids = {} /\ a.parent = AnyParent
  BY DEF Unfiltered
<1>2. WantedStatuses(a) = StatusNames
  <2>1. a.status # "active" /\ a.status # "" /\ a.status \notin StatusNames
    BY <1>1 DEF StatusNames
  <2>2. QED
    BY <1>1, <2>1 DEF WantedStatuses
<1>3. \A i \in Live(db) : db.todos[i].status.status \in StatusNames
  BY StatusOfRow
<1>4. BaseRows(a) = {i \in Live(db) : db.todos[i].scope = a.scope}
  BY <1>1 DEF BaseRows
<1>5. Matching(a) = BaseRows(a)
  BY <1>2, <1>3, <1>4 DEF Matching
<1>6. PageLimit(a) \in Nat
  <2>1. a.limit \in Int /\ DefaultLimit \in Nat /\ MaxLimit \in Nat
    BY ListAssumption
  <2>2. QED
    BY <1>1, <2>1 DEF PageLimit, Clamp
<1>7. QED
  BY <1>4, <1>5, <1>6

-----------------------------------------------------------------------------
(* Paging through rows nobody changes.                                     *)

(* The rows before row i, and those a listing has shown after k rows. *)
Ahead(a, i)  == {j \in Matching(a) : ListBefore(a.sort, j, i)}
Shown(a, k)  == {i \in Matching(a) : Cardinality(Ahead(a, i)) < k}

LEMMA PageLimitType ==
  ASSUME NEW a \in ListArgs
  PROVE  PageLimit(a) \in Nat
<1>1. a.limit \in Int /\ IsFiniteSet(a.ids) /\ DefaultLimit \in Nat /\ MaxLimit \in Nat
  BY ListAssumption
<1>2. Cardinality(a.ids) \in Nat
  BY <1>1, FS_CardinalityType
<1>3. QED
  BY <1>1, <1>2 DEF PageLimit, Clamp

LEMMA AheadRanks ==
  ASSUME IInv, NEW a \in ListArgs
  PROVE  /\ \A i \in Matching(a) : IsFiniteSet(Ahead(a, i)) /\ Cardinality(Ahead(a, i)) \in Nat
         /\ \A i \in Matching(a) : \A j \in Ahead(a, i) :
               j \in Matching(a) /\ Cardinality(Ahead(a, j)) <= Cardinality(Ahead(a, i))
         /\ \A D \in SUBSET Matching(a) :
               (\A i \in D : Ahead(a, i) \subseteq D) =>
                  \A i \in Matching(a) : i \in D <=> Cardinality(Ahead(a, i)) < Cardinality(D)
<1> DEFINE S      == Matching(a)
           Before == [i \in S |-> Ahead(a, i)]
<1>1. a.sort \in {"created", "priority", "due"}
  BY ListAssumption
<1>2. S \in SUBSET Live(db) /\ IsFiniteSet(S)
  BY RowsType
<1>3. /\ \A i \in Live(db) : ~ ListBefore(a.sort, i, i)
      /\ \A i, j, k \in Live(db) :
            ListBefore(a.sort, i, j) /\ ListBefore(a.sort, j, k) => ListBefore(a.sort, i, k)
      /\ \A i, j \in Live(db) : i # j => ListBefore(a.sort, i, j) \/ ListBefore(a.sort, j, i)
  BY <1>1, ListOrder
<1>4. \A i \in S : Ahead(a, i) \in SUBSET S
  BY DEF Ahead
<1>5. \A i \in S : IsFiniteSet(Ahead(a, i)) /\ Cardinality(Ahead(a, i)) \in Nat
  BY <1>2, <1>4, FS_Subset, FS_CardinalityType
<1>6. ASSUME NEW i \in S, NEW j \in Ahead(a, i)
      PROVE  j \in S /\ Cardinality(Ahead(a, j)) <= Cardinality(Ahead(a, i))
  <2>1. j \in S /\ Ahead(a, j) \in SUBSET Ahead(a, i)
    BY <1>2, <1>3, <1>6 DEF Ahead
  <2>2. QED
    BY <1>5, <2>1, FS_Subset
<1>7. ASSUME NEW D \in SUBSET S, \A i \in D : Ahead(a, i) \subseteq D
      PROVE  \A i \in S : i \in D <=> Cardinality(Ahead(a, i)) < Cardinality(D)
  <2>1. Before \in [S -> SUBSET S]
    BY <1>4
  <2>2. \A i \in S : i \notin Ahead(a, i)
    BY <1>2, <1>3 DEF Ahead
  <2>3. \A i, j \in S : i # j => i \in Ahead(a, j) \/ j \in Ahead(a, i)
    BY <1>2, <1>3 DEF Ahead
  <2>4. \A i \in S : Before[i] = Ahead(a, i)
    OBVIOUS
  <2> HIDE DEF Before, S
  <2>5. /\ \A i \in S : i \notin Before[i]
        /\ \A i, j \in S : i # j => i \in Before[j] \/ j \in Before[i]
        /\ \A i \in D : Before[i] \subseteq D
    BY <1>7, <2>2, <2>3, <2>4
  <2>6. \A i \in S : i \in D <=> Cardinality(Before[i]) < Cardinality(D)
    BY <1>2, <2>1, <2>5, Ranks
  <2>7. QED
    BY <2>4, <2>6
<1>8. QED
  BY <1>5, <1>6, <1>7

(* One more page continues a listing where it stands, and leaves nothing out. *)
LEMMA PageExtends ==
  ASSUME IInv, NEW a \in ListArgs, NEW k \in Nat, Cardinality(Shown(a, k)) = k,
         NEW page, page = PageOf(a, k)
  PROVE  /\ Shown(a, k) \cup page = Shown(a, k + Cardinality(page))
         /\ Cardinality(Shown(a, k + Cardinality(page))) = k + Cardinality(page)
<1> DEFINE S     == Matching(a)
           all   == Shown(a, k) \cup page
           limit == PageLimit(a)
           rank(i) == Cardinality(Ahead(a, i))
<1>1. limit \in Nat
  BY PageLimitType
<1>2. /\ page \in SUBSET S /\ IsFiniteSet(S) /\ IsFiniteSet(page)
      /\ Cardinality(page) \in Nat
  BY RowsType, FS_CardinalityType
<1>3. \A i \in S : i \in page <=> rank(i) \in k .. k + limit - 1
  BY DEF PageOf, Ahead
<1>4. \A i \in S : rank(i) \in Nat
  BY AheadRanks
<1>5. Shown(a, k) \in SUBSET S /\ \A i \in S : i \in Shown(a, k) <=> rank(i) < k
  BY DEF Shown
<1>6. all \in SUBSET S /\ \A i \in S : i \in all <=> rank(i) < k + limit
  BY <1>1, <1>2, <1>3, <1>4, <1>5
<1>7. \A i \in all : Ahead(a, i) \subseteq all
  <2> SUFFICES ASSUME NEW i \in all, NEW j \in Ahead(a, i)
               PROVE  j \in all
    OBVIOUS
  <2>1. i \in S /\ rank(i) < k + limit
    BY <1>6
  <2>2. j \in S /\ rank(j) <= rank(i)
    BY <2>1, AheadRanks
  <2> HIDE DEF all
  <2>3. QED
    BY <1>1, <1>4, <1>6, <2>1, <2>2
<1>8. Cardinality(all) = k + Cardinality(page)
  <2>1. Shown(a, k) \cap page = {}
    BY <1>1, <1>2, <1>3, <1>4, <1>5
  <2>2. IsFiniteSet(Shown(a, k))
    BY <1>2, <1>5, FS_Subset
  <2>3. Cardinality(all) = Cardinality(Shown(a, k)) + Cardinality(page) - Cardinality({})
    BY <1>2, <2>1, <2>2, FS_Union
  <2>4. QED
    BY <1>2, <2>3, FS_EmptySet
<1> HIDE DEF all
<1>9. \A i \in S : i \in all <=> rank(i) < Cardinality(all)
  BY <1>6, <1>7, AheadRanks
<1>10. all = Shown(a, k + Cardinality(page))
  BY <1>6, <1>8, <1>9 DEF Shown
<1>11. QED
  BY <1>8, <1>10 DEF all

(* The listing starts with nothing shown, and is over when as many rows as match *)
(* have been shown.                                                              *)
LEMMA ShownEnds ==
  ASSUME IInv, NEW a \in ListArgs
  PROVE  /\ Shown(a, 0) = {} /\ Cardinality(Shown(a, 0)) = 0
         /\ \A k \in Nat : Cardinality(Shown(a, k)) = k /\ ~ (k < Cardinality(Matching(a)))
                              => Shown(a, k) = Matching(a)
<1>1. \A i \in Matching(a) : Cardinality(Ahead(a, i)) \in Nat
  BY AheadRanks
<1>2. Shown(a, 0) = {}
  BY <1>1 DEF Shown
<1>3. ASSUME NEW k \in Nat, Cardinality(Shown(a, k)) = k, ~ (k < Cardinality(Matching(a)))
      PROVE  Shown(a, k) = Matching(a)
  <2>1. Shown(a, k) \in SUBSET Matching(a) /\ IsFiniteSet(Matching(a))
        /\ Cardinality(Matching(a)) \in Nat
    BY RowsType DEF Shown
  <2>2. Cardinality(Shown(a, k)) <= Cardinality(Matching(a))
    BY <2>1, FS_Subset
  <2>3. Cardinality(Matching(a)) = Cardinality(Shown(a, k))
    BY <1>3, <2>1, <2>2
  <2>4. QED
    BY <2>1, <2>3, FS_Subset
<1>4. QED
  BY <1>2, <1>3, FS_EmptySet

-----------------------------------------------------------------------------
(* The counts by status add up.                                            *)

LEMMA DisjointUnion ==
  ASSUME NEW S, NEW T, IsFiniteSet(S), IsFiniteSet(T), S \cap T = {}
  PROVE  /\ IsFiniteSet(S \cup T)
         /\ Cardinality(S) \in Nat /\ Cardinality(T) \in Nat
         /\ Cardinality(S \cup T) = Cardinality(S) + Cardinality(T)
<1>1. Cardinality(S) \in Nat /\ Cardinality(T) \in Nat
  BY FS_CardinalityType
<1>2. /\ IsFiniteSet(S \cup T)
      /\ Cardinality(S \cup T) = Cardinality(S) + Cardinality(T) - Cardinality({})
  BY FS_Union
<1>3. QED
  BY <1>1, <1>2, FS_EmptySet

LEMMA CountsAddUp ==
  ASSUME NEW rows, IsFiniteSet(rows),
         \A i \in rows : db.todos[i].status.status \in StatusNames,
         NEW W \in SUBSET StatusNames
  PROVE  SumOver(CountsOf(rows), W) =
            Cardinality({i \in rows : db.todos[i].status.status \in W})
<1> DEFINE status(i) == db.todos[i].status.status
           with(s)   == {i \in rows : status(i) = s}
           part(s)   == IF s \in W THEN with(s) ELSE {}
           wanted    == {i \in rows : status(i) \in W}
           n(s)      == IF s \in W THEN CountsOf(rows)[s] ELSE 0
<1>1. \A s : IsFiniteSet(part(s))
  <2>1. \A s : part(s) \in SUBSET rows
    OBVIOUS
  <2> HIDE DEF part
  <2>2. QED
    BY <2>1, FS_Subset
<1>2. \A s \in StatusNames : n(s) = Cardinality(part(s))
  BY FS_EmptySet DEF CountsOf
<1>3. SumOver(CountsOf(rows), W) = n("pending") + n("in_progress") + n("completed") + n("cancelled")
  BY DEF SumOver
<1>4. wanted = ((part("pending") \cup part("in_progress")) \cup part("completed"))
                 \cup part("cancelled")
  BY DEF StatusNames
<1>5. \A s, t : s # t => part(s) \cap part(t) = {}
  OBVIOUS
<1> HIDE DEF part, n, wanted
<1> DEFINE p == part("pending")  q == part("in_progress")
           c == part("completed")  x == part("cancelled")
<1>6. /\ p \cap q = {} /\ p \cap c = {} /\ p \cap x = {}
      /\ q \cap c = {} /\ q \cap x = {} /\ c \cap x = {}
  BY <1>5
<1>7. IsFiniteSet(p) /\ IsFiniteSet(q) /\ IsFiniteSet(c) /\ IsFiniteSet(x)
  BY <1>1
<1> HIDE DEF p, q, c, x
<1>8. /\ IsFiniteSet(p \cup q) /\ Cardinality(p) \in Nat /\ Cardinality(q) \in Nat
      /\ Cardinality(p \cup q) = Cardinality(p) + Cardinality(q)
  BY <1>6, <1>7, DisjointUnion
<1>9. /\ IsFiniteSet((p \cup q) \cup c) /\ Cardinality(c) \in Nat
      /\ Cardinality((p \cup q) \cup c) = Cardinality(p \cup q) + Cardinality(c)
  <2>1. (p \cup q) \cap c = {}
    BY <1>6
  <2>2. QED
    BY <1>7, <1>8, <2>1, DisjointUnion
<1>10. /\ Cardinality(x) \in Nat
       /\ Cardinality(((p \cup q) \cup c) \cup x) = Cardinality((p \cup q) \cup c) + Cardinality(x)
  <2>1. ((p \cup q) \cup c) \cap x = {}
    BY <1>6
  <2>2. QED
    BY <1>7, <1>9, <2>1, DisjointUnion
<1>11. Cardinality(wanted) = Cardinality(p) + Cardinality(q) + Cardinality(c) + Cardinality(x)
  BY <1>4, <1>8, <1>9, <1>10 DEF p, q, c, x
<1>12. /\ n("pending") = Cardinality(p) /\ n("in_progress") = Cardinality(q)
       /\ n("completed") = Cardinality(c) /\ n("cancelled") = Cardinality(x)
  BY <1>2 DEF StatusNames, p, q, c, x
<1>13. SumOver(CountsOf(rows), W) = Cardinality(wanted)
  BY <1>3, <1>11, <1>12
<1>14. QED
  BY <1>13 DEF wanted

(* The total of a call is the number of its rows with the wanted statuses. *)
LEMMA TotalsAgree ==
  ASSUME IInv, NEW a \in ListArgs
  PROVE  /\ SumOver(CountsOf(BaseRows(a)), WantedStatuses(a)) = Cardinality(Matching(a))
         /\ SumOver(CountsOf(BaseRows(a)), StatusNames) = Cardinality(BaseRows(a))
<1>1. BaseRows(a) \in SUBSET Live(db) /\ IsFiniteSet(BaseRows(a))
  BY RowsType
<1>2. \A i \in BaseRows(a) : db.todos[i].status.status \in StatusNames
  BY <1>1, StatusOfRow
<1>3. WantedStatuses(a) \in SUBSET StatusNames
  <2>1. a.status \in {"", "active", "all"} \cup StatusNames
    BY ListAssumption
  <2>2. CASE a.status = "active"
    <3>1. WantedStatuses(a) = {"pending", "in_progress"}
      BY <2>2 DEF WantedStatuses, StatusNames
    <3>2. QED
      BY <3>1 DEF StatusNames
  <2>3. CASE a.status = "all"
    <3>1. WantedStatuses(a) = StatusNames
      BY <2>3 DEF WantedStatuses, StatusNames
    <3>2. QED
      BY <3>1
  <2>4. CASE a.status = "" /\ a.ids = {}
    <3>1. WantedStatuses(a) = {"pending", "in_progress"}
      BY <2>4 DEF WantedStatuses, StatusNames
    <3>2. QED
      BY <3>1 DEF StatusNames
  <2>5. CASE a.status = "" /\ a.ids # {}
    <3>1. WantedStatuses(a) = StatusNames
      BY <2>5 DEF WantedStatuses, StatusNames
    <3>2. QED
      BY <3>1
  <2>6. CASE a.status \in StatusNames
    <3>1. a.status # "" /\ a.status # "active" /\ a.status # "all"
      BY <2>6 DEF StatusNames
    <3>2. WantedStatuses(a) = {a.status}
      BY <2>6, <3>1 DEF WantedStatuses
    <3>3. QED
      BY <2>6, <3>2
  <2>7. QED
    BY <2>1, <2>2, <2>3, <2>4, <2>5, <2>6
<1>4. {i \in BaseRows(a) : db.todos[i].status.status \in WantedStatuses(a)} = Matching(a)
  BY DEF Matching
<1>5. {i \in BaseRows(a) : db.todos[i].status.status \in StatusNames} = BaseRows(a)
  BY <1>2
<1>6. SumOver(CountsOf(BaseRows(a)), WantedStatuses(a)) = Cardinality(Matching(a))
  BY <1>1, <1>2, <1>3, <1>4, CountsAddUp
<1>7. SumOver(CountsOf(BaseRows(a)), StatusNames) = Cardinality(BaseRows(a))
  BY <1>1, <1>2, <1>5, CountsAddUp
<1>8. QED
  BY <1>6, <1>7

-----------------------------------------------------------------------------
(* The inductive invariant, in parts: the store's own; what the call in     *)
(* progress and the answer hold; the promise of a first page that is not    *)
(* full; where a listing stands that nothing has disturbed; the notes read. *)

InList == stage \in {"counts", "total", "items"}

CallOK ==
    InList => list \in [call : ListArgs, offset : Nat, cursor : 0 .. db.version,
                        counts : [StatusNames -> Nat], total : Nat]

AnswerOK ==
    answer # NoAnswer => /\ answer.call \in ListArgs
                         /\ answer.offset \in Nat /\ answer.total \in Nat
                         /\ answer.cursor \in 0 .. db.version
                         /\ IsFiniteSet(DOMAIN answer.items)

SeedOK ==
    answer # NoAnswer /\ answer.offset = 0 /\ Unfiltered(answer.call)
       /\ Cardinality(DOMAIN answer.items) < PageLimit(answer.call) => Covers(answer)

QuietCall ==
    quiet /\ InList =>
        /\ seen = Shown(list.call, list.offset) /\ Cardinality(seen) = list.offset
        /\ stage # "counts" => list.counts = CountsOf(BaseRows(list.call))
        /\ stage = "items" => list.total = Cardinality(Matching(list.call))

Received == answer.offset + Cardinality(DOMAIN answer.items)

QuietAnswer ==
    quiet /\ stage = "idle" /\ answer # NoAnswer =>
        /\ seen = Shown(answer.call, Received) /\ Cardinality(seen) = Received
        /\ answer.counts = CountsOf(BaseRows(answer.call))
        /\ answer.total = Cardinality(Matching(answer.call))
        /\ answer.hasMore = (Received < answer.total)

Stages ==
    /\ stage \in {"idle", "counts", "total", "items", "notes"}
    /\ stage = "notes" => answer = NoAnswer

Lists == CallOK /\ AnswerOK /\ SeedOK /\ QuietCall /\ QuietAnswer

ListInv == IInv /\ Stages /\ Lists /\ ReadingOK(reading)

(* The invariant gives the checked ones. *)
LEMMA ListInvImplies ==
  ASSUME ListInv
  PROVE  ListTypeOK /\ QuietListingIsExact /\ ListSeedsFeed /\ NotesReadOnce
<1>1. /\ IInv /\ Stages /\ CallOK /\ AnswerOK /\ SeedOK /\ QuietAnswer /\ ReadingOK(reading)
  BY DEF ListInv, Lists
<1>2. ListTypeOK
  <2>1. TypeOK /\ stage \in {"idle", "counts", "total", "items", "notes"}
    BY <1>1 DEF IInv, Stages
  <2>2. InList => list.call \in ListArgs /\ list.cursor \in 0 .. db.version /\ list.offset \in Nat
    BY <1>1 DEF CallOK
  <2>3. answer # NoAnswer => answer.cursor \in 0 .. db.version /\ answer.total \in Nat
    BY <1>1 DEF AnswerOK
  <2>4. reading.ids \subseteq 1 .. db.noteSeq
    BY <1>1 DEF ReadingOK
  <2>5. QED
    BY <2>1, <2>2, <2>3, <2>4 DEF ListTypeOK, InList
<1>3. QuietListingIsExact
  <2> SUFFICES ASSUME IsAnswer, quiet
               PROVE  /\ Cardinality(seen) = Received
                      /\ ~ answer.hasMore => seen = Matching(answer.call)
                      /\ answer.total = SumOver(answer.counts, WantedStatuses(answer.call))
                      /\ SumOver(answer.counts, StatusNames) = Cardinality(BaseRows(answer.call))
    BY DEF QuietListingIsExact, Received
  <2>1. /\ seen = Shown(answer.call, Received) /\ Cardinality(seen) = Received
        /\ answer.counts = CountsOf(BaseRows(answer.call))
        /\ answer.total = Cardinality(Matching(answer.call))
        /\ answer.hasMore = (Received < answer.total)
    BY <1>1 DEF QuietAnswer, IsAnswer
  <2>2. answer.call \in ListArgs /\ Received \in Nat
    BY <1>1, FS_CardinalityType DEF AnswerOK, IsAnswer, Received
  <2>3. ~ answer.hasMore => seen = Matching(answer.call)
    BY <1>1, <2>1, <2>2, ShownEnds
  <2>4. /\ answer.total = SumOver(answer.counts, WantedStatuses(answer.call))
        /\ SumOver(answer.counts, StatusNames) = Cardinality(BaseRows(answer.call))
    BY <1>1, <2>1, <2>2, TotalsAgree
  <2>5. QED
    BY <2>1, <2>3, <2>4
<1>4. ListSeedsFeed
  BY <1>1 DEF SeedOK, ListSeedsFeed, IsAnswer
<1>5. NotesReadOnce
  BY <1>1 DEF ReadingOK, NotesReadOnce
<1>6. QED
  BY <1>2, <1>3, <1>4, <1>5

LEMMA ListInitInv == ListInit => ListInv
<1> SUFFICES ASSUME ListInit PROVE ListInv
  OBVIOUS
<1>1. IInv
  BY InitInv DEF ListInit
<1>2. stage = "idle" /\ answer = NoAnswer /\ reading = NoReading
  BY DEF ListInit
<1>3. ReadingOK(reading)
  BY <1>1, <1>2, NoReadingOK
<1>4. Lists
  BY <1>2 DEF Lists, CallOK, AnswerOK, SeedOK, QuietCall, QuietAnswer, InList
<1>5. QED
  BY <1>1, <1>2, <1>3, <1>4 DEF ListInv, Stages

(* A call that has no list in progress and no answer. *)
LEMMA NoListInv ==
  ASSUME IInv', stage' \in {"idle", "notes"}, answer' = NoAnswer, ReadingOK(reading)'
  PROVE  ListInv'
<1>1. Lists'
  BY DEF Lists, CallOK, AnswerOK, SeedOK, QuietCall, QuietAnswer, InList
<1>2. QED
  BY <1>1 DEF ListInv, Stages

-----------------------------------------------------------------------------
(* A writer commits between two statements of a reader.                    *)

(* What a page promises up to its cursor is kept by every write, as a write     *)
(* stamps what it changes above the cursor (Stamped).                           *)
LEMMA WriteKeepsSeed ==
  ASSUME IInv, IInv', Stamped, AnswerOK, SeedOK, answer' = answer
  PROVE  SeedOK'
<1> SUFFICES ASSUME answer # NoAnswer, Covers(answer)
             PROVE  Covers(answer)'
  BY DEF SeedOK
<1>1. /\ db.version \in Nat /\ db'.version \in Nat /\ answer.cursor \in 0 .. db.version
      /\ db.version <= db'.version
  BY DEF IInv, TypeOK, TypedDb, AnswerOK, Stamped
<1>2. ASSUME NEW i \in Live(db'), db'.todos[i].scope = answer.call.scope,
             db'.todos[i].version <= answer.cursor
      PROVE  i \in DOMAIN answer.items /\ answer.items[i] = db'.todos[i]
  <2>1. RowChangeIsStamped(i)
    BY DEF Stamped
  <2>2. i \in Live(db) /\ db'.todos[i] = db.todos[i]
    BY <1>1, <1>2, <2>1 DEF RowChangeIsStamped
  <2>3. QED
    BY <1>2, <2>2 DEF Covers
<1>3. ASSUME NEW i \in Dead(db'), db'.deletions[i].version <= answer.cursor
      PROVE  i \notin DOMAIN answer.items
  <2>1. CASE i \in Dead(db)
    <3>1. db'.deletions[i] = db.deletions[i]
      BY <2>1 DEF Stamped, TombstoneStays
    <3>2. QED
      BY <1>3, <2>1, <3>1 DEF Covers
  <2>2. CASE i \notin Dead(db)
    <3>1. i \in Live(db) /\ i \notin Live(db')
      BY <2>2, <1>3 DEF Stamped, IInv, Tables, IdsAccountedFor
    <3>2. RowChangeIsStamped(i)
      BY <3>1 DEF Stamped
    <3>3. db'.deletions[i].version = db'.version /\ db.version < db'.version
      BY <3>1, <3>2 DEF RowChangeIsStamped
    <3>4. QED
      BY <1>1, <1>3, <3>3
  <2>3. QED
    BY <2>1, <2>2
<1>4. QED
  BY <1>2, <1>3 DEF Covers

(* What a quiet listing has shown depends on the rows only. *)
LEMMA WriteKeepsQuiet ==
  ASSUME QuietCall, QuietAnswer, quiet' => quiet /\ db'.todos = db.todos,
         UNCHANGED <<stage, list, answer, seen>>
  PROVE  QuietCall' /\ QuietAnswer'
<1> SUFFICES ASSUME db'.todos = db.todos, quiet, quiet'
             PROVE  QuietCall' /\ QuietAnswer'
  BY DEF QuietCall, QuietAnswer
<1>1. QuietCall'
  <2> SUFFICES ASSUME InList
               PROVE  /\ seen = Shown(list.call, list.offset)' /\ Cardinality(seen) = list.offset
                      /\ stage # "counts" => list.counts = CountsOf(BaseRows(list.call))'
                      /\ stage = "items" => list.total = Cardinality(Matching(list.call))'
    BY DEF QuietCall, InList
  <2>1. seen = Shown(list.call, list.offset)' /\ Cardinality(seen) = list.offset
    <3>1. seen = Shown(list.call, list.offset) /\ Cardinality(seen) = list.offset
      BY DEF QuietCall
    <3>2. list' = list
      OBVIOUS
    <3>3. Matching(list.call)' = Matching(list.call)
      BY <3>2 DEF Matching, BaseRows, Live
    <3>4. \A i : Ahead(list.call, i)' = Ahead(list.call, i)
      BY <3>2, <3>3 DEF Ahead, ListBefore
    <3>5. Shown(list.call, list.offset)' = Shown(list.call, list.offset)
      BY <3>2, <3>3, <3>4 DEF Shown
    <3> QED
      BY <3>1, <3>5
  <2>2. stage # "counts" => list.counts = CountsOf(BaseRows(list.call))'
    BY DEF QuietCall, BaseRows, CountsOf, Live
  <2>3. stage = "items" => list.total = Cardinality(Matching(list.call))'
    BY DEF QuietCall, Matching, BaseRows, Live
  <2>4. QED
    BY <2>1, <2>2, <2>3
<1>2. QuietAnswer'
  <2>1. answer' = answer
    OBVIOUS
  <2>2. Matching(answer.call)' = Matching(answer.call)
    BY <2>1 DEF Matching, BaseRows, Live
  <2>3. \A i : Ahead(answer.call, i)' = Ahead(answer.call, i)
    BY <2>1, <2>2 DEF Ahead, ListBefore
  <2>4. Shown(answer.call, Received)' = Shown(answer.call, Received)
    BY <2>1, <2>2, <2>3 DEF Shown, Received
  <2>5. CountsOf(BaseRows(answer.call))' = CountsOf(BaseRows(answer.call))
    BY <2>1 DEF CountsOf, BaseRows, Live
  <2> QED
    BY <2>1, <2>2, <2>4, <2>5 DEF QuietAnswer, Received
<1>3. QED
  BY <1>1, <1>2

LEMMA WriteMeanwhileInv ==
  ASSUME ListInv, WriteMeanwhile
  PROVE  ListInv'
<1>1. /\ IInv /\ Stages /\ CallOK /\ AnswerOK /\ SeedOK /\ QuietCall /\ QuietAnswer
      /\ ReadingOK(reading)
  BY DEF ListInv, Lists
<1>2. /\ Next /\ db' # db /\ quiet' = (quiet /\ db'.todos = db.todos)
      /\ UNCHANGED <<stage, list, answer, seen, reading>>
  BY DEF WriteMeanwhile
<1>3. IInv' /\ Stamped
  BY <1>1, <1>2, NextInv
<1>4. NotesAppended
  BY <1>1, <1>2, NextAppends
<1>5. ReadingOK(reading)'
  BY <1>1, <1>2, <1>3, <1>4, WriteKeepsReading
<1>6. db.version \in Nat /\ db'.version \in Nat /\ db.version <= db'.version
  BY <1>1, <1>3 DEF IInv, TypeOK, TypedDb, Stamped
<1>7. CallOK'
  <2> SUFFICES ASSUME InList
               PROVE  list \in [call : ListArgs, offset : Nat, cursor : 0 .. db'.version,
                                counts : [StatusNames -> Nat], total : Nat]
    BY <1>2 DEF CallOK, InList
  <2>1. 0 .. db.version \subseteq 0 .. db'.version
    BY <1>6
  <2>2. list \in [call : ListArgs, offset : Nat, cursor : 0 .. db.version,
                  counts : [StatusNames -> Nat], total : Nat]
    BY <1>1 DEF CallOK
  <2>3. QED
    BY <2>1, <2>2
<1>8. AnswerOK'
  BY <1>1, <1>2, <1>6 DEF AnswerOK
<1>9. SeedOK'
  BY <1>1, <1>2, <1>3, WriteKeepsSeed
<1>10. QuietCall' /\ QuietAnswer'
  BY <1>1, <1>2, WriteKeepsQuiet
<1>11. Stages'
  BY <1>1, <1>2 DEF Stages
<1>12. QED
  BY <1>3, <1>5, <1>7, <1>8, <1>9, <1>10, <1>11 DEF ListInv, Lists

-----------------------------------------------------------------------------
(* The statements of todo_list.                                            *)

(* The invariant of the store is about db and reply, which no reader touches. *)
LEMMA ReaderKeeps ==
  ASSUME IInv, UNCHANGED <<db, reply>>
  PROVE  IInv'
BY StutterInv DEF vars

(* The first statement, of a first page or of the next one. *)
LEMMA ReadCursorInv ==
  ASSUME ListInv, NEW a \in ListArgs, NEW offset \in Nat, ReadCursor(a, offset),
         AnswerOK', SeedOK',
         quiet' => seen' = Shown(a, offset) /\ Cardinality(seen') = offset
  PROVE  ListInv'
<1> DEFINE new == [call |-> a, offset |-> offset, cursor |-> db.version,
                   counts |-> NoCounts, total |-> 0]
<1>1. IInv
  BY DEF ListInv
<1>2. /\ stage' = "counts" /\ list' = new /\ reading' = NoReading /\ db' = db /\ reply' = reply
  BY DEF ReadCursor
<1>3. IInv'
  BY <1>1, <1>2, ReaderKeeps
<1>4. db.version \in Nat
  BY <1>1 DEF IInv, TypeOK, TypedDb
<1>5. new \in [call : ListArgs, offset : Nat, cursor : 0 .. db.version,
               counts : [StatusNames -> Nat], total : Nat]
  BY <1>4 DEF NoCounts
<1>6. CallOK'
  BY <1>2, <1>5 DEF CallOK
<1>7. list'.call = a /\ list'.offset = offset
  BY <1>2
<1> HIDE DEF new
<1>8. QuietCall'
  <2> SUFFICES ASSUME quiet'
               PROVE  seen' = Shown(list.call, list.offset)' /\ Cardinality(seen') = list'.offset
    BY <1>2 DEF QuietCall
  <2>1. seen' = Shown(a, offset) /\ Cardinality(seen') = offset
    OBVIOUS
  <2>2. QED
    BY <1>2, <1>7, <2>1 DEF Shown, Ahead, Matching, BaseRows, ListBefore, Live
<1>9. QuietAnswer'
  BY <1>2 DEF QuietAnswer
<1>10. ReadingOK(reading)'
  <2>1. ReadingOK(NoReading)
    BY <1>1, NoReadingOK
  <2>2. QED
    BY <1>2, <2>1 DEF ReadingOK, NotesOf, Live
<1>11. QED
  BY <1>2, <1>3, <1>6, <1>8, <1>9, <1>10 DEF ListInv, Lists, Stages

LEMMA StartListInv ==
  ASSUME ListInv, NEW a \in ListArgs, StartList(a)
  PROVE  ListInv'
<1>1. ReadCursor(a, 0) /\ answer' = NoAnswer /\ seen' = {} /\ quiet' = TRUE
  BY DEF StartList
<1>2. AnswerOK' /\ SeedOK'
  BY <1>1 DEF AnswerOK, SeedOK
<1>3. Shown(a, 0) = {} /\ Cardinality(Shown(a, 0)) = 0
  BY ShownEnds DEF ListInv
<1>4. QED
  BY <1>1, <1>2, <1>3, ReadCursorInv

LEMMA NextPageInv ==
  ASSUME ListInv, NextPage
  PROVE  ListInv'
<1>1. /\ stage = "idle" /\ answer.hasMore /\ ReadCursor(answer.call, Received)
      /\ UNCHANGED <<answer, seen, quiet>>
  BY DEF NextPage, Received
<1>2. answer # NoAnswer
  BY <1>1 DEF NoAnswer
<1>3. AnswerOK /\ SeedOK /\ QuietAnswer
  BY DEF ListInv, Lists
<1>4. answer.call \in ListArgs /\ Received \in Nat
  BY <1>2, <1>3, FS_CardinalityType DEF AnswerOK, Received
<1>5. db' = db
  BY <1>1 DEF ReadCursor
<1>6. AnswerOK' /\ SeedOK'
  BY <1>1, <1>3, <1>5 DEF AnswerOK, SeedOK, Covers, Live, Dead
<1>7. quiet' => seen' = Shown(answer.call, Received) /\ Cardinality(seen') = Received
  BY <1>1, <1>2, <1>3 DEF QuietAnswer
<1>8. QED
  BY <1>1, <1>4, <1>6, <1>7, ReadCursorInv

(* What the second and the third statement leave alone. *)
LEMMA AnswerStays ==
  ASSUME ListInv, UNCHANGED <<db, reply, answer, seen, quiet, reading>>,
         stage' \in {"total", "items"}
  PROVE  IInv' /\ Stages' /\ AnswerOK' /\ SeedOK' /\ QuietAnswer' /\ ReadingOK(reading)'
<1>1. IInv /\ AnswerOK /\ SeedOK /\ ReadingOK(reading)
  BY DEF ListInv, Lists
<1>2. IInv'
  BY <1>1, ReaderKeeps
<1>3. AnswerOK' /\ SeedOK'
  BY <1>1 DEF AnswerOK, SeedOK, Covers, Live, Dead
<1>4. QuietAnswer' /\ Stages'
  BY DEF QuietAnswer, Stages
<1>5. ReadingOK(reading)'
  BY <1>1 DEF ReadingOK, NotesOf, Live
<1>6. QED
  BY <1>2, <1>3, <1>4, <1>5

LEMMA CountByStatusInv ==
  ASSUME ListInv, CountByStatus
  PROVE  ListInv'
<1> DEFINE counts == CountsOf(BaseRows(list.call))
<1>1. /\ stage = "counts" /\ stage' = "total" /\ list' = [list EXCEPT !.counts = counts]
      /\ UNCHANGED <<db, reply, answer, seen, quiet, reading>>
  BY DEF CountByStatus
<1>2. IInv /\ CallOK /\ QuietCall
  BY DEF ListInv, Lists
<1>3. list \in [call : ListArgs, offset : Nat, cursor : 0 .. db.version,
                counts : [StatusNames -> Nat], total : Nat]
  BY <1>1, <1>2 DEF CallOK, InList
<1>4. counts \in [StatusNames -> Nat]
  BY <1>2, RowsType, CountsType
<1> HIDE DEF counts
<1>5. /\ list' \in [call : ListArgs, offset : Nat, cursor : 0 .. db.version,
                    counts : [StatusNames -> Nat], total : Nat]
      /\ list'.call = list.call /\ list'.offset = list.offset /\ list'.counts = counts
  BY <1>1, <1>3, <1>4
<1>6. CallOK'
  BY <1>1, <1>5 DEF CallOK
<1>7. QuietCall'
  <2> SUFFICES ASSUME quiet
               PROVE  /\ seen = Shown(list.call, list.offset)' /\ Cardinality(seen) = list'.offset
                      /\ list'.counts = CountsOf(BaseRows(list.call))'
    BY <1>1 DEF QuietCall
  <2>1. seen = Shown(list.call, list.offset) /\ Cardinality(seen) = list.offset
    BY <1>1, <1>2 DEF QuietCall, InList
  <2>2. seen = Shown(list.call, list.offset)'
    BY <1>1, <1>5, <2>1 DEF Shown, Ahead, Matching, BaseRows, ListBefore, Live
  <2>3. list'.counts = CountsOf(BaseRows(list.call))'
    BY <1>1, <1>5 DEF counts, CountsOf, BaseRows, Live
  <2>4. QED
    BY <1>5, <2>1, <2>2, <2>3
<1>8. QED
  BY <1>1, <1>6, <1>7, AnswerStays DEF ListInv, Lists

LEMMA CountTotalInv ==
  ASSUME ListInv, CountTotal
  PROVE  ListInv'
<1> DEFINE total == Cardinality(Matching(list.call))
<1>1. /\ stage = "total" /\ stage' = "items" /\ list' = [list EXCEPT !.total = total]
      /\ UNCHANGED <<db, reply, answer, seen, quiet, reading>>
  BY DEF CountTotal
<1>2. IInv /\ CallOK /\ QuietCall
  BY DEF ListInv, Lists
<1>3. list \in [call : ListArgs, offset : Nat, cursor : 0 .. db.version,
                counts : [StatusNames -> Nat], total : Nat]
  BY <1>1, <1>2 DEF CallOK, InList
<1>4. total \in Nat
  BY <1>2, RowsType
<1> HIDE DEF total
<1>5. /\ list' \in [call : ListArgs, offset : Nat, cursor : 0 .. db.version,
                    counts : [StatusNames -> Nat], total : Nat]
      /\ list'.call = list.call /\ list'.offset = list.offset
      /\ list'.counts = list.counts /\ list'.total = total
  BY <1>1, <1>3, <1>4
<1>6. CallOK'
  BY <1>1, <1>5 DEF CallOK
<1>7. QuietCall'
  <2> SUFFICES ASSUME quiet
               PROVE  /\ seen = Shown(list.call, list.offset)' /\ Cardinality(seen) = list'.offset
                      /\ list'.counts = CountsOf(BaseRows(list.call))'
                      /\ list'.total = Cardinality(Matching(list.call))'
    BY <1>1 DEF QuietCall
  <2>1. /\ seen = Shown(list.call, list.offset) /\ Cardinality(seen) = list.offset
        /\ list.counts = CountsOf(BaseRows(list.call))
    BY <1>1, <1>2 DEF QuietCall, InList
  <2>2. seen = Shown(list.call, list.offset)'
    BY <1>1, <1>5, <2>1 DEF Shown, Ahead, Matching, BaseRows, ListBefore, Live
  <2>3. list'.counts = CountsOf(BaseRows(list.call))'
    BY <1>1, <1>5, <2>1 DEF CountsOf, BaseRows, Live
  <2>4. list'.total = Cardinality(Matching(list.call))'
    BY <1>1, <1>5 DEF total, Matching, BaseRows, Live
  <2>5. QED
    BY <1>5, <2>1, <2>2, <2>3, <2>4
<1>8. QED
  BY <1>1, <1>6, <1>7, AnswerStays DEF ListInv, Lists

(* The rows, and with them the answer. *)
LEMMA ReadItemsInv ==
  ASSUME ListInv, ReadItems
  PROVE  ListInv'
<1> DEFINE a    == list.call
           page == PageOf(a, list.offset)
           read == [i \in page |-> db.todos[i]]
<1>1. /\ stage = "items" /\ stage' = "idle" /\ answer' = AnswerWith(page)
      /\ seen' = seen \cup page
      /\ UNCHANGED <<db, reply, quiet, reading>>
  BY DEF ReadItems
<1>2. IInv /\ CallOK /\ QuietCall /\ ReadingOK(reading)
  BY DEF ListInv, Lists
<1>3. /\ a \in ListArgs /\ list.offset \in Nat /\ list.cursor \in 0 .. db.version
      /\ list.total \in Nat
  BY <1>1, <1>2 DEF CallOK, InList
<1>4. /\ page \in SUBSET Matching(a) /\ Matching(a) \in SUBSET BaseRows(a)
      /\ BaseRows(a) \in SUBSET Live(db) /\ IsFiniteSet(page)
  BY <1>2, RowsType
<1>5. DOMAIN read = page /\ \A i \in page : read[i] = db.todos[i]
  OBVIOUS
<1>6. /\ answer'.call = a /\ answer'.offset = list.offset /\ answer'.cursor = list.cursor
      /\ answer'.counts = list.counts /\ answer'.total = list.total
      /\ answer'.items = read
      /\ answer'.hasMore = (list.offset + Cardinality(page) < list.total)
  BY <1>1 DEF AnswerWith
<1> HIDE DEF page, read, a
<1>7. AnswerOK'
  BY <1>1, <1>3, <1>4, <1>5, <1>6 DEF AnswerOK
<1>8. SeedOK'
  <2> SUFFICES ASSUME list.offset = 0, Unfiltered(a), Cardinality(page) < PageLimit(a)
               PROVE  Covers(answer)'
    BY <1>5, <1>6 DEF SeedOK
  <2>1. /\ Matching(a) = {i \in Live(db) : db.todos[i].scope = a.scope}
        /\ PageLimit(a) \in Nat
    BY <1>2, <1>3, UnfilteredIsScope
  <2>2. page = PageOf(a, 0)
    BY DEF page
  <2>3. page = Matching(a)
    BY <1>2, <1>3, <2>1, <2>2, ShortPageIsAll
  <2>4. \A i \in Live(db) : db.todos[i].scope = a.scope => i \in page
    BY <2>1, <2>3
  <2>5. \A i \in Dead(db) : i \notin page
    BY <1>2, <1>4 DEF IInv, Tables, IdsAccountedFor
  <2>6. QED
    BY <1>1, <1>5, <1>6, <2>4, <2>5 DEF Covers, Live, Dead
<1>9. QuietCall' /\ CallOK' /\ Stages'
  BY <1>1 DEF QuietCall, CallOK, InList, Stages
<1>10. QuietAnswer'
  <2> DEFINE end == list.offset + Cardinality(page)
  <2> SUFFICES ASSUME quiet
               PROVE  /\ seen' = Shown(answer.call, Received)' /\ Cardinality(seen') = end
                      /\ answer'.counts = CountsOf(BaseRows(answer.call))'
                      /\ answer'.total = Cardinality(Matching(answer.call))'
                      /\ answer'.hasMore = (end < answer'.total)
    BY <1>1, <1>5, <1>6 DEF QuietAnswer, Received
  <2>1. /\ seen = Shown(a, list.offset) /\ Cardinality(seen) = list.offset
        /\ list.counts = CountsOf(BaseRows(a)) /\ list.total = Cardinality(Matching(a))
    BY <1>1, <1>2 DEF QuietCall, InList, a
  <2>2. page = PageOf(a, list.offset)
    BY DEF page
  <2>3. /\ Shown(a, list.offset) \cup page = Shown(a, end)
        /\ Cardinality(Shown(a, end)) = end
    BY <1>2, <1>3, <2>1, <2>2, PageExtends
  <2>4. seen' = Shown(a, end) /\ Cardinality(seen') = end
    BY <1>1, <2>1, <2>3
  <2>5. Received' = end
    BY <1>5, <1>6 DEF Received
  <2> HIDE DEF end
  <2>6. seen' = Shown(answer.call, Received)'
    BY <1>1, <1>6, <2>4, <2>5 DEF Shown, Ahead, Matching, BaseRows, ListBefore, Live
  <2>7. answer'.counts = CountsOf(BaseRows(answer.call))'
    BY <1>1, <1>6, <2>1 DEF CountsOf, BaseRows, Live
  <2>8. answer'.total = Cardinality(Matching(answer.call))'
    BY <1>1, <1>6, <2>1 DEF Matching, BaseRows, Live
  <2>9. answer'.hasMore = (end < answer'.total)
    BY <1>6 DEF end
  <2>10. QED
    BY <2>4, <2>6, <2>7, <2>8, <2>9
<1>11. IInv'
  BY <1>1, <1>2, ReaderKeeps
<1>12. ReadingOK(reading)'
  BY <1>1, <1>2 DEF ReadingOK, NotesOf, Live
<1>13. QED
  BY <1>7, <1>8, <1>9, <1>10, <1>11, <1>12 DEF ListInv, Lists

-----------------------------------------------------------------------------
(* The statements of todo_get_notes, and failures.                         *)

LEMMA CheckTodoInv ==
  ASSUME ListInv, NEW id, NEW r, CheckTodo(id, r), id \in Live(db) => ReadingOK(r)
  PROVE  ListInv'
<1>1. /\ stage' \in {"idle", "notes"} /\ answer' = NoAnswer /\ UNCHANGED <<db, reply>>
      /\ \/ id \in Live(db) /\ reading' = r
         \/ reading' = NoReading
  BY DEF CheckTodo
<1>2. IInv
  BY DEF ListInv
<1>3. IInv'
  BY <1>1, <1>2, ReaderKeeps
<1>4. ReadingOK(NoReading)
  BY <1>2, NoReadingOK
<1>5. ReadingOK(reading)'
  BY <1>1, <1>4 DEF ReadingOK, NotesOf, Live
<1>6. QED
  BY <1>1, <1>3, <1>5, NoListInv

LEMMA StartNotesInv ==
  ASSUME ListInv, NEW id \in KnownIds, NEW limit \in NoteLimits, StartNotes(id, limit)
  PROVE  ListInv'
<1> DEFINE r == [NoReading EXCEPT !.todo = id, !.limit = limit]
<1>1. CheckTodo(id, r)
  BY DEF StartNotes
<1>2. IInv
  BY DEF ListInv
<1>3. limit \in Nat
  BY ListAssumption
<1>4. ASSUME id \in Live(db) PROVE ReadingOK(r)
  <2>1. id \in 0 .. db.lastId
    BY <1>2, <1>4, NotesType
  <2>2. QED
    BY <1>2, <1>3, <2>1, FreshReading
<1> HIDE DEF r
<1>5. QED
  BY <1>1, <1>4, CheckTodoInv

LEMMA NextNotesInv ==
  ASSUME ListInv, NextNotes
  PROVE  ListInv'
<1>1. CheckTodo(reading.todo, reading) /\ ReadingOK(reading)
  BY DEF NextNotes, ListInv
<1>2. QED
  BY <1>1, CheckTodoInv

LEMMA ReadNotesInv ==
  ASSUME ListInv, ReadNotes
  PROVE  ListInv'
<1>1. stage = "notes" /\ stage' = "idle" /\ UNCHANGED <<db, reply, list, answer, seen, quiet>>
  BY DEF ReadNotes
<1>2. IInv /\ AnswerOK /\ SeedOK /\ ReadingOK(reading)
  BY DEF ListInv, Lists
<1>3. IInv'
  BY <1>1, <1>2, ReaderKeeps
<1>4. ReadingOK(reading')
  BY <1>2, ReadKeepsReading
<1>5. ReadingOK(reading)'
  BY <1>1, <1>4 DEF ReadingOK, NotesOf, Live
<1>6. answer' = NoAnswer
  BY <1>1 DEF ListInv, Stages
<1>7. QED
  BY <1>1, <1>3, <1>5, <1>6, NoListInv

LEMMA ReadFailsInv ==
  ASSUME ListInv, ReadFails
  PROVE  ListInv'
<1>1. /\ stage' = "idle" /\ answer' = NoAnswer /\ reading' = NoReading
      /\ UNCHANGED <<db, reply>>
  BY DEF ReadFails
<1>2. IInv
  BY DEF ListInv
<1>3. IInv'
  BY <1>1, <1>2, ReaderKeeps
<1>4. ReadingOK(NoReading)
  BY <1>2, NoReadingOK
<1>5. ReadingOK(reading)'
  BY <1>1, <1>4 DEF ReadingOK, NotesOf, Live
<1>6. QED
  BY <1>1, <1>3, <1>5, NoListInv

LEMMA ListStutterInv ==
  ASSUME ListInv, UNCHANGED <<vars, listVars>>
  PROVE  ListInv'
<1>1. UNCHANGED <<db, reply, stage, list, answer, seen, quiet, reading>>
  BY DEF vars, listVars
<1>2. IInv'
  BY <1>1, ReaderKeeps DEF ListInv
<1>3. ReadingOK(reading)'
  BY <1>1 DEF ListInv, ReadingOK, NotesOf, Live
<1>4. Stages' /\ CallOK' /\ AnswerOK' /\ SeedOK'
  BY <1>1 DEF ListInv, Lists, Stages, CallOK, InList, AnswerOK, SeedOK, Covers, Live, Dead
<1>5. QuietCall' /\ QuietAnswer'
  <2>1. QuietCall /\ QuietAnswer /\ quiet' = quiet /\ db'.todos = db.todos
    BY <1>1 DEF ListInv, Lists
  <2>2. QED
    BY <1>1, <2>1, WriteKeepsQuiet
<1>6. QED
  BY <1>2, <1>3, <1>4, <1>5 DEF ListInv, Lists

LEMMA ListStepInv ==
  ASSUME ListInv, [ListNext]_<<vars, listVars>>
  PROVE  ListInv'
<1>1. CASE WriteMeanwhile
  BY <1>1, WriteMeanwhileInv
<1>2. CASE \E a \in ListArgs : StartList(a)
  BY <1>2, StartListInv
<1>3. CASE NextPage
  BY <1>3, NextPageInv
<1>4. CASE CountByStatus
  BY <1>4, CountByStatusInv
<1>5. CASE CountTotal
  BY <1>5, CountTotalInv
<1>6. CASE ReadItems
  BY <1>6, ReadItemsInv
<1>7. CASE \E id \in KnownIds, limit \in NoteLimits : StartNotes(id, limit)
  BY <1>7, StartNotesInv
<1>8. CASE NextNotes
  BY <1>8, NextNotesInv
<1>9. CASE ReadNotes
  BY <1>9, ReadNotesInv
<1>10. CASE ReadFails
  BY <1>10, ReadFailsInv
<1>11. CASE UNCHANGED <<vars, listVars>>
  BY <1>11, ListStutterInv
<1>12. QED
  BY <1>1, <1>2, <1>3, <1>4, <1>5, <1>6, <1>7, <1>8, <1>9, <1>10, <1>11 DEF ListNext

-----------------------------------------------------------------------------
(* Theorems.                                                               *)

(* The invariant holds of every state of the readers, whatever the writers do. *)
THEOREM ListInvariant == ListSpec => []ListInv
<1>1. ListInit => ListInv
  BY ListInitInv
<1>2. ListInv /\ [ListNext]_<<vars, listVars>> => ListInv'
  BY ListStepInv
<1>3. QED
  BY <1>1, <1>2, PTL DEF ListSpec

(* Calls in progress and answers have the parts their stage has read. *)
THEOREM ListTypeCorrect == ListSpec => []ListTypeOK
<1>1. ListInv => ListTypeOK
  BY ListInvImplies
<1>2. QED
  BY <1>1, ListInvariant, PTL

(* While no row changes, the pages of a listing are disjoint and in the end complete, *)
(* in every order and for every page size, and the total and the counts, though read  *)
(* by statements of their own, agree with them (Store.List).                          *)
THEOREM QuietListing == ListSpec => []QuietListingIsExact
<1>1. ListInv => QuietListingIsExact
  BY ListInvImplies
<1>2. QED
  BY <1>1, ListInvariant, PTL

(* Whatever is committed between the four statements of List and since: a first page  *)
(* of the whole scope that is not full holds every change up to its cursor.           *)
THEOREM ShortPageSeeds == ListSpec => []ListSeedsFeed
<1>1. ListInv => ListSeedsFeed
  BY ListInvImplies
<1>2. QED
  BY <1>1, ListInvariant, PTL

(* Offset paging through the notes of a todo reads each of them once and misses none, *)
(* although notes are added and todos deleted between the pages (ListNotes).          *)
THEOREM NotesOnce == ListSpec => []NotesReadOnce
<1>1. ListInv => NotesReadOnce
  BY ListInvImplies
<1>2. QED
  BY <1>1, ListInvariant, PTL

=============================================================================
