-------------------------- MODULE ChangeFeedProofs ---------------------------
(***************************************************************************)
(* Proofs about ChangeFeed, for any agents, page sizes, scopes and         *)
(* outlines: up to its cursor an agent has missed nothing except in        *)
(* versions that a page boundary has cut in two.                           *)
(*                                                                         *)
(* A write step is handled by what TodoStoreProofs shows of every write    *)
(* (Stamped): what it changes it stamps above every cursor.  An agent that *)
(* adopts the cursor of its own write is handled by what the answer of a   *)
(* write names (ReplyNamesTheCommit).  A ReadPage step is by counting: an  *)
(* answer with no more rows than the limit holds all the changes, and a    *)
(* longer one a prefix of them.                                            *)
(***************************************************************************)
EXTENDS ChangeFeed, TodoStoreProofs, FiniteSetTheorems

-----------------------------------------------------------------------------
(* Pages.                                                                  *)

(* LIMIT n takes all the rows when they are at most n, and never takes a row *)
(* before one it leaves out.                                                 *)
LEMMA FirstRowsFacts ==
  ASSUME NEW rows, IsFiniteSet(rows), NEW n \in Nat, NEW S \in FirstRows(rows, n)
  PROVE  /\ S \subseteq rows
         /\ IsFiniteSet(S)
         /\ Cardinality(S) \in Nat
         /\ Cardinality(S) <= n
         /\ Cardinality(S) < n => S = rows
         /\ \A q \in S, r \in rows \ S : Before(q, r)
<1>1. /\ S \in SUBSET rows
      /\ Cardinality(S) = IF n < Cardinality(rows) THEN n ELSE Cardinality(rows)
      /\ \A q \in S, r \in rows \ S : Before(q, r)
  BY DEF FirstRows
<1>2. IsFiniteSet(S) /\ (Cardinality(rows) = Cardinality(S) => S = rows)
  BY <1>1, FS_Subset
<1>3. Cardinality(S) \in Nat /\ Cardinality(rows) \in Nat
  BY <1>2, FS_CardinalityType
<1>4. QED
  BY <1>1, <1>2, <1>3

(* What is left out of a page whose next_cursor is next is above next or in a *)
(* version the page cuts.                                                     *)
LEMMA PageFacts ==
  ASSUME NEW all, IsFiniteSet(all), \A r \in all : r.version \in Nat,
         NEW limit \in Nat \ {0}, NEW cur \in Nat,
         NEW fetched \in FirstRows(all, limit + 1), NEW page \in FirstRows(fetched, limit),
         NEW next \in NextCursor(page, Cardinality(fetched) > limit, cur)
  PROVE  /\ page \subseteq all
         /\ next = cur \/ next \in Versions(all)
         /\ \A r \in all \ page :
               r.version <= next => r.version \in Versions(page) \cap Versions(all \ page)
<1>1. /\ fetched \subseteq all /\ IsFiniteSet(fetched) /\ Cardinality(fetched) \in Nat
      /\ Cardinality(fetched) < limit + 1 => fetched = all
      /\ \A q \in fetched, r \in all \ fetched : Before(q, r)
  <2>1. limit + 1 \in Nat
    OBVIOUS
  <2>2. QED
    BY <2>1, FirstRowsFacts
<1>2. /\ page \subseteq fetched /\ Cardinality(page) <= limit
      /\ Cardinality(page) < limit => page = fetched
      /\ \A q \in page, r \in fetched \ page : Before(q, r)
  <2>1. limit \in Nat
    OBVIOUS
  <2>2. QED
    BY <1>1, <2>1, FirstRowsFacts
<1>3. CASE Cardinality(fetched) > limit
  <2>1. PICK last \in LastRows(page) : next = last.version
    BY <1>3 DEF NextCursor
  <2>2. last \in page
    BY <2>1 DEF LastRows
  <2>3. next \in Versions(all)
    BY <1>1, <1>2, <2>1, <2>2 DEF Versions
  <2>4. ASSUME NEW r \in all \ page, r.version <= next
        PROVE  r.version \in Versions(page) \cap Versions(all \ page)
    <3>1. Before(last, r)
      BY <1>1, <1>2, <2>2
    <3>2. last.version <= r.version
      <4>1. last.version \in Nat /\ r.version \in Nat
        BY <1>1, <1>2, <2>2
      <4>2. QED
        BY <3>1, <4>1 DEF Before
    <3>3. last.version = r.version
      BY <1>1, <1>2, <2>1, <2>2, <2>4, <3>2
    <3>4. QED
      BY <2>2, <3>3 DEF Versions
  <2>5. QED
    BY <1>1, <1>2, <2>3, <2>4
<1>4. CASE ~ (Cardinality(fetched) > limit)
  <2>1. next = cur
    BY <1>4 DEF NextCursor
  <2>2. fetched = all
    BY <1>1, <1>4
  <2>3. page = fetched
    <3>1. Cardinality(fetched) \in Nat /\ Cardinality(fetched) <= limit
      BY <1>1, <1>4
    <3>2. Cardinality(page) = IF limit < Cardinality(fetched) THEN limit ELSE Cardinality(fetched)
      BY DEF FirstRows
    <3>3. Cardinality(page) = Cardinality(fetched)
      BY <3>1, <3>2
    <3>4. QED
      BY <1>1, <1>2, <3>3, FS_Subset
  <2>4. QED
    BY <2>1, <2>2, <2>3
<1>5. QED
  BY <1>3, <1>4

-----------------------------------------------------------------------------
(* The rows of a diff answer.                                              *)

(* The changes of a scope are finitely many, have versions up to the current *)
(* one, and belong to rows and tombstones of the scope.                      *)
LEMMA ChangesFacts ==
  ASSUME IInv, NEW scope, NEW since \in Nat
  PROVE  /\ IsFiniteSet(Changes(scope, since))
         /\ \A r \in Changes(scope, since) :
               /\ r.version \in 1 .. db.version
               /\ \/ /\ r.op = "upsert" /\ r.id \in Live(db)
                     /\ db.todos[r.id].scope = scope
                     /\ db.todos[r.id].version = r.version
                  \/ r.op = "delete" /\ r.id \in Dead(db)
<1> DEFINE L == {j \in Live(db) : db.todos[j].scope = scope /\ db.todos[j].version > since}
           D == {j \in Dead(db) : db.deletions[j].scope = scope /\ db.deletions[j].version > since}
           up(i) == [op |-> "upsert", id |-> i, version |-> db.todos[i].version]
           del(i) == [op |-> "delete", id |-> i, version |-> db.deletions[i].version]
           upf == [i \in L |-> up(i)]
           delf == [i \in D |-> del(i)]
<1>1. IsFiniteSet(L) /\ IsFiniteSet(D)
  <2>1. db.lastId \in Nat /\ Live(db) \subseteq 1 .. db.lastId /\ Dead(db) \subseteq 1 .. db.lastId
    BY DEF IInv, TypeOK, TypedDb
  <2>2. IsFiniteSet(1 .. db.lastId)
    BY <2>1, FS_Interval
  <2>3. L \in SUBSET (1 .. db.lastId) /\ D \in SUBSET (1 .. db.lastId)
    BY <2>1
  <2>4. QED
    BY <2>2, <2>3, FS_Subset
<1>2. Upserts(scope, since) = {up(i) : i \in L} /\ Deletes(scope, since) = {del(i) : i \in D}
  BY DEF Upserts, Deletes
<1>3. upf \in Surjection(L, {up(i) : i \in L}) /\ delf \in Surjection(D, {del(i) : i \in D})
  <2> HIDE DEF up, del, L, D
  <2> QED BY DEF Surjection
<1>4. IsFiniteSet({up(i) : i \in L}) /\ IsFiniteSet({del(i) : i \in D})
  <2> HIDE DEF up, del, L, D, upf, delf
  <2> QED BY <1>1, <1>3, FS_Surjection
<1>5. IsFiniteSet(Changes(scope, since))
  BY <1>2, <1>4, FS_Union DEF Changes
<1>6. /\ \A i \in Live(db) : db.todos[i].version \in 1 .. db.version
      /\ \A i \in Dead(db) : db.deletions[i].version \in 1 .. db.version
  BY DEF IInv, Tables, OneCallPerVersion
<1>7. ASSUME NEW r \in Changes(scope, since)
      PROVE  /\ r.version \in 1 .. db.version
             /\ \/ /\ r.op = "upsert" /\ r.id \in Live(db)
                   /\ db.todos[r.id].scope = scope
                   /\ db.todos[r.id].version = r.version
                \/ r.op = "delete" /\ r.id \in Dead(db)
  <2>1. CASE r \in Upserts(scope, since)
    <3>1. PICK i \in L : r = up(i)
      BY <1>2, <2>1
    <3>2. QED
      BY <1>6, <3>1
  <2>2. CASE r \in Deletes(scope, since)
    <3>1. PICK i \in D : r = del(i)
      BY <1>2, <2>2
    <3>2. QED
      BY <1>6, <3>1
  <2>3. QED
    BY <2>1, <2>2 DEF Changes
<1>8. QED
  BY <1>5, <1>7

-----------------------------------------------------------------------------
(* The inductive invariant.  CaughtUpToCursor is inductive once no cursor is     *)
(* above meta.version: what a writer changes then carries a version above every  *)
(* cursor.                                                                       *)

FeedInv == IInv /\ FeedTypeOK /\ CaughtUpToCursor /\ NoPhantoms

(* An empty database and agents at cursor 0. *)
LEMMA FeedInitInv == FeedInit => FeedInv
<1> SUFFICES ASSUME FeedInit PROVE FeedInv
  OBVIOUS
<1>1. IInv
  BY InitInv DEF FeedInit
<1>2. Live(db) = {} /\ Dead(db) = {} /\ db.version = 0 /\ db.lastId = 0
  BY DEF FeedInit, Init, EmptyDb, Live, Dead
<1>3. \A c \in Clients : DOMAIN replica[c] = {}
  BY DEF FeedInit
<1>4. FeedTypeOK
  BY <1>1, <1>2, <1>3 DEF FeedInit, FeedTypeOK, IInv
<1>5. CaughtUpToCursor /\ NoPhantoms
  BY <1>2, <1>3 DEF CaughtUpToCursor, NoPhantoms
<1>6. QED
  BY <1>1, <1>4, <1>5 DEF FeedInv

(* What a stamped step leaves true of an agent whose cursor and replica it does  *)
(* not touch: changes carry a version above the cursor.                         *)
LEMMA StampedKeepsDelivered ==
  ASSUME FeedInv, IInv', Stamped, NEW c \in Clients,
         cursor'[c] = cursor[c], cut'[c] = cut[c], replica'[c] = replica[c]
  PROVE  /\ \A i \in Live(db') : db'.todos[i].version \notin cut'[c] => RowDelivered(c, i)'
         /\ \A i \in Dead(db') : db'.deletions[i].version \notin cut'[c]
                                     => TombstoneDelivered(c, i)'
<1>1. /\ db.version \in Nat /\ db'.version \in Nat
      /\ cursor[c] \in Nat /\ cursor[c] <= db.version
  BY CountersAreNaturals DEF FeedInv, FeedTypeOK, IInv, TypeOK, TypedDb
<1>2. ASSUME NEW i \in Live(db'), db'.todos[i].version \notin cut'[c]
      PROVE  RowDelivered(c, i)'
  <2>1. CASE i \in Live(db) /\ db'.todos[i] = db.todos[i]
    BY <1>2, <2>1 DEF FeedInv, CaughtUpToCursor, RowDelivered
  <2>2. CASE db.version < db'.version /\ db'.todos[i].version = db'.version
    BY <1>1, <2>2 DEF RowDelivered
  <2>3. QED
    BY <2>1, <2>2 DEF Stamped, RowChangeIsStamped
<1>3. ASSUME NEW i \in Dead(db'), db'.deletions[i].version \notin cut'[c]
      PROVE  TombstoneDelivered(c, i)'
  <2>1. CASE i \in Dead(db)
    <3>1. db'.deletions[i] = db.deletions[i]
      BY <2>1 DEF Stamped, TombstoneStays
    <3>2. QED
      BY <1>3, <2>1, <3>1 DEF FeedInv, CaughtUpToCursor, TombstoneDelivered
  <2>2. CASE i \in Live(db)
    <3>1. i \notin Live(db')
      BY DEF IInv, Tables, IdsAccountedFor
    <3>2. /\ db.version < db'.version
          /\ db'.deletions[i] = [scope |-> db.todos[i].scope, version |-> db'.version]
      BY <2>2, <3>1 DEF Stamped, RowChangeIsStamped
    <3>3. db'.deletions[i].version = db'.version
      BY <3>2
    <3>4. QED
      BY <1>1, <3>2, <3>3 DEF TombstoneDelivered
  <2>3. QED
    BY <2>1, <2>2 DEF Stamped
<1>4. QED
  BY <1>2, <1>3

(* The state of a row in a replica is still one of that row or of a row gone. *)
LEMMA StampedKeepsGenuine ==
  ASSUME FeedInv, Stamped, NEW c \in Clients, NEW i \in DOMAIN replica[c],
         db'.version \in Nat
  PROVE  \/ /\ i \in Live(db')
            /\ db'.todos[i].scope = ScopeOf[c]
            /\ replica[c][i].version <= db'.todos[i].version
            /\ replica[c][i].version = db'.todos[i].version
                  => replica[c][i] = Image(db'.todos[i])
         \/ /\ i \in Dead(db')
            /\ db'.deletions[i].scope = ScopeOf[c]
            /\ replica[c][i].version < db'.deletions[i].version
<1>1. db.version \in Nat
  BY CountersAreNaturals DEF FeedInv
<1>2. CASE i \in Dead(db)
  <2>1. i \in Dead(db') /\ db'.deletions[i] = db.deletions[i]
    BY <1>2 DEF Stamped, TombstoneStays
  <2>2. i \notin Live(db)
    BY <1>2 DEF FeedInv, IInv, Tables, IdsAccountedFor
  <2>3. QED
    BY <2>1, <2>2 DEF FeedInv, NoPhantoms
<1>3. CASE i \in Live(db)
  <2>1. /\ db.todos[i].scope = ScopeOf[c]
        /\ replica[c][i].version <= db.todos[i].version
        /\ replica[c][i].version = db.todos[i].version => replica[c][i] = Image(db.todos[i])
    <3>1. i \notin Dead(db)
      BY <1>3 DEF FeedInv, IInv, Tables, IdsAccountedFor
    <3>2. QED
      BY <3>1 DEF FeedInv, NoPhantoms
  <2>2. db.todos[i].version \in 1 .. db.version
    BY <1>3 DEF FeedInv, IInv, Tables, OneCallPerVersion
  <2>3. replica[c][i].version \in Nat
    BY DEF FeedInv, FeedTypeOK
  <2>4. CASE i \in Live(db')
    <3>1. /\ db'.todos[i].scope = ScopeOf[c]
          /\ \/ db'.todos[i] = db.todos[i]
             \/ db.version < db'.version /\ db'.todos[i].version = db'.version
      BY <1>3, <2>1, <2>4 DEF Stamped, RowChangeIsStamped
    <3>2. QED
      BY <1>1, <2>1, <2>2, <2>3, <2>4, <3>1
  <2>5. CASE i \notin Live(db')
    <3>1. /\ db.version < db'.version /\ i \in Dead(db')
          /\ db'.deletions[i] = [scope |-> db.todos[i].scope, version |-> db'.version]
      BY <1>3, <2>5 DEF Stamped, RowChangeIsStamped
    <3>2. db'.deletions[i].version = db'.version /\ db'.deletions[i].scope = ScopeOf[c]
      BY <2>1, <3>1
    <3>3. QED
      BY <1>1, <2>1, <2>2, <2>3, <3>1, <3>2
  <2>6. QED
    BY <2>4, <2>5
<1>4. QED
  BY <1>2, <1>3 DEF FeedInv, NoPhantoms

(* Ids and versions handed out stay so: the types survive a stamped step. *)
LEMMA StampedKeepsTypes ==
  ASSUME FeedInv, IInv', Stamped
  PROVE  /\ db.version \in Nat /\ db'.version \in Nat /\ db.version <= db'.version
         /\ \A c \in Clients :
               /\ DOMAIN replica[c] \subseteq 1 .. db'.lastId
               /\ \A i \in DOMAIN replica[c] : replica[c][i].version \in 1 .. db'.version
         /\ curVer \in [Clients -> 0 .. db'.version]
         /\ cursor \in [Clients -> 0 .. db'.version]
         /\ cut \in [Clients -> SUBSET (1 .. db'.version)]
<1>1. /\ db.version \in Nat /\ db'.version \in Nat /\ db.version <= db'.version
      /\ db.lastId \in Nat /\ db'.lastId \in Nat /\ db.lastId <= db'.lastId
  BY CountersAreNaturals DEF FeedInv, IInv, TypeOK, TypedDb, Stamped
<1>2. 0 .. db.version \subseteq 0 .. db'.version /\ 1 .. db.version \subseteq 1 .. db'.version
      /\ 1 .. db.lastId \subseteq 1 .. db'.lastId
  BY <1>1
<1>3. /\ curVer \in [Clients -> 0 .. db'.version]
      /\ cursor \in [Clients -> 0 .. db'.version]
      /\ cut \in [Clients -> SUBSET (1 .. db'.version)]
  <2>1. curVer \in [Clients -> 0 .. db'.version] /\ cursor \in [Clients -> 0 .. db'.version]
    BY <1>2 DEF FeedInv, FeedTypeOK
  <2>2. cut \in [Clients -> SUBSET (1 .. db'.version)]
    BY <1>2 DEF FeedInv, FeedTypeOK
  <2>3. QED
    BY <2>1, <2>2
<1>4. QED
  BY <1>1, <1>2, <1>3 DEF FeedInv, FeedTypeOK

(* A write leaves what agents know of older versions true: it stamps what it *)
(* changes above every cursor.                                              *)
LEMMA WriteInv ==
  ASSUME FeedInv, Write
  PROVE  FeedInv'
<1>1. IInv' /\ Stamped /\ UNCHANGED feedVars
  BY NextInv DEF FeedInv, Write
<1>2. /\ db'.version \in Nat
      /\ \A c \in Clients : /\ DOMAIN replica[c] \subseteq 1 .. db'.lastId
                             /\ \A i \in DOMAIN replica[c] : replica[c][i].version \in 1 .. db'.version
      /\ curVer \in [Clients -> 0 .. db'.version]
      /\ cursor \in [Clients -> 0 .. db'.version]
      /\ cut \in [Clients -> SUBSET (1 .. db'.version)]
  BY <1>1, StampedKeepsTypes
<1>3. \A c \in Clients : cursor'[c] = cursor[c] /\ cut'[c] = cut[c] /\ replica'[c] = replica[c]
  BY <1>1 DEF feedVars
<1>4. FeedTypeOK'
  BY <1>1, <1>2 DEF feedVars, FeedInv, FeedTypeOK, IInv
<1>5. CaughtUpToCursor'
  BY <1>1, <1>3, StampedKeepsDelivered DEF CaughtUpToCursor
<1>6. NoPhantoms'
  BY <1>1, <1>2, <1>3, StampedKeepsGenuine DEF NoPhantoms
<1>7. QED
  BY <1>1, <1>4, <1>5, <1>6 DEF FeedInv

(* Only a write that changes rows answers with a cursor. *)
LEMMA CursorOfAnswer ==
  ASSUME Next, reply'.cursor # 0
  PROVE  reply'.op \in {"insert", "update", "delete"}
<1>1. ASSUME NEW hits, DeleteHits(hits) PROVE reply'.op = "delete"
  BY <1>1 DEF DeleteHits
<1>2. ASSUME reply' = Refused PROVE FALSE
  BY <1>2 DEF Refused
<1>3. QED
  BY <1>1, <1>2 DEF Next, InsertBatch, InsertRefused, Update, NotFound, DeleteByIDs, DeleteByScope,
                    AddNote

(* Its answer names every row the call left changed: only rows that are gone may *)
(* be missing from it.                                                           *)
LEMMA AnswerNamesRows ==
  ASSUME IInv, Next, reply'.cursor # 0
  PROVE  /\ reply'.cursor = db'.version
         /\ \A i \in Live(db') : db'.todos[i].version = db'.version => i \in reply'.ids
<1>1. IInv' /\ ReplyNamesTheCommit'
  BY NextInv
<1>2. reply'.cursor = db'.version /\ reply'.ids # {}
  BY <1>1 DEF ReplyNamesTheCommit
<1>3. CASE reply'.op \in {"insert", "update"}
  BY <1>1, <1>2, <1>3 DEF ReplyNamesTheCommit
<1>4. CASE reply'.op = "delete"
  <2>1. PICK j \in Dead(db') : db'.deletions[j].version = db'.version
    BY <1>1, <1>2, <1>4 DEF ReplyNamesTheCommit
  <2>2. \A i \in Live(db') : db'.todos[i].version # db'.version
    BY <1>1, <2>1 DEF IInv, Tables, OneCallPerVersion
  <2>3. QED
    BY <1>2, <2>2
<1>5. QED
  BY <1>3, <1>4, CursorOfAnswer

(* An agent that adopts the cursor of its own write has what the answer names;   *)
(* what it had not read before, and what the write removed without naming it, is *)
(* what it passes over.                                                          *)
LEMMA OwnWriteInv ==
  ASSUME FeedInv, NEW c \in Adopters, OwnWrite(c)
  PROVE  FeedInv'
<1> DEFINE put == reply'.ids \cap Live(db')
           new == ApplyReply(replica[c])
<1>1. /\ Next /\ reply'.cursor # 0
      /\ \A i \in put : db'.todos[i].scope = ScopeOf[c]
      /\ UNCHANGED <<phase, curVer, repeated>>
  BY DEF OwnWrite
<1>2. c \in Clients
  BY ClientsAssumption
<1>3. /\ cursor' = [cursor EXCEPT ![c] = reply'.cursor]
      /\ replica' = [replica EXCEPT ![c] = new]
      /\ cut' = [cut EXCEPT ![c] = @ \cup PassedOver(c)]
  BY DEF OwnWrite
<1>4. IInv /\ IInv' /\ Stamped
  BY <1>1, NextInv DEF FeedInv
<1>5. /\ reply'.cursor = db'.version
      /\ \A i \in Live(db') : db'.todos[i].version = db'.version => i \in reply'.ids
  BY <1>1, <1>4, AnswerNamesRows
<1>6. /\ db.version \in Nat /\ db'.version \in Nat /\ db.version <= db'.version
      /\ \A d \in Clients : /\ DOMAIN replica[d] \subseteq 1 .. db'.lastId
                             /\ \A i \in DOMAIN replica[d] : replica[d][i].version \in 1 .. db'.version
      /\ curVer \in [Clients -> 0 .. db'.version]
      /\ cursor \in [Clients -> 0 .. db'.version]
      /\ cut \in [Clients -> SUBSET (1 .. db'.version)]
  BY <1>4, StampedKeepsTypes
<1>7. \A i : /\ i \in DOMAIN new <=> i \in put \/ (i \in DOMAIN replica[c] /\ i \notin reply'.ids)
             /\ i \in put => new[i] = Image(db'.todos[i])
             /\ i \in DOMAIN new /\ i \notin put => new[i] = replica[c][i]
  <2>1. new = [i \in (DOMAIN replica[c] \cup put) \ (reply'.ids \ put) |->
                  IF i \in put THEN Image(db'.todos[i]) ELSE replica[c][i]]
    BY DEF ApplyReply
  <2>2. put \subseteq reply'.ids
    OBVIOUS
  <2> HIDE DEF put, new
  <2>3. QED
    BY <2>1, <2>2
<1>8. /\ cursor'[c] = db'.version
      /\ replica'[c] = new
      /\ cut'[c] = cut[c] \cup PassedOver(c)
      /\ \A d \in Clients \ {c} : cursor'[d] = cursor[d] /\ replica'[d] = replica[d]
                                 /\ cut'[d] = cut[d]
      /\ DOMAIN replica' = Clients
  <2>1. DOMAIN replica = Clients
    BY DEF FeedInv, FeedTypeOK
  <2> HIDE DEF new
  <2>2. QED
    BY <1>2, <1>3, <1>5, <1>6, <2>1
<1>9. /\ \A i \in Live(db') : i \in 1 .. db'.lastId /\ db'.todos[i].version \in 1 .. db'.version
      /\ \A i \in Dead(db') : db'.deletions[i].version \in 1 .. db'.version
      /\ Live(db') \cap Dead(db') = {}
  BY <1>4 DEF IInv, TypeOK, TypedDb, Tables, OneCallPerVersion, IdsAccountedFor
<1>10. \A i \in put : Image(db'.todos[i]).version = db'.todos[i].version
  BY DEF Image
<1> DEFINE pending == Changes(ScopeOf[c], cursor[c])
           buried == {j \in Dead(db') \ (Dead(db) \cup reply'.ids) :
                         db'.deletions[j].scope = ScopeOf[c]}
<1>11. PassedOver(c) = Versions(pending) \cup {db'.deletions[i].version : i \in buried}
  BY DEF PassedOver
<1>12. Versions(pending) \subseteq 1 .. db.version
  <2>1. cursor[c] \in Nat
    BY <1>2, <1>6
  <2>2. \A r \in pending : r.version \in 1 .. db.version
    BY <1>4, <2>1, ChangesFacts
  <2> HIDE DEF pending
  <2>3. QED
    BY <2>2 DEF Versions
<1> HIDE DEF new, pending
<1>13. FeedTypeOK'
  <2>1. PassedOver(c) \subseteq 1 .. db'.version
    BY <1>6, <1>9, <1>11, <1>12
  <2>2. cut' \in [Clients -> SUBSET (1 .. db'.version)]
    BY <1>3, <1>6, <2>1
  <2>3. cursor' \in [Clients -> 0 .. db'.version]
    <3>1. reply'.cursor \in 0 .. db'.version
      BY <1>5, <1>6
    <3>2. QED
      BY <1>3, <1>6, <3>1, Zenon
  <2>4. \A d \in Clients :
           /\ DOMAIN replica'[d] \subseteq 1 .. db'.lastId
           /\ \A i \in DOMAIN replica'[d] : replica'[d][i].version \in 1 .. db'.version
    <3>1. /\ DOMAIN new \subseteq 1 .. db'.lastId
          /\ \A i \in DOMAIN new : new[i].version \in 1 .. db'.version
      BY <1>2, <1>6, <1>7, <1>9, <1>10
    <3>2. QED
      BY <1>6, <1>8, <3>1
  <2>5. QED
    BY <1>1, <1>4, <1>6, <1>8, <2>2, <2>3, <2>4 DEF FeedInv, FeedTypeOK, IInv
<1>14. CaughtUpToCursor'
  <2> SUFFICES ASSUME NEW d \in Clients
               PROVE  /\ \A i \in Live(db') : db'.todos[i].version \notin cut'[d]
                                                => RowDelivered(d, i)'
                      /\ \A i \in Dead(db') : db'.deletions[i].version \notin cut'[d]
                                                => TombstoneDelivered(d, i)'
    BY DEF CaughtUpToCursor
  <2>1. CASE d # c
    <3>1. cursor'[d] = cursor[d] /\ cut'[d] = cut[d] /\ replica'[d] = replica[d]
      BY <1>8, <2>1
    <3>2. QED
      BY <1>4, <3>1, StampedKeepsDelivered
  <2>2. CASE d = c
    <3>1. ASSUME NEW i \in Live(db'), db'.todos[i].version \notin cut'[c],
                 db'.todos[i].scope = ScopeOf[c]
          PROVE  i \in DOMAIN new /\ new[i] = Image(db'.todos[i])
      <4>1. CASE i \in reply'.ids
        BY <1>7, <4>1
      <4>2. CASE i \notin reply'.ids
        <5>1. i \in Live(db) /\ db'.todos[i] = db.todos[i]
          BY <1>4, <1>5, <4>2 DEF Stamped, RowChangeIsStamped
        <5>2. ~ (db.todos[i].version > cursor[c])
          <6>1. SUFFICES ASSUME db.todos[i].version > cursor[c] PROVE FALSE
            OBVIOUS
          <6> DEFINE r == [op |-> "upsert", id |-> i, version |-> db.todos[i].version]
          <6>2. r \in pending
            BY <3>1, <5>1, <6>1 DEF pending, Changes, Upserts
          <6>3. r.version \in Versions(pending)
            BY <6>2 DEF Versions
          <6>4. QED
            BY <1>8, <1>11, <3>1, <5>1, <6>3
        <5>3. db.todos[i].version <= cursor[c]
          BY <1>2, <1>4, <1>6, <5>1, <5>2 DEF IInv, Tables, OneCallPerVersion
        <5>4. i \in DOMAIN replica[c] /\ replica[c][i] = Image(db.todos[i])
          BY <1>2, <1>8, <3>1, <5>1, <5>3 DEF FeedInv, CaughtUpToCursor, RowDelivered
        <5>5. QED
          BY <1>7, <4>2, <5>1, <5>4
      <4>3. QED
        BY <4>1, <4>2
    <3>2. ASSUME NEW i \in Dead(db'), db'.deletions[i].version \notin cut'[c],
                 db'.deletions[i].scope = ScopeOf[c]
          PROVE  i \notin DOMAIN new
      <4>1. i \notin put
        BY <1>9
      <4>2. CASE i \in reply'.ids
        BY <1>7, <4>1, <4>2
      <4>3. CASE i \notin reply'.ids /\ i \notin Dead(db)
        <5>1. i \in buried
          BY <3>2, <4>3
        <5>2. db'.deletions[i].version \in PassedOver(c)
          BY <1>11, <5>1
        <5>3. QED
          BY <1>8, <3>2, <5>2
      <4>4. CASE i \in Dead(db)
        <5>1. db'.deletions[i] = db.deletions[i]
          BY <1>4, <4>4 DEF Stamped, TombstoneStays
        <5>2. ~ (db.deletions[i].version > cursor[c])
          <6>1. SUFFICES ASSUME db.deletions[i].version > cursor[c] PROVE FALSE
            OBVIOUS
          <6> DEFINE r == [op |-> "delete", id |-> i, version |-> db.deletions[i].version]
          <6>2. r \in pending
            BY <3>2, <4>4, <5>1, <6>1 DEF pending, Changes, Deletes
          <6>3. r.version \in Versions(pending)
            BY <6>2 DEF Versions
          <6>4. QED
            BY <1>8, <1>11, <3>2, <5>1, <6>3
        <5>3. db.deletions[i].version <= cursor[c]
          BY <1>2, <1>4, <1>6, <4>4, <5>2 DEF IInv, Tables, OneCallPerVersion
        <5>4. i \notin DOMAIN replica[c]
          BY <1>2, <1>8, <3>2, <4>4, <5>1, <5>3 DEF FeedInv, CaughtUpToCursor, TombstoneDelivered
        <5>5. QED
          BY <1>7, <4>1, <5>4
      <4>5. QED
        BY <4>2, <4>3, <4>4
    <3>3. QED
      BY <1>8, <2>2, <3>1, <3>2 DEF RowDelivered, TombstoneDelivered
  <2>3. QED
    BY <2>1, <2>2
<1>15. NoPhantoms'
  <2> SUFFICES ASSUME NEW d \in Clients, NEW i \in DOMAIN replica'[d]
               PROVE  \/ /\ i \in Live(db')
                         /\ db'.todos[i].scope = ScopeOf[d]
                         /\ replica'[d][i].version <= db'.todos[i].version
                         /\ replica'[d][i].version = db'.todos[i].version
                               => replica'[d][i] = Image(db'.todos[i])
                      \/ /\ i \in Dead(db')
                         /\ db'.deletions[i].scope = ScopeOf[d]
                         /\ replica'[d][i].version < db'.deletions[i].version
    BY DEF NoPhantoms
  <2>1. CASE i \in DOMAIN replica[d] /\ replica'[d][i] = replica[d][i]
    <3>1. QED
      BY <1>4, <1>6, <2>1, StampedKeepsGenuine
  <2>2. CASE d = c /\ i \in put /\ replica'[c][i] = Image(db'.todos[i])
    <3>1. i \in Live(db') /\ db'.todos[i].scope = ScopeOf[c] /\ db'.todos[i].version \in Nat
      BY <1>1, <1>9, <2>2
    <3>2. QED
      BY <1>10, <2>2, <3>1
  <2>3. QED
    BY <1>7, <1>8, <2>1, <2>2
<1>16. QED
  BY <1>4, <1>13, <1>14, <1>15 DEF FeedInv

(* The first statement of Diff: a cursor that is not behind is set to the *)
(* current version.                                                       *)
LEMMA ReadVersionInv ==
  ASSUME FeedInv, NEW c \in Clients, ReadVersion(c)
  PROVE  FeedInv'
<1>1. UNCHANGED <<db, reply, replica, cut, repeated>>
  BY DEF ReadVersion
<1>2. IInv'
  BY <1>1 DEF FeedInv, IInv, TypeOK, Tables, IdsAccountedFor, ParentsPrecede, OneCallPerVersion,
              NotesAttached
<1>3. db.version \in Nat
  BY CountersAreNaturals DEF FeedInv
<1>4. /\ cursor' \in [Clients -> 0 .. db.version]
      /\ \A d \in Clients : cursor'[d] <= cursor[d]
      /\ curVer' \in [Clients -> 0 .. db.version]
      /\ phase' \in [Clients -> {"idle", "reading"}]
  BY <1>3 DEF ReadVersion, FeedInv, FeedTypeOK
<1>5. FeedTypeOK'
  BY <1>1, <1>2, <1>4 DEF FeedInv, FeedTypeOK, IInv
<1>6. \A d \in Clients : cursor[d] \in Nat /\ cursor'[d] \in Nat
  BY <1>3, <1>4 DEF FeedInv, FeedTypeOK
<1>7. CaughtUpToCursor'
  <2> SUFFICES ASSUME NEW d \in Clients
               PROVE  /\ \A i \in Live(db) : db.todos[i].version \notin cut[d]
                                                => RowDelivered(d, i)'
                      /\ \A i \in Dead(db) : db.deletions[i].version \notin cut[d]
                                                => TombstoneDelivered(d, i)'
    BY <1>1 DEF CaughtUpToCursor
  <2>1. /\ \A i \in Live(db) : db.todos[i].version \in 1 .. db.version
        /\ \A i \in Dead(db) : db.deletions[i].version \in 1 .. db.version
    BY DEF FeedInv, IInv, Tables, OneCallPerVersion
  <2>2. QED
    BY <1>1, <1>3, <1>4, <1>6, <2>1
       DEF FeedInv, CaughtUpToCursor, RowDelivered, TombstoneDelivered
<1>8. NoPhantoms'
  BY <1>1 DEF FeedInv, NoPhantoms
<1>9. QED
  BY <1>2, <1>5, <1>7, <1>8 DEF FeedInv

(* What an agent's replica contains after it has applied a page. *)
LEMMA ApplyFacts ==
  ASSUME NEW page, NEW rep, NEW i
  PROVE  LET put  == {r.id : r \in {q \in page : q.op = "upsert"}}
             drop == {r.id : r \in {q \in page : q.op = "delete"}}
             new  == Apply(page, rep)
         IN /\ i \in DOMAIN new <=> (i \in DOMAIN rep \/ i \in put) /\ i \notin drop
            /\ i \in put /\ i \notin drop => new[i] = Image(db.todos[i])
            /\ i \in DOMAIN rep /\ i \notin put /\ i \notin drop => new[i] = rep[i]
<1> DEFINE put  == {r.id : r \in {q \in page : q.op = "upsert"}}
           drop == {r.id : r \in {q \in page : q.op = "delete"}}
<1>1. Apply(page, rep) = [j \in (DOMAIN rep \cup put) \ drop |->
                             IF j \in put THEN Image(db.todos[j]) ELSE rep[j]]
  BY DEF Apply
<1> HIDE DEF put, drop
<1>2. QED
  BY <1>1 DEF put, drop

(* The second statement of Diff: the cursor passes only what the page brings and *)
(* what it cuts.                                                                *)
LEMMA ReadPageInv ==
  ASSUME FeedInv, NEW c \in Clients, NEW limit \in Limits, ReadPage(c, limit)
  PROVE  FeedInv'
<1> DEFINE all == Changes(ScopeOf[c], cursor[c])
<1> DEFINE Step(page, next) ==
             /\ cursor' = [cursor EXCEPT ![c] = next]
             /\ replica' = [replica EXCEPT ![c] = Apply(page, @)]
             /\ cut' = [cut EXCEPT ![c] = @ \cup (Versions(page) \cap Versions(all \ page))]
             /\ repeated' = [repeated EXCEPT ![c] = Known(page, replica[c]) # {}]
<1>1a. PICK fetched \in FirstRows(all, limit + 1) :
         \E page \in FirstRows(fetched, limit) :
         \E next \in NextCursor(page, Cardinality(fetched) > limit, curVer[c]) :
             Step(page, next)
  BY DEF ReadPage
<1>1b. PICK page \in FirstRows(fetched, limit) :
         \E next \in NextCursor(page, Cardinality(fetched) > limit, curVer[c]) :
             Step(page, next)
  BY <1>1a
<1>1. PICK next \in NextCursor(page, Cardinality(fetched) > limit, curVer[c]) :
             Step(page, next)
  BY <1>1b
<1>2. phase' = [phase EXCEPT ![c] = "idle"] /\ UNCHANGED <<db, reply, curVer>>
  BY DEF ReadPage
<1>3. IInv /\ IInv'
  BY <1>2 DEF FeedInv, IInv, TypeOK, Tables, IdsAccountedFor, ParentsPrecede, OneCallPerVersion,
              NotesAttached
<1>4. db.version \in Nat /\ cursor[c] \in Nat /\ curVer[c] \in 0 .. db.version
  BY <1>3, CountersAreNaturals DEF FeedInv, FeedTypeOK
<1>5. /\ IsFiniteSet(all)
      /\ \A r \in all :
            /\ r.version \in 1 .. db.version
            /\ \/ /\ r.op = "upsert" /\ r.id \in Live(db)
                  /\ db.todos[r.id].scope = ScopeOf[c]
                  /\ db.todos[r.id].version = r.version
               \/ r.op = "delete" /\ r.id \in Dead(db)
  BY <1>3, <1>4, ChangesFacts
<1> HIDE DEF all
<1>6. /\ page \subseteq all
      /\ next = curVer[c] \/ next \in Versions(all)
      /\ \A r \in all \ page :
            r.version <= next => r.version \in Versions(page) \cap Versions(all \ page)
  <2>1. limit \in Nat \ {0}
    BY LimitsAssumption
  <2>2. curVer[c] \in Nat /\ \A r \in all : r.version \in Nat
    BY <1>4, <1>5
  <2>3. QED
    <3>1. IsFiniteSet(all) /\ (\A r \in all : r.version \in Nat)
      BY <1>5, <2>2
    <3>2. /\ fetched \in FirstRows(all, limit + 1)
          /\ page \in FirstRows(fetched, limit)
          /\ next \in NextCursor(page, Cardinality(fetched) > limit, curVer[c])
      BY <1>1a, <1>1b, <1>1
    <3> DEFINE cur == curVer[c]
    <3> HIDE DEF cur, Step
    <3>3. cur \in Nat /\ next \in NextCursor(page, Cardinality(fetched) > limit, cur)
      BY <2>2, <3>2 DEF cur
    <3>4. /\ page \subseteq all
          /\ next = cur \/ next \in Versions(all)
          /\ \A r \in all \ page :
                r.version <= next => r.version \in Versions(page) \cap Versions(all \ page)
      BY <2>1, <3>1, <3>2, <3>3, PageFacts, Zenon
    <3>5. QED
      BY <3>4 DEF cur
<1>7. next \in 0 .. db.version
  BY <1>4, <1>5, <1>6 DEF Versions
<1> DEFINE put  == {r.id : r \in {q \in page : q.op = "upsert"}}
           drop == {r.id : r \in {q \in page : q.op = "delete"}}
           new  == Apply(page, replica[c])
<1>8. /\ \A i \in put : i \in Live(db) /\ db.todos[i].scope = ScopeOf[c]
      /\ drop \subseteq Dead(db)
      /\ put \cap drop = {}
  <2>1. /\ \A i \in put : i \in Live(db) /\ db.todos[i].scope = ScopeOf[c]
        /\ drop \subseteq Dead(db)
    BY <1>5, <1>6
  <2>2. Live(db) \cap Dead(db) = {}
    BY <1>3 DEF IInv, Tables, IdsAccountedFor
  <2>3. QED
    BY <2>1, <2>2
<1>9. \A i : /\ i \in DOMAIN new <=> (i \in DOMAIN replica[c] \/ i \in put) /\ i \notin drop
             /\ i \in put => new[i] = Image(db.todos[i])
             /\ i \in DOMAIN replica[c] /\ i \notin put /\ i \notin drop => new[i] = replica[c][i]
  <2> SUFFICES ASSUME NEW i
               PROVE  /\ i \in DOMAIN new <=> (i \in DOMAIN replica[c] \/ i \in put) /\ i \notin drop
                      /\ i \in put => new[i] = Image(db.todos[i])
                      /\ i \in DOMAIN replica[c] /\ i \notin put /\ i \notin drop
                            => new[i] = replica[c][i]
    OBVIOUS
  <2>1. /\ i \in DOMAIN new <=> (i \in DOMAIN replica[c] \/ i \in put) /\ i \notin drop
        /\ i \in put /\ i \notin drop => new[i] = Image(db.todos[i])
        /\ i \in DOMAIN replica[c] /\ i \notin put /\ i \notin drop => new[i] = replica[c][i]
    BY ApplyFacts, Zenon
  <2> HIDE DEF put, drop, new
  <2>2. QED
    BY <1>8, <2>1
<1>10. /\ cursor'[c] = next
       /\ replica'[c] = new
       /\ cut'[c] = cut[c] \cup (Versions(page) \cap Versions(all \ page))
       /\ \A d \in Clients \ {c} : cursor'[d] = cursor[d] /\ replica'[d] = replica[d]
                                  /\ cut'[d] = cut[d]
       /\ DOMAIN replica' = DOMAIN replica
  <2>1. c \in DOMAIN replica
    BY DEF FeedInv, FeedTypeOK
  <2>2. QED
    BY <1>1, <2>1 DEF FeedInv, FeedTypeOK
<1> HIDE DEF new
<1>11. FeedTypeOK'
  <2>1. \A i \in DOMAIN new : i \in 1 .. db.lastId /\ new[i].version \in 1 .. db.version
    <3>1. \A i \in Live(db) : i \in 1 .. db.lastId /\ db.todos[i].version \in 1 .. db.version
      BY <1>3 DEF IInv, TypeOK, TypedDb, Tables, OneCallPerVersion
    <3>2. \A i \in Live(db) : Image(db.todos[i]).version = db.todos[i].version
      BY DEF Image
    <3>3. \A i \in DOMAIN replica[c] : i \in 1 .. db.lastId /\ replica[c][i].version \in 1 .. db.version
      BY DEF FeedInv, FeedTypeOK
    <3> HIDE DEF put, drop
    <3>4. QED
      BY <1>8, <1>9, <3>1, <3>2, <3>3
  <2>2. \A d \in Clients :
           /\ DOMAIN replica'[d] \subseteq 1 .. db.lastId
           /\ \A i \in DOMAIN replica'[d] : replica'[d][i].version \in 1 .. db.version
    BY <1>10, <2>1 DEF FeedInv, FeedTypeOK
  <2>3. cut' \in [Clients -> SUBSET (1 .. db.version)]
    <3>1. Versions(page) \cap Versions(all \ page) \subseteq 1 .. db.version
      BY <1>5, <1>6 DEF Versions
    <3> HIDE DEF put, drop
    <3>2. QED
      BY <1>1, <3>1 DEF FeedInv, FeedTypeOK
  <2>4. /\ cursor' \in [Clients -> 0 .. db.version]
        /\ phase' \in [Clients -> {"idle", "reading"}]
        /\ repeated' \in [Clients -> BOOLEAN]
    BY <1>1, <1>2, <1>7 DEF FeedInv, FeedTypeOK
  <2>5. QED
    BY <1>2, <1>3, <1>10, <2>2, <2>3, <2>4 DEF FeedInv, FeedTypeOK, IInv
<1>12. CaughtUpToCursor'
  <2> SUFFICES ASSUME NEW d \in Clients
               PROVE  /\ \A i \in Live(db) : db.todos[i].version \notin cut'[d]
                                                => RowDelivered(d, i)'
                      /\ \A i \in Dead(db) : db.deletions[i].version \notin cut'[d]
                                                => TombstoneDelivered(d, i)'
    BY <1>2 DEF CaughtUpToCursor
  <2>1. CASE d # c
    BY <1>2, <1>10, <2>1 DEF FeedInv, CaughtUpToCursor, RowDelivered, TombstoneDelivered
  <2>2. CASE d = c
    <3>1. ASSUME NEW i \in Live(db), db.todos[i].version \notin cut'[c],
                 db.todos[i].scope = ScopeOf[c], db.todos[i].version <= next
          PROVE  i \in DOMAIN new /\ new[i] = Image(db.todos[i])
      <4>1. i \notin drop
        BY <1>3, <1>8 DEF IInv, Tables, IdsAccountedFor
      <4>2. CASE db.todos[i].version > cursor[c]
        <5> DEFINE r == [op |-> "upsert", id |-> i, version |-> db.todos[i].version]
        <5>1. r \in all
          BY <3>1, <4>2 DEF all, Changes, Upserts
        <5>2. r \in page
          BY <1>6, <1>10, <3>1, <5>1
        <5>3. i \in put
          BY <5>2
        <5>4. QED
          BY <1>9, <4>1, <5>3
      <4>3. CASE ~ (db.todos[i].version > cursor[c])
        <5>1. db.todos[i].version <= cursor[c]
          BY <1>3, <1>4, <4>3 DEF IInv, Tables, OneCallPerVersion
        <5>2. i \in DOMAIN replica[c] /\ replica[c][i] = Image(db.todos[i])
          BY <1>10, <3>1, <5>1 DEF FeedInv, CaughtUpToCursor, RowDelivered
        <5> HIDE DEF put, drop
        <5>3. QED
          BY <1>9, <4>1, <5>2
      <4>4. QED
        BY <4>2, <4>3
    <3>2. ASSUME NEW i \in Dead(db), db.deletions[i].version \notin cut'[c],
                 db.deletions[i].scope = ScopeOf[c], db.deletions[i].version <= next
          PROVE  i \notin DOMAIN new
      <4>1. i \notin put
        BY <1>3, <1>8 DEF IInv, Tables, IdsAccountedFor
      <4>2. CASE db.deletions[i].version > cursor[c]
        <5> DEFINE r == [op |-> "delete", id |-> i, version |-> db.deletions[i].version]
        <5>1. r \in all
          BY <3>2, <4>2 DEF all, Changes, Deletes
        <5>2. r \in page
          BY <1>6, <1>10, <3>2, <5>1
        <5>3. i \in drop
          BY <5>2
        <5>4. QED
          BY <1>9, <5>3
      <4>3. CASE ~ (db.deletions[i].version > cursor[c])
        <5>1. db.deletions[i].version <= cursor[c]
          BY <1>3, <1>4, <4>3 DEF IInv, Tables, OneCallPerVersion
        <5>2. i \notin DOMAIN replica[c]
          BY <1>10, <3>2, <5>1 DEF FeedInv, CaughtUpToCursor, TombstoneDelivered
        <5> HIDE DEF put, drop
        <5>3. QED
          BY <1>9, <4>1, <5>2
      <4>4. QED
        BY <4>2, <4>3
    <3>3. QED
      BY <1>2, <1>10, <2>2, <3>1, <3>2 DEF RowDelivered, TombstoneDelivered
  <2>3. QED
    BY <2>1, <2>2
<1>13. NoPhantoms'
  <2> SUFFICES ASSUME NEW d \in Clients, NEW i \in DOMAIN replica'[d]
               PROVE  \/ /\ i \in Live(db)
                         /\ db.todos[i].scope = ScopeOf[d]
                         /\ replica'[d][i].version <= db.todos[i].version
                         /\ replica'[d][i].version = db.todos[i].version
                               => replica'[d][i] = Image(db.todos[i])
                      \/ /\ i \in Dead(db)
                         /\ db.deletions[i].scope = ScopeOf[d]
                         /\ replica'[d][i].version < db.deletions[i].version
    BY <1>2 DEF NoPhantoms
  <2>1. CASE i \in DOMAIN replica[d] /\ replica'[d][i] = replica[d][i]
    BY <2>1 DEF FeedInv, NoPhantoms
  <2>2. CASE d = c /\ i \in put /\ replica'[c][i] = Image(db.todos[i])
    <3>1. i \in Live(db) /\ db.todos[i].scope = ScopeOf[c]
      BY <1>8, <2>2
    <3>2. db.todos[i].version \in Nat
      BY <1>3, <3>1 DEF IInv, Tables, OneCallPerVersion
    <3>3. Image(db.todos[i]).version = db.todos[i].version
      BY DEF Image
    <3>4. QED
      BY <2>2, <3>1, <3>2, <3>3
  <2> HIDE DEF put, drop
  <2>3. QED
    BY <1>9, <1>10, <2>1, <2>2
<1>14. QED
  BY <1>3, <1>11, <1>12, <1>13 DEF FeedInv

(* A lost answer changes nothing the agent has. *)
LEMMA CallLostInv ==
  ASSUME FeedInv, NEW c \in Clients, CallLost(c)
  PROVE  FeedInv'
<1>1. phase' = [phase EXCEPT ![c] = "idle"]
      /\ UNCHANGED <<db, reply, curVer, cursor, replica, cut, repeated>>
  BY DEF CallLost
<1>2. IInv'
  BY <1>1 DEF FeedInv, IInv, TypeOK, Tables, IdsAccountedFor, ParentsPrecede, OneCallPerVersion,
              NotesAttached
<1>3. FeedTypeOK'
  BY <1>1, <1>2 DEF FeedInv, FeedTypeOK, IInv
<1>4. CaughtUpToCursor' /\ NoPhantoms'
  BY <1>1 DEF FeedInv, CaughtUpToCursor, NoPhantoms, RowDelivered, TombstoneDelivered
<1>5. QED
  BY <1>2, <1>3, <1>4 DEF FeedInv

(* Stuttering. *)
LEMMA FeedStutterInv ==
  ASSUME FeedInv, UNCHANGED allVars
  PROVE  FeedInv'
<1>1. IInv'
  BY DEF allVars, FeedInv, IInv, TypeOK, Tables, IdsAccountedFor, ParentsPrecede,
         OneCallPerVersion, NotesAttached
<1>2. FeedTypeOK' /\ CaughtUpToCursor' /\ NoPhantoms'
  BY <1>1 DEF allVars, FeedInv, IInv, FeedTypeOK, CaughtUpToCursor, NoPhantoms, RowDelivered,
              TombstoneDelivered
<1>3. QED
  BY <1>1, <1>2 DEF FeedInv

-----------------------------------------------------------------------------
(* Theorems.                                                               *)

(* The store's invariant and the promises of the feed are together inductive. *)
THEOREM FeedInductiveInvariant == FeedSpec => []FeedInv
<1>1. FeedInv /\ [FeedNext]_allVars => FeedInv'
  BY WriteInv, OwnWriteInv, ReadVersionInv, ReadPageInv, CallLostInv, FeedStutterInv DEF FeedNext
<1>2. QED
  BY FeedInitInv, <1>1, PTL DEF FeedSpec

(* The feed keeps its types; a cursor is never above meta.version. *)
THEOREM FeedTypeCorrect == FeedSpec => []FeedTypeOK
<1>1. FeedInv => FeedTypeOK
  BY DEF FeedInv
<1>2. QED
  BY FeedInductiveInvariant, <1>1, PTL

(* Up to its cursor an agent has missed nothing but the rest of versions that a  *)
(* page boundary cut in two, whatever commits between the two reads of a Diff.   *)
THEOREM FeedDelivers == FeedSpec => []CaughtUpToCursor
<1>1. FeedInv => CaughtUpToCursor
  BY DEF FeedInv
<1>2. QED
  BY FeedInductiveInvariant, <1>1, PTL

(* An agent never holds a row that was not in its scope, nor a state the database *)
(* has not reached.                                                               *)
THEOREM FeedInventsNothing == FeedSpec => []NoPhantoms
<1>1. FeedInv => NoPhantoms
  BY DEF FeedInv
<1>2. QED
  BY FeedInductiveInvariant, <1>1, PTL
=============================================================================
