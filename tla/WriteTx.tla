------------------------------- MODULE WriteTx -------------------------------
(***************************************************************************)
(* The transactions of internal/store, statement by statement, as run by   *)
(* concurrent callers: requests of one server, or several tido processes   *)
(* on one database file.                                                   *)
(*                                                                         *)
(* BEGIN IMMEDIATE takes SQLite's one write lock or fails with SQLITE_BUSY *)
(* after busy_timeout; statements change a private view that only COMMIT   *)
(* publishes; every early return runs the deferred Rollback.  At any point *)
(* a statement may fail (I/O error, cancelled context) or the process may  *)
(* die, which frees the lock and loses the private view, and the answer.   *)
(*                                                                         *)
(* Callers share nothing in memory, so the death of a process is the death *)
(* of its callers one after the other.                                     *)
(***************************************************************************)
EXTENDS TodoTables

CONSTANTS Callers,     \* requests that may be in progress at the same time
          NoCaller,    \* the lock is free
          Requests,    \* the calls they make
          MaxId, MaxVersion, MaxNotes

VARIABLES db,       \* the committed contents of the database
          holder,   \* the caller that has the write lock
          pc,       \* the statement each caller is about to run
          request,  \* its arguments
          work,     \* its view of the database inside the transaction
          result,   \* what it is going to answer
          answer,   \* the answer of its last call, once it has come
          last      \* history: the answer of the last transaction to be decided

txVars == <<db, holder, pc, request, work, result, answer, last>>

(* What the callers together implement. *)
Store == INSTANCE TodoStore WITH reply <- last

ASSUME CallersAssumption == NoCaller \notin Callers

ASSUME RequestsAssumption ==
    Requests \subseteq
        [op : {"insert"}, scope : Scopes, root : Store!KnownIds \cup {NoTodo},
         batch : Batches, now : Times]
        \cup [op : {"update"}, id : Store!KnownIds, fields : UpdateFields]
        \cup [op : {"delete"}, ids : (SUBSET Store!KnownIds) \ {{}}]
        \cup [op : {"clear"}, scope : Scopes]
        \cup [op : {"note"}, id : Store!KnownIds]

NoRequest == [op |-> "none"]
Refused   == Store!Refused

TxInit ==
    /\ db = EmptyDb
    /\ holder = NoCaller
    /\ pc = [p \in Callers |-> "idle"]
    /\ request = [p \in Callers |-> NoRequest]
    /\ work = [p \in Callers |-> EmptyDb]
    /\ result = [p \in Callers |-> Refused]
    /\ answer = [p \in Callers |-> Refused]
    /\ last = Refused

InTx(p) == pc[p] \in {"check", "select", "version", "ids", "rows", "commit"}

-----------------------------------------------------------------------------
(* Calls and BEGIN IMMEDIATE.                                              *)

(* Mutant: an update reads the row when it is called, before its transaction, and *)
(* writes back every column.                                                     *)
CallFillingIn(p, r) ==
    LET filled == IF r.op = "update" /\ r.id \in Live(db)
                    THEN [r EXCEPT !.fields = Overwritten(db.todos[r.id].status, @)]
                    ELSE r
    IN /\ pc[p] = "idle"
       /\ pc' = [pc EXCEPT ![p] = "begin"]
       /\ request' = [request EXCEPT ![p] = filled]
       /\ answer' = [answer EXCEPT ![p] = Refused]
       /\ UNCHANGED <<db, holder, work, result, last>>

Call(p, r) ==
    /\ pc[p] = "idle"
    /\ pc' = [pc EXCEPT ![p] = "begin"]
    /\ request' = [request EXCEPT ![p] = r]
    /\ answer' = [answer EXCEPT ![p] = Refused]
    /\ UNCHANGED <<db, holder, work, result, last>>

(* The first statement after BEGIN: the existence check of the root parent, the *)
(* updated todo or the annotated one; the SELECT of a delete.  A batch without  *)
(* root parent has nothing to check.                                            *)
FirstStatement(r) ==
    CASE r.op \in {"update", "note"}  -> "check"
      [] r.op \in {"delete", "clear"} -> "select"
      [] r.op = "insert"              -> IF r.root = NoTodo THEN "version" ELSE "check"

Begin(p) ==
    /\ pc[p] = "begin"
    /\ holder = NoCaller
    /\ holder' = p
    /\ work' = [work EXCEPT ![p] = db]
    /\ pc' = [pc EXCEPT ![p] = FirstStatement(request[p])]
    /\ UNCHANGED <<db, request, result, answer, last>>

(* Mutant: no busy_timeout, the caller waits for as long as it takes. *)
BusyNever(p) == FALSE /\ UNCHANGED txVars

(* BEGIN IMMEDIATE fails: busy_timeout has passed while another caller had the   *)
(* lock, the context was cancelled, or the file cannot be read.  Nothing retries. *)
Busy(p) ==
    /\ pc[p] = "begin"
    /\ pc' = [pc EXCEPT ![p] = "reply"]
    /\ UNCHANGED <<db, holder, request, work, result, answer, last>>

-----------------------------------------------------------------------------
(* Statements.                                                             *)

At(p, label) == pc[p] = label

(* The transaction goes on with its view changed to d and its answer to res. *)
GoOn(p, label, d, res) ==
    /\ pc' = [pc EXCEPT ![p] = label]
    /\ work' = [work EXCEPT ![p] = d]
    /\ result' = [result EXCEPT ![p] = res]
    /\ UNCHANGED <<db, holder, request, answer, last>>

(* The deferred Rollback: the lock is freed, the view dropped. *)
Rollback(p) ==
    /\ holder' = NoCaller
    /\ work' = [work EXCEPT ![p] = EmptyDb]
    /\ result' = [result EXCEPT ![p] = Refused]

(* Mutant: an early return without Rollback. *)
RefuseHoldingLock(p) ==
    /\ last' = Refused
    /\ pc' = [pc EXCEPT ![p] = "reply"]
    /\ work' = [work EXCEPT ![p] = EmptyDb]
    /\ result' = [result EXCEPT ![p] = Refused]
    /\ UNCHANGED <<db, holder, request, answer>>

(* ErrNotFound, ErrInvalidParent or ErrInvalidIndent. *)
Refuse(p) ==
    /\ Rollback(p)
    /\ last' = Refused
    /\ pc' = [pc EXCEPT ![p] = "reply"]
    /\ UNCHANGED <<db, request, answer>>

(* assertTodoExists *)
CheckExists(p) ==
    LET r  == request[p]
        id == IF r.op = "insert" THEN r.root ELSE r.id
    IN /\ At(p, "check")
       /\ IF id \in Live(work[p])
            THEN GoOn(p, IF r.op = "note" THEN "rows" ELSE "version", work[p], result[p])
            ELSE Refuse(p)

(* The rows the WHERE clause of a delete selects in the caller's view. *)
Selected(p) ==
    IF request[p].op = "delete"
      THEN request[p].ids \cap Live(work[p])
      ELSE {i \in Live(work[p]) : work[p].todos[i].scope = request[p].scope}

(* deleteByCondition: no hits, nothing to do but commit. *)
SelectIDs(p) ==
    LET hits == Selected(p)
    IN /\ At(p, "select")
       /\ GoOn(p, IF hits = {} THEN "commit" ELSE "version", work[p],
               [op |-> "delete", ids |-> hits, cursor |-> 0])

TakeVersion(p) ==
    LET d == NextVersion(work[p])
    IN /\ At(p, "version")
       /\ d.version <= MaxVersion
       /\ GoOn(p, IF request[p].op = "insert" THEN "ids" ELSE "rows", d,
               [result[p] EXCEPT !.cursor = d.version])

(* Mutant: the ids are published before the rows, in a transaction of their own. *)
TakeIDsAutocommit(p) ==
    LET n == Len(request[p].batch)
        d == AllocateIDs(work[p], n)
    IN /\ At(p, "ids")
       /\ d.lastId <= MaxId
       /\ db' = AllocateIDs(db, n)
       /\ work' = [work EXCEPT ![p] = d]
       /\ result' = [result EXCEPT ![p].op = "insert", ![p].ids = AllocatedIDs(d, n)]
       /\ pc' = [pc EXCEPT ![p] = "rows"]
       /\ UNCHANGED <<holder, request, answer, last>>

(* allocateIDs, then resolveParents, which may still refuse the batch. *)
TakeIDs(p) ==
    LET n == Len(request[p].batch)
        d == AllocateIDs(work[p], n)
    IN /\ At(p, "ids")
       /\ d.lastId <= MaxId
       /\ IF WellIndented(request[p].batch)
            THEN GoOn(p, "rows", d, [result[p] EXCEPT !.op = "insert",
                                                      !.ids = AllocatedIDs(d, n)])
            ELSE Refuse(p)

(* The INSERT, UPDATE or DELETE of the call. *)
ChangeRows(p) ==
    LET r == request[p]
        w == work[p]
    IN /\ At(p, "rows")
       /\ \/ /\ r.op = "insert"
             /\ GoOn(p, "commit", InsertRows(w, r.scope, r.root, r.batch, r.now), result[p])
          \/ /\ r.op = "update"
             /\ GoOn(p, "commit", UpdateRow(w, r.id, r.fields),
                     [result[p] EXCEPT !.op = "update", !.ids = {r.id}])
          \/ /\ r.op \in {"delete", "clear"}
             /\ GoOn(p, "commit", DeleteRows(w, Selected(p)), result[p])
          \/ /\ r.op = "note"
             /\ w.noteSeq < MaxNotes
             /\ GoOn(p, "commit", InsertNote(w, r.id),
                     [op |-> "note", ids |-> {r.id}, cursor |-> 0])

Commit(p) ==
    /\ At(p, "commit")
    /\ db' = work[p]
    /\ last' = result[p]
    /\ holder' = NoCaller
    /\ work' = [work EXCEPT ![p] = EmptyDb]
    /\ pc' = [pc EXCEPT ![p] = "reply"]
    /\ UNCHANGED <<request, result, answer>>

-----------------------------------------------------------------------------
(* Failures and answers.                                                   *)

(* Any statement, COMMIT included, may fail. *)
Fail(p) ==
    /\ InTx(p)
    /\ Rollback(p)
    /\ pc' = [pc EXCEPT ![p] = "reply"]
    /\ UNCHANGED <<db, request, answer, last>>

(* The caller's process dies: what was committed stays, the answer does not come. *)
Die(p) ==
    /\ pc[p] # "idle"
    /\ holder' = IF holder = p THEN NoCaller ELSE holder
    /\ work' = [work EXCEPT ![p] = EmptyDb]
    /\ result' = [result EXCEPT ![p] = Refused]
    /\ request' = [request EXCEPT ![p] = NoRequest]
    /\ pc' = [pc EXCEPT ![p] = "idle"]
    /\ UNCHANGED <<db, answer, last>>

(* Mutant: the cursor of the answer is read from meta after the COMMIT. *)
ReplyRereadingCursor(p) ==
    LET res == result[p]
    IN /\ At(p, "reply")
       /\ answer' = [answer EXCEPT ![p] = [res EXCEPT !.cursor = IF @ = 0 THEN 0 ELSE db.version]]
       /\ result' = [result EXCEPT ![p] = Refused]
       /\ request' = [request EXCEPT ![p] = NoRequest]
       /\ pc' = [pc EXCEPT ![p] = "idle"]
       /\ UNCHANGED <<db, holder, work, last>>

Reply(p) ==
    /\ At(p, "reply")
    /\ answer' = [answer EXCEPT ![p] = result[p]]
    /\ result' = [result EXCEPT ![p] = Refused]
    /\ request' = [request EXCEPT ![p] = NoRequest]
    /\ pc' = [pc EXCEPT ![p] = "idle"]
    /\ UNCHANGED <<db, holder, work, last>>

Statement(p) ==
    \/ CheckExists(p)
    \/ SelectIDs(p)
    \/ TakeVersion(p)
    \/ TakeIDs(p)
    \/ ChangeRows(p)
    \/ Commit(p)

Advance(p) == Begin(p) \/ Busy(p) \/ Statement(p) \/ Fail(p) \/ Reply(p)

TxNext == \E p \in Callers : \/ \E r \in Requests : Call(p, r)
                             \/ Advance(p)
                             \/ Die(p)

(* A caller in progress goes on: its statements end, with success or an error, *)
(* and a wait for the lock ends with the lock or with SQLITE_BUSY.             *)
TxSpec == TxInit /\ [][TxNext]_txVars /\ \A p \in Callers : WF_txVars(Advance(p))

-----------------------------------------------------------------------------
(* Properties.                                                             *)

(* A caller has a view of well-typed tables exactly while it is inside its *)
(* transaction.                                                            *)
TxTypeOK ==
    /\ TypedDb(db)
    /\ holder \in Callers \cup {NoCaller}
    /\ \A p \in Callers :
          /\ pc[p] \in {"idle", "begin", "reply"} \/ InTx(p)
          /\ request[p] \in Requests \cup {NoRequest}
          /\ request[p] = NoRequest <=> pc[p] = "idle"
          /\ TypedDb(work[p])
          /\ ~ InTx(p) => work[p] = EmptyDb

(* Every way out of a transaction gives the write lock back: errors, refusals,  *)
(* commits and deaths (defer tx.Rollback in every caller of BeginImmediate).    *)
LockOnlyInside ==
    \A p \in Callers : holder = p <=> InTx(p)

(* Two answers never name the same new id or the same version, however the      *)
(* calls interleaved (nextVersion, allocateIDs).                                *)
AnswersDistinct ==
    \A p, q \in Callers :
        p # q /\ answer[p].cursor # 0 /\ answer[q].cursor # 0 =>
            /\ answer[p].cursor # answer[q].cursor
            /\ answer[p].op = "insert" /\ answer[q].op = "insert" =>
                   answer[p].ids \cap answer[q].ids = {}

(* Each call takes effect at once or not at all: the transactions implement     *)
(* the atomic calls of TodoStore.                                               *)
ImplementsStore == Store!Spec

(* A call always comes back, with an answer or an error; it never waits for the *)
(* lock forever (busy_timeout).                                                 *)
CallsReturn == \A p \in Callers : pc[p] = "begin" ~> pc[p] = "idle"
=============================================================================
