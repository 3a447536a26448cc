----------------------------- MODULE ChangeFeed ------------------------------
(***************************************************************************)
(* todo_diff (internal/store/diff.go) and the agents that follow a scope   *)
(* with it: each keeps a cursor and a replica of the scope, asks for the   *)
(* changes since its cursor, applies the page and keeps next_cursor.       *)
(*                                                                         *)
(* Diff reads meta.version and the changes in two separate statements      *)
(* outside any transaction, so writers commit in between.  The agent is    *)
(* not part of the repository: its half is modelled from what the answer   *)
(* tells it to do.  Some agents also write, and continue the feed from the *)
(* cursor their own call returns, as the skill advises (SKILL.md:46, 125). *)
(***************************************************************************)
EXTENDS TodoStore, ShortId

CONSTANTS Clients,   \* agents that follow a scope
          Adopters,  \* those that also adopt the cursors of their own writes
          ScopeOf,   \* the scope each agent follows
          Limits     \* page sizes in use: what Diff's default and its cap make of limit

ASSUME ClientsAssumption == ScopeOf \in [Clients -> Scopes] /\ Adopters \subseteq Clients
ASSUME LimitsAssumption  == Limits \subseteq Nat \ {0}

VARIABLES phase,    \* "idle", or "reading" between the two statements of Diff
          curVer,   \* meta.version as the call in progress read it
          cursor,   \* the next_cursor the agent keeps
          replica,  \* what the agent believes its scope contains
          cut,      \* history: versions the cursor passed with changes left out
          repeated  \* history: the last page held a change the agent already had

feedVars == <<phase, curVer, cursor, replica, cut, repeated>>
allVars  == <<db, reply, phase, curVer, cursor, replica, cut, repeated>>

-----------------------------------------------------------------------------
(* One row of the UNION ALL: an upsert carries the row, a delete only the id. *)

(* Mutant: the feed is not restricted to the scope. *)
UpsertsOfAllScopes(scope, since) ==
    {[op |-> "upsert", id |-> i, version |-> db.todos[i].version] :
        i \in {j \in Live(db) : db.todos[j].version > since}}

Upserts(scope, since) ==
    {[op |-> "upsert", id |-> i, version |-> db.todos[i].version] :
        i \in {j \in Live(db) : db.todos[j].scope = scope /\ db.todos[j].version > since}}

Deletes(scope, since) ==
    {[op |-> "delete", id |-> i, version |-> db.deletions[i].version] :
        i \in {j \in Dead(db) : db.deletions[j].scope = scope /\ db.deletions[j].version > since}}

Changes(scope, since) == Upserts(scope, since) \cup Deletes(scope, since)

Versions(rows) == {r.version : r \in rows}

(* ORDER BY version, id *)
Before(q, r) ==
    q.version < r.version \/ (q.version = r.version /\ IdBefore(q.id, r.id))

(* LIMIT n: sets of n rows (of all, if they are fewer) with no row left out *)
(* before one taken.                                                        *)
FirstRows(rows, n) ==
    {S \in SUBSET rows :
        /\ Cardinality(S) = IF n < Cardinality(rows) THEN n ELSE Cardinality(rows)
        /\ \A q \in S, r \in rows \ S : Before(q, r)}

LastRows(rows) == {r \in rows : \A q \in rows : q = r \/ Before(q, r)}

(* Mutant: with more to come the caller is sent to the end of the feed. *)
NextCursorAlwaysCurrent(page, hasMore, cur) == {cur}

(* Mutant: with more to come the caller is sent back to read the last version again. *)
NextCursorReread(page, hasMore, cur) ==
    IF hasMore THEN {r.version - 1 : r \in LastRows(page)} ELSE {cur}

(* next_cursor, as the set of its one value: the version of the last row of a page *)
(* that has more after it, else the version read before the page.                 *)
NextCursor(page, hasMore, cur) ==
    IF hasMore THEN {r.version : r \in LastRows(page)} ELSE {cur}

-----------------------------------------------------------------------------
(* The columns of a row an agent sees. *)
Image(row) == [status |-> row.status, parent |-> row.parent, version |-> row.version]

(* The agent applies the changes of a page to its replica. *)
Apply(page, rep) ==
    LET put  == {r.id : r \in {q \in page : q.op = "upsert"}}
        drop == {r.id : r \in {q \in page : q.op = "delete"}}
    IN [i \in (DOMAIN rep \cup put) \ drop |->
           IF i \in put THEN Image(db.todos[i]) ELSE rep[i]]

(* Changes of the page the agent's replica already shows. *)
Known(page, rep) ==
    {r \in page : r.op = "upsert" /\ r.id \in DOMAIN rep /\ rep[r.id].version = r.version}

FeedInit ==
    /\ Init
    /\ phase = [c \in Clients |-> "idle"]
    /\ curVer = [c \in Clients |-> 0]
    /\ cursor = [c \in Clients |-> 0]
    /\ replica = [c \in Clients |-> [i \in {} |-> NoTodo]]
    /\ cut = [c \in Clients |-> {}]
    /\ repeated = [c \in Clients |-> FALSE]

(* Diff, first statement: currentVersion.  A cursor that is not behind gets an *)
(* empty answer at once.                                                       *)
ReadVersion(c) ==
    /\ phase[c] = "idle"
    /\ \/ /\ cursor[c] >= db.version
          /\ cursor' = [cursor EXCEPT ![c] = db.version]
          /\ UNCHANGED <<phase, curVer>>
       \/ /\ cursor[c] < db.version
          /\ phase' = [phase EXCEPT ![c] = "reading"]
          /\ curVer' = [curVer EXCEPT ![c] = db.version]
          /\ UNCHANGED cursor
    /\ UNCHANGED <<db, reply, replica, cut, repeated>>

(* Diff, second statement: one row more than the limit tells whether there is *)
(* more.  The agent applies the page and keeps the cursor.                    *)
ReadPage(c, limit) ==
    LET all == Changes(ScopeOf[c], cursor[c])
    IN /\ phase[c] = "reading"
       /\ \E fetched \in FirstRows(all, limit + 1) :
          \E page \in FirstRows(fetched, limit) :
          \E next \in NextCursor(page, Cardinality(fetched) > limit, curVer[c]) :
             /\ cursor' = [cursor EXCEPT ![c] = next]
             /\ replica' = [replica EXCEPT ![c] = Apply(page, @)]
             /\ cut' = [cut EXCEPT ![c] = @ \cup (Versions(page) \cap Versions(all \ page))]
             /\ repeated' = [repeated EXCEPT ![c] = Known(page, replica[c]) # {}]
       /\ phase' = [phase EXCEPT ![c] = "idle"]
       /\ UNCHANGED <<db, reply, curVer>>

(* The call fails or its answer is lost: the agent keeps its cursor. *)
CallLost(c) ==
    /\ phase[c] = "reading"
    /\ phase' = [phase EXCEPT ![c] = "idle"]
    /\ UNCHANGED <<db, reply, curVer, cursor, replica, cut, repeated>>

Write == Next /\ UNCHANGED feedVars

(* A write answers with the rows it inserted or updated, or the ids it deleted. *)
ApplyReply(rep) ==
    LET put == reply'.ids \cap Live(db)'
    IN [i \in (DOMAIN rep \cup put) \ (reply'.ids \ put) |->
           IF i \in put THEN Image(db'.todos[i]) ELSE rep[i]]

(* What an agent passes over when it continues from the cursor of its own call:  *)
(* the changes it has not read yet, and those of the call that are not in the    *)
(* answer, which are the rows a delete took by cascade.                          *)
PassedOver(c) ==
    Versions(Changes(ScopeOf[c], cursor[c]))
    \cup {db'.deletions[i].version :
             i \in {j \in Dead(db)' \ (Dead(db) \cup reply'.ids) :
                       db'.deletions[j].scope = ScopeOf[c]}}

(* An agent writes to its scope and adopts the answer. *)
OwnWrite(c) ==
    /\ phase[c] = "idle"
    /\ Next
    /\ reply'.cursor # 0
    /\ \A i \in reply'.ids :
          ScopeOf[c] = IF i \in Live(db)' THEN db'.todos[i].scope ELSE db.todos[i].scope
    /\ cursor' = [cursor EXCEPT ![c] = reply'.cursor]
    /\ replica' = [replica EXCEPT ![c] = ApplyReply(@)]
    /\ cut' = [cut EXCEPT ![c] = @ \cup PassedOver(c)]
    /\ UNCHANGED <<phase, curVer, repeated>>

FeedNext ==
    \/ Write
    \/ \E c \in Adopters : OwnWrite(c)
    \/ \E c \in Clients : ReadVersion(c)
    \/ \E c \in Clients, limit \in Limits : ReadPage(c, limit)
    \/ \E c \in Clients : CallLost(c)

(* An agent keeps calling todo_diff, and of the calls it makes not all fail. *)
Fairness ==
    \A c \in Clients : /\ WF_allVars(ReadVersion(c))
                       /\ SF_allVars(\E limit \in Limits : ReadPage(c, limit))

FeedSpec == FeedInit /\ [][FeedNext]_allVars /\ Fairness

-----------------------------------------------------------------------------
(* Properties.                                                             *)

(* Cursors and versions read never pass meta.version, replicas hold only ids and *)
(* versions that were handed out.                                               *)
FeedTypeOK ==
    /\ TypeOK
    /\ phase \in [Clients -> {"idle", "reading"}]
    /\ curVer \in [Clients -> 0 .. db.version]
    /\ cursor \in [Clients -> 0 .. db.version]
    /\ DOMAIN replica = Clients
    /\ \A c \in Clients : /\ DOMAIN replica[c] \subseteq 1 .. db.lastId
                           /\ \A i \in DOMAIN replica[c] : replica[c][i].version \in 1 .. db.version
    /\ cut \in [Clients -> SUBSET (1 .. db.version)]
    /\ repeated \in [Clients -> BOOLEAN]

(* Whatever the feed has got past is in the replica. *)
RowDelivered(c, i) ==
    LET row == db.todos[i]
    IN row.scope = ScopeOf[c] /\ row.version <= cursor[c] =>
           i \in DOMAIN replica[c] /\ replica[c][i] = Image(row)

TombstoneDelivered(c, i) ==
    LET tomb == db.deletions[i]
    IN tomb.scope = ScopeOf[c] /\ tomb.version <= cursor[c] => i \notin DOMAIN replica[c]

(* What the cursor protocol does guarantee, with writers between the two        *)
(* statements and pages of any size: up to its cursor an agent has missed       *)
(* nothing, except in versions that a page boundary has cut in two, and, if it  *)
(* adopts the cursor of its own write, what it had not read before the write    *)
(* and the rows the write removed without naming them.                          *)
CaughtUpToCursor ==
    \A c \in Clients :
        /\ \A i \in Live(db) : db.todos[i].version \notin cut[c] => RowDelivered(c, i)
        /\ \A i \in Dead(db) : db.deletions[i].version \notin cut[c] => TombstoneDelivered(c, i)

(* A replica never holds a row that was not in its scope, nor a state newer than *)
(* the database's; a row that is gone was known there in a state from before its *)
(* tombstone (Diff merges upserts and deletes under one cursor).                 *)
NoPhantoms ==
    \A c \in Clients : \A i \in DOMAIN replica[c] :
        \/ /\ i \in Live(db)
           /\ db.todos[i].scope = ScopeOf[c]
           /\ replica[c][i].version <= db.todos[i].version
           /\ replica[c][i].version = db.todos[i].version => replica[c][i] = Image(db.todos[i])
        \/ /\ i \in Dead(db)
           /\ db.deletions[i].scope = ScopeOf[c]
           /\ replica[c][i].version < db.deletions[i].version

(* An agent that keeps asking gets past every version, however small its pages. *)
FeedCatchesUp ==
    \A c \in Clients, v \in 1 .. MaxVersion : db.version >= v ~> cursor[c] >= v

(* "todo_diff loses nothing" (SKILL.md:136): every change up to its cursor has    *)
(* reached the agent, also in versions a page boundary falls into.               *)
NothingLost ==
    \A c \in Clients :
        /\ \A i \in Live(db) : RowDelivered(c, i)
        /\ \A i \in Dead(db) : TombstoneDelivered(c, i)

(* "todo_diff repeats nothing" (SKILL.md:136): no page brings a change the agent  *)
(* already has in this very version.                                             *)
NothingRepeated == \A c \in Clients : ~ repeated[c]
=============================================================================
