------------------------------- MODULE CallLog -------------------------------
(***************************************************************************)
(* The transactions of WriteTx with their history: what each caller asked  *)
(* for, and the calls that committed, one after the other.  The history    *)
(* says what the rows should hold: in every column what the last committed *)
(* call that names it asked for, whatever the callers knew of each other.  *)
(***************************************************************************)
EXTENDS WriteTx

VARIABLES asked,    \* history: the call each caller is executing, as its agent asked for it
          calls     \* history: the calls that took a version, in the order of their COMMITs

logVars == <<db, holder, pc, request, work, result, answer, last, asked, calls>>

LogInit ==
    /\ TxInit
    /\ asked = [p \in Callers |-> NoRequest]
    /\ calls = << >>

(* What p committed; the i-th item of a batch became the todo base + i. *)
Entry(p) == [call |-> asked[p], ids |-> result[p].ids, base |-> db.lastId]

LogCall(p) ==
    /\ \E r \in Requests : Call(p, r) /\ asked' = [asked EXCEPT ![p] = r]
    /\ UNCHANGED calls

(* A note, or a delete that finds nothing, takes no version and changes no row. *)
LogCommit(p) ==
    /\ Commit(p)
    /\ calls' = IF result[p].cursor = 0 THEN calls ELSE Append(calls, Entry(p))
    /\ UNCHANGED asked

LogStep(p) ==
    /\ \/ Begin(p) \/ Busy(p) \/ CheckExists(p) \/ SelectIDs(p) \/ TakeVersion(p)
       \/ TakeIDs(p) \/ ChangeRows(p) \/ Fail(p)
    /\ UNCHANGED <<asked, calls>>

(* What p asked for ends with its answer, or with its process. *)
LogEnd(p) ==
    /\ Reply(p) \/ Die(p)
    /\ asked' = [asked EXCEPT ![p] = NoRequest]
    /\ UNCHANGED calls

LogNext == \E p \in Callers : LogCall(p) \/ LogCommit(p) \/ LogStep(p) \/ LogEnd(p)

(* TxSpec with its history. *)
LogSpec == LogInit /\ [][LogNext]_logVars /\ \A p \in Callers : WF_txVars(Advance(p))
-----------------------------------------------------------------------------
(* Properties.                                                             *)

(* The calls that wrote the row of todo i, and those that named its column c. *)
Writers(i) == {k \in DOMAIN calls : i \in calls[k].ids /\ calls[k].call.op \in {"insert", "update"}}

Naming(i, c) ==
    {k \in Writers(i) : calls[k].call.op = "update" => c \in DOMAIN calls[k].call.fields}

(* The value call k asked for. *)
AskedFor(k, i, c) ==
    LET e == calls[k]
    IN IF e.call.op = "insert" THEN e.call.batch[i - e.base].status[c] ELSE e.call.fields[c]

IsLast(k, K) == k \in K /\ \A m \in K : m <= k

(* No update is lost and none writes what it was not asked for: every column of *)
(* a row holds what the last committed call that names the column asked for,    *)
(* and the row carries the version of the last call that wrote it.  An agent    *)
(* that was told its update is done finds its value until a later call names    *)
(* the same column or removes the row, however the calls in between were        *)
(* ordered, failed or died (buildUpdateSets, BEGIN IMMEDIATE).                  *)
LastWordStands ==
    \A i \in Live(db) :
        /\ IsLast(db.todos[i].version, Writers(i))
        /\ \A c \in DOMAIN db.todos[i].status :
              \E k \in Naming(i, c) : /\ IsLast(k, Naming(i, c))
                                      /\ db.todos[i].status[c] = AskedFor(k, i, c)
=============================================================================
