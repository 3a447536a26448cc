------------------------------ MODULE MCListing -------------------------------
(* A small instance of Listing for TLC: pages smaller than a batch, every sort *)
(* order, filters by status, ids and parent, and ids that sort as texts.       *)
EXTENDS Listing

CONSTANTS s1

Plain == [status |-> "pending",   priority |-> "medium", due |-> NoDue]
Done  == [status |-> "completed", priority |-> "urgent", due |-> 5]

Leaf(depth, columns) == [depth |-> depth, status |-> columns]

MCScopes   == {s1}
MCStatuses == {Plain, Done}
MCUpdateFields == MCStatuses
MCTimes    == {0}
MCBatches  == {<<Leaf(0, Plain)>>, <<Leaf(0, Plain), Leaf(1, Done), Leaf(0, Plain)>>}

All == [scope |-> s1, ids |-> {}, status |-> "all", parent |-> AnyParent,
        sort |-> "created", limit |-> 0]

(* By default, the whole scope one row at a time; the default filter; two rows *)
(* at a time, which the cap makes of nine, by priority; some ids by due date.  *)
MCListArgs == {All,
               [All EXCEPT !.status = "", !.limit = 1],
               [All EXCEPT !.sort = "priority", !.limit = 9],
               [All EXCEPT !.ids = {1, 3}, !.status = "", !.parent = NoTodo, !.sort = "due"]}
MCNoteLimits == {1}
=============================================================================
