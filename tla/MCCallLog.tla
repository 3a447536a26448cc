------------------------------ MODULE MCCallLog ------------------------------
(* A small instance of CallLog for TLC: two callers, rows of two columns, calls *)
(* of each kind that can meet the others' effects or be refused, and updates    *)
(* that each name one column.                                                   *)
EXTENDS CallLog

CONSTANTS p1, p2, s1, pending, completed, low, high

Columns(status, priority) == [status |-> status, priority |-> priority]

Leaf(depth) == [depth |-> depth, status |-> Columns(pending, low)]

Pair == <<Leaf(0), Leaf(1)>>
Bad  == <<Leaf(1)>>

MCCallers  == {p1, p2}
MCScopes   == {s1}
MCStatuses == {Columns(status, priority) : status \in {pending, completed}, priority \in {low, high}}
MCTimes    == {0}
MCBatches  == {Pair, <<Leaf(0)>>, Bad}

MCUpdateFields == {[status |-> completed], [priority |-> high]}

MCRequests ==
    {[op |-> "insert", scope |-> s1, root |-> NoTodo, batch |-> Pair, now |-> 0],
     [op |-> "insert", scope |-> s1, root |-> 1, batch |-> <<Leaf(0)>>, now |-> 0],
     [op |-> "insert", scope |-> s1, root |-> NoTodo, batch |-> Bad, now |-> 0],
     [op |-> "delete", ids |-> {1, 3}],
     [op |-> "clear", scope |-> s1],
     [op |-> "note", id |-> 2]}
    \cup {[op |-> "update", id |-> 1, fields |-> fields] : fields \in MCUpdateFields}
=============================================================================
