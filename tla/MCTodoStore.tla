----------------------------- MODULE MCTodoStore -----------------------------
(* A small instance of TodoStore for TLC. *)
EXTENDS TodoStore, TLC

CONSTANTS s1, s2, pending, completed

With(word) == [status |-> word]

Leaf(depth) == [depth |-> depth, status |-> With(pending)]

MCScopes   == {s1, s2}
MCStatuses == {With(pending), With(completed)}
MCUpdateFields == MCStatuses
MCTimes    == {0}

(* One item, a parent with a child, two levels of nesting, and an outline whose *)
(* first item is indented.                                                      *)
MCBatches  == {<<Leaf(0)>>,
               <<Leaf(0), Leaf(1)>>,
               <<Leaf(0), Leaf(1), Leaf(2)>>,
               <<Leaf(0), Leaf(1), Leaf(2), Leaf(1)>>,
               <<Leaf(1)>>}

Symmetry == Permutations(MCScopes)
=============================================================================
