------------------------------ MODULE ItemList ------------------------------
(* What a list promises to the code that keeps processes, pids, log lines   *)
(* and listeners in it: the operations of Lists, each in one step.          *)
EXTENDS Lists

CONSTANT Objects      \* what callers put on the list; none of them is 0

VARIABLE items        \* the items in order, and len

Init == items = EmptyList

Next ==
    \/ \E p \in Objects : items' \in {PushHead(items, p), PushTail(items, p),
                                      RemoveNode(items, p), RemoveItem(items, p)}
    \/ items' = PopHead(items)
    \/ items' = EmptyList

Spec == Init /\ [][Next]_items
=============================================================================
