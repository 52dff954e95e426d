------------------------------- MODULE Lists -------------------------------
(***************************************************************************)
(* struct list (src/src/lib/list.c) as its users see it: the items in      *)
(* order, and len, which not every operation keeps.  List shows that the   *)
(* linked nodes implement this.                                            *)
(***************************************************************************)
EXTENDS Integers, Sequences

\* newList.
EmptyList == [nodes |-> <<>>, len |-> 0]

Has(l, p) == \E i \in 1..Len(l.nodes) : l.nodes[i] = p

IndexOf(s, p) == CHOOSE i \in 1..Len(s) : s[i] = p

\* Mutant: the neighbour's node is unlinked instead.
CutNeighbour(s, k) == [i \in 1..(Len(s) - 1) |-> IF i <= k THEN s[i] ELSE s[i + 1]]

Cut(s, k) == [i \in 1..(Len(s) - 1) |-> IF i < k THEN s[i] ELSE s[i + 1]]

PushTail(l, p) == [nodes |-> Append(l.nodes, p), len |-> l.len + 1]

PushHead(l, p) == [nodes |-> <<p>> \o l.nodes, len |-> l.len + 1]

PopHead(l) ==
    IF l.nodes = <<>> THEN l ELSE [nodes |-> Tail(l.nodes), len |-> l.len - 1]

\* A node is named by the process in it: RunnableOnce says there is one.
RemoveNode(l, p) ==
    [nodes |-> IF Has(l, p) THEN Cut(l.nodes, IndexOf(l.nodes, p)) ELSE l.nodes,
     len   |-> l.len]

\* len drops whether or not the item was there.
RemoveItem(l, p) ==
    IF l.nodes = <<>> THEN l
    ELSE [nodes |-> RemoveNode(l, p).nodes, len |-> l.len - 1]

Head0(l) == IF l.nodes = <<>> THEN 0 ELSE l.nodes[1]

NextNode(l, p) ==
    LET k == IndexOf(l.nodes, p)
    IN  IF Has(l, p) /\ k < Len(l.nodes) THEN l.nodes[k + 1] ELSE 0

\* Mutants: the next pointer without going round, and always the head.
NextOnly(l, p)  == NextNode(l, p)
AlwaysHead(l, p) == IF Has(l, p) THEN Head0(l) ELSE 0

NextCirc(l, p) ==
    IF ~Has(l, p) THEN 0
    ELSE IF NextNode(l, p) # 0 THEN NextNode(l, p) ELSE Head0(l)
=============================================================================
