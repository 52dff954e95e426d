-------------------------------- MODULE List --------------------------------
(***************************************************************************)
(* The linked nodes of src/src/lib/list.c.  No interrupt handler uses a    *)
(* list, so an operation is one step, except for the loop of               *)
(* removeFromListWithEquality: it goes node by node, and reads the next    *)
(* pointer of the node it has just freed.  A null pointer is 0.  A freed   *)
(* node keeps its contents until malloc gives its address out again.       *)
(***************************************************************************)
EXTENDS Integers, FiniteSets, Sequences

CONSTANTS Objects,   \* items: pointers to processes, pids, strings, functions
          Addrs,     \* bound: the addresses malloc finds for nodes
          MaxLen     \* bound: how far len may drift

ASSUME ListAssumption ==
    /\ IsFiniteSet(Objects) /\ IsFiniteSet(Addrs)
    /\ 0 \notin Objects \cup Addrs
    /\ MaxLen \in Nat

VARIABLES
    node,     \* memory: address |-> struct list_node
    used,     \* the addresses malloc has given out and free not taken back
    head, tail, len,
    equalTo,  \* the item removeFromListWithEquality looks for, 0 outside it
    cur,      \* its loop variable
    before    \* history: the list, as Items, when the loop began

listVars == <<node, used, head, tail, len, equalTo, cur, before>>

----------------------------------------------------------------------------
(* The list as a sequence of items.                                         *)

\* The address n pointers from the head.
Nth[n \in 0..Cardinality(Addrs)] ==
    IF n = 0 THEN head
    ELSE IF Nth[n - 1] = 0 THEN 0 ELSE node[Nth[n - 1]].next

OnList == {Nth[n] : n \in 0..Cardinality(Addrs)} \ {0}

Count == Cardinality(OnList)

Items == [nodes |-> [i \in 1..Count |-> node[Nth[i - 1]].item], len |-> len]

EmptyItems == [nodes |-> <<>>, len |-> 0]

\* The list as its users may see it: not from within the loop.
ItemsSeen == IF equalTo = 0 THEN Items ELSE before

----------------------------------------------------------------------------
Idle == equalTo = 0

\* Mutant: the old tail does not learn of its successor.
LinkTailOneWay(p, n) ==
    /\ node' = [node EXCEPT ![n] = [item |-> p, next |-> 0, prev |-> tail]]
    /\ head' = IF tail = 0 THEN n ELSE head
    /\ tail' = n

\* Linked behind the tail.
LinkTail(p, n) ==
    /\ node' = [a \in Addrs |->
          IF a = n THEN [item |-> p, next |-> 0, prev |-> tail]
          ELSE IF a = tail THEN [node[a] EXCEPT !.next = n]
          ELSE node[a]]
    /\ head' = IF tail = 0 THEN n ELSE head
    /\ tail' = n

\* Linked before the head.
LinkHead(p, n) ==
    /\ node' = [a \in Addrs |->
          IF a = n THEN [item |-> p, next |-> head, prev |-> 0]
          ELSE IF a = head THEN [node[a] EXCEPT !.prev = n]
          ELSE node[a]]
    /\ tail' = IF head = 0 THEN n ELSE tail
    /\ head' = n

\* pushListHead and pushListTail.  No caller pushes what is on the list
\* already (RunnableOnce of Sched).
Push(p) ==
    /\ Idle /\ len < MaxLen
    /\ \A a \in OnList : node[a].item # p
    /\ len' = len + 1
    /\ \E n \in Addrs \ used :
          /\ used' = used \cup {n}
          /\ LinkTail(p, n) \/ LinkHead(p, n)
    /\ UNCHANGED <<equalTo, cur, before>>

\* Mutant: an allocator that keeps its free list in the memory it gets back.
FreeListInside(m, n) ==
    IF used = Addrs THEN m ELSE [m EXCEPT ![n].next = CHOOSE a \in Addrs \ used : TRUE]

\* free(n) leaves what is in n alone.
Freed(m, n) == m

\* The neighbours of n, linked to each other.
Unlinked(n) ==
    [a \in Addrs |->
        IF a = node[n].prev THEN [node[a] EXCEPT !.next = node[n].next]
        ELSE IF a = node[n].next THEN [node[a] EXCEPT !.prev = node[n].prev]
        ELSE node[a]]

\* Mutant: the tail is not moved.
UnlinkKeepTail(n) ==
    /\ node' = Freed(Unlinked(n), n)
    /\ head' = IF n = head THEN node[n].next ELSE head
    /\ used' = used \ {n}
    /\ UNCHANGED tail

\* removeNodeFromList: len stays.
Unlink(n) ==
    /\ node' = Freed(Unlinked(n), n)
    /\ head' = IF n = head THEN node[n].next ELSE head
    /\ tail' = IF n = tail THEN node[n].prev ELSE tail
    /\ used' = used \ {n}

RemoveNodeFromList ==
    /\ Idle
    /\ \E n \in OnList : Unlink(n)
    /\ UNCHANGED <<len, equalTo, cur, before>>

PopListHead ==
    /\ Idle /\ head # 0
    /\ len' = len - 1
    /\ head' = node[head].next
    /\ tail' = IF node[head].next = 0 THEN 0 ELSE tail
    /\ node' = Freed([a \in Addrs |-> IF a = node[head].next
                                      THEN [node[a] EXCEPT !.prev = 0]
                                      ELSE node[a]], head)
    /\ used' = used \ {head}
    /\ UNCHANGED <<equalTo, cur, before>>

\* removeFromListWithEquality up to its loop: len drops, match or not.
RemoveBegin(p) ==
    /\ Idle /\ head # 0
    /\ len > -MaxLen
    /\ len' = len - 1
    /\ equalTo' = p
    /\ cur' = head
    /\ before' = Items
    /\ UNCHANGED <<node, used, head, tail>>

\* One round of the loop.  cur = cur->next comes after free(cur).
RemoveRound ==
    /\ ~Idle
    /\ IF node[cur].item = equalTo THEN Unlink(cur) ELSE UNCHANGED <<node, used, head, tail>>
    /\ cur' = node'[cur].next
    /\ equalTo' = IF cur' = 0 THEN 0 ELSE equalTo
    /\ before' = IF cur' = 0 THEN EmptyItems ELSE before
    /\ UNCHANGED len

\* destroyList, which nobody calls, frees the nodes from the head on; newList
\* then makes another list.  destroyList frees the items and the struct list as
\* well: neither is memory that this module keeps.
DestroyList ==
    /\ Idle
    /\ used' = used \ OnList
    /\ head' = 0 /\ tail' = 0 /\ len' = 0
    /\ UNCHANGED <<node, equalTo, cur, before>>

----------------------------------------------------------------------------
ListInit ==
    /\ node = [a \in Addrs |-> [item |-> 0, next |-> 0, prev |-> 0]]
    /\ used = {}
    /\ head = 0 /\ tail = 0 /\ len = 0
    /\ equalTo = 0 /\ cur = 0
    /\ before = EmptyItems

ListNext ==
    \/ \E p \in Objects : Push(p) \/ RemoveBegin(p)
    \/ RemoveNodeFromList
    \/ PopListHead
    \/ RemoveRound
    \/ DestroyList

ListSpec == ListInit /\ [][ListNext]_listVars

----------------------------------------------------------------------------
(* Properties                                                               *)

\* Following next from head and prev from tail gives the same nodes, and
\* they are the ones malloc has given out: none is lost, none is freed.
WellLinked ==
    /\ used = OnList
    /\ head # 0 => node[head].prev = 0
    /\ IF Count = 0 THEN head = 0 /\ tail = 0 ELSE tail = Nth[Count - 1]
    /\ \A n \in 1..(Count - 1) : node[Nth[n]].prev = Nth[n - 1]

\* The removal loop only looks at nodes of the list, although it takes its
\* next step from a node that free has got back.
LoopOnNodes == cur # 0 => cur \in used /\ node[cur].item \in Objects

\* The operations are those of Lists, which Sched uses for the run queue:
\* the nodes hold the items in order, and len is what Lists says it is.
A == INSTANCE ItemList WITH items <- ItemsSeen
ImplementsItems == A!Spec
=============================================================================
