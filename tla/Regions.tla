------------------------------ MODULE Regions ------------------------------
(***************************************************************************)
(* What an allocator promises to those who use it: regions of blocks that  *)
(* lie inside the heap and never overlap.                                  *)
(***************************************************************************)
EXTENDS Integers

CONSTANTS Blocks,   \* number of blocks of the heap
          Sizes     \* region sizes, in blocks, that are asked for

VARIABLE regions    \* the regions handed out: first block and length

Region == [start : 0..(Blocks - 1), len : Sizes]

BlocksOf(r) == r.start .. (r.start + r.len - 1)

\* A region a request may be answered with while rs are handed out.
Fresh(r, rs) ==
    /\ BlocksOf(r) \subseteq 0..(Blocks - 1)
    /\ \A q \in rs : BlocksOf(q) \cap BlocksOf(r) = {}

Init == regions = {}

Allocate == \E r \in Region : Fresh(r, regions) /\ regions' = regions \cup {r}

Release == \E r \in regions : regions' = regions \ {r}

\* A region shrinks where it is, or moves to blocks nobody has, its old ones
\* included: it is copied before they are given back.
Resize ==
    \E r \in regions, q \in Region :
        /\ \/ q.start = r.start /\ q.len < r.len
           \/ Fresh(q, regions) /\ q.len > r.len
        /\ regions' = (regions \ {r}) \cup {q}

Next == Allocate \/ Release \/ Resize

Spec == Init /\ [][Next]_regions
=============================================================================
