-------------------------------- MODULE Heap --------------------------------
(***************************************************************************)
(* The allocator of src/src/lib/malloc.c: a map with a two-bit entry for   *)
(* each block of the heap, Q entries to a qword (32 in the code).  A region *)
(* is a run of PART entries closed by an END.  palloc takes whole pages of *)
(* PQ qwords (512 in the code) from the top of the heap.                   *)
(*                                                                         *)
(* Sizes are in blocks (blocks_per(nBytes, BLK_SZ)), an address is the     *)
(* index of its block's entry.  "live" is what the callers hold: the       *)
(* regions handed out and not yet freed.                                   *)
(***************************************************************************)
EXTENDS Integers, FiniteSets

CONSTANTS Q,            \* map entries in a qword
          NQ,           \* map_size: qwords in the map
          PQ,           \* qwords that a page takes
          TopSlot,      \* the qword where palloc begins to search
          Sizes,        \* sizes malloc and realloc are called with
          Paging,       \* is palloc called?
          PastMapZero   \* does the memory behind the map read as zero?

ASSUME HeapAssumption ==
    /\ {Q, NQ, PQ} \subseteq Nat \ {0}
    /\ TopSlot \in Nat /\ TopSlot + PQ <= NQ
    /\ Sizes \subseteq Nat \ {0}
    /\ {Paging, PastMapZero} \subseteq BOOLEAN

FREE == 0
PART == 3
END  == 2

N == NQ * Q
Entries == 0..(N - 1)

VARIABLES map,    \* the entries
          live,   \* the regions the callers hold
          wild    \* malloc.c has written where it should not have

vars == <<map, live, wild>>

Region == [start : Entries, len : Nat \ {0}, page : BOOLEAN]

BlocksOf(r) == r.start .. (r.start + r.len - 1)

----------------------------------------------------------------------------
(* Reading and writing the map                                              *)

\* The first entry from s on that is not PART, N when there is none: where
\* the loops of free and realloc stop.
EndOf(m, s) == CHOOSE e \in s..N :
                  /\ e = N \/ m[e] # PART
                  /\ \A i \in s..(e - 1) : m[i] = PART

\* Mutant of Marked: no END closes the region.
MarkedOpen(m, s, n) ==
    [i \in Entries |-> IF s <= i /\ i < s + n THEN PART ELSE m[i]]

\* A region of n blocks from s on.
Marked(m, s, n) ==
    [i \in Entries |-> IF i = s + n - 1 THEN END
                       ELSE IF s <= i /\ i < s + n - 1 THEN PART
                       ELSE m[i]]

\* Mutants of Cleared: the END stays behind, the entry after it goes too.
ClearedToEnd(m, s) ==
    [i \in Entries |-> IF s <= i /\ i < EndOf(m, s) THEN FREE ELSE m[i]]
ClearedPastEnd(m, s) ==
    [i \in Entries |-> IF s <= i /\ i <= EndOf(m, s) + 1 THEN FREE ELSE m[i]]

\* free(s): PART entries are cleared up to the END, and the END.
Cleared(m, s) ==
    LET end == EndOf(m, s)
    IN  [i \in Entries |-> IF s <= i /\ i <= end THEN FREE ELSE m[i]]

\* Mutant of Shrunk: one block too many is kept.
ShrunkLate(m, s, n) ==
    [i \in Entries |-> IF i = s + n THEN END
                       ELSE IF s + n < i /\ i <= EndOf(m, s) THEN FREE
                       ELSE m[i]]

\* realloc to fewer blocks: the nth becomes the END, the rest is cleared.
Shrunk(m, s, n) ==
    [i \in Entries |-> IF i = s + n - 1 THEN END
                       ELSE IF s + n <= i /\ i <= EndOf(m, s) THEN FREE
                       ELSE m[i]]

\* palloc fills the qwords of the page with ones and takes one from the last:
\* the entry that becomes END is the first of the last qword.
PageMarked(m, s) ==
    [i \in Entries |-> IF i = s + (PQ - 1) * Q THEN END
                       ELSE IF s <= i /\ i < s + PQ * Q THEN PART
                       ELSE m[i]]

----------------------------------------------------------------------------
(* malloc: first fit.  A region of at most Q blocks lies within a qword, a   *)
(* larger one begins with a qword of its own.  The loop that looks at the    *)
(* further qwords of a large region does not stop at the end of the map.     *)

IsFree(m, i) == IF i \in Entries THEN m[i] = FREE ELSE PastMapZero

\* Mutant of Fits: the last block is not looked at.
FitsButLast(m, s, n) ==
    /\ IF n <= Q THEN (s % Q) + n <= Q ELSE s % Q = 0
    /\ \A i \in s..(s + n - 2) : IsFree(m, i)

Fits(m, s, n) ==
    /\ IF n <= Q THEN (s % Q) + n <= Q ELSE s % Q = 0
    /\ \A i \in s..(s + n - 1) : IsFree(m, i)

Openings(m, n) == {s \in Entries : Fits(m, s, n)}

FirstFit(m, n) ==
    LET openings == Openings(m, n) IN CHOOSE s \in openings : \A t \in openings : s <= t

Given(s, n) == [start |-> s, len |-> n, page |-> FALSE]

\* malloc(n), which answers 0 when nothing fits.
Malloc(n) ==
    /\ ~wild
    /\ IF Openings(map, n) # {}
       THEN /\ map' = Marked(map, FirstFit(map, n), n)
            /\ live' = live \cup {Given(FirstFit(map, n), n)}
       ELSE UNCHANGED <<map, live>>
    /\ UNCHANGED wild

\* free(p), also of a page.
Free(r) ==
    /\ ~wild
    /\ map' = Cleared(map, r.start)
    /\ live' = live \ {r}
    /\ UNCHANGED wild

\* dorealloc counts the blocks it finds in the map.
BlocksFrom(s) == EndOf(map, s) - s + 1

ReallocShrink(r, n) ==
    /\ ~wild /\ ~r.page
    /\ n < BlocksFrom(r.start)
    /\ map' = Shrunk(map, r.start, n)
    /\ live' = (live \ {r}) \cup {Given(r.start, n)}
    /\ UNCHANGED wild

\* The new region is taken while the old one is still there.  When there is
\* none, the contents are copied to address 0.
ReallocGrow(r, n) ==
    /\ ~wild /\ ~r.page
    /\ n > BlocksFrom(r.start)
    /\ IF Openings(map, n) # {}
       THEN /\ map' = Cleared(Marked(map, FirstFit(map, n), n), r.start)
            /\ live' = (live \ {r}) \cup {Given(FirstFit(map, n), n)}
            /\ UNCHANGED wild
       ELSE /\ map' = Cleared(map, r.start)
            /\ live' = live \ {r}
            /\ wild' = TRUE

----------------------------------------------------------------------------
(* palloc: from TopSlot down in steps of a page, while the index is above 0. *)

Slots == {i \in 1..TopSlot : (TopSlot - i) % PQ = 0}

SlotFree(m, i) == \A e \in (i * Q)..((i + PQ) * Q - 1) : m[e] = FREE

FreeSlots(m) == {i \in Slots : SlotFree(m, i)}

TopFree(m) ==
    LET slots == FreeSlots(m) IN CHOOSE i \in slots : \A j \in slots : j <= i

Page(i) == [start |-> i * Q, len |-> PQ * Q, page |-> TRUE]

\* With no free slot the index skips 0, unless TopSlot is a whole number of
\* pages, and palloc goes on below the map.
Palloc ==
    /\ Paging /\ ~wild
    /\ \/ /\ FreeSlots(map) # {}
          /\ map' = PageMarked(map, TopFree(map) * Q)
          /\ live' = live \cup {Page(TopFree(map))}
          /\ UNCHANGED wild
       \/ /\ FreeSlots(map) = {}
          /\ wild' = (TopSlot % PQ # 0)
          /\ UNCHANGED <<map, live>>

----------------------------------------------------------------------------

Init ==
    /\ map = [i \in Entries |-> FREE]
    /\ live = {}
    /\ wild = FALSE

Next ==
    \/ \E n \in Sizes : Malloc(n)
    \/ \E r \in live : Free(r)
    \/ \E r \in live, n \in Sizes : ReallocShrink(r, n)
    \/ \E r \in live, n \in Sizes : ReallocGrow(r, n)
    \/ Palloc

Spec == Init /\ [][Next]_vars

----------------------------------------------------------------------------
(* Properties                                                               *)

TypeOK ==
    /\ map \in [Entries -> {FREE, PART, END}]
    /\ \A r \in live : r \in Region
    /\ wild \in BOOLEAN

\* No block belongs to two callers, whatever mix of pages, small and large
\* regions was allocated, resized and freed before.
RegionsDisjoint ==
    \A r, q \in live : r # q => BlocksOf(r) \cap BlocksOf(q) = {}

\* Every region lies in the heap: init_heap's "size" is all there is for the
\* map and the heap.
RegionsInHeap == \A r \in live : BlocksOf(r) \subseteq Entries

\* The entry that closes a region: its last one, but for pages.
ClosedAt(r) == IF r.page THEN r.start + (PQ - 1) * Q ELSE r.start + r.len - 1

\* free and realloc, which only have an address, find the region again: its
\* entries are PART up to the END, and whatever follows is not free either.
Encoded ==
    \A r \in live :
        /\ map[ClosedAt(r)] = END
        /\ \A i \in BlocksOf(r) : i # ClosedAt(r) => map[i] = PART

\* What nobody holds can be allocated again: the map has no other entries.
NoLeak == \A i \in Entries : map[i] # FREE => \E r \in live : i \in BlocksOf(r)

\* The blocks nobody holds and nobody can have are the tails of pages.
LeaksOnlyPageTails ==
    \A i \in Entries : (map[i] # FREE /\ \A r \in live : i \notin BlocksOf(r)) =>
        \E s \in Slots : (s + PQ - 1) * Q < i /\ i < (s + PQ) * Q

\* No step changes the entries of a region that stays as it is.
OthersUntouched ==
    [][\A r \in live \cap live' : \A i \in BlocksOf(r) : map'[i] = map[i]]_vars

\* The regions that can be read off the map alone.
Decoded ==
    {[start |-> s, len |-> BlocksFrom(s)] :
        s \in {i \in Entries : map[i] # FREE /\ (i = 0 \/ map[i - 1] # PART)}}

R == INSTANCE Regions WITH Blocks <- N, regions <- Decoded

\* The map keeps the promise of an allocator.
ImplementsRegions == R!Spec
=============================================================================
