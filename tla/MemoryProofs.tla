---------------------------- MODULE MemoryProofs ----------------------------
(***************************************************************************)
(* What holds of the allocator for a map of any size, pages of any size,   *)
(* and whatever sizes are asked for; and that every region of the heap has *)
(* one holder, for any number of terminals, processes and buckets.         *)
(***************************************************************************)
EXTENDS ProcMemory, TLAPS, WellFoundedInduction

----------------------------------------------------------------------------
(* The shape of the heap: of a map m and the regions l that are handed out. *)

Values == {FREE, PART, END}

\* A region is written in the map as free and realloc will look for it.  With
\* zeros behind the map a large region may lie partly behind it.
Written(m, r) ==
    /\ ClosedAt(r) \in Entries => m[ClosedAt(r)] = END
    /\ \A i \in BlocksOf(r) \cap Entries : i # ClosedAt(r) => m[i] = PART

GoodRegion(m, r) ==
    /\ r \in Region
    /\ r.page => \E i \in Slots : r = Page(i)
    /\ ~PastMapZero => BlocksOf(r) \subseteq Entries
    /\ Written(m, r)

Disjoint(r, q) == BlocksOf(r) \cap BlocksOf(q) = {}

GoodHeap(m, l) ==
    /\ m \in [Entries -> Values]
    /\ \A r \in l : GoodRegion(m, r)
    /\ \A r, q \in l : r # q => Disjoint(r, q)

\* The entries of the regions in l are the same in m and m2.
Kept(m, m2, l) == \A q \in l : \A i \in BlocksOf(q) \cap Entries : m2[i] = m[i]

\* The entries that no region accounts for.
Lost(m, l) == {i \in Entries : m[i] # FREE /\ \A r \in l : i \notin BlocksOf(r)}

\* The entries of a page behind its END, which free does not clear.
TailOf(r) == {i \in BlocksOf(r) : ClosedAt(r) < i}

----------------------------------------------------------------------------
(* Arithmetic of entries, qwords and pages.                                 *)

\* The sizes of the map, of its qwords and of a page are positive numbers.
LEMMA SizesOfMap ==
    /\ N \in Nat /\ N > 0
    /\ Q \in Nat /\ Q > 0 /\ PQ \in Nat /\ PQ > 0
    /\ PQ * Q \in Nat /\ PQ * Q > 0
    /\ (PQ - 1) * Q \in Nat /\ (PQ - 1) * Q < PQ * Q
<1>1. Q \in Nat /\ NQ \in Nat /\ PQ \in Nat /\ Q > 0 /\ NQ > 0 /\ PQ > 0
  BY HeapAssumption
<1>2. ASSUME NEW x \in Nat, NEW y \in Nat, x > 0, y > 0
      PROVE  x * y \in Nat /\ x * y > 0 /\ (x - 1) * y = x * y - y /\ x * y >= y
  <2>1. x * y \in Nat /\ x * y >= y
    BY <1>2
  <2>2. (x - 1) * y = x * y - y
    BY <1>2
  <2> QED
    BY <2>1, <2>2, <1>2
<1>3. N \in Nat /\ N > 0
  BY <1>1, <1>2 DEF N
<1>4. PQ * Q \in Nat /\ PQ * Q > 0 /\ (PQ - 1) * Q = PQ * Q - Q /\ PQ * Q >= Q
  BY <1>1, <1>2
<1> QED
  BY <1>1, <1>3, <1>4

\* A page lies in the map.
LEMMA PageInMap ==
    ASSUME NEW i \in Slots
    PROVE  /\ i * Q \in Nat
           /\ i * Q + PQ * Q <= N
           /\ (i + PQ) * Q = i * Q + PQ * Q
<1>1. i \in Nat /\ Q \in Nat /\ PQ \in Nat /\ NQ \in Nat /\ i + PQ <= NQ
  BY HeapAssumption DEF Slots
<1>2. i * Q \in Nat /\ (i + PQ) * Q = i * Q + PQ * Q
  BY <1>1
<1>3. (i + PQ) * Q <= NQ * Q
  BY <1>1
<1> QED
  BY <1>2, <1>3 DEF N

\* A nonempty set of naturals has a least element.
LEMMA Least ==
    ASSUME NEW S, S \subseteq Nat, S # {}
    PROVE  \E x \in S : \A y \in S : x <= y
<1> DEFINE Less == {p \in Nat \X Nat : p[1] < p[2]}
<1>1. IsWellFoundedOn(Less, Nat)
  BY NatLessThanWellFounded DEF OpToRel, Less
<1>2. PICK x \in S : \A y \in S : ~ (<<y, x>> \in Less)
  BY <1>1, WFMin
<1>3. ASSUME NEW y \in S PROVE x <= y
  <2>1. x \in Nat /\ y \in Nat
    OBVIOUS
  <2>2. y < x => <<y, x>> \in Less
    BY <2>1
  <2> QED
    BY <1>2, <2>1, <2>2
<1> QED
  BY <1>3

----------------------------------------------------------------------------
(* What the operators of Heap do.                                           *)

\* malloc's choice is one of the openings there are.
LEMMA FirstFitFits ==
    ASSUME NEW m, NEW n, Openings(m, n) # {}
    PROVE  FirstFit(m, n) \in Entries /\ Fits(m, FirstFit(m, n), n)
<1> DEFINE S == Openings(m, n)
<1>1. S \subseteq Nat /\ S # {}
  BY SizesOfMap DEF Openings, Entries
<1>2. \E x \in S : \A y \in S : x <= y
  BY <1>1, Least
<1>3. FirstFit(m, n) \in S
  BY <1>2 DEF FirstFit
<1> QED
  BY <1>3 DEF Openings

\* And palloc's one of the free slots.
LEMMA TopFreeIsFree ==
    ASSUME NEW m, FreeSlots(m) # {}
    PROVE  TopFree(m) \in Slots /\ SlotFree(m, TopFree(m))
<1> DEFINE S == FreeSlots(m)
           D == {d \in Nat : \E i \in S : d = TopSlot - i}
<1>1. S \subseteq 1..TopSlot /\ TopSlot \in Nat
  BY HeapAssumption DEF FreeSlots, Slots
<1>2. D \subseteq Nat /\ D # {}
  BY <1>1
<1>3. PICK d \in D : \A e \in D : d <= e
  BY <1>2, Least
<1>4. PICK i \in S : d = TopSlot - i
  BY <1>3
<1>5. ASSUME NEW j \in S PROVE j <= i
  <2>1. TopSlot - j \in D
    BY <1>1
  <2> QED
    BY <2>1, <1>1, <1>3, <1>4
<1>6. TopFree(m) \in S
  BY <1>4, <1>5 DEF TopFree
<1> QED
  BY <1>6 DEF FreeSlots

\* The loops of free and realloc stop at the first entry that is not PART.
LEMMA EndOfIs ==
    ASSUME NEW m, NEW s \in Nat, NEW e \in s..N,
           e = N \/ m[e] # PART,
           \A i \in s..(e - 1) : m[i] = PART
    PROVE  EndOf(m, s) = e
<1>1. N \in Nat
  BY SizesOfMap
<1>2. ASSUME NEW f \in s..N, f = N \/ m[f] # PART, \A i \in s..(f - 1) : m[i] = PART
      PROVE  f = e
  <2>1. ~(f < e)
    BY <1>1, <1>2
  <2>2. ~(e < f)
    BY <1>1, <1>2
  <2> QED
    BY <1>1, <2>1, <2>2
<1> QED
  BY <1>2 DEF EndOf

\* Where a region of the heap is closed.
LEMMA ClosedAtFacts ==
    ASSUME NEW m, NEW r, GoodRegion(m, r)
    PROVE  /\ r.start \in Nat /\ r.len \in Nat /\ ClosedAt(r) \in Nat
           /\ r.start < N
           /\ r.start <= ClosedAt(r) /\ ClosedAt(r) <= r.start + r.len - 1
           /\ ~r.page => ClosedAt(r) = r.start + r.len - 1
<1>1. r.start \in Nat /\ r.start < N /\ r.len \in Nat /\ r.len > 0 /\ r.page \in BOOLEAN
  BY SizesOfMap DEF GoodRegion, Region, Entries
<1>2. CASE r.page
  <2>1. PICK i \in Slots : r = Page(i)
    BY <1>2 DEF GoodRegion
  <2>2. r.len = PQ * Q
    BY <2>1 DEF Page
  <2>3. ClosedAt(r) = r.start + (PQ - 1) * Q
    BY <1>2 DEF ClosedAt
  <2> QED
    BY <1>1, <1>2, <2>2, <2>3, SizesOfMap
<1>3. CASE ~r.page
  BY <1>1, <1>3 DEF ClosedAt
<1> QED
  BY <1>2, <1>3

\* From the start of a region the loops come to where it is closed.
LEMMA EndOfRegion ==
    ASSUME NEW m, NEW r, GoodRegion(m, r)
    PROVE  EndOf(m, r.start) = IF ClosedAt(r) < N THEN ClosedAt(r) ELSE N
<1>1. /\ r.start \in Nat /\ r.len \in Nat /\ ClosedAt(r) \in Nat /\ r.start < N
      /\ r.start <= ClosedAt(r) /\ ClosedAt(r) <= r.start + r.len - 1
  BY ClosedAtFacts
<1>2. \A i \in r.start..(ClosedAt(r) - 1) : i \in Entries => m[i] = PART
  BY <1>1 DEF GoodRegion, Written, BlocksOf
<1>3. N \in Nat
  BY SizesOfMap
<1>4. CASE ClosedAt(r) < N
  <2>1. m[ClosedAt(r)] = END
    BY <1>1, <1>3, <1>4 DEF GoodRegion, Written, Entries
  <2>2. \A i \in r.start..(ClosedAt(r) - 1) : m[i] = PART
    BY <1>1, <1>2, <1>3, <1>4 DEF Entries
  <2> QED
    BY <2>1, <2>2, <1>1, <1>3, <1>4, EndOfIs DEF END, PART
<1>5. CASE ~(ClosedAt(r) < N)
  <2>1. \A i \in r.start..(N - 1) : m[i] = PART
    BY <1>1, <1>2, <1>3, <1>5 DEF Entries
  <2> QED
    BY <2>1, <1>1, <1>3, <1>5, EndOfIs
<1> QED
  BY <1>4, <1>5

----------------------------------------------------------------------------
(* Handing out a region, and taking one back.                               *)

\* m2 is m with region r written where m was free.
Writes(m, m2, r) ==
    /\ \A i \in BlocksOf(r) \cap Entries : m[i] = FREE
    /\ m2 \in [Entries -> Values]
    /\ GoodRegion(m2, r)
    /\ \A i \in Entries \ BlocksOf(r) : m2[i] = m[i]

\* A region that was free has nothing in common with those handed out.
LEMMA FreshIsDisjoint ==
    ASSUME NEW m, NEW q, GoodRegion(m, q),
           NEW r \in Region, \A i \in BlocksOf(r) \cap Entries : m[i] = FREE
    PROVE  Disjoint(r, q)
<1>1. \A i \in BlocksOf(q) \cap Entries : m[i] \in {PART, END}
  BY DEF GoodRegion, Written
<1>2. \A i \in BlocksOf(q) \cap BlocksOf(r) : i \notin Entries
  BY <1>1 DEF FREE, PART, END
<1>3. /\ N \in Nat /\ N > 0
      /\ r.start \in Nat /\ r.len \in Nat /\ r.start < N /\ r.len > 0
      /\ q.start \in Nat /\ q.len \in Nat /\ q.start < N
  BY SizesOfMap, ClosedAtFacts DEF Region, Entries
<1>4. SUFFICES ASSUME NEW i \in BlocksOf(q) \cap BlocksOf(r) PROVE FALSE
  BY DEF Disjoint
<1>5. i >= N
  BY <1>2, <1>3, <1>4 DEF Entries, BlocksOf
<1>6. N - 1 \in BlocksOf(q) \cap BlocksOf(r)
  BY <1>3, <1>4, <1>5 DEF BlocksOf
<1> QED
  BY <1>2, <1>3, <1>6 DEF Entries

\* The map keeps what it says of a region whose entries do not change.
LEMMA StaysGood ==
    ASSUME NEW m, NEW m2, NEW q, GoodRegion(m, q),
           \A i \in BlocksOf(q) \cap Entries : m2[i] = m[i]
    PROVE  GoodRegion(m2, q)
<1>1. ClosedAt(q) \in BlocksOf(q)
  BY ClosedAtFacts DEF BlocksOf
<1> QED
  BY <1>1 DEF GoodRegion, Written

\* A region written where all entries were free joins the others, and touches
\* none of them.
LEMMA TakeFacts ==
    ASSUME NEW m, NEW m2, NEW l, GoodHeap(m, l), NEW r, Writes(m, m2, r)
    PROVE  /\ GoodHeap(m2, l \cup {r})
           /\ r \notin l
           /\ \A q \in l : Disjoint(r, q)
           /\ Kept(m, m2, l)
           /\ Lost(m2, l \cup {r}) \subseteq Lost(m, l)
<1>1. r \in Region
  BY DEF Writes, GoodRegion
<1>2. \A q \in l : Disjoint(r, q)
  BY <1>1, FreshIsDisjoint DEF GoodHeap, Writes
<1>3. r.start \in BlocksOf(r)
  BY <1>1, SizesOfMap DEF Region, BlocksOf, Entries
<1>4. r \notin l
  BY <1>2, <1>3 DEF Disjoint
<1>5. \A q \in l : \A i \in BlocksOf(q) \cap Entries : m2[i] = m[i]
  BY <1>2 DEF Disjoint, Writes
<1>6. \A q \in l : GoodRegion(m2, q)
  BY <1>5, StaysGood DEF GoodHeap
<1>7. \A p, q \in l \cup {r} : p # q => Disjoint(p, q)
  BY <1>2 DEF GoodHeap, Disjoint
<1>8. GoodHeap(m2, l \cup {r})
  BY <1>6, <1>7 DEF GoodHeap, Writes
<1>9. Lost(m2, l \cup {r}) \subseteq Lost(m, l)
  BY DEF Lost, Writes
<1> QED
  BY <1>2, <1>4, <1>5, <1>8, <1>9 DEF Kept

\* malloc.
LEMMA MallocWrites ==
    ASSUME NEW m \in [Entries -> Values], NEW n \in Nat \ {0}, Openings(m, n) # {}
    PROVE  Writes(m, Marked(m, FirstFit(m, n), n), Given(FirstFit(m, n), n))
<1> DEFINE s  == FirstFit(m, n)
           r  == Given(s, n)
           m2 == Marked(m, s, n)
<1>1. s \in Entries /\ \A i \in s..(s + n - 1) : IsFree(m, i)
  BY FirstFitFits DEF Fits
<1> HIDE DEF s
<1>2. N \in Nat /\ s \in Nat /\ s < N
  BY <1>1, SizesOfMap DEF Entries
<1>3. /\ r.start = s /\ r.len = n /\ r.page = FALSE /\ r \in Region
      /\ BlocksOf(r) = s..(s + n - 1)
      /\ ClosedAt(r) = s + n - 1
  BY <1>1 DEF Given, Region, BlocksOf, ClosedAt
<1>4. \A i \in BlocksOf(r) \cap Entries : m[i] = FREE
  BY <1>1, <1>3 DEF IsFree
<1>5. m2 \in [Entries -> Values]
  BY DEF Marked, Values
<1>6. \A i \in Entries : m2[i] = IF i = s + n - 1 THEN END
                                 ELSE IF s <= i /\ i < s + n - 1 THEN PART ELSE m[i]
  BY DEF Marked
<1> HIDE DEF m2
<1>7. Written(m2, r)
  BY <1>2, <1>3, <1>6 DEF Written, Entries
<1>8. \A i \in Entries \ BlocksOf(r) : m2[i] = m[i]
  BY <1>2, <1>3, <1>6 DEF Entries
<1>9. ~PastMapZero => BlocksOf(r) \subseteq Entries
  BY <1>1, <1>3 DEF IsFree
<1>10. GoodRegion(m2, r)
  BY <1>3, <1>7, <1>9 DEF GoodRegion
<1> QED
  BY <1>4, <1>5, <1>8, <1>10 DEF Writes, s, m2

\* palloc.
LEMMA PallocWrites ==
    ASSUME NEW m \in [Entries -> Values], FreeSlots(m) # {}
    PROVE  Writes(m, PageMarked(m, TopFree(m) * Q), Page(TopFree(m)))
<1> DEFINE i  == TopFree(m)
           s  == i * Q
           r  == Page(i)
           m2 == PageMarked(m, s)
<1>1. i \in Slots /\ SlotFree(m, i)
  BY TopFreeIsFree
<1> HIDE DEF i
<1>2. s \in Nat /\ s + PQ * Q <= N /\ (i + PQ) * Q = s + PQ * Q
  BY <1>1, PageInMap
<1> HIDE DEF s
<1> DEFINE k == PQ * Q
           c == (PQ - 1) * Q
<1>3. N \in Nat /\ k \in Nat /\ k > 0 /\ c \in Nat /\ c < k
  BY SizesOfMap
<1>4. /\ r.start = s /\ r.len = k /\ r.page = TRUE
      /\ BlocksOf(r) = s..(s + k - 1)
      /\ ClosedAt(r) = s + c
      /\ s \in Entries /\ r \in Region
  BY <1>2, <1>3 DEF Page, s, BlocksOf, ClosedAt, Entries, Region
<1>5. \A e \in s..(s + k - 1) : m[e] = FREE
  <2>1. i * Q = s /\ (i + PQ) * Q = s + k /\ s \in Nat /\ k \in Nat
    BY <1>2, <1>3 DEF s
  <2>2. \A e \in (i * Q)..((i + PQ) * Q - 1) : m[e] = FREE
    BY <1>1 DEF SlotFree
  <2> HIDE DEF k
  <2> QED
    BY <2>1, <2>2
<1>6. m2 \in [Entries -> Values]
  BY DEF PageMarked, Values
<1>7. \A e \in Entries : m2[e] = IF e = s + c THEN END
                                 ELSE IF s <= e /\ e < s + k THEN PART ELSE m[e]
  BY DEF PageMarked
<1> HIDE DEF m2, k, c, r
<1>8. BlocksOf(r) \subseteq Entries
  BY <1>2, <1>3, <1>4 DEF Entries, k
<1>9. Written(m2, r)
  BY <1>2, <1>3, <1>4, <1>7 DEF Written, Entries
<1>10. \A e \in Entries \ BlocksOf(r) : m2[e] = m[e]
  BY <1>2, <1>3, <1>4, <1>7 DEF Entries
<1>11. GoodRegion(m2, r)
  BY <1>1, <1>4, <1>8, <1>9 DEF GoodRegion, r
<1> QED
  BY <1>4, <1>5, <1>6, <1>10, <1>11 DEF Writes, s, m2, i, r

\* free, of a region or a page.
LEMMA GiveFacts ==
    ASSUME NEW m, NEW l, GoodHeap(m, l), NEW r \in l
    PROVE  /\ GoodHeap(Cleared(m, r.start), l \ {r})
           /\ Kept(m, Cleared(m, r.start), l \ {r})
           /\ Lost(Cleared(m, r.start), l \ {r}) \subseteq Lost(m, l) \cup TailOf(r)
<1> DEFINE s  == r.start
           m2 == Cleared(m, s)
<1>1. GoodRegion(m, r)
  BY DEF GoodHeap
<1>2. /\ s \in Nat /\ r.len \in Nat /\ ClosedAt(r) \in Nat /\ N \in Nat
      /\ s <= ClosedAt(r) /\ ClosedAt(r) <= s + r.len - 1
  BY <1>1, ClosedAtFacts, SizesOfMap
<1>3. EndOf(m, s) = IF ClosedAt(r) < N THEN ClosedAt(r) ELSE N
  BY <1>1, EndOfRegion
<1>4. m2 \in [Entries -> Values]
  BY DEF Cleared, Values, GoodHeap
<1>5. \A i \in Entries : m2[i] = IF s <= i /\ i <= ClosedAt(r) THEN FREE ELSE m[i]
  BY <1>2, <1>3 DEF Cleared, Entries
<1> HIDE DEF m2
<1>6. \A i \in Entries \ BlocksOf(r) : m2[i] = m[i]
  BY <1>2, <1>5 DEF BlocksOf, Entries
<1>7. \A q \in l \ {r} : \A i \in BlocksOf(q) \cap Entries : m2[i] = m[i]
  BY <1>6 DEF GoodHeap, Disjoint
<1>8. \A q \in l \ {r} : GoodRegion(m2, q)
  BY <1>7, StaysGood DEF GoodHeap
<1>9. GoodHeap(m2, l \ {r})
  BY <1>4, <1>8 DEF GoodHeap
<1>10. ASSUME NEW i \in Lost(m2, l \ {r}) PROVE i \in Lost(m, l) \cup TailOf(r)
  <2>1. i \in Entries /\ m2[i] # FREE /\ m[i] # FREE /\ ~(s <= i /\ i <= ClosedAt(r))
    BY <1>5, <1>10 DEF Lost
  <2>2. CASE i \in BlocksOf(r)
    <3>1. s <= i /\ i \in Nat
      BY <2>1, <2>2 DEF BlocksOf, Entries
    <3> QED
      BY <2>1, <2>2, <3>1, <1>2 DEF TailOf
  <2>3. CASE i \notin BlocksOf(r)
    BY <1>10, <2>1, <2>3 DEF Lost
  <2> QED
    BY <2>2, <2>3
<1> QED
  BY <1>7, <1>9, <1>10 DEF m2, Kept

\* What realloc does to a region that is to have n blocks less than it has.
LEMMA ShrinkFacts ==
    ASSUME NEW m, NEW l, GoodHeap(m, l), NEW r \in l, ~r.page,
           NEW n \in Nat \ {0}, n < EndOf(m, r.start) - r.start + 1
    PROVE  /\ GoodHeap(Shrunk(m, r.start, n), (l \ {r}) \cup {Given(r.start, n)})
           /\ Kept(m, Shrunk(m, r.start, n), l \ {r})
           /\ Lost(Shrunk(m, r.start, n), (l \ {r}) \cup {Given(r.start, n)}) \subseteq Lost(m, l)
           /\ n < r.len
<1> DEFINE s  == r.start
           g  == Given(s, n)
           m2 == Shrunk(m, s, n)
<1>1. GoodRegion(m, r)
  BY DEF GoodHeap
<1>2. /\ s \in Nat /\ r.len \in Nat /\ N \in Nat /\ s < N
      /\ ClosedAt(r) = s + r.len - 1
  BY <1>1, ClosedAtFacts, SizesOfMap
<1>3. EndOf(m, s) = IF s + r.len - 1 < N THEN s + r.len - 1 ELSE N
  BY <1>1, <1>2, EndOfRegion
<1>4. n < r.len /\ s + n - 1 < N
  BY <1>2, <1>3
<1>5. /\ g.start = s /\ g.len = n /\ g.page = FALSE /\ g \in Region
      /\ BlocksOf(g) = s..(s + n - 1) /\ BlocksOf(g) \subseteq BlocksOf(r)
      /\ ClosedAt(g) = s + n - 1
  BY <1>1, <1>2, <1>4 DEF Given, Region, BlocksOf, ClosedAt, GoodRegion
<1>6. m2 \in [Entries -> Values]
  BY DEF Shrunk, Values, GoodHeap
<1>7. \A i \in Entries : m2[i] = IF i = s + n - 1 THEN END
                                 ELSE IF s + n <= i /\ i <= s + r.len - 1 THEN FREE ELSE m[i]
  BY <1>2, <1>3 DEF Shrunk, Entries
<1> HIDE DEF m2, g
<1>8. \A i \in Entries \ BlocksOf(r) : m2[i] = m[i]
  BY <1>2, <1>4, <1>7 DEF BlocksOf, Entries
<1>9. \A q \in l \ {r} : \A i \in BlocksOf(q) \cap Entries : m2[i] = m[i]
  BY <1>8 DEF GoodHeap, Disjoint
<1>10. \A q \in l \ {r} : GoodRegion(m2, q)
  BY <1>9, StaysGood DEF GoodHeap
<1>11. GoodRegion(m2, g)
  <2>1. \A i \in s..(s + n - 2) : i \in Entries /\ m[i] = PART
    BY <1>1, <1>2, <1>4 DEF GoodRegion, Written, BlocksOf, Entries
  <2>2. ASSUME NEW i \in BlocksOf(g) \cap Entries, i # ClosedAt(g) PROVE m2[i] = PART
    <3>1. i \in s..(s + n - 2)
      BY <2>2, <1>2, <1>5 DEF Entries
    <3>2. m2[i] = m[i]
      BY <3>1, <1>2, <1>7
    <3> QED
      BY <2>1, <3>1, <3>2
  <2>3. ClosedAt(g) \in Entries /\ m2[ClosedAt(g)] = END
    BY <1>2, <1>4, <1>5, <1>7 DEF Entries
  <2>4. Written(m2, g)
    BY <2>2, <2>3 DEF Written
  <2> QED
    BY <2>4, <1>1, <1>5 DEF GoodRegion
<1>12. \A q \in l \ {r} : Disjoint(g, q) /\ Disjoint(q, g)
  BY <1>5 DEF GoodHeap, Disjoint
<1>13. GoodHeap(m2, (l \ {r}) \cup {g})
  BY <1>6, <1>10, <1>11, <1>12 DEF GoodHeap
<1>14. ASSUME NEW i \in Lost(m2, (l \ {r}) \cup {g}) PROVE i \in Lost(m, l)
  <2>1. i \in Entries /\ m2[i] # FREE /\ i \notin BlocksOf(g)
    BY <1>14 DEF Lost
  <2>2. i \notin BlocksOf(r)
    BY <2>1, <1>2, <1>4, <1>5, <1>7 DEF BlocksOf, Entries
  <2> QED
    BY <2>1, <2>2, <1>8, <1>14 DEF Lost
<1> QED
  BY <1>4, <1>9, <1>13, <1>14 DEF m2, g, Kept

----------------------------------------------------------------------------
(* The inductive invariant.                                                 *)

\* A good heap; entries are lost in the tails of pages only, and none when
\* there are no pages; and regions have the sizes that were asked for.
HeapInv ==
    /\ GoodHeap(map, live)
    /\ wild \in BOOLEAN
    /\ LeaksOnlyPageTails
    /\ ~Paging => Lost(map, live) = {} /\ \A r \in live : ~r.page
    /\ \A r \in live : ~r.page => r.len \in Sizes

\* What a step leaves of the regions that stay.
Untouched == Kept(map, map', live \cap live')

\* What the invariant says of lost entries, in terms of Lost.
LEMMA LostFacts ==
    /\ LeaksOnlyPageTails <=>
          \A i \in Lost(map, live) : \E s \in Slots : (s + PQ - 1) * Q < i /\ i < (s + PQ) * Q
    /\ NoLeak <=> Lost(map, live) = {}
BY DEF LeaksOnlyPageTails, NoLeak, Lost

\* The tail of a page is one.
LEMMA TailOfPage ==
    ASSUME NEW m, NEW r, GoodRegion(m, r), r.page, NEW i \in TailOf(r)
    PROVE  \E s \in Slots : (s + PQ - 1) * Q < i /\ i < (s + PQ) * Q
<1>1. PICK s \in Slots : r = Page(s)
  BY DEF GoodRegion
<1>2. r.start = s * Q /\ r.len = PQ * Q
  BY <1>1 DEF Page
<1>3. s * Q \in Nat /\ (s + PQ) * Q = s * Q + PQ * Q
  BY PageInMap
<1>4. (s + PQ - 1) * Q = s * Q + (PQ - 1) * Q
  <2>1. s \in Nat /\ PQ \in Nat /\ Q \in Nat
    BY HeapAssumption DEF Slots
  <2> QED
    BY <2>1
<1>5. ClosedAt(r) = s * Q + (PQ - 1) * Q
  BY <1>2 DEF ClosedAt
<1>6. ClosedAt(r) < i /\ i < r.start + r.len /\ i \in Int
  <2>1. i \in r.start..(r.start + r.len - 1) /\ ClosedAt(r) < i
    BY DEF TailOf, BlocksOf
  <2>2. r.start \in Nat /\ r.len \in Nat
    BY ClosedAtFacts
  <2> QED
    BY <2>1, <2>2
<1>7. (s + PQ - 1) * Q < i
  BY <1>4, <1>5, <1>6
<1>8. i < (s + PQ) * Q
  BY <1>2, <1>3, <1>6
<1> QED
  BY <1>7, <1>8

\* But for pages, a region is closed at its end.
LEMMA NoTail ==
    ASSUME NEW m, NEW r, GoodRegion(m, r), ~r.page
    PROVE  TailOf(r) = {}
BY ClosedAtFacts DEF TailOf, BlocksOf

\* An empty heap is a good one.
LEMMA InitInv == Init => HeapInv
<1> SUFFICES ASSUME Init PROVE HeapInv
  OBVIOUS
<1>1. Lost(map, live) = {}
  BY DEF Init, Lost
<1>2. GoodHeap(map, live)
  BY DEF Init, GoodHeap, Values
<1> QED
  BY <1>1, <1>2, LostFacts DEF Init, HeapInv

\* A step that writes a region and hands it out.
LEMMA TakeInv ==
    ASSUME HeapInv, NEW r, Writes(map, map', r), live' = live \cup {r},
           wild' = wild, r.page => Paging, ~r.page => r.len \in Sizes
    PROVE  HeapInv' /\ Untouched
<1>1. /\ GoodHeap(map', live')
      /\ Kept(map, map', live)
      /\ Lost(map', live') \subseteq Lost(map, live)
  BY TakeFacts DEF HeapInv
<1>2. Untouched
  BY <1>1 DEF Untouched, Kept
<1>3. LeaksOnlyPageTails'
  <2>1. \A i \in Lost(map, live) : \E s \in Slots : (s + PQ - 1) * Q < i /\ i < (s + PQ) * Q
    BY LostFacts DEF HeapInv
  <2> QED
    BY <1>1, <2>1 DEF LeaksOnlyPageTails, Lost
<1> QED
  BY <1>1, <1>2, <1>3 DEF HeapInv

\* A step that clears a region which has been given back.
LEMMA GiveInv ==
    ASSUME HeapInv, NEW r \in live, map' = Cleared(map, r.start), live' = live \ {r},
           wild' \in BOOLEAN
    PROVE  HeapInv' /\ Untouched
<1>1. /\ GoodHeap(map', live')
      /\ Kept(map, map', live \ {r})
      /\ Lost(map', live') \subseteq Lost(map, live) \cup TailOf(r)
  <2>1. GoodHeap(map, live)
    BY DEF HeapInv
  <2> QED
    BY <2>1, GiveFacts
<1>2. GoodRegion(map, r)
  BY DEF HeapInv, GoodHeap
<1>3. Untouched
  BY <1>1 DEF Untouched, Kept
<1>4. LeaksOnlyPageTails'
  <2>1. \A i \in Lost(map, live) : \E s \in Slots : (s + PQ - 1) * Q < i /\ i < (s + PQ) * Q
    BY LostFacts DEF HeapInv
  <2>2. \A i \in TailOf(r) : \E s \in Slots : (s + PQ - 1) * Q < i /\ i < (s + PQ) * Q
    BY <1>2, TailOfPage, NoTail
  <2> QED
    BY <1>1, <2>1, <2>2 DEF LeaksOnlyPageTails, Lost
<1>5. ~Paging => Lost(map', live') = {}
  BY <1>1, <1>2, NoTail DEF HeapInv
<1> QED
  BY <1>1, <1>3, <1>4, <1>5 DEF HeapInv

\* malloc.
LEMMA MallocInv ==
    ASSUME HeapInv, NEW n \in Sizes, Malloc(n)
    PROVE  HeapInv' /\ Untouched
<1>1. n \in Nat \ {0} /\ map \in [Entries -> Values]
  BY HeapAssumption DEF HeapInv, GoodHeap
<1>2. CASE Openings(map, n) # {}
  <2> DEFINE r == Given(FirstFit(map, n), n)
  <2>1. map' = Marked(map, FirstFit(map, n), n) /\ live' = live \cup {r} /\ wild' = wild
    BY <1>2 DEF Malloc
  <2>2. Writes(map, map', r)
    BY <1>1, <1>2, <2>1, MallocWrites
  <2>3. r.page = FALSE /\ r.len = n
    BY DEF Given
  <2> HIDE DEF r
  <2> QED
    BY <2>1, <2>2, <2>3, TakeInv
<1>3. CASE Openings(map, n) = {}
  BY <1>3 DEF Malloc, HeapInv, Untouched, Kept, LeaksOnlyPageTails
<1> QED
  BY <1>2, <1>3

\* palloc.
LEMMA PallocInv ==
    ASSUME HeapInv, Palloc
    PROVE  HeapInv' /\ Untouched
<1>1. map \in [Entries -> Values] /\ Paging
  BY DEF HeapInv, GoodHeap, Palloc
<1>2. CASE FreeSlots(map) # {}
  <2> DEFINE r == Page(TopFree(map))
  <2>1. map' = PageMarked(map, TopFree(map) * Q) /\ live' = live \cup {r} /\ wild' = wild
    BY <1>2 DEF Palloc
  <2>2. Writes(map, map', r)
    BY <1>1, <1>2, <2>1, PallocWrites
  <2>3. r.page = TRUE
    BY DEF Page
  <2> HIDE DEF r
  <2> QED
    BY <1>1, <2>1, <2>2, <2>3, TakeInv
<1>3. CASE FreeSlots(map) = {}
  BY <1>3 DEF Palloc, HeapInv, Untouched, Kept, LeaksOnlyPageTails
<1> QED
  BY <1>2, <1>3

\* realloc to fewer blocks.
LEMMA ReallocShrinkInv ==
    ASSUME HeapInv, NEW r \in live, NEW n \in Sizes, ReallocShrink(r, n)
    PROVE  HeapInv' /\ Untouched
<1> DEFINE g == Given(r.start, n)
<1>1. /\ ~r.page /\ n < EndOf(map, r.start) - r.start + 1
      /\ map' = Shrunk(map, r.start, n) /\ live' = (live \ {r}) \cup {g} /\ wild' = wild
  BY DEF ReallocShrink, BlocksFrom
<1>2. n \in Nat \ {0}
  BY HeapAssumption
<1>3. /\ GoodHeap(map', live')
      /\ Kept(map, map', live \ {r})
      /\ Lost(map', live') \subseteq Lost(map, live)
      /\ n < r.len
  <2>1. GoodHeap(map, live)
    BY DEF HeapInv
  <2> QED
    BY <1>1, <1>2, <2>1, ShrinkFacts
<1>4. g.page = FALSE /\ g.len = n
  BY DEF Given
<1> HIDE DEF g
<1>5. r \notin live'
  <2>1. r.len \in Nat
    BY DEF HeapInv, GoodHeap, GoodRegion, Region
  <2> QED
    BY <2>1, <1>1, <1>2, <1>3, <1>4
<1>6. Untouched
  BY <1>3, <1>5 DEF Untouched, Kept
<1>7. LeaksOnlyPageTails'
  <2>1. \A i \in Lost(map, live) : \E s \in Slots : (s + PQ - 1) * Q < i /\ i < (s + PQ) * Q
    BY LostFacts DEF HeapInv
  <2> QED
    BY <1>3, <2>1 DEF LeaksOnlyPageTails, Lost
<1> QED
  BY <1>1, <1>3, <1>4, <1>6, <1>7 DEF HeapInv

\* realloc to more blocks: the new region is taken before the old one is given
\* back.
LEMMA ReallocGrowInv ==
    ASSUME HeapInv, NEW r \in live, NEW n \in Sizes, ReallocGrow(r, n)
    PROVE  HeapInv' /\ Untouched
<1>1. /\ n \in Nat \ {0} /\ map \in [Entries -> Values] /\ GoodHeap(map, live)
      /\ GoodRegion(map, r) /\ ~r.page
  BY HeapAssumption DEF HeapInv, GoodHeap, ReallocGrow
<1>2. CASE Openings(map, n) # {}
  <2> DEFINE g  == Given(FirstFit(map, n), n)
             m1 == Marked(map, FirstFit(map, n), n)
             l1 == live \cup {g}
  <2>1. Writes(map, m1, g)
    BY <1>1, <1>2, MallocWrites
  <2>2. map' = Cleared(m1, r.start) /\ live' = (live \ {r}) \cup {g} /\ wild' = wild
    BY <1>2 DEF ReallocGrow
  <2>3. g.page = FALSE /\ g.len = n
    BY DEF Given
  <2> HIDE DEF g, m1
  <2>4. /\ GoodHeap(m1, l1)
        /\ g \notin live
        /\ Kept(map, m1, live)
        /\ Lost(m1, l1) \subseteq Lost(map, live)
    BY <1>1, <2>1, TakeFacts
  <2>5. r \in l1 /\ live' = l1 \ {r}
    BY <2>2, <2>4
  <2> HIDE DEF l1
  <2>6. /\ GoodHeap(map', live')
        /\ Kept(m1, map', live')
        /\ Lost(map', live') \subseteq Lost(m1, l1) \cup TailOf(r)
    <3>1. /\ GoodHeap(Cleared(m1, r.start), l1 \ {r})
          /\ Kept(m1, Cleared(m1, r.start), l1 \ {r})
          /\ Lost(Cleared(m1, r.start), l1 \ {r}) \subseteq Lost(m1, l1) \cup TailOf(r)
      BY <2>4, <2>5, GiveFacts
    <3> QED
      BY <2>2, <2>5, <3>1
  <2>7. Lost(map', live') \subseteq Lost(map, live)
    BY <1>1, <2>4, <2>6, NoTail
  <2>8. Untouched
    BY <2>4, <2>6 DEF Untouched, Kept
  <2>9. LeaksOnlyPageTails'
    <3>1. \A i \in Lost(map, live) : \E s \in Slots : (s + PQ - 1) * Q < i /\ i < (s + PQ) * Q
      BY LostFacts DEF HeapInv
    <3> QED
      BY <2>7, <3>1 DEF LeaksOnlyPageTails, Lost
  <2> QED
    BY <2>2, <2>3, <2>6, <2>7, <2>8, <2>9 DEF HeapInv
<1>3. CASE Openings(map, n) = {}
  <2>1. map' = Cleared(map, r.start) /\ live' = live \ {r} /\ wild' = TRUE
    BY <1>3 DEF ReallocGrow
  <2> QED
    BY <2>1, GiveInv
<1> QED
  BY <1>2, <1>3

\* No step of the allocator undoes the invariant.
LEMMA NextInv ==
    ASSUME HeapInv, [Next]_vars
    PROVE  HeapInv' /\ Untouched
<1>1. ASSUME NEW n \in Sizes, Malloc(n) PROVE HeapInv' /\ Untouched
  BY <1>1, MallocInv
<1>2. ASSUME NEW r \in live, Free(r) PROVE HeapInv' /\ Untouched
  BY <1>2, GiveInv DEF Free, HeapInv
<1>3. ASSUME NEW r \in live, NEW n \in Sizes, ReallocShrink(r, n) PROVE HeapInv' /\ Untouched
  BY <1>3, ReallocShrinkInv
<1>4. ASSUME NEW r \in live, NEW n \in Sizes, ReallocGrow(r, n) PROVE HeapInv' /\ Untouched
  BY <1>4, ReallocGrowInv
<1>5. CASE Palloc
  BY <1>5, PallocInv
<1>6. CASE UNCHANGED vars
  BY <1>6 DEF vars, HeapInv, Untouched, Kept, LeaksOnlyPageTails
<1> QED
  BY <1>1, <1>2, <1>3, <1>4, <1>5, <1>6 DEF Next

\* Every reachable heap is a good one.
THEOREM Invariance == Spec => []HeapInv
<1>1. Init => HeapInv
  BY InitInv
<1>2. HeapInv /\ [Next]_vars => HeapInv'
  BY NextInv
<1> QED
  BY <1>1, <1>2, PTL DEF Spec

----------------------------------------------------------------------------
(* What it means for the callers.                                           *)

\* malloc, palloc, realloc and free keep the callers' regions apart.
THEOREM Disjointness == Spec => []RegionsDisjoint
<1>1. HeapInv => RegionsDisjoint
  BY DEF HeapInv, GoodHeap, Disjoint, RegionsDisjoint
<1> QED
  BY <1>1, Invariance, PTL

\* Entries are lost where palloc sets its END too early, and nowhere else.
THEOREM Leaks == Spec => []LeaksOnlyPageTails
<1>1. HeapInv => LeaksOnlyPageTails
  BY DEF HeapInv
<1> QED
  BY <1>1, Invariance, PTL

\* Without pages nothing is lost.
THEOREM NoLeaks == ASSUME ~Paging PROVE Spec => []NoLeak
<1>1. HeapInv => NoLeak
  BY LostFacts DEF HeapInv
<1> QED
  BY <1>1, Invariance, PTL

\* Where the loop of malloc cannot take what is behind the map for free
\* entries, regions lie in the heap.
THEOREM InHeap == ASSUME ~PastMapZero PROVE Spec => []RegionsInHeap
<1>1. HeapInv => RegionsInHeap
  BY DEF HeapInv, GoodHeap, GoodRegion, RegionsInHeap
<1> QED
  BY <1>1, Invariance, PTL

\* And free finds in the map what malloc has put there.
THEOREM Encoding == ASSUME ~PastMapZero PROVE Spec => []Encoded
<1>1. ASSUME HeapInv, NEW r \in live
      PROVE  /\ map[ClosedAt(r)] = END
             /\ \A i \in BlocksOf(r) : i # ClosedAt(r) => map[i] = PART
  <2>1. GoodRegion(map, r)
    BY <1>1 DEF HeapInv, GoodHeap
  <2>2. ClosedAt(r) \in BlocksOf(r)
    BY <2>1, ClosedAtFacts DEF BlocksOf
  <2> QED
    BY <2>1, <2>2 DEF GoodRegion, Written
<1>2. HeapInv => Encoded
  BY <1>1 DEF Encoded
<1> QED
  BY <1>2, Invariance, PTL

\* No call touches the map where another caller's region is.
THEOREM Untouching == ASSUME ~PastMapZero PROVE Spec => OthersUntouched
<1> DEFINE A == \A r \in live \cap live' : \A i \in BlocksOf(r) : map'[i] = map[i]
<1>1. HeapInv /\ [Next]_vars => A
  <2> SUFFICES ASSUME HeapInv, [Next]_vars, NEW r \in live \cap live', NEW i \in BlocksOf(r)
               PROVE  map'[i] = map[i]
    OBVIOUS
  <2>1. Untouched
    BY NextInv
  <2>2. i \in Entries
    BY DEF HeapInv, GoodHeap, GoodRegion
  <2> QED
    BY <2>1, <2>2 DEF Untouched, Kept
<1>2. HeapInv /\ [Next]_vars => [A]_vars
  BY <1>1
<1> QED
  BY <1>2, Invariance, PTL DEF Spec, OthersUntouched

----------------------------------------------------------------------------
(* Without pages, and where malloc stays inside the map, the map is all an   *)
(* allocator needs: what can be read off it changes as Regions says.         *)

\* A region as Regions has it.
Plain(r) == [start |-> r.start, len |-> r.len]

\* The regions read off the map are those that were handed out.
LEMMA DecodedIsLive ==
    ASSUME HeapInv, ~Paging, ~PastMapZero
    PROVE  Decoded = {Plain(r) : r \in live}
<1> DEFINE Starts == {i \in Entries : map[i] # FREE /\ (i = 0 \/ map[i - 1] # PART)}
<1>1. \A r \in live : GoodRegion(map, r) /\ ~r.page
  BY DEF HeapInv, GoodHeap
<1>2. \A r \in live : /\ r.start \in Nat /\ r.len \in Nat /\ r.len > 0
                      /\ ClosedAt(r) = r.start + r.len - 1
                      /\ BlocksOf(r) = r.start..(r.start + r.len - 1)
                      /\ r.start + r.len - 1 < N
  <2> SUFFICES ASSUME NEW r \in live
               PROVE  /\ r.start \in Nat /\ r.len \in Nat /\ r.len > 0
                      /\ ClosedAt(r) = r.start + r.len - 1
                      /\ BlocksOf(r) = r.start..(r.start + r.len - 1)
                      /\ r.start + r.len - 1 < N
    OBVIOUS
  <2>1. /\ r.start \in Nat /\ r.len \in Nat /\ r.len > 0
        /\ ClosedAt(r) = r.start + r.len - 1
    BY <1>1, ClosedAtFacts DEF GoodRegion, Region
  <2>2. BlocksOf(r) = r.start..(r.start + r.len - 1) /\ BlocksOf(r) \subseteq 0..(N - 1)
    BY <1>1 DEF GoodRegion, BlocksOf, Entries
  <2>3. r.start + r.len - 1 \in 0..(N - 1)
    <3>1. r.start + r.len - 1 \in BlocksOf(r)
      BY <2>1, <2>2
    <3> QED
      BY <2>2, <3>1
  <2> QED
    BY <2>1, <2>2, <2>3, SizesOfMap
<1>3. \A r \in live : BlocksFrom(r.start) = r.len
  <2> SUFFICES ASSUME NEW r \in live PROVE BlocksFrom(r.start) = r.len
    OBVIOUS
  <2>1. EndOf(map, r.start) = r.start + r.len - 1
    BY <1>1, <1>2, EndOfRegion
  <2> QED
    BY <2>1, <1>2 DEF BlocksFrom
<1>4. \A r \in live : \A i \in r.start..(r.start + r.len - 1) :
         map[i] = IF i = r.start + r.len - 1 THEN END ELSE PART
  <2> SUFFICES ASSUME NEW r \in live, NEW i \in r.start..(r.start + r.len - 1)
               PROVE  map[i] = IF i = r.start + r.len - 1 THEN END ELSE PART
    OBVIOUS
  <2>1. i \in BlocksOf(r) /\ i \in Entries
    <3>1. r.start \in Nat /\ r.len \in Nat /\ r.start + r.len - 1 < N /\ N \in Nat
      BY <1>2, SizesOfMap
    <3>2. i \in BlocksOf(r)
      BY <1>2
    <3> QED
      BY <3>1, <3>2 DEF Entries
  <2> QED
    BY <2>1, <1>1, <1>2 DEF GoodRegion, Written
<1>5. \A i \in Entries : map[i] # FREE => \E r \in live : i \in BlocksOf(r)
  BY DEF HeapInv, Lost
<1>6. ASSUME NEW r \in live PROVE r.start \in Starts
  <2>1. r.start \in Entries /\ map[r.start] # FREE
    <3>1. r.start \in Nat /\ r.len \in Nat /\ r.len > 0 /\ r.start + r.len - 1 < N /\ N \in Nat
      BY <1>2, SizesOfMap
    <3>2. map[r.start] \in {PART, END}
      BY <3>1, <1>4
    <3> QED
      BY <3>1, <3>2 DEF Entries, FREE, PART, END
  <2>2. CASE r.start # 0 /\ map[r.start - 1] = PART
    <3>1. r.start - 1 \in Entries
      BY <2>1, <2>2, SizesOfMap DEF Entries
    <3>2. PICK q \in live : r.start - 1 \in BlocksOf(q)
      BY <1>5, <2>2, <3>1 DEF PART, FREE
    <3>3. r.start - 1 # q.start + q.len - 1
      BY <1>2, <1>4, <2>2, <3>2 DEF PART, END
    <3>4. r.start \in BlocksOf(q) /\ r.start \in BlocksOf(r) /\ r.start - 1 \notin BlocksOf(r)
      <4>1. /\ r.start \in Nat /\ r.len \in Nat /\ r.len > 0
            /\ BlocksOf(r) = r.start..(r.start + r.len - 1)
        BY <1>2
      <4>2. /\ q.start \in Nat /\ q.len \in Nat
            /\ BlocksOf(q) = q.start..(q.start + q.len - 1)
        BY <1>2
      <4> QED
        BY <4>1, <4>2, <3>2, <3>3
    <3> QED
      BY <3>2, <3>4 DEF HeapInv, GoodHeap, Disjoint
  <2> QED
    BY <2>1, <2>2
<1>7. ASSUME NEW i \in Starts PROVE \E r \in live : i = r.start
  <2>1. PICK r \in live : i \in BlocksOf(r)
    BY <1>5
  <2>2. CASE i # r.start
    <3>1. i - 1 \in r.start..(r.start + r.len - 1) /\ i - 1 # r.start + r.len - 1 /\ i # 0
      BY <1>2, <2>1, <2>2
    <3> QED
      BY <1>4, <3>1
  <2> QED
    BY <2>1, <2>2
<1>8. Decoded = {[start |-> s, len |-> BlocksFrom(s)] : s \in Starts}
  BY DEF Decoded
<1> QED
  BY <1>3, <1>6, <1>7, <1>8 DEF Plain

\* A region of a good heap is one that Regions may hand out.
LEMMA PlainFacts ==
    ASSUME NEW m, NEW g, GoodRegion(m, g), ~PastMapZero, g.len \in Sizes
    PROVE  /\ Plain(g) \in R!Region
           /\ R!BlocksOf(Plain(g)) = BlocksOf(g)
           /\ BlocksOf(g) \subseteq 0..(N - 1)
BY DEF GoodRegion, Region, Plain, R!Region, R!BlocksOf, BlocksOf, Entries

\* No two regions that are handed out begin at the same place.
LEMMA PlainInjective ==
    ASSUME NEW m, NEW l, GoodHeap(m, l), NEW r \in l, NEW q \in l, Plain(r) = Plain(q)
    PROVE  r = q
<1>1. r.start = q.start
  BY DEF Plain
<1>2. r.start \in BlocksOf(r) /\ r.start \in BlocksOf(q)
  BY <1>1, SizesOfMap DEF GoodHeap, GoodRegion, Region, BlocksOf, Entries
<1> QED
  BY <1>2 DEF GoodHeap, Disjoint

\* What malloc hands out is disjoint from what others have, as Regions wants.
LEMMA FreshPlain ==
    ASSUME HeapInv, ~Paging, ~PastMapZero, NEW n \in Sizes, Openings(map, n) # {},
           NEW g, g = Given(FirstFit(map, n), n)
    PROVE  /\ Plain(g) \in R!Region /\ g.len = n
           /\ R!Fresh(Plain(g), {Plain(q) : q \in live})
<1>1. n \in Nat \ {0} /\ GoodHeap(map, live) /\ map \in [Entries -> Values]
  BY HeapAssumption DEF HeapInv, GoodHeap
<1>2. Writes(map, Marked(map, FirstFit(map, n), n), g)
  BY <1>1, MallocWrites
<1>3. \A q \in live : Disjoint(g, q)
  BY <1>1, <1>2, TakeFacts
<1>4. g.len = n
  BY DEF Given
<1>5. /\ Plain(g) \in R!Region
      /\ R!BlocksOf(Plain(g)) = BlocksOf(g)
      /\ BlocksOf(g) \subseteq 0..(N - 1)
  BY <1>2, <1>4, PlainFacts DEF Writes
<1>6. \A q \in live : R!BlocksOf(Plain(q)) = BlocksOf(q)
  BY <1>1, PlainFacts DEF HeapInv, GoodHeap
<1>7. \A q \in live : R!BlocksOf(Plain(q)) \cap R!BlocksOf(Plain(g)) = {}
  BY <1>3, <1>5, <1>6 DEF Disjoint
<1> QED
  BY <1>4, <1>5, <1>7 DEF R!Fresh

\* A step on the map is a step of the allocator of regions.
LEMMA StepRefines ==
    ASSUME HeapInv, HeapInv', [Next]_vars, ~Paging, ~PastMapZero,
           Decoded = {Plain(r) : r \in live}, Decoded' = {Plain(r) : r \in live'}
    PROVE  R!Next \/ Decoded' = Decoded
<1> DEFINE D == {Plain(r) : r \in live}
<1>1. GoodHeap(map, live) /\ \A r, q \in live : Plain(r) = Plain(q) => r = q
  BY PlainInjective DEF HeapInv
<1>2. ASSUME NEW r \in live, live' = live \ {r} PROVE R!Next
  <2>1. Decoded' = Decoded \ {Plain(r)} /\ Plain(r) \in Decoded
    BY <1>1, <1>2
  <2> QED
    BY <2>1 DEF R!Next, R!Release
<1>3. ASSUME NEW n \in Sizes, Malloc(n) PROVE R!Next \/ Decoded' = Decoded
  <2> DEFINE g == Given(FirstFit(map, n), n)
  <2>1. CASE Openings(map, n) # {}
    <3>1. live' = live \cup {g}
      BY <1>3, <2>1 DEF Malloc
    <3>2. Plain(g) \in R!Region /\ R!Fresh(Plain(g), D)
      BY <1>3, <2>1, FreshPlain
    <3> HIDE DEF g
    <3>3. Decoded' = Decoded \cup {Plain(g)}
      BY <3>1
    <3> QED
      BY <3>2, <3>3 DEF R!Next, R!Allocate
  <2>2. CASE Openings(map, n) = {}
    BY <1>3, <2>2 DEF Malloc
  <2> QED
    BY <2>1, <2>2
<1>4. ASSUME NEW r \in live, Free(r) PROVE R!Next
  BY <1>2, <1>4 DEF Free
<1>5. ASSUME NEW r \in live, NEW n \in Sizes, ReallocShrink(r, n) PROVE R!Next
  <2> DEFINE g == Given(r.start, n)
  <2>1. live' = (live \ {r}) \cup {g} /\ ~r.page /\ n < EndOf(map, r.start) - r.start + 1
    BY <1>5 DEF ReallocShrink, BlocksFrom
  <2>2. n < r.len
    BY <1>1, <2>1, ShrinkFacts, HeapAssumption
  <2>3. GoodRegion(map', g) /\ g.len = n /\ g.start = r.start
    BY <2>1 DEF HeapInv, GoodHeap, Given
  <2>4. Plain(g) \in R!Region
    BY <2>3, PlainFacts
  <2>5. Plain(g).start = Plain(r).start /\ Plain(g).len < Plain(r).len
    BY <2>2, <2>3 DEF Plain
  <2> HIDE DEF g
  <2>6. Decoded' = (Decoded \ {Plain(r)}) \cup {Plain(g)} /\ Plain(r) \in Decoded
    BY <1>1, <2>1
  <2> QED
    BY <2>4, <2>5, <2>6 DEF R!Next, R!Resize
<1>6. ASSUME NEW r \in live, NEW n \in Sizes, ReallocGrow(r, n) PROVE R!Next
  <2> DEFINE g == Given(FirstFit(map, n), n)
  <2>1. CASE Openings(map, n) # {}
    <3>1. live' = (live \ {r}) \cup {g} /\ n > BlocksFrom(r.start)
      BY <1>6, <2>1 DEF ReallocGrow
    <3>2. Plain(g) \in R!Region /\ R!Fresh(Plain(g), D) /\ g.len = n
      BY <1>6, <2>1, FreshPlain
    <3>3. BlocksFrom(r.start) = r.len
      <4>1. GoodRegion(map, r) /\ ~r.page
        BY <1>6 DEF HeapInv, GoodHeap, ReallocGrow
      <4>2. ClosedAt(r) \in BlocksOf(r) /\ BlocksOf(r) \subseteq 0..(N - 1)
        BY <4>1, ClosedAtFacts DEF GoodRegion, BlocksOf, Entries
      <4>3. EndOf(map, r.start) = ClosedAt(r)
        BY <4>1, <4>2, EndOfRegion, SizesOfMap
      <4> QED
        BY <4>1, <4>3, ClosedAtFacts DEF BlocksFrom
    <3>4. Plain(g).len > Plain(r).len
      BY <3>1, <3>2, <3>3 DEF Plain
    <3> HIDE DEF g
    <3>5. Decoded' = (Decoded \ {Plain(r)}) \cup {Plain(g)} /\ Plain(r) \in Decoded
      BY <1>1, <3>1
    <3> QED
      BY <3>2, <3>4, <3>5 DEF R!Next, R!Resize
  <2>2. CASE Openings(map, n) = {}
    BY <1>2, <1>6, <2>2 DEF ReallocGrow
  <2> QED
    BY <2>1, <2>2
<1>7. CASE Palloc
  BY <1>7 DEF Palloc
<1>8. CASE UNCHANGED vars
  BY <1>8 DEF vars
<1> QED
  BY <1>3, <1>4, <1>5, <1>6, <1>7, <1>8 DEF Next

\* malloc, realloc and free do what an allocator promises.
THEOREM Refinement == ASSUME ~Paging, ~PastMapZero PROVE Spec => ImplementsRegions
<1>1. HeapInv => Decoded = {Plain(r) : r \in live}
  BY DecodedIsLive
<1>2. HeapInv' => Decoded' = {Plain(r) : r \in live'}
  <2>1. (HeapInv => Decoded = {Plain(r) : r \in live})'
    BY <1>1, PTL
  <2> QED
    BY <2>1
<1>3. Init => R!Init
  <2>1. Init => live = {}
    BY DEF Init
  <2> QED
    BY <1>1, <2>1, InitInv DEF R!Init
<1>4. HeapInv /\ HeapInv' /\ [Next]_vars => [R!Next]_Decoded
  BY <1>1, <1>2, StepRefines
<1> QED
  BY <1>3, <1>4, Invariance, PTL DEF Spec, ImplementsRegions, R!Spec

----------------------------------------------------------------------------
(* Who holds what.                                                          *)

Addr == Entries \cup {Null}

\* A claim [pid, f, at]: the field f of process pid holds the region at "at".
Reg(c) == [start |-> c.at, len |-> ProcBlocks[c.f], page |-> (c.f = "page")]

Claims(P) == {c \in [pid : DOMAIN P, f : Fields, at : Entries] : P[c.pid][c.f] = c.at}

\* The regions in l are those of the claims in C, each of one claim, and those
\* in K, which no process is going to free.
Own(C, K, l) ==
    /\ l = {Reg(c) : c \in C} \cup K
    /\ \A c, d \in C : Reg(c) = Reg(d) => c = d
    /\ \A c \in C : Reg(c) \notin K

\* A claim to a new region.
LEMMA OwnTake ==
    ASSUME NEW C, NEW K, NEW l, Own(C, K, l), NEW c, Reg(c) \notin l
    PROVE  Own(C \cup {c}, K, l \cup {Reg(c)})
<1>1. \A d \in C : Reg(d) # Reg(c)
  BY DEF Own
<1>2. l \cup {Reg(c)} = {Reg(d) : d \in C \cup {c}} \cup K
  BY DEF Own
<1>3. \A d, e \in C \cup {c} : Reg(d) = Reg(e) => d = e
  BY <1>1 DEF Own
<1>4. \A d \in C \cup {c} : Reg(d) \notin K
  BY DEF Own
<1> QED
  BY <1>2, <1>3, <1>4 DEF Own

\* A new region that no process holds.
LEMMA OwnKeep ==
    ASSUME NEW C, NEW K, NEW l, Own(C, K, l), NEW r, r \notin l
    PROVE  Own(C, K \cup {r}, l \cup {r})
BY DEF Own

\* A claim is given up, and its region freed.
LEMMA OwnGive ==
    ASSUME NEW C, NEW K, NEW l, Own(C, K, l), NEW c \in C
    PROVE  Own(C \ {c}, K, l \ {Reg(c)})
<1>1. \A d \in C \ {c} : Reg(d) # Reg(c)
  BY DEF Own
<1>2. Reg(c) \notin K
  BY DEF Own
<1>3. l \ {Reg(c)} = {Reg(d) : d \in C \ {c}} \cup K
  BY <1>1, <1>2 DEF Own
<1> QED
  BY <1>3 DEF Own

\* A claim is given up, and its region is not freed.
LEMMA OwnLeave ==
    ASSUME NEW C, NEW K, NEW l, Own(C, K, l), NEW c \in C
    PROVE  Own(C \ {c}, K \cup {Reg(c)}, l)
<1>1. \A d \in C \ {c} : Reg(d) # Reg(c)
  BY DEF Own
<1>2. l = {Reg(d) : d \in C \ {c}} \cup (K \cup {Reg(c)})
  BY DEF Own
<1> QED
  BY <1>1, <1>2 DEF Own

\* A region that no process holds is freed.
LEMMA OwnDrop ==
    ASSUME NEW C, NEW K, NEW l, NEW r, Own(C, K \cup {r}, l), r \notin K
    PROVE  Own(C, K, l \ {r})
BY DEF Own

----------------------------------------------------------------------------
(* Single calls.                                                            *)

\* The fields of what is passed from call to call.
IsHere(h) ==
    DOMAIN h = {"map", "live", "wild", "got", "procs", "buckets", "last_pid", "sh", "orphans"}

\* What malloc, palloc and free leave alone.
Others(h, m) ==
    /\ m.procs = h.procs /\ m.buckets = h.buckets /\ m.last_pid = h.last_pid
    /\ m.sh = h.sh /\ m.orphans = h.orphans

\* Nothing else happens to the fields, and what is wild stays so.
Passed(h, m) == IsHere(m) /\ Others(h, m) /\ (~m.wild => ~h.wild)

\* The heap is in order and r, that nobody had, is handed out.
Gets(h, m, r) ==
    GoodHeap(h.map, h.live) =>
        GoodHeap(m.map, m.live) /\ r \notin h.live /\ m.live = h.live \cup {r}

\* malloc returns a region that nobody has, or all is lost.
LEMMA MallocTakes ==
    ASSUME NEW h, IsHere(h), NEW n \in Nat \ {0}
    PROVE  LET m == MallocIn(h, n)
           IN  /\ Passed(h, m) /\ m.got \in Addr
               /\ ~m.wild => m.got \in Entries /\ Gets(h, m, Given(m.got, n))
<1> DEFINE k == MallocIn(h, n)
<1> SUFFICES /\ Passed(h, k) /\ k.got \in Addr
             /\ ~k.wild => k.got \in Entries /\ Gets(h, k, Given(k.got, n))
  OBVIOUS
<1>k. k = MallocIn(h, n)
  OBVIOUS
<1> HIDE DEF k
<1>1. CASE Openings(h.map, n) = {}
  <2> DEFINE m == [h EXCEPT !.got = Null, !.wild = TRUE]
  <2>1. k = m
    BY <1>1, <1>k, Zenon DEF MallocIn
  <2>2. m.got = Null /\ m.wild = TRUE /\ IsHere(m) /\ Others(h, m)
    BY DEF IsHere, Others
  <2> HIDE DEF m
  <2>3. Passed(h, k) /\ k.got \in Addr /\ k.wild = TRUE
    BY <2>1, <2>2 DEF Passed, Addr
  <2> QED
    BY <2>3
<1>2. CASE Openings(h.map, n) # {}
  <2> DEFINE s == FirstFit(h.map, n)
             b == Marked(h.map, s, n)
             c == h.live \cup {Given(s, n)}
             m == [h EXCEPT !.got = s, !.map = b, !.live = c]
  <2>1. k = m
    BY <1>2, <1>k, Zenon DEF MallocIn
  <2>2. s \in Entries
    BY <1>2, FirstFitFits
  <2>3. GoodHeap(h.map, h.live) => Writes(h.map, b, Given(s, n))
    BY <1>2, MallocWrites DEF GoodHeap
  <2> HIDE DEF s, b, c
  <2>4. m.got = s /\ m.map = b /\ m.live = c /\ m.wild = h.wild /\ IsHere(m) /\ Others(h, m)
    BY DEF IsHere, Others
  <2> HIDE DEF m
  <2>5. GoodHeap(h.map, h.live) => GoodHeap(b, c) /\ Given(s, n) \notin h.live
    BY <2>3, TakeFacts DEF c
  <2>6. Gets(h, m, Given(m.got, n))
    BY <2>4, <2>5 DEF Gets, c
  <2>7. Passed(h, k) /\ k.got \in Addr /\ k.got \in Entries /\ Gets(h, k, Given(k.got, n))
    BY <2>1, <2>2, <2>4, <2>6 DEF Passed, Addr
  <2> QED
    BY <2>7
<1> QED
  BY <1>1, <1>2

\* palloc returns a page that nobody has, or all is lost.
LEMMA PallocTakes ==
    ASSUME NEW h, IsHere(h)
    PROVE  LET m == PallocIn(h)
           IN  /\ Passed(h, m) /\ m.got \in Addr
               /\ ~m.wild =>
                     /\ m.got \in Entries
                     /\ Gets(h, m, [start |-> m.got, len |-> PQ * Q, page |-> TRUE])
<1> DEFINE k == PallocIn(h)
<1> SUFFICES /\ Passed(h, k) /\ k.got \in Addr
             /\ ~k.wild =>
                   /\ k.got \in Entries
                   /\ Gets(h, k, [start |-> k.got, len |-> PQ * Q, page |-> TRUE])
  OBVIOUS
<1>k. k = PallocIn(h)
  OBVIOUS
<1> HIDE DEF k
<1>1. CASE FreeSlots(h.map) = {}
  <2> DEFINE m == [h EXCEPT !.got = Null, !.wild = TRUE]
  <2>1. k = m
    BY <1>1, <1>k, Zenon DEF PallocIn
  <2>2. m.got = Null /\ m.wild = TRUE /\ IsHere(m) /\ Others(h, m)
    BY DEF IsHere, Others
  <2> HIDE DEF m
  <2>3. Passed(h, k) /\ k.got \in Addr /\ k.wild = TRUE
    BY <2>1, <2>2 DEF Passed, Addr
  <2> QED
    BY <2>3
<1>2. CASE FreeSlots(h.map) # {}
  <2> DEFINE i == TopFree(h.map)
             a == i * Q
             b == PageMarked(h.map, a)
             c == h.live \cup {Page(i)}
             m == [h EXCEPT !.got = a, !.map = b, !.live = c]
  <2>1. k = m
    BY <1>2, <1>k, Zenon DEF PallocIn
  <2>2. a \in Entries
    <3>1. i \in Slots
      BY <1>2, TopFreeIsFree
    <3> QED
      BY <3>1, PageInMap, SizesOfMap DEF Entries
  <2>3. GoodHeap(h.map, h.live) => Writes(h.map, b, Page(i))
    BY <1>2, PallocWrites DEF GoodHeap
  <2>4. Page(i) = [start |-> a, len |-> PQ * Q, page |-> TRUE]
    BY DEF Page
  <2> HIDE DEF i, a, b, c
  <2>5. m.got = a /\ m.map = b /\ m.live = c /\ m.wild = h.wild /\ IsHere(m) /\ Others(h, m)
    BY DEF IsHere, Others
  <2> HIDE DEF m
  <2>6. GoodHeap(h.map, h.live) => GoodHeap(b, c) /\ Page(i) \notin h.live
    BY <2>3, TakeFacts DEF c
  <2>7. Gets(h, m, [start |-> m.got, len |-> PQ * Q, page |-> TRUE])
    BY <2>4, <2>5, <2>6 DEF Gets, c
  <2>8. /\ Passed(h, k) /\ k.got \in Addr /\ k.got \in Entries
        /\ Gets(h, k, [start |-> k.got, len |-> PQ * Q, page |-> TRUE])
    BY <2>1, <2>2, <2>5, <2>7 DEF Passed, Addr
  <2> QED
    BY <2>8
<1> QED
  BY <1>1, <1>2

\* An address is that of one region.
LEMMA StartsDiffer ==
    ASSUME NEW m, NEW l, GoodHeap(m, l), NEW r \in l, NEW q \in l, r.start = q.start
    PROVE  r = q
<1>1. r \in Region /\ q \in Region
  BY DEF GoodHeap, GoodRegion
<1>2. r.start \in BlocksOf(r) /\ q.start \in BlocksOf(q)
  BY <1>1, SizesOfMap DEF Region, BlocksOf, Entries
<1> QED
  BY <1>2 DEF GoodHeap, Disjoint

\* free takes the region at s, and nothing else.
LEMMA FreeGives ==
    ASSUME NEW h, IsHere(h), NEW s \in Addr
    PROVE  LET m == FreeIn(h, s)
           IN  /\ Passed(h, m) /\ m.wild = h.wild
               /\ s = Null => m = h
               /\ GoodHeap(h.map, h.live) =>
                     \A r \in h.live : r.start = s /\ s # Null =>
                        GoodHeap(m.map, m.live) /\ m.live = h.live \ {r}
<1> DEFINE k == FreeIn(h, s)
<1> SUFFICES /\ Passed(h, k) /\ k.wild = h.wild
             /\ s = Null => k = h
             /\ GoodHeap(h.map, h.live) =>
                   \A r \in h.live : r.start = s /\ s # Null =>
                      GoodHeap(k.map, k.live) /\ k.live = h.live \ {r}
  OBVIOUS
<1>k. k = FreeIn(h, s)
  OBVIOUS
<1> HIDE DEF k
<1>1. CASE s = Null
  BY <1>1, <1>k DEF FreeIn, Passed, Others
<1>2. CASE s # Null
  <2> DEFINE b == Cleared(h.map, s)
             c == {r \in h.live : r.start # s}
             m == [h EXCEPT !.map = b, !.live = c]
  <2>1. k = m
    BY <1>2, <1>k, Zenon DEF FreeIn
  <2>2. ASSUME GoodHeap(h.map, h.live), NEW r \in h.live, r.start = s
        PROVE  GoodHeap(b, c) /\ c = h.live \ {r}
    <3>1. c = h.live \ {r}
      BY <2>2, StartsDiffer
    <3>2. GoodHeap(Cleared(h.map, r.start), h.live \ {r})
      BY <2>2, GiveFacts
    <3> QED
      BY <2>2, <3>1, <3>2
  <2> HIDE DEF b, c
  <2>3. m.map = b /\ m.live = c /\ m.wild = h.wild /\ IsHere(m) /\ Others(h, m)
    BY DEF IsHere, Others
  <2> HIDE DEF m
  <2>4. /\ Passed(h, k) /\ k.wild = h.wild
        /\ GoodHeap(h.map, h.live) =>
              \A r \in h.live : r.start = s => GoodHeap(k.map, k.live) /\ k.live = h.live \ {r}
    BY <2>1, <2>2, <2>3 DEF Passed
  <2> QED
    BY <1>2, <2>4
<1> QED
  BY <1>1, <1>2

----------------------------------------------------------------------------
(* Chains of calls: what a process holds is an address or nothing, and      *)
(* every region has one holder.                                             *)

IsProcess(r) ==
    /\ DOMAIN r = Fields \cup {"parent", "waiting"}
    /\ \A f \in Fields : r[f] \in Addr

Typed(h) ==
    /\ IsHere(h)
    /\ h.last_pid \in Nat
    /\ \A q \in DOMAIN h.procs : q \in 1..h.last_pid /\ IsProcess(h.procs[q])
    /\ DOMAIN h.buckets = 0..(PidsSz - 1)
    /\ \A b \in DOMAIN h.buckets : h.buckets[b] \in Addr

BucketRegions(B) == {Given(B[b], ListBlocks) : b \in {b \in DOMAIN B : B[b] # Null}}

\* What no process frees: T is the text, and what is being handed over.
Kernel(h, T) == BucketRegions(h.buckets) \cup T \cup h.orphans

SoundIn(h, T) ==
    ~h.wild =>
        /\ GoodHeap(h.map, h.live)
        /\ Own(Claims(h.procs), Kernel(h, T), h.live)

\* Only the field f of process pid changes, and becomes a.
Sets(P, P2, pid, f, a) ==
    /\ DOMAIN P2 = DOMAIN P
    /\ P2[pid][f] = a
    /\ \A q \in DOMAIN P : \A g \in Fields \cup {"parent", "waiting"} :
          ~(q = pid /\ g = f) => P2[q][g] = P[q][g]

\* The fields by name, and that each takes a block at least.
LEMMA FieldsAre ==
    /\ Fields = {"p", "page", "node", "kids", "pm", "pidNode"}
    /\ \A f \in Fields : ProcBlocks[f] \in Nat \ {0}
    /\ ProcBlocks["page"] = PQ * Q
BY SizesOfMap DEF Fields, ProcBlocks, NodeBlocks, ListBlocks

\* A null pointer is no address in the heap.
LEMMA NullIs == Null \notin Entries
BY SizesOfMap DEF Null, Entries

\* An assignment to one field of one process.
LEMMA SetField ==
    ASSUME NEW P, \A q \in DOMAIN P : IsProcess(P[q]),
           NEW pid \in DOMAIN P, NEW f \in Fields \cup {"waiting"}, NEW a,
           f \in Fields => a \in Addr
    PROVE  LET P2 == [P EXCEPT ![pid][f] = a]
           IN  (\A q \in DOMAIN P2 : IsProcess(P2[q])) /\ Sets(P, P2, pid, f, a)
<1> DEFINE r  == [P[pid] EXCEPT ![f] = a]
           P2 == [P EXCEPT ![pid] = r]
<1>1. IsProcess(P[pid])
  OBVIOUS
<1>2. DOMAIN r = DOMAIN P[pid] /\ r[f] = a /\ \A g \in DOMAIN P[pid] : g # f => r[g] = P[pid][g]
  BY <1>1 DEF IsProcess
<1>3. IsProcess(r)
  BY <1>1, <1>2 DEF IsProcess
<1> HIDE DEF r
<1>4. DOMAIN P2 = DOMAIN P /\ P2[pid] = r /\ \A q \in DOMAIN P : q # pid => P2[q] = P[q]
  OBVIOUS
<1> HIDE DEF P2
<1>5. \A q \in DOMAIN P2 : IsProcess(P2[q])
  BY <1>3, <1>4
<1>6. Sets(P, P2, pid, f, a)
  BY <1>1, <1>2, <1>4 DEF Sets, IsProcess
<1> QED
  BY <1>5, <1>6 DEF P2, r

\* A field that held nothing is a new claim.
LEMMA ClaimsSet ==
    ASSUME NEW P, NEW P2, NEW pid \in DOMAIN P, NEW f \in Fields, NEW a \in Entries,
           Sets(P, P2, pid, f, a), P[pid][f] = Null
    PROVE  Claims(P2) = Claims(P) \cup {[pid |-> pid, f |-> f, at |-> a]}
BY NullIs DEF Claims, Sets

\* A field that is given up is none.
LEMMA ClaimsUnset ==
    ASSUME NEW P, NEW P2, NEW pid \in DOMAIN P, NEW f \in Fields,
           Sets(P, P2, pid, f, Null), P[pid][f] \in Addr
    PROVE  Claims(P2) = Claims(P) \ {[pid |-> pid, f |-> f, at |-> P[pid][f]]}
BY NullIs DEF Claims, Sets

\* What a chain leaves of the processes that there were, except for the fields
\* in S, and new processes are not waited for.
Frame(P, P2, S) ==
    /\ DOMAIN P \subseteq DOMAIN P2
    /\ \A q \in DOMAIN P : P2[q].waiting = P[q].waiting
    /\ \A q \in DOMAIN P2 : q \notin DOMAIN P => P2[q].waiting = 0
    /\ \A q \in DOMAIN P : \A g \in Fields : <<q, g>> \notin S => P2[q][g] = P[q][g]

Step(h, m, T, S) ==
    /\ Typed(m) /\ SoundIn(m, T)
    /\ ~m.wild => ~h.wild
    /\ Frame(h.procs, m.procs, S)

\* What one assignment leaves.
LEMMA SetsFrame ==
    ASSUME NEW P, NEW P2, NEW pid, NEW f \in Fields, NEW a, Sets(P, P2, pid, f, a)
    PROVE  Frame(P, P2, {<<pid, f>>})
BY FieldsAre DEF Sets, Frame

\* What two chains leave, one after the other.
LEMMA FrameTrans ==
    ASSUME NEW P, NEW P1, NEW P2, NEW S0, NEW S, Frame(P, P1, S0), Frame(P1, P2, S)
    PROVE  Frame(P, P2, S0 \cup S)
BY DEF Frame

\* One chain after the other is a chain.
LEMMA StepTrans ==
    ASSUME NEW h, NEW m, NEW k, NEW T, NEW S0, NEW S, Step(h, m, T, S0), Step(m, k, T, S)
    PROVE  Step(h, k, T, S0 \cup S)
BY FrameTrans DEF Step

\* The write after a call.
LEMMA SetInFacts ==
    ASSUME NEW x, Typed(x), NEW pid \in DOMAIN x.procs,
           NEW f \in Fields, NEW a \in Addr
    PROVE  LET m == [x EXCEPT !.procs[pid][f] = a]
           IN  /\ Typed(m)
               /\ Sets(x.procs, m.procs, pid, f, a)
               /\ m.map = x.map /\ m.live = x.live /\ m.wild = x.wild
               /\ m.buckets = x.buckets /\ m.orphans = x.orphans
               /\ m.last_pid = x.last_pid /\ m.sh = x.sh
<1> DEFINE P2 == [x.procs EXCEPT ![pid][f] = a]
           m  == [x EXCEPT !.procs = P2]
<1>1. (\A q \in DOMAIN P2 : IsProcess(P2[q])) /\ Sets(x.procs, P2, pid, f, a)
  BY SetField DEF Typed
<1> HIDE DEF P2
<1>2. /\ m.procs = P2 /\ IsHere(m)
      /\ m.map = x.map /\ m.live = x.live /\ m.wild = x.wild
      /\ m.buckets = x.buckets /\ m.orphans = x.orphans
      /\ m.last_pid = x.last_pid /\ m.sh = x.sh
  BY DEF Typed, IsHere
<1> HIDE DEF m
<1>3. DOMAIN P2 = DOMAIN x.procs
  BY <1>1 DEF Sets
<1>4. Typed(m)
  BY <1>1, <1>2, <1>3 DEF Typed
<1> QED
  BY <1>1, <1>2, <1>4 DEF m, P2

\* malloc, palloc and free leave the types alone.
LEMMA TypedPassed ==
    ASSUME NEW h, NEW x, Typed(h), Passed(h, x)
    PROVE  Typed(x)
BY DEF Typed, Passed, Others

\* A process gets memory for a field that held nothing.
LEMMA TakeStep ==
    ASSUME NEW h, NEW T, Typed(h), SoundIn(h, T),
           NEW pid \in DOMAIN h.procs, NEW f \in Fields, h.procs[pid][f] = Null
    PROVE  LET m == Take(h, pid, f)
           IN  /\ Step(h, m, T, {<<pid, f>>})
               /\ m.buckets = h.buckets /\ m.orphans = h.orphans
               /\ DOMAIN m.procs = DOMAIN h.procs
<1> DEFINE n == ProcBlocks[f]
           x == IF f = "page" THEN PallocIn(h) ELSE MallocIn(h, n)
           m == [x EXCEPT !.procs[pid][f] = x.got]
           c == [pid |-> pid, f |-> f, at |-> x.got]
<1>1. /\ Passed(h, x) /\ x.got \in Addr
      /\ ~x.wild => x.got \in Entries /\ Gets(h, x, Reg(c))
  <2>1. IsHere(h) /\ n \in Nat \ {0}
    BY FieldsAre DEF Typed
  <2>2. CASE f = "page"
    <3> DEFINE k == PallocIn(h)
               r == [start |-> k.got, len |-> PQ * Q, page |-> TRUE]
    <3>1. x = k
      BY <2>2
    <3>2. /\ Passed(h, k) /\ k.got \in Addr
          /\ ~k.wild => k.got \in Entries /\ Gets(h, k, r)
      BY <2>1, PallocTakes
    <3>3. n = PQ * Q
      BY <2>2, FieldsAre
    <3> HIDE DEF k, n, x
    <3>4. Reg(c) = r
      BY <2>2, <3>1, <3>3 DEF Reg, n
    <3> HIDE DEF r, c
    <3> QED
      BY <3>1, <3>2, <3>4
  <2>3. CASE f # "page"
    <3> DEFINE k == MallocIn(h, n)
               r == Given(k.got, n)
    <3>1. x = k
      BY <2>3
    <3>2. /\ Passed(h, k) /\ k.got \in Addr
          /\ ~k.wild => k.got \in Entries /\ Gets(h, k, r)
      BY <2>1, MallocTakes
    <3> HIDE DEF k, x
    <3>3. Reg(c) = r
      BY <2>3, <3>1 DEF Reg, Given
    <3> HIDE DEF r, c
    <3> QED
      BY <3>1, <3>2, <3>3
  <2> QED
    BY <2>2, <2>3
<1>2. Take(h, pid, f) = m
  BY Zenon DEF Take
<1> HIDE DEF x, n
<1>3. Typed(x) /\ x.procs = h.procs /\ x.buckets = h.buckets /\ x.orphans = h.orphans
  BY <1>1, TypedPassed DEF Passed, Others
<1>4. /\ Typed(m)
      /\ Sets(x.procs, m.procs, pid, f, x.got)
      /\ m.map = x.map /\ m.live = x.live /\ m.wild = x.wild
      /\ m.buckets = x.buckets /\ m.orphans = x.orphans
  BY <1>1, <1>3, SetInFacts
<1> HIDE DEF m
<1>5. Frame(h.procs, m.procs, {<<pid, f>>}) /\ DOMAIN m.procs = DOMAIN h.procs
  BY <1>3, <1>4, SetsFrame DEF Sets
<1>6. ~m.wild => ~h.wild
  BY <1>1, <1>4 DEF Passed
<1>7. SoundIn(m, T)
  <2> DEFINE C == Claims(h.procs)
             K == Kernel(h, T)
  <2> SUFFICES ASSUME ~m.wild
               PROVE  GoodHeap(m.map, m.live) /\ Own(Claims(m.procs), Kernel(m, T), m.live)
    BY DEF SoundIn
  <2>1. GoodHeap(h.map, h.live) /\ Own(C, K, h.live)
    BY <1>6 DEF SoundIn
  <2>2. x.got \in Entries /\ Gets(h, x, Reg(c))
    BY <1>1, <1>4
  <2>3. GoodHeap(m.map, m.live) /\ Reg(c) \notin h.live /\ m.live = h.live \cup {Reg(c)}
    BY <1>4, <2>1, <2>2 DEF Gets
  <2>4. Claims(m.procs) = C \cup {c}
    BY <1>3, <1>4, <2>2, ClaimsSet
  <2>5. Kernel(m, T) = K
    BY <1>3, <1>4 DEF Kernel
  <2> HIDE DEF C, K, c
  <2>6. Own(C \cup {c}, K, h.live \cup {Reg(c)})
    BY <2>1, <2>3, OwnTake
  <2> QED
    BY <2>3, <2>4, <2>5, <2>6
<1>8. Step(h, m, T, {<<pid, f>>}) /\ m.buckets = h.buckets /\ m.orphans = h.orphans
  BY <1>3, <1>4, <1>5, <1>6, <1>7 DEF Step
<1> QED
  BY <1>2, <1>5, <1>8

\* A process gives up what it has in a field.
LEMMA GiveStep ==
    ASSUME NEW h, NEW T, Typed(h), SoundIn(h, T),
           NEW pid \in DOMAIN h.procs, NEW f \in Fields
    PROVE  LET m == Give(h, pid, f)
           IN  /\ Step(h, m, T, {<<pid, f>>})
               /\ DOMAIN m.procs = DOMAIN h.procs
               /\ m.procs[pid][f] = Null
<1> DEFINE s == h.procs[pid][f]
           x == FreeIn(h, s)
           m == [x EXCEPT !.procs[pid][f] = Null]
           c == [pid |-> pid, f |-> f, at |-> s]
<1>1. IsHere(h) /\ s \in Addr /\ IsProcess(h.procs[pid])
  BY DEF Typed, IsProcess
<1>2. Give(h, pid, f) = m
  BY Zenon DEF Give
<1>3. /\ Passed(h, x) /\ x.wild = h.wild
      /\ s = Null => x = h
      /\ GoodHeap(h.map, h.live) =>
            \A r \in h.live : r.start = s /\ s # Null =>
               GoodHeap(x.map, x.live) /\ x.live = h.live \ {r}
  BY <1>1, FreeGives, Zenon
<1> HIDE DEF x
<1>4. Typed(x) /\ x.procs = h.procs /\ x.buckets = h.buckets /\ x.orphans = h.orphans
  BY <1>3, TypedPassed DEF Passed, Others
<1>5. /\ Typed(m)
      /\ Sets(x.procs, m.procs, pid, f, Null)
      /\ m.map = x.map /\ m.live = x.live /\ m.wild = x.wild
      /\ m.buckets = x.buckets /\ m.orphans = x.orphans
  <2>1. Null \in Addr /\ pid \in DOMAIN x.procs
    BY <1>4 DEF Addr
  <2> QED
    BY <1>4, <2>1, SetInFacts
<1> HIDE DEF m
<1>6. /\ Frame(h.procs, m.procs, {<<pid, f>>}) /\ DOMAIN m.procs = DOMAIN h.procs
      /\ m.procs[pid][f] = Null
  BY <1>4, <1>5, SetsFrame DEF Sets
<1>7. SoundIn(m, T)
  <2> DEFINE C == Claims(h.procs)
             K == Kernel(h, T)
  <2> SUFFICES ASSUME ~m.wild
               PROVE  GoodHeap(m.map, m.live) /\ Own(Claims(m.procs), Kernel(m, T), m.live)
    BY DEF SoundIn
  <2>1. GoodHeap(h.map, h.live) /\ Own(C, K, h.live)
    BY <1>3, <1>5 DEF SoundIn
  <2>2. Claims(m.procs) = C \ {c}
    BY <1>1, <1>4, <1>5, ClaimsUnset
  <2>3. Kernel(m, T) = K
    BY <1>4, <1>5 DEF Kernel
  <2>4. CASE s = Null
    <3>1. c \notin C
      BY <2>4, NullIs DEF Claims
    <3>2. m.map = h.map /\ m.live = h.live
      BY <1>3, <1>5, <2>4
    <3> HIDE DEF C, K, c
    <3> QED
      BY <2>1, <2>2, <2>3, <3>1, <3>2
  <2>5. CASE s # Null
    <3>1. c \in C
      BY <1>1, <2>5 DEF Claims, Addr
    <3>2. Reg(c).start = s
      BY DEF Reg
    <3> HIDE DEF C, K, c
    <3>3. Reg(c) \in h.live
      BY <2>1, <3>1 DEF Own
    <3>4. GoodHeap(x.map, x.live) /\ x.live = h.live \ {Reg(c)}
      BY <1>3, <2>1, <2>5, <3>2, <3>3
    <3>5. Own(C \ {c}, K, h.live \ {Reg(c)})
      BY <2>1, <3>1, OwnGive
    <3> QED
      BY <1>5, <2>2, <2>3, <3>4, <3>5
  <2> QED
    BY <2>4, <2>5
<1>8. Step(h, m, T, {<<pid, f>>})
  BY <1>3, <1>5, <1>6, <1>7 DEF Step
<1> QED
  BY <1>2, <1>6, <1>8

\* A process is about to go, and what it has in a field stays behind.
LEMMA LeaveStep ==
    ASSUME NEW h, NEW T, Typed(h), SoundIn(h, T),
           NEW pid \in DOMAIN h.procs, NEW f \in Fields, f # "page"
    PROVE  LET m == Leave(h, pid, f)
           IN  /\ Step(h, m, T, {<<pid, f>>})
               /\ DOMAIN m.procs = DOMAIN h.procs
               /\ m.procs[pid][f] = Null
<1> DEFINE a == h.procs[pid][f]
           o == IF a = Null THEN h.orphans ELSE h.orphans \cup {Given(a, ProcBlocks[f])}
           x == [h EXCEPT !.orphans = o]
           m == [x EXCEPT !.procs[pid][f] = Null]
           c == [pid |-> pid, f |-> f, at |-> a]
<1>1. a \in Addr /\ IsProcess(h.procs[pid])
  BY DEF Typed, IsProcess
<1>2. Leave(h, pid, f) = m
  BY Zenon DEF Leave
<1>3. Reg(c) = Given(a, ProcBlocks[f])
  BY DEF Reg, Given
<1> HIDE DEF o
<1>4. /\ IsHere(x)
      /\ x.map = h.map /\ x.live = h.live /\ x.wild = h.wild /\ x.procs = h.procs
      /\ x.buckets = h.buckets /\ x.last_pid = h.last_pid /\ x.orphans = o
  BY DEF Typed, IsHere
<1> HIDE DEF x
<1>5. Typed(x)
  BY <1>4 DEF Typed
<1>6. /\ Typed(m)
      /\ Sets(x.procs, m.procs, pid, f, Null)
      /\ m.map = x.map /\ m.live = x.live /\ m.wild = x.wild
      /\ m.buckets = x.buckets /\ m.orphans = x.orphans
  <2>1. Null \in Addr /\ pid \in DOMAIN x.procs
    BY <1>4 DEF Addr
  <2> QED
    BY <1>5, <2>1, SetInFacts
<1> HIDE DEF m
<1>7. /\ Frame(h.procs, m.procs, {<<pid, f>>}) /\ DOMAIN m.procs = DOMAIN h.procs
      /\ m.procs[pid][f] = Null
  BY <1>4, <1>6, SetsFrame DEF Sets
<1>8. SoundIn(m, T)
  <2> DEFINE C == Claims(h.procs)
             K == Kernel(h, T)
  <2> SUFFICES ASSUME ~m.wild
               PROVE  GoodHeap(m.map, m.live) /\ Own(Claims(m.procs), Kernel(m, T), m.live)
    BY DEF SoundIn
  <2>1. GoodHeap(h.map, h.live) /\ Own(C, K, h.live)
    BY <1>4, <1>6 DEF SoundIn
  <2>2. Claims(m.procs) = C \ {c}
    BY <1>1, <1>4, <1>6, ClaimsUnset
  <2>3. m.map = h.map /\ m.live = h.live
    BY <1>4, <1>6
  <2>4. CASE a = Null
    <3>1. c \notin C
      BY <2>4, NullIs DEF Claims
    <3>2. Kernel(m, T) = K
      BY <1>4, <1>6, <2>4 DEF Kernel, o
    <3> HIDE DEF C, K, c
    <3> QED
      BY <2>1, <2>2, <2>3, <3>1, <3>2
  <2>5. CASE a # Null
    <3>1. c \in C
      BY <1>1, <2>5 DEF Claims, Addr
    <3>2. Kernel(m, T) = K \cup {Reg(c)}
      BY <1>3, <1>4, <1>6, <2>5 DEF Kernel, o
    <3> HIDE DEF C, K, c
    <3>3. Own(C \ {c}, K \cup {Reg(c)}, h.live)
      BY <2>1, <3>1, OwnLeave
    <3> QED
      BY <2>1, <2>2, <2>3, <3>2, <3>3
  <2> QED
    BY <2>4, <2>5
<1>9. Step(h, m, T, {<<pid, f>>})
  BY <1>4, <1>6, <1>7, <1>8 DEF Step
<1> QED
  BY <1>2, <1>7, <1>9

\* A region that malloc returns and the kernel keeps.
LEMMA KeepsIt ==
    ASSUME NEW h, NEW x, NEW m, NEW T, NEW T2, NEW n, Typed(h), SoundIn(h, T),
           Passed(h, x), ~x.wild => Gets(h, x, Given(x.got, n)),
           m.map = x.map, m.live = x.live, m.wild = x.wild, m.procs = x.procs,
           ~x.wild => Kernel(m, T2) = Kernel(h, T) \cup {Given(x.got, n)}
    PROVE  SoundIn(m, T2)
<1> SUFFICES ASSUME ~m.wild
             PROVE  GoodHeap(m.map, m.live) /\ Own(Claims(m.procs), Kernel(m, T2), m.live)
  BY DEF SoundIn
<1> DEFINE r == Given(x.got, n)
<1> HIDE DEF r
<1>1. GoodHeap(h.map, h.live) /\ Own(Claims(h.procs), Kernel(h, T), h.live)
  BY DEF SoundIn, Passed
<1>2. GoodHeap(m.map, m.live) /\ r \notin h.live /\ m.live = h.live \cup {r}
  BY <1>1 DEF Gets, r
<1>3. Own(Claims(h.procs), Kernel(h, T) \cup {r}, h.live \cup {r})
  BY <1>1, <1>2, OwnKeep
<1>4. Claims(m.procs) = Claims(h.procs) /\ Kernel(m, T2) = Kernel(h, T) \cup {r}
  BY DEF Passed, Others, r
<1> QED
  BY <1>2, <1>3, <1>4

\* No call changes nothing.
LEMMA FrameSame == \A P, S : Frame(P, P, S)
BY DEF Frame

\* The list_node of a parent's list.
LEMMA OrphanStep ==
    ASSUME NEW h, NEW T, Typed(h), SoundIn(h, T)
    PROVE  LET x == MallocIn(h, NodeBlocks)
               m == [x EXCEPT !.orphans = @ \cup {Given(x.got, NodeBlocks)}]
           IN  Step(h, m, T, {}) /\ m.procs = h.procs
<1> DEFINE x == MallocIn(h, NodeBlocks)
           r == Given(x.got, NodeBlocks)
           o == x.orphans \cup {r}
           m == [x EXCEPT !.orphans = o]
<1>1. /\ Passed(h, x)
      /\ ~x.wild => Gets(h, x, r)
  <2>1. IsHere(h) /\ NodeBlocks \in Nat \ {0}
    BY DEF Typed, NodeBlocks
  <2> QED
    BY <2>1, MallocTakes
<1> HIDE DEF x
<1>2. Typed(x)
  BY <1>1, TypedPassed
<1> HIDE DEF o
<1>3. /\ IsHere(m)
      /\ m.map = x.map /\ m.live = x.live /\ m.wild = x.wild /\ m.procs = x.procs
      /\ m.buckets = x.buckets /\ m.last_pid = x.last_pid /\ m.orphans = o
  BY <1>2 DEF Typed, IsHere
<1> HIDE DEF m
<1>4. Typed(m)
  BY <1>2, <1>3 DEF Typed
<1>5. Kernel(m, T) = Kernel(h, T) \cup {r}
  BY <1>1, <1>3 DEF Kernel, o, Passed, Others
<1>6. SoundIn(m, T)
  BY <1>1, <1>3, <1>5, KeepsIt
<1>7. m.procs = h.procs /\ (~m.wild => ~h.wild)
  BY <1>1, <1>3 DEF Passed, Others
<1>8. Step(h, m, T, {})
  BY <1>4, <1>6, <1>7, FrameSame DEF Step
<1> QED
  BY <1>7, <1>8 DEF m, o, x

\* The entry in the list of children, which is made when it is missing.
LEMMA AsChildStep ==
    ASSUME NEW h, NEW T, Typed(h), SoundIn(h, T), NEW parent \in DOMAIN h.procs
    PROVE  LET m == AsChild(h, parent)
           IN  Step(h, m, T, {<<parent, "kids">>}) /\ DOMAIN m.procs = DOMAIN h.procs
<1> DEFINE l == IF h.procs[parent].kids = Null THEN Take(h, parent, "kids") ELSE h
           x == MallocIn(l, NodeBlocks)
           m == [x EXCEPT !.orphans = @ \cup {Given(x.got, NodeBlocks)}]
           S == {<<parent, "kids">>}
<1>1. Step(h, l, T, S) /\ DOMAIN l.procs = DOMAIN h.procs
  <2>1. CASE h.procs[parent].kids = Null
    <3> DEFINE k == Take(h, parent, "kids")
    <3>1. "kids" \in Fields
      BY FieldsAre
    <3>2. Step(h, k, T, S) /\ DOMAIN k.procs = DOMAIN h.procs
      BY <2>1, <3>1, TakeStep
    <3>3. l = k
      BY <2>1
    <3> QED
      BY <3>2, <3>3
  <2>2. CASE h.procs[parent].kids # Null
    <3>1. l = h
      BY <2>2
    <3>2. Step(h, h, T, S)
      BY FrameSame DEF Step
    <3> QED
      BY <3>1, <3>2
  <2> QED
    BY <2>1, <2>2
<1>2. AsChild(h, parent) = m
  BY Zenon DEF AsChild
<1> HIDE DEF l
<1>3. Step(l, m, T, {}) /\ m.procs = l.procs
  BY <1>1, OrphanStep DEF Step
<1> HIDE DEF m
<1>4. Step(h, m, T, S \cup {})
  BY <1>1, <1>3, StepTrans
<1>5. S \cup {} = S
  OBVIOUS
<1> QED
  BY <1>1, <1>2, <1>3, <1>4, <1>5

\* The list of a pid bucket, which is made when it is missing.
LEMMA WithBucketStep ==
    ASSUME NEW h, NEW T, Typed(h), SoundIn(h, T), NEW b \in 0..(PidsSz - 1)
    PROVE  LET m == WithBucket(h, b)
           IN  Step(h, m, T, {}) /\ m.procs = h.procs
<1> DEFINE x == MallocIn(h, ListBlocks)
           B == [x.buckets EXCEPT ![b] = x.got]
           m == [x EXCEPT !.buckets = B]
           r == Given(x.got, ListBlocks)
<1>1. CASE h.buckets[b] # Null
  <2>1. WithBucket(h, b) = h
    BY <1>1 DEF WithBucket
  <2>2. Step(h, h, T, {})
    BY FrameSame DEF Step
  <2> QED
    BY <2>1, <2>2
<1>2. CASE h.buckets[b] = Null
  <2>1. WithBucket(h, b) = m
    BY <1>2, Zenon DEF WithBucket
  <2>2. /\ Passed(h, x) /\ x.got \in Addr
        /\ ~x.wild => x.got \in Entries /\ Gets(h, x, r)
    <3>1. IsHere(h) /\ ListBlocks \in Nat \ {0}
      BY DEF Typed, ListBlocks
    <3> QED
      BY <3>1, MallocTakes
  <2> HIDE DEF x
  <2>3. Typed(x) /\ x.buckets = h.buckets /\ x.procs = h.procs /\ x.orphans = h.orphans
    BY <2>2, TypedPassed DEF Passed, Others
  <2>4. /\ DOMAIN B = DOMAIN h.buckets /\ B[b] = x.got
        /\ \A d \in DOMAIN B : d # b => B[d] = h.buckets[d]
    BY <2>3 DEF Typed
  <2> HIDE DEF B
  <2>5. /\ IsHere(m)
        /\ m.map = x.map /\ m.live = x.live /\ m.wild = x.wild /\ m.procs = x.procs
        /\ m.buckets = B /\ m.last_pid = x.last_pid /\ m.orphans = x.orphans
    BY <2>3 DEF Typed, IsHere
  <2> HIDE DEF m
  <2>6. Typed(m)
    BY <2>2, <2>3, <2>4, <2>5 DEF Typed
  <2>7. ASSUME ~x.wild PROVE Kernel(m, T) = Kernel(h, T) \cup {r}
    <3>1. x.got # Null
      BY <2>2, <2>7, NullIs
    <3>2. b \in DOMAIN h.buckets
      BY DEF Typed
    <3>3. BucketRegions(B) = BucketRegions(h.buckets) \cup {r}
      BY <1>2, <2>4, <3>1, <3>2 DEF BucketRegions
    <3> QED
      BY <2>3, <2>5, <3>3 DEF Kernel
  <2>8. SoundIn(m, T)
    BY <2>2, <2>5, <2>7, KeepsIt
  <2>9. m.procs = h.procs /\ (~m.wild => ~h.wild)
    BY <2>2, <2>3, <2>5 DEF Passed
  <2>10. Step(h, m, T, {})
    BY <2>6, <2>8, <2>9, FrameSame DEF Step
  <2> QED
    BY <2>1, <2>9, <2>10
<1> QED
  BY <1>1, <1>2

\* A new process, and what it does not have yet.
Blank(m, pid, D) == pid \in DOMAIN m.procs /\ \A f \in Fields \ D : m.procs[pid][f] = Null

\* The record of a new process takes no memory yet.
LEMMA BornStep ==
    ASSUME NEW h, NEW T, Typed(h), SoundIn(h, T), NEW parent
    PROVE  LET m   == Born(h, parent)
               pid == h.last_pid + 1
           IN  /\ Step(h, m, T, {}) /\ Blank(m, pid, {})
               /\ DOMAIN m.procs = DOMAIN h.procs \cup {pid} /\ pid \notin DOMAIN h.procs
<1> DEFINE pid == h.last_pid + 1
           new == [p |-> Null, page |-> Null, node |-> Null, kids |-> Null, pm |-> Null,
                   pidNode |-> Null, parent |-> parent, waiting |-> 0]
           P == [q \in DOMAIN h.procs \cup {pid} |-> IF q = pid THEN new ELSE h.procs[q]]
           m == [h EXCEPT !.last_pid = pid, !.procs = P]
<1>1. Born(h, parent) = m
  BY Zenon DEF Born
<1>2. IsProcess(new) /\ new.waiting = 0 /\ \A f \in Fields : new[f] = Null
  BY FieldsAre DEF IsProcess, Addr
<1> HIDE DEF new
<1>3. pid \notin DOMAIN h.procs /\ pid \in Nat /\ \A q \in 1..h.last_pid : q \in 1..pid
  BY DEF Typed
<1>4. pid \in 1..pid
  BY DEF Typed
<1>5. /\ DOMAIN P = DOMAIN h.procs \cup {pid} /\ P[pid] = new
      /\ \A q \in DOMAIN h.procs : P[q] = h.procs[q]
  BY <1>3
<1> HIDE DEF P, pid
<1>6. /\ IsHere(m)
      /\ m.map = h.map /\ m.live = h.live /\ m.wild = h.wild /\ m.procs = P
      /\ m.buckets = h.buckets /\ m.last_pid = pid /\ m.orphans = h.orphans
  BY DEF Typed, IsHere
<1> HIDE DEF m
<1>7. Typed(m)
  BY <1>2, <1>3, <1>4, <1>5, <1>6 DEF Typed
<1>8. Claims(P) = Claims(h.procs)
  BY <1>2, <1>3, <1>5, NullIs DEF Claims
<1>9. Kernel(m, T) = Kernel(h, T)
  BY <1>6 DEF Kernel
<1>10. SoundIn(m, T)
  BY <1>6, <1>8, <1>9 DEF SoundIn
<1>11. Frame(h.procs, P, {})
  BY <1>2, <1>3, <1>5 DEF Frame
<1>12. Step(h, m, T, {})
  BY <1>6, <1>7, <1>10, <1>11 DEF Step
<1>13. Blank(m, pid, {})
  BY <1>2, <1>5, <1>6 DEF Blank
<1> QED
  BY <1>1, <1>3, <1>5, <1>6, <1>12, <1>13 DEF pid

\* All fields of a process.
FieldsOf(pid) == {<<pid, f>> : f \in Fields}

\* Other calls give a process nothing.
LEMMA BlankKept ==
    ASSUME NEW P, NEW h, NEW m, NEW T, NEW S, NEW pid, NEW D, Blank(h, pid, D), Step(h, m, T, S),
           \A f \in Fields \ D : <<pid, f>> \notin S
    PROVE  Blank(m, pid, D)
BY DEF Blank, Step, Frame

\* A chain that changes less.
LEMMA FrameMore ==
    ASSUME NEW h, NEW m, NEW T, NEW S, NEW S2, Step(h, m, T, S), S \subseteq S2
    PROVE  Step(h, m, T, S2)
BY DEF Step, Frame

\* createProc gives a new process the next thing.
LEMMA TakeNew ==
    ASSUME NEW h, NEW T, Typed(h), SoundIn(h, T),
           NEW pid, NEW D, Blank(h, pid, D), NEW f \in Fields \ D
    PROVE  LET m == Take(h, pid, f)
           IN  /\ Step(h, m, T, FieldsOf(pid)) /\ Blank(m, pid, D \cup {f})
               /\ DOMAIN m.procs = DOMAIN h.procs
<1> DEFINE m == Take(h, pid, f)
<1>1. pid \in DOMAIN h.procs /\ h.procs[pid][f] = Null
  BY DEF Blank
<1>2. Step(h, m, T, {<<pid, f>>}) /\ DOMAIN m.procs = DOMAIN h.procs
  BY <1>1, TakeStep
<1> HIDE DEF m
<1>3. Step(h, m, T, FieldsOf(pid))
  BY <1>2, FrameMore DEF FieldsOf
<1>4. \A g \in Fields \ (D \cup {f}) : <<pid, g>> \notin {<<pid, f>>}
  OBVIOUS
<1>5. Blank(h, pid, D \cup {f})
  BY DEF Blank
<1>6. Blank(m, pid, D \cup {f})
  BY <1>2, <1>4, <1>5, BlankKept
<1> QED
  BY <1>2, <1>3, <1>6 DEF m

\* createProc makes one process, and of the others its parent may get a list.
LEMMA CreatedStep ==
    ASSUME NEW h, NEW T, Typed(h), SoundIn(h, T), NEW parent \in DOMAIN h.procs \cup {0}
    PROVE  LET m == Created(h, parent)
           IN  /\ Step(h, m, T, {<<parent, "kids">>})
               /\ DOMAIN m.procs = DOMAIN h.procs \cup {h.last_pid + 1}
               /\ h.last_pid + 1 \notin DOMAIN h.procs
<1> DEFINE pid == h.last_pid + 1
           b  == Born(h, parent)
           p  == Take(b, pid, "p")
           g  == Take(p, pid, "page")
           r  == Take(g, pid, "node")
           c  == IF parent # 0 THEN AsChild(r, parent) ELSE r
           i  == Take(c, pid, "pm")
           w  == WithBucket(i, pid % PidsSz)
           m  == Take(w, pid, "pidNode")
           F  == FieldsOf(pid)
           S  == {<<parent, "kids">>}
           D  == DOMAIN h.procs \cup {pid}
<1>1. Created(h, parent) = m
  BY Zenon DEF Created
<1>2. Fields = {"p", "page", "node", "kids", "pm", "pidNode"}
  BY FieldsAre
<1>3. Step(h, b, T, {}) /\ Blank(b, pid, {}) /\ DOMAIN b.procs = D /\ pid \notin DOMAIN h.procs
  BY BornStep, Zenon
<1> HIDE DEF b
<1>4. Step(b, p, T, F) /\ Blank(p, pid, {} \cup {"p"}) /\ DOMAIN p.procs = D
  BY <1>2, <1>3, TakeNew DEF Step
<1> HIDE DEF p
<1>5. Step(p, g, T, F) /\ Blank(g, pid, ({} \cup {"p"}) \cup {"page"}) /\ DOMAIN g.procs = D
  BY <1>2, <1>4, TakeNew DEF Step
<1> HIDE DEF g
<1>6. Step(g, r, T, F) /\ Blank(r, pid, (({} \cup {"p"}) \cup {"page"}) \cup {"node"}) /\ DOMAIN r.procs = D
  BY <1>2, <1>5, TakeNew DEF Step
<1> HIDE DEF r
<1> DEFINE D3 == {"p", "page", "node"}
<1>7. Blank(r, pid, D3)
  BY <1>6 DEF Blank
<1> HIDE DEF D
<1>8. parent # pid /\ (parent # 0 => parent \in D)
  BY <1>3 DEF D, Typed
<1>9. Step(r, c, T, S) /\ DOMAIN c.procs = D
  <2>1. CASE parent # 0
    <3> DEFINE k == AsChild(r, parent)
    <3>1. parent \in DOMAIN r.procs
      BY <1>6, <1>8, <2>1
    <3>2. Step(r, k, T, S) /\ DOMAIN k.procs = D
      BY <1>6, <3>1, AsChildStep DEF Step
    <3>3. c = k
      BY <2>1
    <3> QED
      BY <3>2, <3>3
  <2>2. CASE parent = 0
    <3>1. c = r
      BY <2>2
    <3>2. Step(r, r, T, S)
      BY <1>6, FrameSame DEF Step
    <3> QED
      BY <1>6, <3>1, <3>2
  <2> QED
    BY <2>1, <2>2
<1> HIDE DEF c
<1>10. Blank(c, pid, D3)
  <2>1. \A f \in Fields \ D3 : <<pid, f>> \notin S
    BY <1>8
  <2> QED
    BY <1>7, <1>9, <2>1, BlankKept
<1>11. Step(c, i, T, F) /\ Blank(i, pid, D3 \cup {"pm"}) /\ DOMAIN i.procs = D
  BY <1>2, <1>9, <1>10, TakeNew DEF Step
<1> HIDE DEF i
<1>12. Step(i, w, T, {}) /\ DOMAIN w.procs = D /\ Blank(w, pid, D3 \cup {"pm"})
  <2>1. pid % PidsSz \in 0..(PidsSz - 1)
    <3>1. pid \in Int /\ PidsSz \in Nat \ {0}
      BY ProcMemoryAssumption DEF Typed
    <3> HIDE DEF pid
    <3> QED
      BY <3>1
  <2>2. Step(i, w, T, {}) /\ w.procs = i.procs
    BY <1>11, <2>1, WithBucketStep DEF Step
  <2> QED
    BY <1>11, <2>2 DEF Blank
<1> HIDE DEF w
<1>13. Step(w, m, T, F) /\ DOMAIN m.procs = D
  <2>1. "pidNode" \in Fields \ (D3 \cup {"pm"})
    BY <1>2
  <2>2. Typed(w) /\ SoundIn(w, T)
    BY <1>12 DEF Step
  <2> HIDE DEF D3, F
  <2> QED
    BY <1>12, <2>1, <2>2, TakeNew DEF F
<1> HIDE DEF m, F, S, D3
<1>14. Step(h, g, T, F)
  <2>1. Step(h, p, T, {} \cup F)
    BY <1>3, <1>4, StepTrans
  <2>2. Step(h, g, T, ({} \cup F) \cup F)
    BY <2>1, <1>5, StepTrans
  <2> QED
    BY <2>2, FrameMore
<1>15. Step(h, c, T, F \cup S)
  <2>1. Step(h, r, T, F \cup F)
    BY <1>6, <1>14, StepTrans
  <2>2. Step(h, c, T, (F \cup F) \cup S)
    BY <2>1, <1>9, StepTrans
  <2> QED
    BY <2>2, FrameMore
<1>16. Step(h, w, T, F \cup S)
  <2>1. Step(h, i, T, (F \cup S) \cup F)
    BY <1>11, <1>15, StepTrans
  <2>2. Step(h, w, T, ((F \cup S) \cup F) \cup {})
    BY <2>1, <1>12, StepTrans
  <2> QED
    BY <2>2, FrameMore
<1>17. Step(h, m, T, (F \cup S) \cup F)
  BY <1>13, <1>16, StepTrans
<1>18. Step(h, m, T, S)
  BY <1>3, <1>17 DEF Step, Frame, F, FieldsOf
<1> QED
  BY <1>1, <1>3, <1>13, <1>18 DEF D, S

\* The shells of the terminals are no part of the memory.
LEMMA ShStep ==
    ASSUME NEW h, NEW T, Typed(h), SoundIn(h, T), NEW v
    PROVE  LET m == [h EXCEPT !.sh = v]
           IN  Step(h, m, T, {}) /\ m.procs = h.procs
<1> DEFINE m == [h EXCEPT !.sh = v]
<1>1. /\ IsHere(m)
      /\ m.map = h.map /\ m.live = h.live /\ m.wild = h.wild /\ m.procs = h.procs
      /\ m.buckets = h.buckets /\ m.last_pid = h.last_pid /\ m.orphans = h.orphans
  BY DEF Typed, IsHere
<1> HIDE DEF m
<1>2. Typed(m) /\ SoundIn(m, T)
  BY <1>1 DEF Typed, SoundIn, Kernel
<1>3. Step(h, m, T, {}) /\ m.procs = h.procs
  BY <1>1, <1>2, FrameSame DEF Step
<1> QED
  BY <1>3 DEF m

\* procDone, which may make a shell in the middle of killProc.
LEMMA ReplacedStep ==
    ASSUME NEW h, NEW T, Typed(h), SoundIn(h, T), NEW pid
    PROVE  Step(h, Replaced(h, pid), T, {})
<1> DEFINE v == [t \in Terms |-> IF h.sh[t] = pid THEN h.last_pid + 1 ELSE h.sh[t]]
           c == Created(h, 0)
           m == [c EXCEPT !.sh = v]
<1>1. CASE \E t \in Terms : h.sh[t] = pid
  <2>1. Replaced(h, pid) = m
    BY <1>1, Zenon DEF Replaced
  <2>2. Step(h, c, T, {<<0, "kids">>})
    BY CreatedStep
  <2> HIDE DEF c, v
  <2>3. Step(c, m, T, {})
    BY <2>2, ShStep DEF Step
  <2> HIDE DEF m
  <2>4. Step(h, m, T, {<<0, "kids">>} \cup {})
    BY <2>2, <2>3, StepTrans
  <2>5. 0 \notin DOMAIN h.procs
    BY DEF Typed
  <2>6. Step(h, m, T, {})
    BY <2>4, <2>5 DEF Step, Frame
  <2> QED
    BY <2>1, <2>6
<1>2. CASE ~ \E t \in Terms : h.sh[t] = pid
  <2>1. Replaced(h, pid) = h
    BY <1>2, Zenon DEF Replaced
  <2> QED
    BY <2>1, FrameSame DEF Step
<1> QED
  BY <1>1, <1>2

\* The process that waited gets a run-queue node again.
LEMMA WokenStep ==
    ASSUME NEW h, NEW T, Typed(h), SoundIn(h, T), NEW pid \in DOMAIN h.procs, NEW w,
           w = h.procs[pid].waiting,
           w # 0 => w \in DOMAIN h.procs /\ h.procs[w].node = Null
    PROVE  LET m == Woken(h, pid)
           IN  Step(h, m, T, {<<w, "node">>}) /\ DOMAIN m.procs = DOMAIN h.procs
<1>1. CASE w # 0
  <2>1. Woken(h, pid) = Take(h, w, "node")
    BY <1>1, Zenon DEF Woken
  <2>2. "node" \in Fields
    BY FieldsAre
  <2>3. LET m == Take(h, w, "node")
        IN  Step(h, m, T, {<<w, "node">>}) /\ DOMAIN m.procs = DOMAIN h.procs
    BY <1>1, <2>2, TakeStep
  <2> QED
    BY <2>1, <2>3
<1>2. CASE w = 0
  <2>1. Woken(h, pid) = h
    BY <1>2, Zenon DEF Woken
  <2> QED
    BY <2>1, FrameSame DEF Step
<1> QED
  BY <1>1, <1>2

\* A process is gone that holds nothing.
LEMMA GoneStep ==
    ASSUME NEW h, NEW T, Typed(h), SoundIn(h, T), NEW pid \in DOMAIN h.procs,
           \A f \in Fields : h.procs[pid][f] = Null
    PROVE  LET m == Gone(h, pid)
           IN  /\ Typed(m) /\ SoundIn(m, T) /\ m.wild = h.wild
               /\ DOMAIN m.procs = DOMAIN h.procs \ {pid}
               /\ \A q \in DOMAIN m.procs : m.procs[q] = h.procs[q]
<1> DEFINE P == [q \in DOMAIN h.procs \ {pid} |-> h.procs[q]]
           m == [h EXCEPT !.procs = P]
<1>1. Gone(h, pid) = m
  BY Zenon DEF Gone
<1>2. DOMAIN P = DOMAIN h.procs \ {pid} /\ \A q \in DOMAIN P : P[q] = h.procs[q]
  OBVIOUS
<1> HIDE DEF P
<1>3. /\ IsHere(m)
      /\ m.map = h.map /\ m.live = h.live /\ m.wild = h.wild /\ m.procs = P
      /\ m.buckets = h.buckets /\ m.last_pid = h.last_pid /\ m.orphans = h.orphans
  BY DEF Typed, IsHere
<1> HIDE DEF m
<1>4. Typed(m)
  BY <1>2, <1>3 DEF Typed
<1>5. Claims(P) = Claims(h.procs)
  BY <1>2, NullIs DEF Claims
<1>6. Kernel(m, T) = Kernel(h, T)
  BY <1>3 DEF Kernel
<1>7. SoundIn(m, T)
  BY <1>3, <1>5, <1>6 DEF SoundIn
<1> QED
  BY <1>1, <1>2, <1>3, <1>4, <1>7

\* Who waits is there and off the run queue, and waits for one process only.
Waits(P) ==
    \A c \in DOMAIN P : P[c].waiting # 0 =>
        /\ P[c].waiting \in DOMAIN P
        /\ P[P[c].waiting].node = Null
        /\ \A d \in DOMAIN P : P[d].waiting = P[c].waiting => d = c

\* A chain keeps Waits that gives no run-queue node to who is waiting.
LEMMA WaitsKept ==
    ASSUME NEW P, NEW P2, NEW S, Waits(P), Frame(P, P2, S),
           \A c \in DOMAIN P : P[c].waiting # 0 => <<P[c].waiting, "node">> \notin S
    PROVE  Waits(P2)
<1>1. "node" \in Fields
  BY FieldsAre
<1> SUFFICES ASSUME NEW c \in DOMAIN P2, P2[c].waiting # 0
             PROVE  /\ P2[c].waiting \in DOMAIN P2
                    /\ P2[P2[c].waiting].node = Null
                    /\ \A d \in DOMAIN P2 : P2[d].waiting = P2[c].waiting => d = c
  BY DEF Waits
<1>2. c \in DOMAIN P /\ P2[c].waiting = P[c].waiting
  BY DEF Frame
<1>3. P2[c].waiting \in DOMAIN P /\ P[P2[c].waiting].node = Null
  BY <1>2 DEF Waits
<1>4. \A d \in DOMAIN P2 : P2[d].waiting = P2[c].waiting => d = c
  BY <1>2 DEF Frame, Waits
<1> QED
  BY <1>1, <1>2, <1>3, <1>4 DEF Frame

\* killProc's process had a node, so it waited for nobody; who waited for it
\* waits no longer.
LEMMA WaitsGone ==
    ASSUME NEW P, NEW P2, NEW P3, NEW pid \in DOMAIN P, Waits(P), P[pid].node # Null,
           Frame(P, P2, FieldsOf(pid) \cup {<<P[pid].waiting, "node">>}),
           DOMAIN P3 = DOMAIN P2 \ {pid}, \A q \in DOMAIN P3 : P3[q] = P2[q]
    PROVE  Waits(P3)
<1>1. "node" \in Fields
  BY FieldsAre
<1> SUFFICES ASSUME NEW c \in DOMAIN P3, P3[c].waiting # 0
             PROVE  /\ P3[c].waiting \in DOMAIN P3
                    /\ P3[P3[c].waiting].node = Null
                    /\ \A d \in DOMAIN P3 : P3[d].waiting = P3[c].waiting => d = c
  BY DEF Waits
<1> DEFINE v == P3[c].waiting
<1>2. c \in DOMAIN P /\ v = P[c].waiting /\ c # pid
  BY DEF Frame
<1>3. v \in DOMAIN P /\ P[v].node = Null /\ \A d \in DOMAIN P : P[d].waiting = v => d = c
  BY <1>2 DEF Waits
<1>4. v # pid /\ v # P[pid].waiting
  BY <1>2, <1>3
<1>5. v \in DOMAIN P3 /\ P3[v].node = P2[v].node
  BY <1>3, <1>4 DEF Frame
<1>6. <<v, "node">> \notin FieldsOf(pid) \cup {<<P[pid].waiting, "node">>}
  BY <1>4 DEF FieldsOf
<1>7. P2[v].node = P[v].node
  BY <1>1, <1>3, <1>6 DEF Frame
<1>8. \A d \in DOMAIN P3 : P3[d].waiting = v => d = c
  BY <1>3 DEF Frame
<1> QED
  BY <1>3, <1>5, <1>7, <1>8

\* killProc takes one thing after the other from the process.
LEMMA TakenFrom ==
    ASSUME NEW h, NEW m, NEW T, NEW pid, NEW D, Blank(h, pid, D), NEW f \in Fields,
           Step(h, m, T, {<<pid, f>>}), m.procs[pid][f] = Null
    PROVE  Step(h, m, T, FieldsOf(pid)) /\ Blank(m, pid, D \ {f})
<1>1. Step(h, m, T, FieldsOf(pid))
  BY FrameMore DEF FieldsOf
<1>2. \A g \in Fields \ D : g # f => m.procs[pid][g] = Null
  BY DEF Blank, Step, Frame
<1>3. pid \in DOMAIN m.procs
  BY DEF Blank, Step, Frame
<1> QED
  BY <1>1, <1>2, <1>3 DEF Blank

\* free of one of them,
LEMMA GiveFrom ==
    ASSUME NEW h, NEW T, Typed(h), SoundIn(h, T), NEW pid, NEW D, Blank(h, pid, D), NEW f \in Fields
    PROVE  LET m == Give(h, pid, f)
           IN  Step(h, m, T, FieldsOf(pid)) /\ Blank(m, pid, D \ {f})
<1> DEFINE m == Give(h, pid, f)
<1>1. Step(h, m, T, {<<pid, f>>}) /\ m.procs[pid][f] = Null
  BY GiveStep DEF Blank
<1> HIDE DEF m
<1>2. Step(h, m, T, FieldsOf(pid)) /\ Blank(m, pid, D \ {f})
  BY <1>1, TakenFrom
<1> QED
  BY <1>2 DEF m

\* or its loss.
LEMMA LeaveFrom ==
    ASSUME NEW h, NEW T, Typed(h), SoundIn(h, T), NEW pid, NEW D, Blank(h, pid, D), NEW f \in Fields,
           f # "page"
    PROVE  LET m == Leave(h, pid, f)
           IN  Step(h, m, T, FieldsOf(pid)) /\ Blank(m, pid, D \ {f})
<1> DEFINE m == Leave(h, pid, f)
<1>1. Step(h, m, T, {<<pid, f>>}) /\ m.procs[pid][f] = Null
  BY LeaveStep DEF Blank
<1> HIDE DEF m
<1>2. Step(h, m, T, FieldsOf(pid)) /\ Blank(m, pid, D \ {f})
  BY <1>1, TakenFrom
<1> QED
  BY <1>2 DEF m

\* All of killProc: what the process had is given back, or left behind.
LEMMA KilledStep ==
    ASSUME NEW h, NEW T, Typed(h), SoundIn(h, T), Waits(h.procs),
           NEW pid \in DOMAIN h.procs, h.procs[pid].node # Null
    PROVE  LET m == Killed(h, pid)
           IN  /\ Typed(m) /\ SoundIn(m, T) /\ Waits(m.procs)
               /\ ~m.wild => ~h.wild
<1> DEFINE g  == Give(h, pid, "page")
           r  == Replaced(g, pid)
           k  == Woken(r, pid)
           e1 == Give(k, pid, "pidNode")
           e2 == Give(e1, pid, "p")
           e3 == Give(e2, pid, "node")
           l1 == Leave(e3, pid, "pm")
           l2 == Leave(l1, pid, "kids")
           m  == Gone(l2, pid)
           w  == h.procs[pid].waiting
           F  == FieldsOf(pid)
           W  == {<<w, "node">>}
           D1 == Fields \ {"page"}
           D2 == D1 \ {"pidNode"}
           D3 == D2 \ {"p"}
           D4 == D3 \ {"node"}
           D5 == D4 \ {"pm"}
           D6 == D5 \ {"kids"}
<1>1. Killed(h, pid) = m
  BY Zenon DEF Killed, Ended
<1>2. Fields = {"p", "page", "node", "kids", "pm", "pidNode"}
  BY FieldsAre
<1>3. w # 0 => w \in DOMAIN h.procs /\ h.procs[w].node = Null /\ w # pid
  BY DEF Waits
<1> HIDE DEF w
<1>4. Step(h, g, T, F) /\ Blank(g, pid, D1)
  <2>1. Blank(h, pid, Fields) /\ "page" \in Fields
    BY <1>2 DEF Blank
  <2> QED
    BY <2>1, GiveFrom
<1> HIDE DEF g, D1
<1>5. Step(g, r, T, {}) /\ Blank(r, pid, D1)
  <2>1. Step(g, r, T, {})
    BY <1>4, ReplacedStep DEF Step
  <2> QED
    BY <1>4, <2>1, BlankKept
<1> HIDE DEF r
<1>6. Step(h, r, T, F \cup {})
  BY <1>4, <1>5, StepTrans
<1>7. Step(r, k, T, W) /\ Blank(k, pid, D1)
  <2>1. pid \in DOMAIN r.procs /\ w = r.procs[pid].waiting
    BY <1>6 DEF Step, Frame, w
  <2>2. w # 0 => w \in DOMAIN r.procs /\ r.procs[w].node = Null
    <3>1. ASSUME w # 0 PROVE <<w, "node">> \notin F
      BY <1>3, <3>1 DEF FieldsOf
    <3>2. "node" \in Fields
      BY <1>2
    <3> QED
      BY <1>3, <1>6, <3>1, <3>2 DEF Step, Frame
  <2>3. Step(r, k, T, W)
    BY <1>6, <2>1, <2>2, WokenStep DEF Step
  <2>4. CASE w = 0
    <3>1. \A f \in Fields \ D1 : <<pid, f>> \notin W
      BY <2>4 DEF Typed
    <3> QED
      BY <1>5, <2>3, <3>1, BlankKept
  <2>5. CASE w # 0
    <3>1. \A f \in Fields \ D1 : <<pid, f>> \notin W
      BY <1>3, <2>5
    <3> QED
      BY <1>5, <2>3, <3>1, BlankKept
  <2> QED
    BY <2>3, <2>4, <2>5
<1> HIDE DEF k
<1>8. Step(h, k, T, (F \cup {}) \cup W)
  BY <1>6, <1>7, StepTrans
<1>9. Step(k, e1, T, F) /\ Blank(e1, pid, D2)
  BY <1>2, <1>7, GiveFrom DEF Step
<1> HIDE DEF e1, D2
<1>10. Step(e1, e2, T, F) /\ Blank(e2, pid, D3)
  BY <1>2, <1>9, GiveFrom DEF Step
<1> HIDE DEF e2, D3
<1>11. Step(e2, e3, T, F) /\ Blank(e3, pid, D4)
  BY <1>2, <1>10, GiveFrom DEF Step
<1> HIDE DEF e3, D4
<1>12. Step(e3, l1, T, F) /\ Blank(l1, pid, D5)
  BY <1>2, <1>11, LeaveFrom DEF Step
<1> HIDE DEF l1, D5
<1>13. Step(l1, l2, T, F) /\ Blank(l2, pid, D6)
  BY <1>2, <1>12, LeaveFrom DEF Step
<1> HIDE DEF l2
<1>14. \A f \in Fields : l2.procs[pid][f] = Null
  <2>1. Fields \ D6 = Fields
    BY <1>2 DEF D1, D2, D3, D4, D5
  <2> QED
    BY <1>13, <2>1 DEF Blank
<1> HIDE DEF F, W, D6
<1>15. Step(h, l2, T, F \cup W)
  <2>1. Step(k, e2, T, F \cup F)
    BY <1>9, <1>10, StepTrans
  <2>2. Step(k, e3, T, (F \cup F) \cup F)
    BY <2>1, <1>11, StepTrans
  <2>3. Step(k, l1, T, ((F \cup F) \cup F) \cup F)
    BY <2>2, <1>12, StepTrans
  <2>4. Step(k, l2, T, (((F \cup F) \cup F) \cup F) \cup F)
    BY <2>3, <1>13, StepTrans
  <2>5. Step(h, l2, T, ((F \cup {}) \cup W) \cup ((((F \cup F) \cup F) \cup F) \cup F))
    BY <1>8, <2>4, StepTrans
  <2> QED
    BY <2>5, FrameMore
<1>16. Typed(l2) /\ SoundIn(l2, T) /\ pid \in DOMAIN l2.procs
  BY <1>13 DEF Step, Blank
<1>17. /\ Typed(m) /\ SoundIn(m, T) /\ m.wild = l2.wild
       /\ DOMAIN m.procs = DOMAIN l2.procs \ {pid}
       /\ \A q \in DOMAIN m.procs : m.procs[q] = l2.procs[q]
  BY <1>14, <1>16, GoneStep
<1> HIDE DEF m
<1>18. Waits(m.procs)
  <2>1. Frame(h.procs, l2.procs, F \cup W)
    BY <1>15 DEF Step
  <2> QED
    BY <1>17, <2>1, WaitsGone DEF F, W, w
<1>19. ~m.wild => ~h.wild
  BY <1>15, <1>17 DEF Step
<1> QED
  BY <1>1, <1>17, <1>18, <1>19

----------------------------------------------------------------------------
(* The actions.                                                             *)

MemInv == ~wild => Typed(Here) /\ SoundIn(Here, text) /\ Waits(procs)

\* What a chain begins with.
LEMMA HereIs ==
    /\ IsHere(Here)
    /\ Here.map = map /\ Here.live = live /\ Here.wild = wild /\ Here.procs = procs
    /\ Here.buckets = buckets /\ Here.last_pid = last_pid /\ Here.orphans = orphans
    /\ Here.sh = sh
BY DEF Here, IsHere

\* The end of a chain is the next state.
LEMMA Arrives ==
    ASSUME NEW h, Becomes(h), Typed(h), SoundIn(h, text'), Waits(h.procs)
    PROVE  MemInv'
<1>1. /\ map' = h.map /\ live' = h.live /\ wild' = h.wild
      /\ procs' = h.procs /\ buckets' = h.buckets /\ last_pid' = h.last_pid
      /\ sh' = h.sh /\ orphans' = h.orphans
  BY DEF Becomes
<1> DEFINE H == Here'
<1>2. /\ IsHere(H)
      /\ H.map = map' /\ H.live = live' /\ H.wild = wild' /\ H.procs = procs'
      /\ H.buckets = buckets' /\ H.last_pid = last_pid' /\ H.orphans = orphans'
  BY DEF Here, IsHere
<1> HIDE DEF H
<1>3. Typed(H) /\ SoundIn(H, text') /\ Waits(procs')
  BY <1>1, <1>2 DEF Typed, SoundIn, Kernel
<1> QED
  BY <1>3 DEF MemInv, H

\* What the invariant says where a chain begins.
LEMMA Begins ==
    ASSUME MemInv, ~wild
    PROVE  Typed(Here) /\ SoundIn(Here, text) /\ Waits(Here.procs)
BY HereIs DEF MemInv

\* A new process waits for nobody, and nobody for it.
LEMMA CreatedKeepsWaits ==
    ASSUME MemInv, ~wild, NEW parent \in DOMAIN procs \cup {0}
    PROVE  LET c == Created(Here, parent)
           IN  Typed(c) /\ SoundIn(c, text) /\ Waits(c.procs)
<1> DEFINE c == Created(Here, parent)
<1>1. Step(Here, c, text, {<<parent, "kids">>})
  BY Begins, HereIs, CreatedStep
<1> HIDE DEF c
<1>2. Waits(c.procs)
  BY <1>1, Begins, WaitsKept DEF Step
<1> QED
  BY <1>1, <1>2 DEF c, Step

\* The first shell of a terminal.
LEMMA ShowTermInv ==
    ASSUME MemInv, NEW t \in Terms, ShowTerm(t)
    PROVE  MemInv'
<1> DEFINE c == Created(Here, 0)
           v == [c.sh EXCEPT ![t] = last_pid + 1]
           m == [c EXCEPT !.sh = v]
<1>1. ~wild /\ Becomes(m) /\ text' = text
  BY DEF ShowTerm, Becomes
<1>2. Typed(c) /\ SoundIn(c, text) /\ Waits(c.procs)
  BY <1>1, CreatedKeepsWaits
<1> HIDE DEF c, v
<1>3. Step(c, m, text, {}) /\ m.procs = c.procs
  BY <1>2, ShStep
<1> HIDE DEF m
<1> QED
  BY <1>1, <1>2, <1>3, Arrives DEF Step

\* A program that is started.
LEMMA RunProgInv ==
    ASSUME MemInv, NEW pid \in CanRun, RunProg(pid)
    PROVE  MemInv'
<1> DEFINE c == Created(Here, pid)
<1>1. ~wild /\ Becomes(c) /\ text' = text
  BY DEF RunProg, Becomes
<1>2. Typed(c) /\ SoundIn(c, text) /\ Waits(c.procs)
  BY <1>1, CreatedKeepsWaits DEF CanRun
<1> HIDE DEF c
<1> QED
  BY <1>1, <1>2, Arrives

\* A process that leaves the run queue, to read or to wait.
LEMMA BlockedFacts ==
    ASSUME MemInv, ~wild, NEW pid \in CanRun
    PROVE  LET m == Blocked(pid)
           IN  /\ Typed(m) /\ SoundIn(m, text) /\ Waits(m.procs)
               /\ DOMAIN m.procs = DOMAIN procs /\ m.procs[pid].node = Null
               /\ \A c \in DOMAIN procs : m.procs[c].waiting = procs[c].waiting
               /\ \A c \in DOMAIN procs : procs[c].waiting # pid \/ pid = 0
<1> DEFINE m == Give(Here, pid, "node")
<1>1. "node" \in Fields /\ pid \in DOMAIN Here.procs /\ procs[pid].node # Null
  BY FieldsAre, HereIs DEF CanRun
<1>2. Step(Here, m, text, {<<pid, "node">>}) /\ DOMAIN m.procs = DOMAIN procs /\ m.procs[pid].node = Null
  BY <1>1, Begins, HereIs, GiveStep
<1>3. Blocked(pid) = m
  BY Zenon DEF Blocked
<1> HIDE DEF m
<1>4. \A c \in DOMAIN procs : procs[c].waiting # pid \/ pid = 0
  BY <1>1, Begins, HereIs DEF Waits
<1>5. \A c \in DOMAIN procs : m.procs[c].waiting = procs[c].waiting
  BY <1>2, HereIs DEF Step, Frame
<1>6. \A c \in DOMAIN procs : procs[c].waiting # 0 => <<procs[c].waiting, "node">> \notin {<<pid, "node">>}
  BY <1>4
<1>7. Waits(m.procs)
  BY <1>2, <1>6, Begins, HereIs, WaitsKept DEF Step
<1> QED
  BY <1>2, <1>3, <1>4, <1>5, <1>7 DEF Step

\* A process that reads.
LEMMA ReadlineInv ==
    ASSUME MemInv, NEW pid \in CanRun, Readline(pid)
    PROVE  MemInv'
<1> DEFINE m == Blocked(pid)
<1>1. ~wild /\ Becomes(m) /\ text' = text
  BY DEF Readline, Becomes
<1>2. Typed(m) /\ SoundIn(m, text) /\ Waits(m.procs)
  BY <1>1, BlockedFacts
<1> HIDE DEF m
<1> QED
  BY <1>1, <1>2, Arrives

\* Whom a process waits for is no part of the memory.
LEMMA SetWaiting ==
    ASSUME NEW h, NEW T, Typed(h), SoundIn(h, T), NEW c \in DOMAIN h.procs, NEW a
    PROVE  LET m == [h EXCEPT !.procs[c].waiting = a]
           IN  Typed(m) /\ SoundIn(m, T) /\ Sets(h.procs, m.procs, c, "waiting", a)
<1> DEFINE P == [h.procs EXCEPT ![c]["waiting"] = a]
           m == [h EXCEPT !.procs = P]
<1>1. "waiting" \notin Fields
  BY FieldsAre
<1>2. \A q \in DOMAIN h.procs : IsProcess(h.procs[q])
  BY DEF Typed
<1>3. (\A q \in DOMAIN P : IsProcess(P[q])) /\ Sets(h.procs, P, c, "waiting", a)
  BY <1>1, <1>2, SetField
<1> HIDE DEF P
<1>4. /\ IsHere(m)
      /\ m.map = h.map /\ m.live = h.live /\ m.wild = h.wild /\ m.procs = P
      /\ m.buckets = h.buckets /\ m.last_pid = h.last_pid /\ m.orphans = h.orphans
  BY DEF Typed, IsHere
<1> HIDE DEF m
<1>5. DOMAIN P = DOMAIN h.procs /\ Claims(P) = Claims(h.procs)
  BY <1>1, <1>3 DEF Claims, Sets
<1>6. Typed(m) /\ SoundIn(m, T)
  BY <1>3, <1>4, <1>5 DEF Typed, SoundIn, Kernel
<1> QED
  BY <1>3, <1>4, <1>6 DEF m, P

\* A process that waits for another.
LEMMA WaitInv ==
    ASSUME MemInv, NEW pid \in CanRun, Wait(pid)
    PROVE  MemInv'
<1> DEFINE b == Blocked(pid)
<1>1. PICK c \in DOMAIN procs :
         procs[c].waiting = 0 /\ Becomes([b EXCEPT !.procs[c].waiting = pid])
  BY DEF Wait
<1> DEFINE m == [b EXCEPT !.procs[c].waiting = pid]
<1>2. ~wild /\ Becomes(m) /\ text' = text
  BY <1>1 DEF Wait, Becomes
<1>3. /\ Typed(b) /\ SoundIn(b, text) /\ Waits(b.procs)
      /\ DOMAIN b.procs = DOMAIN procs /\ b.procs[pid].node = Null
      /\ \A d \in DOMAIN procs : b.procs[d].waiting = procs[d].waiting
      /\ \A d \in DOMAIN procs : procs[d].waiting # pid \/ pid = 0
  BY <1>2, BlockedFacts
<1> HIDE DEF b
<1>4. "waiting" \notin Fields /\ "node" \in Fields
  BY FieldsAre
<1>5. Typed(m) /\ SoundIn(m, text) /\ Sets(b.procs, m.procs, c, "waiting", pid)
  BY <1>3, SetWaiting
<1> HIDE DEF m
<1>8. pid # 0 /\ pid \in DOMAIN procs
  BY <1>3 DEF CanRun, Typed
<1>9. /\ DOMAIN m.procs = DOMAIN procs /\ m.procs[c].waiting = pid
      /\ \A d \in DOMAIN procs : d # c => m.procs[d].waiting = procs[d].waiting
      /\ \A d \in DOMAIN procs : m.procs[d].node = b.procs[d].node
  BY <1>3, <1>4, <1>5 DEF Sets
<1>10. Waits(m.procs)
  BY <1>3, <1>8, <1>9 DEF Waits
<1> QED
  BY <1>2, <1>5, <1>10, Arrives

\* The string that M_readline makes belongs to nobody while the reader gets
\* its node, and is gone afterwards.
LEMMA GotLineInv ==
    ASSUME MemInv, NEW pid \in DOMAIN procs, NEW n \in Sizes, GotLine(pid, n)
    PROVE  MemInv'
<1> DEFINE l == MallocIn(Here, n)
           r == Given(l.got, n)
           k == Take(l, pid, "node")
           m == FreeIn(k, l.got)
           T == text \cup {r}
<1>1. ~wild /\ Reading(pid) /\ Becomes(m) /\ text' = text
  BY DEF GotLine, Becomes
<1>2. Typed(Here) /\ SoundIn(Here, text) /\ Waits(procs)
  BY <1>1, Begins, HereIs
<1>3. /\ Passed(Here, l) /\ l.got \in Addr
      /\ ~l.wild => l.got \in Entries /\ Gets(Here, l, r)
  <2>1. n \in Nat \ {0}
    BY HeapAssumption
  <2> QED
    BY <2>1, HereIs, MallocTakes
<1>4. r.start = l.got
  BY DEF Given
<1> HIDE DEF l
<1> HIDE DEF r
<1>5. Typed(l) /\ l.procs = procs /\ l.buckets = buckets /\ l.orphans = orphans
  BY <1>2, <1>3, HereIs, TypedPassed DEF Passed, Others
<1>6. SoundIn(l, T)
  <2>1. Kernel(l, T) = Kernel(Here, text) \cup {r}
    BY <1>5, HereIs DEF Kernel
  <2> QED
    BY <1>2, <1>3, <2>1, KeepsIt DEF r
<1>7. Step(l, k, T, {<<pid, "node">>}) /\ k.buckets = buckets /\ k.orphans = orphans
  <2>1. "node" \in Fields /\ l.procs[pid]["node"] = Null /\ pid \in DOMAIN l.procs
    BY <1>1, <1>5, FieldsAre DEF Reading
  <2> HIDE DEF T
  <2> QED
    BY <1>5, <1>6, <2>1, TakeStep
<1> HIDE DEF k
<1>8. Typed(k) /\ SoundIn(k, T) /\ (~k.wild => ~l.wild)
  BY <1>7 DEF Step
<1>9. /\ Passed(k, m) /\ m.wild = k.wild
      /\ GoodHeap(k.map, k.live) =>
            \A q \in k.live : q.start = l.got /\ l.got # Null =>
               GoodHeap(m.map, m.live) /\ m.live = k.live \ {q}
  BY <1>3, <1>8, FreeGives DEF Typed
<1> HIDE DEF m
<1>10. Typed(m)
  BY <1>8, <1>9, TypedPassed
<1>11. m.procs = k.procs /\ Kernel(m, text) = Kernel(Here, text)
  BY <1>7, <1>9, HereIs DEF Passed, Others, Kernel
<1>12. SoundIn(m, text)
  <2> DEFINE K == Kernel(Here, text)
  <2> SUFFICES ASSUME ~m.wild
               PROVE  GoodHeap(m.map, m.live) /\ Own(Claims(m.procs), Kernel(m, text), m.live)
    BY DEF SoundIn
  <2>1. ~k.wild /\ ~l.wild /\ ~Here.wild
    BY <1>3, <1>8, <1>9 DEF Passed
  <2>2. GoodHeap(k.map, k.live) /\ Own(Claims(k.procs), Kernel(k, T), k.live)
    BY <1>8, <2>1 DEF SoundIn
  <2>3. Kernel(k, T) = K \cup {r}
    BY <1>7, HereIs DEF Kernel
  <2>4. l.got # Null /\ r \notin K
    <3>1. GoodHeap(Here.map, Here.live) /\ K \subseteq Here.live
      BY <1>2, <2>1 DEF SoundIn, Own
    <3>2. r \notin Here.live /\ l.got \in Entries
      BY <1>3, <2>1, <3>1 DEF Gets
    <3> QED
      BY <3>1, <3>2, NullIs
  <2> HIDE DEF K, T
  <2>5. r \in k.live
    BY <2>2, <2>3 DEF Own
  <2>6. GoodHeap(m.map, m.live) /\ m.live = k.live \ {r}
    BY <1>4, <1>9, <2>2, <2>4, <2>5
  <2>7. Own(Claims(k.procs), K, k.live \ {r})
    BY <2>2, <2>3, <2>4, OwnDrop
  <2> QED
    BY <1>11, <2>6, <2>7 DEF K
<1>13. Waits(m.procs)
  <2>1. Frame(procs, k.procs, {<<pid, "node">>})
    BY <1>5, <1>7 DEF Step
  <2>2. \A c \in DOMAIN procs : procs[c].waiting # 0 => <<procs[c].waiting, "node">> \notin {<<pid, "node">>}
    BY <1>1 DEF Reading
  <2> QED
    BY <1>2, <1>11, <2>1, <2>2, WaitsKept
<1> QED
  BY <1>1, <1>10, <1>12, <1>13, Arrives

\* The text of a terminal grows.
LEMMA EnsurePagesInv ==
    ASSUME MemInv, EnsurePages
    PROVE  MemInv'
<1> DEFINE h == MallocIn(Here, TextBlocks)
           r == Given(h.got, TextBlocks)
<1>1. ~wild /\ Becomes(h) /\ text' = IF h.wild THEN text ELSE text \cup {r}
  BY DEF EnsurePages, Becomes
<1>2. Typed(Here) /\ SoundIn(Here, text) /\ Waits(procs)
  BY <1>1, Begins, HereIs
<1>3. /\ Passed(Here, h)
      /\ ~h.wild => Gets(Here, h, r)
  <2>1. TextBlocks \in Nat \ {0}
    BY HeapAssumption, ProcMemoryAssumption DEF TextBlocks
  <2> QED
    BY <2>1, HereIs, MallocTakes
<1> HIDE DEF h
<1>4. Typed(h) /\ h.procs = procs /\ h.buckets = buckets /\ h.orphans = orphans
  BY <1>2, <1>3, HereIs, TypedPassed DEF Passed, Others
<1>5. SoundIn(h, text')
  <2>1. ~h.wild => Kernel(h, text') = Kernel(Here, text) \cup {r}
    BY <1>1, <1>4, HereIs DEF Kernel
  <2> QED
    BY <1>2, <1>3, <2>1, KeepsIt
<1> QED
  BY <1>1, <1>2, <1>4, <1>5, Arrives

\* A process that ends, or is ended.
LEMMA ExitInv ==
    ASSUME MemInv, NEW pid \in CanRun, Exit(pid)
    PROVE  MemInv'
<1> DEFINE m == Killed(Here, pid)
<1>1. ~wild /\ Becomes(m) /\ text' = text
  BY DEF Exit, Becomes
<1>2. Typed(m) /\ SoundIn(m, text) /\ Waits(m.procs)
  <2>1. Typed(Here) /\ SoundIn(Here, text) /\ Waits(Here.procs)
    BY <1>1, Begins
  <2>2. pid \in DOMAIN Here.procs /\ Here.procs[pid].node # Null
    BY HereIs DEF CanRun
  <2> QED
    BY <2>1, <2>2, KilledStep
<1> HIDE DEF m
<1> QED
  BY <1>1, <1>2, Arrives

\* At boot nobody holds anything.
LEMMA MemInitInv == MemInit => MemInv
<1> SUFFICES ASSUME MemInit PROVE MemInv
  OBVIOUS
<1>1. GoodHeap(map, live) /\ live = {}
  BY InitInv DEF MemInit, Init, HeapInv
<1>2. /\ DOMAIN procs = {} /\ last_pid = 0 /\ text = {} /\ orphans = {}
      /\ DOMAIN buckets = 0..(PidsSz - 1) /\ \A b \in DOMAIN buckets : buckets[b] = Null
  BY DEF MemInit
<1>3. Typed(Here)
  BY <1>2, HereIs DEF Typed, Addr
<1>4. Claims(procs) = {} /\ BucketRegions(buckets) = {}
  BY <1>2 DEF Claims, BucketRegions
<1>5. Kernel(Here, text) = {}
  BY <1>2, <1>4, HereIs DEF Kernel
<1>6. Own({}, {}, {})
  BY DEF Own
<1>7. SoundIn(Here, text)
  BY <1>1, <1>4, <1>5, <1>6, HereIs DEF SoundIn
<1>8. Waits(procs)
  BY <1>2 DEF Waits
<1> QED
  BY <1>3, <1>7, <1>8 DEF MemInv

\* Every step keeps the invariant.
LEMMA MemNextInv == MemInv /\ [MemNext]_memVars => MemInv'
<1> SUFFICES ASSUME MemInv, [MemNext]_memVars PROVE MemInv'
  OBVIOUS
<1>1. ASSUME NEW t \in Terms, ShowTerm(t) PROVE MemInv'
  BY <1>1, ShowTermInv
<1>2. ASSUME NEW pid \in CanRun, RunProg(pid) PROVE MemInv'
  BY <1>2, RunProgInv
<1>3. ASSUME NEW pid \in CanRun, Readline(pid) PROVE MemInv'
  BY <1>3, ReadlineInv
<1>4. ASSUME NEW pid \in CanRun, Wait(pid) PROVE MemInv'
  BY <1>4, WaitInv
<1>5. ASSUME NEW pid \in CanRun, Exit(pid) PROVE MemInv'
  BY <1>5, ExitInv
<1>6. ASSUME NEW pid \in DOMAIN procs, NEW n \in Sizes, GotLine(pid, n) PROVE MemInv'
  BY <1>6, GotLineInv
<1>7. CASE EnsurePages
  BY <1>7, EnsurePagesInv
<1>8. CASE UNCHANGED memVars
  <2>1. Here' = Here /\ text' = text /\ procs' = procs /\ wild' = wild
    BY <1>8 DEF memVars, Here
  <2> QED
    BY <2>1 DEF MemInv
<1> QED
  BY <1>1, <1>2, <1>3, <1>4, <1>5, <1>6, <1>7, <1>8 DEF MemNext

\* As long as the heap lasts, the chains of calls in createProc and killProc
\* leave it in order, with one holder for every region.
THEOREM MemInvariance == MemSpec => []MemInv
BY MemInitInv, MemNextInv, PTL DEF MemSpec

\* A claim is what a process holds.
LEMMA ClaimsAre ==
    ASSUME \A q \in DOMAIN procs : IsProcess(procs[q])
    PROVE  /\ \A g \in Holdings : \E c \in Claims(procs) :
                 c.pid = g[1] /\ c.f = g[2] /\ Reg(c) = Held(g[1], g[2])
           /\ \A c \in Claims(procs) : \E g \in Holdings :
                 c.pid = g[1] /\ c.f = g[2] /\ Reg(c) = Held(g[1], g[2])
<1>1. ASSUME NEW g \in Holdings
      PROVE  \E c \in Claims(procs) : c.pid = g[1] /\ c.f = g[2] /\ Reg(c) = Held(g[1], g[2])
  <2>1. g[1] \in DOMAIN procs /\ g[2] \in Fields /\ procs[g[1]][g[2]] # Null
    BY DEF Holdings
  <2> DEFINE c == [pid |-> g[1], f |-> g[2], at |-> procs[g[1]][g[2]]]
  <2>2. procs[g[1]][g[2]] \in Entries
    BY <2>1 DEF IsProcess, Addr
  <2>3. c \in Claims(procs)
    BY <2>1, <2>2 DEF Claims
  <2>4. Reg(c) = Held(g[1], g[2])
    BY DEF Reg, Held
  <2> QED
    BY <2>3, <2>4
<1>2. ASSUME NEW c \in Claims(procs)
      PROVE  \E g \in Holdings : c.pid = g[1] /\ c.f = g[2] /\ Reg(c) = Held(g[1], g[2])
  <2>1. c.pid \in DOMAIN procs /\ c.f \in Fields /\ c.at \in Entries /\ procs[c.pid][c.f] = c.at
    BY DEF Claims
  <2> DEFINE g == <<c.pid, c.f>>
  <2>2. g \in Holdings
    BY <2>1, NullIs DEF Holdings
  <2>3. Reg(c) = Held(g[1], g[2])
    BY <2>1 DEF Reg, Held
  <2> QED
    BY <2>2, <2>3
<1> QED
  BY <1>1, <1>2

\* Every region has one holder, and nobody holds one that was freed, whoever
\* is made, woken or killed, as long as the heap lasts.
THEOREM Ownership == MemSpec => []MemoryOwned
<1>1. MemInv => MemoryOwned
  <2> SUFFICES ASSUME MemInv, ~wild
               PROVE  /\ live = {Held(g[1], g[2]) : g \in Holdings}
                                  \cup BucketRegions(buckets) \cup text \cup orphans
                      /\ \A g, h \in Holdings : Held(g[1], g[2]) = Held(h[1], h[2]) => g = h
                      /\ \A g \in Holdings : Held(g[1], g[2]) \notin orphans \cup text
                      /\ RegionsDisjoint
    BY DEF MemoryOwned, BucketRegions
  <2> DEFINE K == BucketRegions(buckets) \cup text \cup orphans
             H == {Held(g[1], g[2]) : g \in Holdings}
  <2>1. GoodHeap(map, live) /\ Own(Claims(procs), K, live)
    BY HereIs DEF MemInv, SoundIn, Kernel
  <2>2. \A q \in DOMAIN procs : IsProcess(procs[q])
    BY HereIs DEF MemInv, Typed
  <2>3. RegionsDisjoint
    BY <2>1 DEF GoodHeap, Disjoint, RegionsDisjoint
  <2>4. {Reg(c) : c \in Claims(procs)} = H
    BY <2>2, ClaimsAre
  <2>5. live = H \cup K
    BY <2>1, <2>4 DEF Own
  <2>6. ASSUME NEW g \in Holdings, NEW h \in Holdings, Held(g[1], g[2]) = Held(h[1], h[2])
        PROVE  g = h
    <3>1. PICK c \in Claims(procs) : c.pid = g[1] /\ c.f = g[2] /\ Reg(c) = Held(g[1], g[2])
      BY <2>2, ClaimsAre
    <3>2. PICK d \in Claims(procs) : d.pid = h[1] /\ d.f = h[2] /\ Reg(d) = Held(h[1], h[2])
      BY <2>2, ClaimsAre
    <3>3. c = d
      BY <2>1, <2>6, <3>1, <3>2 DEF Own
    <3> QED
      BY <3>1, <3>2, <3>3 DEF Holdings
  <2>7. ASSUME NEW g \in Holdings PROVE Held(g[1], g[2]) \notin K
    <3>1. PICK c \in Claims(procs) : Reg(c) = Held(g[1], g[2])
      BY <2>2, ClaimsAre
    <3> QED
      BY <2>1, <3>1 DEF Own
  <2> QED
    BY <2>3, <2>5, <2>6, <2>7
<1> QED
  BY <1>1, MemInvariance, PTL

=============================================================================
