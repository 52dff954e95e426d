----------------------------- MODULE ListProofs -----------------------------
(***************************************************************************)
(* What holds of the linked lists for any number of nodes.                 *)
(***************************************************************************)
EXTENDS List, FiniteSetTheorems, SequenceTheorems, WellFoundedInduction, TLAPS

\* A nonempty set of naturals has a least element.
LEMMA Least ==
    ASSUME NEW S, S \subseteq Nat, S # {}
    PROVE  \E x \in S : \A y \in S : x <= y
<1> DEFINE Less == {p \in Nat \X Nat : p[1] < p[2]}
<1>1. IsWellFoundedOn(Less, Nat)
  BY NatLessThanWellFounded DEF OpToRel, Less
<1>2. PICK x \in S : \A y \in S : ~ (<<y, x>> \in Less)
  BY <1>1, WFMin
<1>3. ASSUME NEW y \in S PROVE x <= y
  <2>1. x \in Nat /\ y \in Nat
    OBVIOUS
  <2>2. y < x => <<y, x>> \in Less
    BY <2>1
  <2> QED
    BY <1>2, <2>1, <2>2
<1> QED
  BY <1>3

----------------------------------------------------------------------------
(* Sequences with an element more or less, as functions.                    *)

\* A sequence is the function of its elements.
LEMMA SeqIsFunction ==
    ASSUME NEW S, NEW w \in Seq(S), NEW n \in Nat, Len(w) = n,
           NEW f, f = [i \in 1..n |-> f[i]], \A i \in 1..n : w[i] = f[i]
    PROVE  w = f
<1>1. w \in [1..n -> S]
  BY LenProperties
<1>2. DOMAIN w = 1..n /\ w = [i \in 1..n |-> w[i]]
  BY <1>1
<1> QED
  BY <1>2

\* One more at the end.
LEMMA AppendFacts ==
    ASSUME NEW S, NEW s \in Seq(S), NEW p \in S
    PROVE  Append(s, p) = [i \in 1..(Len(s) + 1) |-> IF i = Len(s) + 1 THEN p ELSE s[i]]
<1>1. PICK n \in Nat : n = Len(s)
  BY LenProperties
<1>2. PICK w : w = Append(s, p)
  OBVIOUS
<1>3. /\ w \in Seq(S) /\ Len(w) = n + 1
      /\ \A i \in 1..n : w[i] = s[i]
      /\ w[n + 1] = p
  BY <1>1, <1>2, AppendProperties
<1> DEFINE f == [i \in 1..(n + 1) |-> IF i = n + 1 THEN p ELSE s[i]]
<1>4. ASSUME NEW i \in 1..(n + 1) PROVE w[i] = f[i]
  <2>1. i = n + 1 \/ i \in 1..n
    OBVIOUS
  <2> QED
    BY <1>3, <2>1
<1>5. n + 1 \in Nat /\ f = [i \in 1..(n + 1) |-> f[i]]
  OBVIOUS
<1> HIDE DEF f
<1>6. w = f
  BY <1>3, <1>4, <1>5, SeqIsFunction
<1> QED
  BY <1>1, <1>2, <1>6 DEF f

\* One more at the front.
LEMMA PrependFacts ==
    ASSUME NEW S, NEW s \in Seq(S), NEW p \in S
    PROVE  <<p>> \o s = [i \in 1..(Len(s) + 1) |-> IF i = 1 THEN p ELSE s[i - 1]]
<1>1. PICK n \in Nat : n = Len(s)
  BY LenProperties
<1>2. PICK u \in Seq(S) : u = <<p>> /\ Len(u) = 1 /\ u[1] = p
  <2>1. <<p>> \in Seq(S)
    OBVIOUS
  <2>2. Len(<<p>>) = 1 /\ <<p>>[1] = p
    OBVIOUS
  <2> QED
    BY <2>1, <2>2
<1>3. PICK w : w = u \o s
  OBVIOUS
<1>4. /\ w \in Seq(S) /\ Len(w) = 1 + n
      /\ \A i \in 1..(1 + n) : w[i] = IF i <= 1 THEN u[i] ELSE s[i - 1]
  BY <1>1, <1>2, <1>3, ConcatProperties
<1> DEFINE f == [i \in 1..(n + 1) |-> IF i = 1 THEN p ELSE s[i - 1]]
<1>5. ASSUME NEW i \in 1..(n + 1) PROVE w[i] = f[i]
  <2>1. i \in 1..(1 + n) /\ (i <= 1 <=> i = 1)
    OBVIOUS
  <2> QED
    BY <1>2, <1>4, <2>1
<1>6. n + 1 \in Nat /\ n + 1 = 1 + n /\ f = [i \in 1..(n + 1) |-> f[i]]
  OBVIOUS
<1> HIDE DEF f
<1>7. w = f
  BY <1>4, <1>5, <1>6, SeqIsFunction
<1> QED
  BY <1>1, <1>2, <1>3, <1>7 DEF f

\* All but the first.
LEMMA TailFacts ==
    ASSUME NEW S, NEW s \in Seq(S), s # <<>>
    PROVE  Tail(s) = A!Cut(s, 1)
<1>1. PICK n \in Nat : n = Len(s)
  BY LenProperties
<1>2. n # 0
  BY <1>1, EmptySeq
<1>3. PICK w : w = Tail(s)
  OBVIOUS
<1>4. w \in Seq(S) /\ Len(w) = n - 1 /\ \A i \in 1..(n - 1) : w[i] = s[i + 1]
  BY <1>1, <1>3, HeadTailProperties
<1> DEFINE f == [i \in 1..(n - 1) |-> IF i < 1 THEN s[i] ELSE s[i + 1]]
<1>5. \A i \in 1..(n - 1) : w[i] = f[i]
  BY <1>4
<1>6. n - 1 \in Nat /\ f = [i \in 1..(n - 1) |-> f[i]]
  BY <1>2
<1> HIDE DEF f
<1>7. w = f
  BY <1>4, <1>5, <1>6, SeqIsFunction
<1> QED
  BY <1>1, <1>3, <1>7 DEF f, A!Cut

----------------------------------------------------------------------------
(* Memory and the chain of the nodes in it.                                 *)

Node == [item : Objects \cup {0}, next : Addrs \cup {0}, prev : Addrs \cup {0}]

\* The n nodes at the addresses s, linked both ways, with different items.
Chain(n, s, m, h, t) ==
    /\ s \in [0..(n - 1) -> Addrs]
    /\ \A i, j \in 0..(n - 1) : s[i] = s[j] => i = j
    /\ h = IF n = 0 THEN 0 ELSE s[0]
    /\ t = IF n = 0 THEN 0 ELSE s[n - 1]
    /\ \A i \in 0..(n - 1) :
          /\ m[s[i]].next = IF i = n - 1 THEN 0 ELSE s[i + 1]
          /\ m[s[i]].prev = IF i = 0 THEN 0 ELSE s[i - 1]
          /\ m[s[i]].item \in Objects
    /\ \A i, j \in 0..(n - 1) : m[s[i]].item = m[s[j]].item => i = j

\* The items of such a chain, and the addresses of it.
Names(n, s, m) == [i \in 1..n |-> m[s[i - 1]].item]
Places(n, s)   == {s[i] : i \in 0..(n - 1)}

\* No address is a null pointer.
LEMMA AddrFacts ==
    /\ 0 \notin Addrs /\ 0 \notin Objects
    /\ IsFiniteSet(Addrs) /\ Cardinality(Addrs) \in Nat
BY ListAssumption, FS_CardinalityType

\* A chain is not longer than memory.
LEMMA ChainLength ==
    ASSUME NEW n \in Nat, NEW s, NEW m, NEW h, NEW t, Chain(n, s, m, h, t)
    PROVE  n <= Cardinality(Addrs) /\ Cardinality(Places(n, s)) = n
<1>1. s \in [0..(n - 1) -> Addrs] /\ \A i, j \in 0..(n - 1) : s[i] = s[j] => i = j
  BY DEF Chain
<1>2. s \in Injection(0..(n - 1), Addrs)
  BY <1>1 DEF Injection, IsInjective
<1>3. IsFiniteSet(0..(n - 1)) /\ Cardinality(0..(n - 1)) = n
  <2>1. IsFiniteSet(0..(n - 1)) /\ Cardinality(0..(n - 1)) = IF 0 > n - 1 THEN 0 ELSE n - 1 - 0 + 1
    BY FS_Interval
  <2> QED
    BY <2>1
<1>4. n <= Cardinality(Addrs)
  BY <1>2, <1>3, AddrFacts, FS_Injection
<1>5. s \in Bijection(0..(n - 1), Places(n, s))
  <2>1. s \in [0..(n - 1) -> Places(n, s)]
    BY <1>1 DEF Places
  <2>2. \A a \in Places(n, s) : \E i \in 0..(n - 1) : s[i] = a
    BY DEF Places
  <2> QED
    BY <1>1, <2>1, <2>2 DEF Bijection, Injection, Surjection, IsInjective
<1>6. ExistsBijection(0..(n - 1), Places(n, s))
  BY <1>5 DEF ExistsBijection
<1>7. Cardinality(Places(n, s)) = n
  BY <1>3, <1>6, FS_Bijection
<1> QED
  BY <1>4, <1>7

\* Following next from head leads along the chain, and then to 0.
LEMMA NthChain ==
    ASSUME NEW n \in Nat, NEW s, Chain(n, s, node, head, tail)
    PROVE  /\ Nth = [i \in 0..Cardinality(Addrs) |-> IF i < n THEN s[i] ELSE 0]
           /\ OnList = Places(n, s)
           /\ Count = n
<1>1. PICK K \in Nat : K = Cardinality(Addrs)
  BY AddrFacts
<1>2. n <= K
  BY <1>1, ChainLength
<1>3. /\ s \in [0..(n - 1) -> Addrs]
      /\ head = IF n = 0 THEN 0 ELSE s[0]
      /\ \A i \in 0..(n - 1) : node[s[i]].next = IF i = n - 1 THEN 0 ELSE s[i + 1]
  BY DEF Chain
<1> DEFINE f == [i \in 0..K |-> IF i < n THEN s[i] ELSE 0]
           Step(g, i) == IF i = 0 THEN head
                         ELSE IF g[i - 1] = 0 THEN 0 ELSE node[g[i - 1]].next
           Solves(g) == g = [i \in 0..K |-> Step(g, i)]
<1>4. Solves(f)
  <2>1. ASSUME NEW i \in 0..K PROVE f[i] = Step(f, i)
    <3>1. CASE i = 0
      BY <1>3, <3>1
    <3>2. CASE i # 0 /\ i - 1 < n
      <4>1. i - 1 \in 0..(n - 1) /\ i - 1 \in 0..K /\ i \in Nat /\ (i - 1) + 1 = i
        BY <1>1, <3>2
      <4>2. f[i - 1] = s[i - 1] /\ s[i - 1] \in Addrs
        BY <1>3, <3>2, <4>1
      <4>3. f[i - 1] # 0
        BY <4>2, AddrFacts
      <4>4. node[s[i - 1]].next = IF i - 1 = n - 1 THEN 0 ELSE s[i]
        BY <1>3, <4>1
      <4> QED
        BY <3>2, <4>1, <4>2, <4>3, <4>4
    <3>3. CASE i # 0 /\ ~(i - 1 < n)
      <4>1. i - 1 \in 0..K /\ f[i - 1] = 0 /\ ~(i < n)
        BY <1>1, <3>3
      <4> QED
        BY <3>3, <4>1
    <3> QED
      BY <3>1, <3>2, <3>3
  <2> QED
    BY <2>1
<1> HIDE DEF f
<1>5. ASSUME NEW g, Solves(g) PROVE g = f
  <2> DEFINE Bad == {i \in 0..K : g[i] # f[i]}
  <2>1. \A i \in 0..K : g[i] = Step(g, i) /\ f[i] = Step(f, i)
    BY <1>4, <1>5
  <2>2. Bad = {}
    <3> SUFFICES ASSUME Bad # {} PROVE FALSE
      OBVIOUS
    <3>1. Bad \subseteq Nat
      BY <1>1
    <3>2. PICK i \in Bad : \A j \in Bad : i <= j
      BY <3>1, Least
    <3>3. i \in 0..K /\ g[i] # f[i]
      BY <3>2
    <3>4. i # 0 => i - 1 \in 0..K /\ i - 1 \notin Bad
      BY <3>2, <3>3
    <3>5. i # 0 => g[i - 1] = f[i - 1]
      BY <3>4
    <3>6. Step(g, i) = Step(f, i)
      BY <3>5
    <3> QED
      BY <2>1, <3>3, <3>6
  <2>3. \A i \in 0..K : g[i] = f[i]
    BY <2>2
  <2>4. DOMAIN g = 0..K /\ g = [i \in DOMAIN g |-> g[i]]
    BY <1>5
  <2>5. DOMAIN f = 0..K /\ f = [i \in DOMAIN f |-> f[i]]
    BY DEF f
  <2> QED
    BY <2>3, <2>4, <2>5
<1>6. Nth = CHOOSE g : Solves(g)
  BY <1>1 DEF Nth
<1>7. Nth = f
  <2> HIDE DEF Solves
  <2> QED
    BY <1>4, <1>5, <1>6
<1>8. OnList = Places(n, s)
  <2>1. OnList = {f[i] : i \in 0..K} \ {0}
    BY <1>1, <1>7 DEF OnList
  <2>2. \A i \in 0..(n - 1) : i \in 0..K /\ f[i] = s[i] /\ s[i] # 0
    BY <1>1, <1>2, <1>3, AddrFacts DEF f
  <2>3. \A i \in 0..K : i \in 0..(n - 1) \/ f[i] = 0
    BY <1>1, <1>2 DEF f
  <2> QED
    BY <2>1, <2>2, <2>3 DEF Places
<1>9. Count = n
  BY <1>8, ChainLength DEF Count
<1> QED
  BY <1>1, <1>7, <1>8, <1>9 DEF f

----------------------------------------------------------------------------
(* The inductive invariant.                                                 *)

\* The loop of removeFromListWithEquality is at node k.  Either nothing has
\* been removed, and none of the nodes passed has the item; or it is gone.
Looping(n, s) ==
    /\ equalTo \in Objects
    /\ before.nodes # <<>> /\ before.len = len + 1
    /\ \E k \in 0..(n - 1) :
          /\ cur = s[k]
          /\ \/ /\ before.nodes = Names(n, s, node)
                /\ \A i \in 0..(k - 1) : node[s[i]].item # equalTo
             \/ /\ Names(n, s, node) = A!RemoveNode(before, equalTo).nodes
                /\ \A i \in 0..(n - 1) : node[s[i]].item # equalTo

\* The nodes given out and not freed form one chain from head to tail.
Linked(n, s) ==
    /\ Chain(n, s, node, head, tail)
    /\ used = Places(n, s)
    /\ IF equalTo = 0 THEN cur = 0 ELSE Looping(n, s)

ListInv ==
    /\ node \in [Addrs -> Node] /\ len \in Int
    /\ \E n \in 0..Cardinality(Addrs) : \E s \in [0..(n - 1) -> Addrs] : Linked(n, s)

\* Writing one pointer of a node.
LEMMA NodeFacts ==
    ASSUME NEW r \in Node, NEW x \in Addrs \cup {0}
    PROVE  LET u == [r EXCEPT !.next = x]
               v == [r EXCEPT !.prev = x]
           IN  /\ u \in Node /\ u.next = x /\ u.prev = r.prev /\ u.item = r.item
               /\ v \in Node /\ v.prev = x /\ v.next = r.next /\ v.item = r.item
BY DEF Node

\* The items of a chain are a sequence of different objects.
LEMMA NamesFacts ==
    ASSUME NEW n \in Nat, NEW s, NEW m, NEW h, NEW t, Chain(n, s, m, h, t)
    PROVE  /\ Names(n, s, m) \in Seq(Objects) /\ Len(Names(n, s, m)) = n
           /\ \A i \in 1..n : Names(n, s, m)[i] = m[s[i - 1]].item
           /\ \A i, j \in 1..n : Names(n, s, m)[i] = Names(n, s, m)[j] => i = j
<1>1. ASSUME NEW i \in 1..n PROVE i - 1 \in 0..(n - 1) /\ m[s[i - 1]].item \in Objects
  <2>1. i - 1 \in 0..(n - 1)
    OBVIOUS
  <2> QED
    BY <2>1 DEF Chain
<1>2. Names(n, s, m) \in [1..n -> Objects]
  BY <1>1 DEF Names
<1>3. Names(n, s, m) \in Seq(Objects)
  BY <1>2, SeqDef
<1>4. Len(Names(n, s, m)) = n
  BY <1>2, <1>3, LenProperties
<1>5. \A i \in 1..n : Names(n, s, m)[i] = m[s[i - 1]].item
  BY DEF Names
<1>6. ASSUME NEW i \in 1..n, NEW j \in 1..n, Names(n, s, m)[i] = Names(n, s, m)[j] PROVE i = j
  <2>1. i - 1 \in 0..(n - 1) /\ j - 1 \in 0..(n - 1) /\ m[s[i - 1]].item = m[s[j - 1]].item
    BY <1>5, <1>6
  <2>2. i - 1 = j - 1
    BY <2>1 DEF Chain
  <2> QED
    BY <2>2
<1> QED
  BY <1>3, <1>4, <1>5, <1>6

\* A node linked behind the tail lengthens the chain at its end.
LEMMA TailLinked ==
    ASSUME node \in [Addrs -> Node], NEW n \in Nat, NEW s, Chain(n, s, node, head, tail),
           NEW b \in Addrs, b \notin Places(n, s), NEW p \in Objects,
           \A i \in 0..(n - 1) : node[s[i]].item # p, LinkTail(p, b)
    PROVE  \E z \in [0..n -> Addrs] :
              /\ node' \in [Addrs -> Node]
              /\ Chain(n + 1, z, node', head', tail')
              /\ Places(n + 1, z) = Places(n, s) \cup {b}
              /\ Names(n + 1, z, node') = Append(Names(n, s, node), p)
<1>1. /\ s \in [0..(n - 1) -> Addrs] /\ \A i, j \in 0..(n - 1) : s[i] = s[j] => i = j
      /\ tail = IF n = 0 THEN 0 ELSE s[n - 1]
      /\ head = IF n = 0 THEN 0 ELSE s[0]
  BY DEF Chain
<1>2. \A i \in 0..(n - 1) :
         /\ s[i] \in Addrs /\ s[i] # b /\ s[i] # 0
         /\ node[s[i]].next = IF i = n - 1 THEN 0 ELSE s[i + 1]
         /\ node[s[i]].prev = IF i = 0 THEN 0 ELSE s[i - 1]
         /\ node[s[i]].item \in Objects
  BY AddrFacts DEF Chain, Places
<1>3. tail \in Addrs \cup {0} /\ tail # b
  <2>1. n # 0 => n - 1 \in 0..(n - 1)
    OBVIOUS
  <2> QED
    BY <1>1, <1>2, <2>1, AddrFacts
<1>4. \A a \in Addrs :
         /\ node'[a] \in Node
         /\ a = b => node'[a] = [item |-> p, next |-> 0, prev |-> tail]
         /\ a # b => /\ node'[a].item = node[a].item /\ node'[a].prev = node[a].prev
                     /\ node'[a].next = IF a = tail THEN b ELSE node[a].next
  <2> SUFFICES ASSUME NEW a \in Addrs
               PROVE  /\ node'[a] \in Node
                      /\ a = b => node'[a] = [item |-> p, next |-> 0, prev |-> tail]
                      /\ a # b => /\ node'[a].item = node[a].item /\ node'[a].prev = node[a].prev
                                  /\ node'[a].next = IF a = tail THEN b ELSE node[a].next
    OBVIOUS
  <2>1. node'[a] = IF a = b THEN [item |-> p, next |-> 0, prev |-> tail]
                   ELSE IF a = tail THEN [node[a] EXCEPT !.next = b] ELSE node[a]
    BY DEF LinkTail
  <2>2. CASE a = b
    BY <1>3, <2>1, <2>2 DEF Node
  <2>3. CASE a # b
    <3>1. PICK r \in Node : r = node[a]
      OBVIOUS
    <3>2. LET u == [r EXCEPT !.next = b]
          IN  u \in Node /\ u.next = b /\ u.prev = r.prev /\ u.item = r.item
      BY NodeFacts
    <3> QED
      BY <2>1, <2>3, <3>1, <3>2
  <2> QED
    BY <2>2, <2>3
<1>5. node' \in [Addrs -> Node]
  BY <1>4 DEF LinkTail
<1> DEFINE z == [i \in 0..n |-> IF i < n THEN s[i] ELSE b]
<1>6. z \in [0..n -> Addrs] /\ z[n] = b /\ \A i \in 0..(n - 1) : i \in 0..n /\ z[i] = s[i]
  BY <1>2
<1>7. \A i \in 0..n : i = n \/ i \in 0..(n - 1)
  OBVIOUS
<1> HIDE DEF z
<1>8. \A i \in 0..(n - 1) :
         /\ node'[z[i]].next = z[i + 1]
         /\ node'[z[i]].prev = IF i = 0 THEN 0 ELSE z[i - 1]
         /\ node'[z[i]].item = node[s[i]].item
  <2> SUFFICES ASSUME NEW i \in 0..(n - 1)
               PROVE  /\ node'[z[i]].next = z[i + 1]
                      /\ node'[z[i]].prev = IF i = 0 THEN 0 ELSE z[i - 1]
                      /\ node'[z[i]].item = node[s[i]].item
    OBVIOUS
  <2>1. s[i] \in Addrs /\ s[i] # b /\ z[i] = s[i] /\ (s[i] = tail <=> i = n - 1)
    BY <1>1, <1>2, <1>6
  <2>2. i # n - 1 => i + 1 \in 0..(n - 1)
    OBVIOUS
  <2>3. i # 0 => i - 1 \in 0..(n - 1)
    OBVIOUS
  <2>4. z[i + 1] = IF i = n - 1 THEN b ELSE s[i + 1]
    BY <1>6, <2>2
  <2>5. node'[s[i]].next = IF i = n - 1 THEN b ELSE s[i + 1]
    BY <1>2, <1>4, <2>1
  <2>6. node'[s[i]].prev = IF i = 0 THEN 0 ELSE s[i - 1]
    BY <1>2, <1>4, <2>1
  <2> QED
    BY <1>4, <1>6, <2>1, <2>3, <2>4, <2>5, <2>6
<1>9. /\ node'[z[n]].item = p /\ node'[z[n]].next = 0
      /\ node'[z[n]].prev = IF n = 0 THEN 0 ELSE z[n - 1]
  <2>1. node'[b] = [item |-> p, next |-> 0, prev |-> tail]
    BY <1>4
  <2>2. n # 0 => z[n - 1] = tail
    BY <1>1, <1>6
  <2> QED
    BY <1>1, <1>6, <2>1, <2>2
<1>10. \A i, j \in 0..n : z[i] = z[j] => i = j
  BY <1>1, <1>2, <1>6, <1>7
<1>11. \A i, j \in 0..n : node'[z[i]].item = node'[z[j]].item => i = j
  <2>1. \A i, j \in 0..(n - 1) : node[s[i]].item = node[s[j]].item => i = j
    BY DEF Chain
  <2> QED
    BY <1>7, <1>8, <1>9, <2>1
<1>12. Chain(n + 1, z, node', head', tail')
  <2>1. (n + 1) - 1 = n /\ n + 1 # 0
    OBVIOUS
  <2>2. head' = z[0] /\ tail' = z[n]
    <3>1. n # 0 => z[0] = s[0] /\ s[0] # 0
      BY <1>2, <1>6
    <3>2. n = 0 => z[0] = b
      BY <1>6
    <3>3. tail = 0 <=> n = 0
      BY <1>1, <1>2
    <3> QED
      BY <1>1, <1>6, <3>1, <3>2, <3>3 DEF LinkTail
  <2>3. ASSUME NEW i \in 0..n
        PROVE  /\ node'[z[i]].next = IF i = n THEN 0 ELSE z[i + 1]
               /\ node'[z[i]].prev = IF i = 0 THEN 0 ELSE z[i - 1]
               /\ node'[z[i]].item \in Objects
    <3>1. CASE i = n
      BY <1>9, <3>1
    <3>2. CASE i \in 0..(n - 1)
      <4>1. i # n
        BY <3>2
      <4> QED
        BY <1>2, <1>8, <3>2, <4>1
    <3> QED
      BY <1>7, <3>1, <3>2
  <2> QED
    BY <1>6, <1>10, <1>11, <2>1, <2>2, <2>3 DEF Chain
<1>13. Places(n + 1, z) = Places(n, s) \cup {b}
  <2>1. (n + 1) - 1 = n
    OBVIOUS
  <2>2. Places(n + 1, z) = {z[i] : i \in 0..n}
    BY <2>1 DEF Places
  <2> QED
    BY <1>6, <1>7, <2>2 DEF Places
<1>14. Names(n + 1, z, node') = Append(Names(n, s, node), p)
  <2>1. PICK B \in Seq(Objects) : B = Names(n, s, node)
    BY NamesFacts
  <2>2. Len(B) = n /\ \A i \in 1..n : B[i] = node[s[i - 1]].item
    BY <2>1, NamesFacts
  <2>3. Append(B, p) = [i \in 1..(n + 1) |-> IF i = n + 1 THEN p ELSE B[i]]
    <3>1. Append(B, p) = [i \in 1..(Len(B) + 1) |-> IF i = Len(B) + 1 THEN p ELSE B[i]]
      BY AppendFacts
    <3> QED
      BY <2>2, <3>1
  <2>4. ASSUME NEW i \in 1..(n + 1)
        PROVE  node'[z[i - 1]].item = IF i = n + 1 THEN p ELSE B[i]
    <3>1. CASE i = n + 1
      <4>1. i - 1 = n
        BY <3>1
      <4> QED
        BY <1>9, <3>1, <4>1
    <3>2. CASE i # n + 1
      <4>1. i - 1 \in 0..(n - 1) /\ i \in 1..n
        BY <3>2
      <4> QED
        BY <1>8, <2>2, <3>2, <4>1
    <3> QED
      BY <3>1, <3>2
  <2>5. [i \in 1..(n + 1) |-> node'[z[i - 1]].item] =
          [i \in 1..(n + 1) |-> IF i = n + 1 THEN p ELSE B[i]]
    BY <2>4
  <2> QED
    BY <2>1, <2>3, <2>5 DEF Names
<1> QED
  BY <1>5, <1>6, <1>12, <1>13, <1>14

\* A node linked before the head lengthens the chain at its beginning.
LEMMA HeadLinked ==
    ASSUME node \in [Addrs -> Node], NEW n \in Nat, NEW s, Chain(n, s, node, head, tail),
           NEW b \in Addrs, b \notin Places(n, s), NEW p \in Objects,
           \A i \in 0..(n - 1) : node[s[i]].item # p, LinkHead(p, b)
    PROVE  \E z \in [0..n -> Addrs] :
              /\ node' \in [Addrs -> Node]
              /\ Chain(n + 1, z, node', head', tail')
              /\ Places(n + 1, z) = Places(n, s) \cup {b}
              /\ Names(n + 1, z, node') = <<p>> \o Names(n, s, node)
<1>1. /\ s \in [0..(n - 1) -> Addrs] /\ \A i, j \in 0..(n - 1) : s[i] = s[j] => i = j
      /\ tail = IF n = 0 THEN 0 ELSE s[n - 1]
      /\ head = IF n = 0 THEN 0 ELSE s[0]
  BY DEF Chain
<1>2. \A i \in 0..(n - 1) :
         /\ s[i] \in Addrs /\ s[i] # b /\ s[i] # 0
         /\ node[s[i]].next = IF i = n - 1 THEN 0 ELSE s[i + 1]
         /\ node[s[i]].prev = IF i = 0 THEN 0 ELSE s[i - 1]
         /\ node[s[i]].item \in Objects
  BY AddrFacts DEF Chain, Places
<1>3. head \in Addrs \cup {0} /\ head # b
  <2>1. n # 0 => 0 \in 0..(n - 1)
    OBVIOUS
  <2> QED
    BY <1>1, <1>2, <2>1, AddrFacts
<1>4. \A a \in Addrs :
         /\ node'[a] \in Node
         /\ a = b => node'[a] = [item |-> p, next |-> head, prev |-> 0]
         /\ a # b => /\ node'[a].item = node[a].item /\ node'[a].next = node[a].next
                     /\ node'[a].prev = IF a = head THEN b ELSE node[a].prev
  <2> SUFFICES ASSUME NEW a \in Addrs
               PROVE  /\ node'[a] \in Node
                      /\ a = b => node'[a] = [item |-> p, next |-> head, prev |-> 0]
                      /\ a # b => /\ node'[a].item = node[a].item /\ node'[a].next = node[a].next
                                  /\ node'[a].prev = IF a = head THEN b ELSE node[a].prev
    OBVIOUS
  <2>1. node'[a] = IF a = b THEN [item |-> p, next |-> head, prev |-> 0]
                   ELSE IF a = head THEN [node[a] EXCEPT !.prev = b] ELSE node[a]
    BY DEF LinkHead
  <2>2. CASE a = b
    BY <1>3, <2>1, <2>2 DEF Node
  <2>3. CASE a # b
    <3>1. PICK r \in Node : r = node[a]
      OBVIOUS
    <3>2. LET v == [r EXCEPT !.prev = b]
          IN  v \in Node /\ v.prev = b /\ v.next = r.next /\ v.item = r.item
      BY NodeFacts
    <3> QED
      BY <2>1, <2>3, <3>1, <3>2
  <2> QED
    BY <2>2, <2>3
<1>5. node' \in [Addrs -> Node]
  BY <1>4 DEF LinkHead
<1> DEFINE z == [i \in 0..n |-> IF i = 0 THEN b ELSE s[i - 1]]
<1>6. z \in [0..n -> Addrs] /\ z[0] = b /\ \A i \in 0..(n - 1) : i + 1 \in 0..n /\ z[i + 1] = s[i]
  <2>1. \A i \in 0..n : i = 0 \/ i - 1 \in 0..(n - 1)
    OBVIOUS
  <2>2. z \in [0..n -> Addrs]
    BY <1>2, <2>1
  <2>3. z[0] = b
    OBVIOUS
  <2>4. \A i \in 0..(n - 1) : i + 1 \in 0..n /\ i + 1 # 0 /\ (i + 1) - 1 = i
    OBVIOUS
  <2> QED
    BY <2>2, <2>3, <2>4
<1>7. \A i \in 0..n : i = 0 \/ \E j \in 0..(n - 1) : i = j + 1
  <2>1. \A i \in 0..n : i = 0 \/ (i - 1 \in 0..(n - 1) /\ i = (i - 1) + 1)
    OBVIOUS
  <2> QED
    BY <2>1
<1> HIDE DEF z
<1>8. \A i \in 0..(n - 1) :
         /\ node'[s[i]].next = IF i = n - 1 THEN 0 ELSE z[i + 2]
         /\ node'[s[i]].prev = z[i]
         /\ node'[s[i]].item = node[s[i]].item
  <2> SUFFICES ASSUME NEW i \in 0..(n - 1)
               PROVE  /\ node'[s[i]].next = IF i = n - 1 THEN 0 ELSE z[i + 2]
                      /\ node'[s[i]].prev = z[i]
                      /\ node'[s[i]].item = node[s[i]].item
    OBVIOUS
  <2>1. s[i] \in Addrs /\ s[i] # b /\ (s[i] = head <=> i = 0)
    BY <1>1, <1>2
  <2>2. i # n - 1 => i + 1 \in 0..(n - 1) /\ (i + 1) + 1 = i + 2
    OBVIOUS
  <2>3. i # 0 => i - 1 \in 0..(n - 1) /\ (i - 1) + 1 = i
    OBVIOUS
  <2>4. i # n - 1 => z[i + 2] = s[i + 1]
    BY <1>6, <2>2
  <2>5. z[i] = IF i = 0 THEN b ELSE s[i - 1]
    BY <1>6, <2>3
  <2> QED
    BY <1>2, <1>4, <2>1, <2>4, <2>5
<1>9. node'[b].item = p /\ node'[b].prev = 0 /\ node'[b].next = IF n = 0 THEN 0 ELSE z[1]
  <2>1. node'[b] = [item |-> p, next |-> head, prev |-> 0]
    BY <1>4
  <2>2. n # 0 => z[1] = head
    BY <1>1, <1>6
  <2> QED
    BY <1>1, <2>1, <2>2
<1>10. \A i, j \in 0..n : z[i] = z[j] => i = j
  <2> SUFFICES ASSUME NEW i \in 0..n, NEW j \in 0..n, z[i] = z[j] PROVE i = j
    OBVIOUS
  <2>1. i = 0 \/ \E e \in 0..(n - 1) : i = e + 1
    BY <1>7
  <2>2. j = 0 \/ \E e \in 0..(n - 1) : j = e + 1
    BY <1>7
  <2> QED
    BY <1>1, <1>2, <1>6, <2>1, <2>2
<1>11. \A i, j \in 0..n : node'[z[i]].item = node'[z[j]].item => i = j
  <2> SUFFICES ASSUME NEW i \in 0..n, NEW j \in 0..n, node'[z[i]].item = node'[z[j]].item
               PROVE  i = j
    OBVIOUS
  <2>1. \A e, f \in 0..(n - 1) : node[s[e]].item = node[s[f]].item => e = f
    BY DEF Chain
  <2>2. i = 0 \/ \E e \in 0..(n - 1) : i = e + 1
    BY <1>7
  <2>3. j = 0 \/ \E e \in 0..(n - 1) : j = e + 1
    BY <1>7
  <2>4. \A e \in 0..(n - 1) : node'[z[e + 1]].item = node[s[e]].item
    BY <1>6, <1>8
  <2>5. node'[z[0]].item = p
    BY <1>6, <1>9
  <2>6. CASE i = 0
    <3>1. ASSUME NEW f \in 0..(n - 1), j = f + 1 PROVE FALSE
      BY <2>4, <2>5, <2>6, <3>1
    <3> QED
      BY <2>3, <2>6, <3>1
  <2>7. ASSUME NEW e \in 0..(n - 1), i = e + 1 PROVE i = j
    <3>1. node'[z[i]].item = node[s[e]].item /\ node[s[e]].item # p
      BY <2>4, <2>7
    <3>2. j # 0
      BY <2>5, <3>1
    <3>3. PICK f \in 0..(n - 1) : j = f + 1
      BY <2>3, <3>2
    <3>4. node'[z[j]].item = node[s[f]].item
      BY <2>4, <3>3
    <3>5. node[s[e]].item = node[s[f]].item
      BY <3>1, <3>4
    <3> QED
      BY <2>1, <2>7, <3>3, <3>5
  <2> QED
    BY <2>2, <2>6, <2>7
<1>12. Chain(n + 1, z, node', head', tail')
  <2>1. (n + 1) - 1 = n /\ n + 1 # 0
    OBVIOUS
  <2>2. head' = z[0] /\ tail' = z[n]
    <3>1. n # 0 => n - 1 \in 0..(n - 1) /\ (n - 1) + 1 = n
      OBVIOUS
    <3>2. n # 0 => z[n] = s[n - 1]
      BY <1>6, <3>1
    <3>3. head = 0 <=> n = 0
      BY <1>1, <1>2
    <3> QED
      BY <1>1, <1>6, <3>2, <3>3 DEF LinkHead
  <2>3. ASSUME NEW i \in 0..n
        PROVE  /\ node'[z[i]].next = IF i = n THEN 0 ELSE z[i + 1]
               /\ node'[z[i]].prev = IF i = 0 THEN 0 ELSE z[i - 1]
               /\ node'[z[i]].item \in Objects
    <3>1. CASE i = 0
      BY <1>6, <1>9, <3>1
    <3>2. CASE i # 0
      <4>1. PICK j \in 0..(n - 1) : i = j + 1
        BY <1>7, <3>2
      <4>2. z[i] = s[j] /\ i - 1 = j /\ i + 1 = j + 2 /\ (i = n <=> j = n - 1)
        BY <1>6, <4>1
      <4>3. node[s[j]].item \in Objects
        BY <1>2
      <4>4. /\ node'[s[j]].next = IF j = n - 1 THEN 0 ELSE z[j + 2]
            /\ node'[s[j]].prev = z[j]
            /\ node'[s[j]].item = node[s[j]].item
        BY <1>8
      <4> QED
        BY <3>2, <4>2, <4>3, <4>4
    <3> QED
      BY <3>1, <3>2
  <2> QED
    BY <1>6, <1>10, <1>11, <2>1, <2>2, <2>3 DEF Chain
<1>13. Places(n + 1, z) = Places(n, s) \cup {b}
  <2>1. (n + 1) - 1 = n
    OBVIOUS
  <2>2. Places(n + 1, z) = {z[i] : i \in 0..n}
    BY <2>1 DEF Places
  <2>3. \A i \in 0..n : z[i] = b \/ \E j \in 0..(n - 1) : z[i] = s[j]
    BY <1>6, <1>7
  <2>4. \E i \in 0..n : z[i] = b
    BY <1>6
  <2>5. \A j \in 0..(n - 1) : \E i \in 0..n : z[i] = s[j]
    BY <1>6
  <2> QED
    BY <2>2, <2>3, <2>4, <2>5 DEF Places
<1>14. Names(n + 1, z, node') = <<p>> \o Names(n, s, node)
  <2>1. PICK B \in Seq(Objects) : B = Names(n, s, node)
    BY NamesFacts
  <2>2. Len(B) = n /\ \A i \in 1..n : B[i] = node[s[i - 1]].item
    BY <2>1, NamesFacts
  <2>3. <<p>> \o B = [i \in 1..(n + 1) |-> IF i = 1 THEN p ELSE B[i - 1]]
    <3>1. <<p>> \o B = [i \in 1..(Len(B) + 1) |-> IF i = 1 THEN p ELSE B[i - 1]]
      BY PrependFacts
    <3> QED
      BY <2>2, <3>1
  <2>4. ASSUME NEW i \in 1..(n + 1)
        PROVE  node'[z[i - 1]].item = IF i = 1 THEN p ELSE B[i - 1]
    <3>1. CASE i = 1
      BY <1>6, <1>9, <3>1
    <3>2. CASE i # 1
      <4>1. i - 2 \in 0..(n - 1) /\ (i - 2) + 1 = i - 1 /\ i - 1 \in 1..n /\ (i - 1) - 1 = i - 2
        BY <3>2
      <4>2. z[i - 1] = s[i - 2]
        BY <1>6, <4>1
      <4>3. B[i - 1] = node[s[i - 2]].item
        BY <2>2, <4>1
      <4>4. node'[s[i - 2]].item = node[s[i - 2]].item
        BY <1>8, <4>1
      <4> QED
        BY <3>2, <4>2, <4>3, <4>4
    <3> QED
      BY <3>1, <3>2
  <2>5. [i \in 1..(n + 1) |-> node'[z[i - 1]].item] =
          [i \in 1..(n + 1) |-> IF i = 1 THEN p ELSE B[i - 1]]
    BY <2>4
  <2> QED
    BY <2>1, <2>3, <2>5 DEF Names
<1> QED
  BY <1>5, <1>6, <1>12, <1>13, <1>14

\* The chain without its k-th node.
Dropped(n, s, k) == [i \in 0..(n - 2) |-> IF i < k THEN s[i] ELSE s[i + 1]]

\* A node unlinked, wherever it is, leaves the chain of the others, and its
\* own pointers as they were.
LEMMA Dropping ==
    ASSUME node \in [Addrs -> Node], NEW n \in Nat, NEW s, Chain(n, s, node, head, tail),
           NEW k \in 0..(n - 1), Unlink(s[k])
    PROVE  /\ node' \in [Addrs -> Node]
           /\ \A i \in 0..(n - 1) : node'[s[i]].item = node[s[i]].item
           /\ node'[s[k]].next = node[s[k]].next
           /\ Chain(n - 1, Dropped(n, s, k), node', head', tail')
           /\ Places(n - 1, Dropped(n, s, k)) = Places(n, s) \ {s[k]}
           /\ Names(n - 1, Dropped(n, s, k), node') = A!Cut(Names(n, s, node), k + 1)
<1>1. /\ s \in [0..(n - 1) -> Addrs] /\ \A i, j \in 0..(n - 1) : s[i] = s[j] => i = j
      /\ tail = IF n = 0 THEN 0 ELSE s[n - 1]
      /\ head = IF n = 0 THEN 0 ELSE s[0]
  BY DEF Chain
<1>2. \A i \in 0..(n - 1) :
         /\ s[i] \in Addrs /\ s[i] # 0
         /\ node[s[i]].next = IF i = n - 1 THEN 0 ELSE s[i + 1]
         /\ node[s[i]].prev = IF i = 0 THEN 0 ELSE s[i - 1]
         /\ node[s[i]].item \in Objects
  BY AddrFacts DEF Chain
<1>3. n \in Nat /\ k \in Nat /\ k <= n - 1 /\ n # 0
  OBVIOUS
<1>4. PICK P, N : P = node[s[k]].prev /\ N = node[s[k]].next
  OBVIOUS
<1>5. P = (IF k = 0 THEN 0 ELSE s[k - 1]) /\ N = (IF k = n - 1 THEN 0 ELSE s[k + 1])
  BY <1>2, <1>4
<1>6. (k # 0 => k - 1 \in 0..(n - 1)) /\ (k # n - 1 => k + 1 \in 0..(n - 1))
  BY <1>3
<1>7. P \in Addrs \cup {0} /\ N \in Addrs \cup {0}
  BY <1>2, <1>5, <1>6
<1>8. P \in Addrs => P # N
  <2>1. k - 1 # k + 1
    BY <1>3
  <2> QED
    BY <1>1, <1>2, <1>5, <1>6, <2>1, AddrFacts
<1>9. \A a \in Addrs :
         /\ node'[a] \in Node /\ node'[a].item = node[a].item
         /\ node'[a].next = IF a = P THEN N ELSE node[a].next
         /\ node'[a].prev = IF a = N THEN P ELSE node[a].prev
  <2> SUFFICES ASSUME NEW a \in Addrs
               PROVE  /\ node'[a] \in Node /\ node'[a].item = node[a].item
                      /\ node'[a].next = IF a = P THEN N ELSE node[a].next
                      /\ node'[a].prev = IF a = N THEN P ELSE node[a].prev
    OBVIOUS
  <2>1. node'[a] = IF a = P THEN [node[a] EXCEPT !.next = N]
                   ELSE IF a = N THEN [node[a] EXCEPT !.prev = P] ELSE node[a]
    BY <1>4 DEF Unlink, Unlinked, Freed
  <2>2. PICK r \in Node : r = node[a]
    OBVIOUS
  <2>3. LET u == [r EXCEPT !.next = N]
        IN  u \in Node /\ u.next = N /\ u.prev = r.prev /\ u.item = r.item
    BY <1>7, NodeFacts
  <2>4. LET v == [r EXCEPT !.prev = P]
        IN  v \in Node /\ v.prev = P /\ v.next = r.next /\ v.item = r.item
    BY <1>7, NodeFacts
  <2> QED
    BY <1>8, <2>1, <2>2, <2>3, <2>4
<1>10. node' \in [Addrs -> Node]
  BY <1>9 DEF Unlink, Unlinked, Freed
<1> DEFINE z == Dropped(n, s, k)
           Next(i) == IF i = n - 1 THEN 0 ELSE s[i + 1]
           Prev(i) == IF i = 0 THEN 0 ELSE s[i - 1]
<1>11. \A i \in 0..(n - 1) :
          /\ node'[s[i]].item = node[s[i]].item
          /\ node'[s[i]].next = IF i = k - 1 THEN N ELSE Next(i)
          /\ node'[s[i]].prev = IF i = k + 1 THEN P ELSE Prev(i)
  <2> SUFFICES ASSUME NEW i \in 0..(n - 1)
               PROVE  /\ node'[s[i]].item = node[s[i]].item
                      /\ node'[s[i]].next = IF i = k - 1 THEN N ELSE Next(i)
                      /\ node'[s[i]].prev = IF i = k + 1 THEN P ELSE Prev(i)
    OBVIOUS
  <2>1. s[i] = P <=> i = k - 1
    BY <1>1, <1>2, <1>3, <1>5, <1>6
  <2>2. s[i] = N <=> i = k + 1
    BY <1>1, <1>2, <1>3, <1>5, <1>6
  <2> QED
    BY <1>2, <1>9, <2>1, <2>2
<1>12. node'[s[k]].next = node[s[k]].next
  <2>1. k # k - 1
    BY <1>3
  <2> QED
    BY <1>2, <1>11, <2>1
<1>13. \A i \in 0..(n - 2) :
          /\ i < k => i \in 0..(n - 1) /\ z[i] = s[i]
          /\ ~(i < k) => i + 1 \in 0..(n - 1) /\ z[i] = s[i + 1]
  BY <1>3 DEF Dropped
<1>14. z \in [0..(n - 2) -> Addrs]
  BY <1>2, <1>13 DEF Dropped
<1> HIDE DEF z
<1>15. \A i, j \in 0..(n - 2) : z[i] = z[j] => i = j
  BY <1>1, <1>3, <1>13
<1>16. \A i \in 0..(n - 2) :
          /\ node'[z[i]].next = IF i = n - 2 THEN 0 ELSE z[i + 1]
          /\ node'[z[i]].prev = IF i = 0 THEN 0 ELSE z[i - 1]
          /\ node'[z[i]].item \in Objects
  <2> SUFFICES ASSUME NEW i \in 0..(n - 2)
               PROVE  /\ node'[z[i]].next = IF i = n - 2 THEN 0 ELSE z[i + 1]
                      /\ node'[z[i]].prev = IF i = 0 THEN 0 ELSE z[i - 1]
                      /\ node'[z[i]].item \in Objects
    OBVIOUS
  <2>1. i # n - 2 => z[i + 1] = IF i + 1 < k THEN s[i + 1] ELSE s[i + 2]
    <3>1. i # n - 2 => i + 1 \in 0..(n - 2) /\ (i + 1) + 1 = i + 2
      OBVIOUS
    <3> QED
      BY <1>13, <3>1
  <2>2. i # 0 => z[i - 1] = IF i - 1 < k THEN s[i - 1] ELSE s[i]
    <3>1. i # 0 => i - 1 \in 0..(n - 2) /\ (i - 1) + 1 = i
      OBVIOUS
    <3> QED
      BY <1>13, <3>1
  <2>3. CASE i < k
    <3>1. i \in 0..(n - 1) /\ z[i] = s[i]
      BY <1>13, <2>3
    <3>2. node'[z[i]].next = IF i = k - 1 THEN N ELSE s[i + 1]
      <4>1. i # n - 1
        BY <1>3, <2>3
      <4> QED
        BY <1>11, <3>1, <4>1
    <3>3. node'[z[i]].prev = IF i = 0 THEN 0 ELSE s[i - 1]
      <4>1. i # k + 1
        BY <1>3, <2>3
      <4> QED
        BY <1>11, <3>1, <4>1
    <3>4. node'[z[i]].item \in Objects
      BY <1>2, <1>11, <3>1
    <3>5. node'[z[i]].next = IF i = n - 2 THEN 0 ELSE z[i + 1]
      <4>1. CASE i = k - 1
        <5>1. i + 1 = k /\ i + 2 = k + 1 /\ ~(i + 1 < k) /\ (i = n - 2 <=> k = n - 1)
          BY <1>3, <4>1
        <5> QED
          BY <1>5, <2>1, <3>2, <4>1, <5>1
      <4>2. CASE i # k - 1
        <5>1. i + 1 < k /\ i # n - 2
          BY <1>3, <2>3, <4>2
        <5> QED
          BY <2>1, <3>2, <4>2, <5>1
      <4> QED
        BY <4>1, <4>2
    <3>6. i # 0 => i - 1 < k
      BY <1>3, <2>3
    <3> QED
      BY <2>2, <3>3, <3>4, <3>5, <3>6
  <2>4. CASE ~(i < k)
    <3>1. i + 1 \in 0..(n - 1) /\ z[i] = s[i + 1]
      BY <1>13, <2>4
    <3>2. node'[z[i]].next = IF i = n - 2 THEN 0 ELSE s[i + 2]
      <4>1. i + 1 # k - 1 /\ (i + 1) + 1 = i + 2 /\ (i + 1 = n - 1 <=> i = n - 2)
        BY <1>3, <2>4
      <4> QED
        BY <1>11, <3>1, <4>1
    <3>3. node'[z[i]].prev = IF i = k THEN P ELSE s[i]
      <4>1. i + 1 # 0 /\ (i + 1) - 1 = i /\ (i + 1 = k + 1 <=> i = k)
        BY <1>3
      <4> QED
        BY <1>11, <3>1, <4>1
    <3>4. node'[z[i]].item \in Objects
      BY <1>2, <1>11, <3>1
    <3>5. node'[z[i]].prev = IF i = 0 THEN 0 ELSE z[i - 1]
      <4>1. CASE i = k
        <5>1. i # 0 => i - 1 < k
          BY <1>3, <4>1
        <5> QED
          BY <1>5, <2>2, <3>3, <4>1, <5>1
      <4>2. CASE i # k
        <5>1. ~(i - 1 < k) /\ i # 0
          BY <1>3, <2>4, <4>2
        <5> QED
          BY <2>2, <3>3, <4>2, <5>1
      <4> QED
        BY <4>1, <4>2
    <3>6. ~(i + 1 < k)
      BY <1>3, <2>4
    <3> QED
      BY <2>1, <3>2, <3>4, <3>5, <3>6
  <2> QED
    BY <2>3, <2>4
<1>17. \A i, j \in 0..(n - 2) : node'[z[i]].item = node'[z[j]].item => i = j
  <2> SUFFICES ASSUME NEW i \in 0..(n - 2), NEW j \in 0..(n - 2), node'[z[i]].item = node'[z[j]].item
               PROVE  i = j
    OBVIOUS
  <2>1. PICK e \in 0..(n - 1) : z[i] = s[e] /\ e = IF i < k THEN i ELSE i + 1
    BY <1>13
  <2>2. PICK f \in 0..(n - 1) : z[j] = s[f] /\ f = IF j < k THEN j ELSE j + 1
    BY <1>13
  <2>3. node[s[e]].item = node[s[f]].item
    BY <1>11, <2>1, <2>2
  <2>4. e = f
    BY <2>3 DEF Chain
  <2> QED
    BY <1>3, <2>1, <2>2, <2>4
<1>18. Chain(n - 1, z, node', head', tail')
  <2>1. (n - 1) - 1 = n - 2 /\ (n - 1 = 0 <=> n = 1)
    BY <1>3
  <2>2. head' = IF n = 1 THEN 0 ELSE z[0]
    <3>1. head' = IF k = 0 THEN N ELSE s[0]
      <4>1. s[k] = head <=> k = 0
        BY <1>1, <1>3
      <4> QED
        BY <1>1, <1>3, <1>4, <4>1 DEF Unlink
    <3>2. n # 1 => z[0] = IF 0 < k THEN s[0] ELSE s[0 + 1]
      <4>1. n # 1 => 0 \in 0..(n - 2)
        BY <1>3
      <4> QED
        BY <1>13, <4>1
    <3>3. k = 0 => N = IF n = 1 THEN 0 ELSE s[0 + 1]
      BY <1>3, <1>5
    <3>4. (n = 1 => k = 0) /\ (k # 0 => 0 < k)
      BY <1>3
    <3> QED
      BY <3>1, <3>2, <3>3, <3>4
  <2>3. tail' = IF n = 1 THEN 0 ELSE z[n - 2]
    <3>1. tail' = IF k = n - 1 THEN P ELSE s[n - 1]
      <4>1. s[k] = tail <=> k = n - 1
        BY <1>1, <1>3
      <4> QED
        BY <1>1, <1>3, <1>4, <4>1 DEF Unlink
    <3>2. n # 1 => z[n - 2] = IF n - 2 < k THEN s[n - 2] ELSE s[n - 1]
      <4>1. n # 1 => n - 2 \in 0..(n - 2) /\ (n - 2) + 1 = n - 1
        BY <1>3
      <4> QED
        BY <1>13, <4>1
    <3>3. k = n - 1 => P = IF n = 1 THEN 0 ELSE s[n - 2]
      <4>1. k = n - 1 => (k = 0 <=> n = 1) /\ k - 1 = n - 2
        BY <1>3
      <4> QED
        BY <1>5, <4>1
    <3>4. (n = 1 => k = n - 1) /\ (n - 2 < k <=> k = n - 1)
      BY <1>3
    <3> QED
      BY <3>1, <3>2, <3>3, <3>4
  <2> QED
    BY <1>14, <1>15, <1>16, <1>17, <2>1, <2>2, <2>3 DEF Chain
<1>19. Places(n - 1, z) = Places(n, s) \ {s[k]}
  <2>1. Places(n - 1, z) = {z[i] : i \in 0..(n - 2)}
    <3>1. (n - 1) - 1 = n - 2
      OBVIOUS
    <3> QED
      BY <3>1 DEF Places
  <2>2. ASSUME NEW i \in 0..(n - 1), i # k
        PROVE  \E j \in 0..(n - 2) : s[i] = z[j]
    <3>1. CASE i < k
      <4>1. i \in 0..(n - 2)
        BY <1>3, <3>1
      <4> QED
        BY <1>13, <3>1, <4>1
    <3>2. CASE i > k
      <4>1. i - 1 \in 0..(n - 2) /\ ~(i - 1 < k) /\ (i - 1) + 1 = i
        BY <1>3, <3>2
      <4> QED
        BY <1>13, <4>1
    <3> QED
      BY <1>3, <2>2, <3>1, <3>2
  <2>3. ASSUME NEW j \in 0..(n - 2)
        PROVE  \E i \in 0..(n - 1) : i # k /\ z[j] = s[i]
    <3>1. j < k => j # k
      BY <1>3
    <3>2. ~(j < k) => j + 1 # k
      BY <1>3
    <3> QED
      BY <1>13, <3>1, <3>2
  <2>4. \A i \in 0..(n - 1) : s[i] = s[k] <=> i = k
    BY <1>1
  <2> QED
    BY <2>1, <2>2, <2>3, <2>4 DEF Places
<1>20. Names(n - 1, z, node') = A!Cut(Names(n, s, node), k + 1)
  <2>1. PICK B \in Seq(Objects) : B = Names(n, s, node)
    BY NamesFacts
  <2>2. Len(B) = n /\ \A i \in 1..n : B[i] = node[s[i - 1]].item
    BY <2>1, NamesFacts
  <2>3. A!Cut(B, k + 1) = [i \in 1..(n - 1) |-> IF i < k + 1 THEN B[i] ELSE B[i + 1]]
    BY <2>2 DEF A!Cut
  <2>4. ASSUME NEW i \in 1..(n - 1)
        PROVE  node'[z[i - 1]].item = IF i < k + 1 THEN B[i] ELSE B[i + 1]
    <3>1. i - 1 \in 0..(n - 2) /\ i \in 1..n /\ i + 1 \in 1..n /\ (i - 1) + 1 = i /\ (i + 1) - 1 = i
      BY <1>3
    <3>2. B[i] = node[s[i - 1]].item /\ B[i + 1] = node[s[i]].item
      BY <2>2, <3>1
    <3>3. i - 1 < k <=> i < k + 1
      BY <1>3
    <3> QED
      BY <1>11, <1>13, <3>1, <3>2, <3>3
  <2>5. [i \in 1..(n - 1) |-> node'[z[i - 1]].item] =
          [i \in 1..(n - 1) |-> IF i < k + 1 THEN B[i] ELSE B[i + 1]]
    BY <2>4
  <2> QED
    BY <2>1, <2>3, <2>5 DEF Names
<1> QED
  BY <1>10, <1>11, <1>12, <1>18, <1>19, <1>20 DEF z

----------------------------------------------------------------------------
(* The list that a chain of nodes is.                                       *)

\* What reading the list finds, when its nodes are a chain.
ChainRead ==
    \A n \in Nat : \A s :
        Chain(n, s, node, head, tail) =>
            /\ OnList = Places(n, s) /\ Count = n
            /\ \A i \in 0..(n - 1) : Nth[i] = s[i]
            /\ Items = [nodes |-> Names(n, s, node), len |-> len]

\* Reading finds the items of the chain.
LEMMA Reading == ChainRead
<1> SUFFICES ASSUME NEW n \in Nat, NEW s, Chain(n, s, node, head, tail)
             PROVE  /\ OnList = Places(n, s) /\ Count = n
                    /\ \A i \in 0..(n - 1) : Nth[i] = s[i]
                    /\ Items = [nodes |-> Names(n, s, node), len |-> len]
  BY DEF ChainRead
<1>1. OnList = Places(n, s) /\ Count = n
  BY NthChain
<1>2. PICK K \in Nat : K = Cardinality(Addrs) /\ n <= K
  BY AddrFacts, ChainLength
<1>3. ASSUME NEW i \in 0..(n - 1) PROVE Nth[i] = s[i]
  <2>1. Nth = [j \in 0..K |-> IF j < n THEN s[j] ELSE 0]
    BY <1>2, NthChain
  <2>2. i \in 0..K /\ i < n
    BY <1>2
  <2> QED
    BY <2>1, <2>2
<1>4. Items = [nodes |-> Names(n, s, node), len |-> len]
  <2>1. ASSUME NEW i \in 1..n PROVE node[Nth[i - 1]].item = node[s[i - 1]].item
    <3>1. i - 1 \in 0..(n - 1)
      OBVIOUS
    <3> QED
      BY <1>3, <3>1
  <2>2. [i \in 1..n |-> node[Nth[i - 1]].item] = [i \in 1..n |-> node[s[i - 1]].item]
    BY <2>1
  <2> QED
    BY <1>1, <2>2 DEF Items, Names
<1> QED
  BY <1>1, <1>3, <1>4

\* The same after a step.
LEMMA ReadingNext == ChainRead'
BY Reading, PTL

\* Where an item of the chain is among the items.
LEMMA IndexOfFacts ==
    ASSUME NEW n \in Nat, NEW s, NEW m, NEW h, NEW t, Chain(n, s, m, h, t),
           NEW k \in 0..(n - 1), NEW l, l.nodes = Names(n, s, m)
    PROVE  A!RemoveNode(l, m[s[k]].item).nodes = A!Cut(Names(n, s, m), k + 1)
<1>1. PICK B \in Seq(Objects) : B = Names(n, s, m)
  BY NamesFacts
<1>2. /\ Len(B) = n /\ \A i \in 1..n : B[i] = m[s[i - 1]].item
      /\ \A i, j \in 1..n : B[i] = B[j] => i = j
  BY <1>1, NamesFacts
<1>3. PICK x : x = m[s[k]].item
  OBVIOUS
<1>4. k + 1 \in 1..n /\ (k + 1) - 1 = k
  OBVIOUS
<1>5. B[k + 1] = x
  BY <1>2, <1>3, <1>4
<1>6. A!Has(l, x)
  BY <1>1, <1>2, <1>4, <1>5 DEF A!Has
<1>7. A!IndexOf(B, x) = k + 1
  <2> DEFINE Q(i) == i \in 1..n /\ B[i] = x
  <2>1. Q(k + 1)
    BY <1>4, <1>5
  <2>2. \A i : Q(i) => i = k + 1
    BY <1>2, <1>4, <1>5
  <2>3. A!IndexOf(B, x) = CHOOSE i : Q(i)
    BY <1>2 DEF A!IndexOf
  <2> HIDE DEF Q
  <2> QED
    BY <2>1, <2>2, <2>3
<1> QED
  BY <1>1, <1>3, <1>6, <1>7 DEF A!RemoveNode

\* Removing an item that no node has leaves the items as they are.
LEMMA NotThere ==
    ASSUME NEW n \in Nat, NEW s, NEW m, NEW h, NEW t, Chain(n, s, m, h, t),
           NEW p, \A i \in 0..(n - 1) : m[s[i]].item # p, NEW l, l.nodes = Names(n, s, m)
    PROVE  A!RemoveNode(l, p).nodes = Names(n, s, m)
<1>1. PICK B \in Seq(Objects) : B = Names(n, s, m)
  BY NamesFacts
<1>2. Len(B) = n /\ \A i \in 1..n : B[i] = m[s[i - 1]].item
  BY <1>1, NamesFacts
<1>3. \A i \in 1..n : i - 1 \in 0..(n - 1)
  OBVIOUS
<1>4. ~A!Has(l, p)
  BY <1>1, <1>2, <1>3 DEF A!Has
<1> QED
  BY <1>4 DEF A!RemoveNode

\* The chain of no node.
LEMMA NoNodes ==
    ASSUME NEW m
    PROVE  \E z \in [0..(0 - 1) -> Addrs] :
              /\ Chain(0, z, m, 0, 0)
              /\ Places(0, z) = {} /\ Names(0, z, m) = <<>>
<1>1. PICK z : z = [i \in 0..(0 - 1) |-> i]
  OBVIOUS
<1>2. 0..(0 - 1) = {}
  OBVIOUS
<1>3. z \in [0..(0 - 1) -> Addrs]
  BY <1>1, <1>2
<1>4. Chain(0, z, m, 0, 0)
  BY <1>2, <1>3 DEF Chain
<1>5. Places(0, z) = {}
  BY <1>2 DEF Places
<1>6. Names(0, z, m) \in Seq(Objects) /\ Len(Names(0, z, m)) = 0
  BY <1>4, NamesFacts
<1>7. Names(0, z, m) = <<>>
  BY <1>6, EmptySeq
<1> QED
  BY <1>3, <1>4, <1>5, <1>7

----------------------------------------------------------------------------
(* Every step keeps the chain, and is a step of ItemList on its items.      *)

\* The list is empty to begin with.
LEMMA Start == ListInit => ListInv /\ A!Init
<1> SUFFICES ASSUME ListInit PROVE ListInv /\ A!Init
  OBVIOUS
<1>1. PICK z \in [0..(0 - 1) -> Addrs] :
         Chain(0, z, node, 0, 0) /\ Places(0, z) = {} /\ Names(0, z, node) = <<>>
  BY NoNodes
<1>2. Linked(0, z)
  BY <1>1 DEF ListInit, Linked
<1>3. 0 \in 0..Cardinality(Addrs) /\ 0 \in Nat
  BY AddrFacts
<1>4. node \in [Addrs -> Node]
  BY DEF ListInit, Node
<1>5. ListInv
  <2>1. \E s \in [0..(0 - 1) -> Addrs] : Linked(0, s)
    BY <1>2
  <2> HIDE DEF ListInit
  <2>2. \E n \in 0..Cardinality(Addrs) : \E s \in [0..(n - 1) -> Addrs] : Linked(n, s)
    BY <1>3, <2>1
  <2>3. len \in Int
    BY DEF ListInit
  <2> QED
    BY <1>4, <2>2, <2>3 DEF ListInv
<1>6. Items = [nodes |-> <<>>, len |-> len]
  BY <1>1, <1>3, Reading DEF ChainRead, ListInit
<1>7. A!Init
  BY <1>6 DEF A!Init, A!EmptyList, ItemsSeen, ListInit
<1> QED
  BY <1>5, <1>7

\* What the invariant says when no loop is under way.
LEMMA IdleFacts ==
    ASSUME ListInv, Idle
    PROVE  \E n \in Nat : \E s \in [0..(n - 1) -> Addrs] :
              /\ Chain(n, s, node, head, tail) /\ used = Places(n, s) /\ cur = 0
              /\ OnList = used
              /\ ItemsSeen = [nodes |-> Names(n, s, node), len |-> len]
<1>1. PICK n \in 0..Cardinality(Addrs) : \E s \in [0..(n - 1) -> Addrs] : Linked(n, s)
  BY DEF ListInv
<1>2. n \in Nat
  BY <1>1, AddrFacts
<1>3. PICK s \in [0..(n - 1) -> Addrs] : Linked(n, s)
  BY <1>1
<1>4. Chain(n, s, node, head, tail) /\ used = Places(n, s) /\ cur = 0
  BY <1>3 DEF Linked, Idle
<1>5. OnList = used /\ ItemsSeen = [nodes |-> Names(n, s, node), len |-> len]
  BY <1>2, <1>4, Reading DEF ChainRead, ItemsSeen, Idle
<1> QED
  BY <1>2, <1>4, <1>5

\* A chain after the step, outside the loop, is the invariant again.
LEMMA IdleNext ==
    ASSUME NEW n \in Nat, NEW z, z \in [0..(n - 1) -> Addrs], node' \in [Addrs -> Node], len' \in Int,
           Chain(n, z, node', head', tail'), used' = Places(n, z), equalTo' = 0, cur' = 0
    PROVE  ListInv' /\ ItemsSeen' = [nodes |-> Names(n, z, node'), len |-> len']
<1>1. n <= Cardinality(Addrs)
  BY ChainLength
<1>2. n \in 0..Cardinality(Addrs)
  BY <1>1, AddrFacts
<1>3. Linked(n, z)'
  BY DEF Linked
<1>4. ListInv'
  BY <1>2, <1>3 DEF ListInv
<1>5. Items' = [nodes |-> Names(n, z, node'), len |-> len']
  BY ReadingNext DEF ChainRead
<1> QED
  BY <1>4, <1>5 DEF ItemsSeen

\* Push adds the item at one end.
LEMMA PushStep ==
    ASSUME ListInv, NEW p \in Objects, Push(p)
    PROVE  ListInv' /\ ItemsSeen' \in {A!PushHead(ItemsSeen, p), A!PushTail(ItemsSeen, p)}
<1>1. Idle /\ equalTo' = 0 /\ cur' = cur /\ len' = len + 1
  BY DEF Push, Idle
<1>2. PICK n \in Nat : \E s \in [0..(n - 1) -> Addrs] :
              /\ Chain(n, s, node, head, tail) /\ used = Places(n, s) /\ cur = 0
              /\ OnList = used
              /\ ItemsSeen = [nodes |-> Names(n, s, node), len |-> len]
  BY <1>1, IdleFacts
<1>3. PICK s \in [0..(n - 1) -> Addrs] :
              /\ Chain(n, s, node, head, tail) /\ used = Places(n, s) /\ cur = 0
              /\ OnList = used
              /\ ItemsSeen = [nodes |-> Names(n, s, node), len |-> len]
  BY <1>2
<1>4. \A i \in 0..(n - 1) : node[s[i]].item # p
  BY <1>3 DEF Push, Places
<1>5. PICK b \in Addrs \ used : used' = used \cup {b} /\ (LinkTail(p, b) \/ LinkHead(p, b))
  BY DEF Push
<1>6. node \in [Addrs -> Node] /\ len \in Int /\ b \notin Places(n, s)
  BY <1>3, <1>5 DEF ListInv
<1>7. len' \in Int /\ n + 1 \in Nat /\ (n + 1) - 1 = n
  BY <1>1, <1>6
<1>8. CASE LinkTail(p, b)
  <2>1. PICK z \in [0..n -> Addrs] :
              /\ node' \in [Addrs -> Node]
              /\ Chain(n + 1, z, node', head', tail')
              /\ Places(n + 1, z) = Places(n, s) \cup {b}
              /\ Names(n + 1, z, node') = Append(Names(n, s, node), p)
    BY <1>3, <1>4, <1>5, <1>6, <1>8, TailLinked
  <2>2. ListInv' /\ ItemsSeen' = [nodes |-> Names(n + 1, z, node'), len |-> len']
    BY <1>1, <1>3, <1>5, <1>7, <2>1, IdleNext
  <2> QED
    BY <1>1, <1>3, <2>1, <2>2 DEF A!PushTail
<1>9. CASE LinkHead(p, b)
  <2>1. PICK z \in [0..n -> Addrs] :
              /\ node' \in [Addrs -> Node]
              /\ Chain(n + 1, z, node', head', tail')
              /\ Places(n + 1, z) = Places(n, s) \cup {b}
              /\ Names(n + 1, z, node') = <<p>> \o Names(n, s, node)
    BY <1>3, <1>4, <1>5, <1>6, <1>9, HeadLinked
  <2>2. ListInv' /\ ItemsSeen' = [nodes |-> Names(n + 1, z, node'), len |-> len']
    BY <1>1, <1>3, <1>5, <1>7, <2>1, IdleNext
  <2> QED
    BY <1>1, <1>3, <2>1, <2>2 DEF A!PushHead
<1> QED
  BY <1>5, <1>8, <1>9

\* removeNodeFromList removes one item, and leaves len.
LEMMA RemoveNodeStep ==
    ASSUME ListInv, RemoveNodeFromList
    PROVE  ListInv' /\ \E p \in Objects : ItemsSeen' = A!RemoveNode(ItemsSeen, p)
<1>1. Idle /\ equalTo' = 0 /\ cur' = cur /\ len' = len
  BY DEF RemoveNodeFromList, Idle
<1>2. PICK n \in Nat : \E s \in [0..(n - 1) -> Addrs] :
              /\ Chain(n, s, node, head, tail) /\ used = Places(n, s) /\ cur = 0
              /\ OnList = used
              /\ ItemsSeen = [nodes |-> Names(n, s, node), len |-> len]
  BY <1>1, IdleFacts
<1>3. PICK s \in [0..(n - 1) -> Addrs] :
              /\ Chain(n, s, node, head, tail) /\ used = Places(n, s) /\ cur = 0
              /\ OnList = used
              /\ ItemsSeen = [nodes |-> Names(n, s, node), len |-> len]
  BY <1>2
<1>4. PICK k \in 0..(n - 1) : Unlink(s[k])
  BY <1>3 DEF RemoveNodeFromList, Places
<1>5. node \in [Addrs -> Node] /\ len' \in Int
  BY <1>1 DEF ListInv
<1>6. PICK z : z = Dropped(n, s, k)
  OBVIOUS
<1>7. /\ node' \in [Addrs -> Node]
      /\ Chain(n - 1, z, node', head', tail')
      /\ Places(n - 1, z) = Places(n, s) \ {s[k]}
      /\ Names(n - 1, z, node') = A!Cut(Names(n, s, node), k + 1)
  BY <1>3, <1>4, <1>5, <1>6, Dropping
<1>8. n - 1 \in Nat /\ z \in [0..((n - 1) - 1) -> Addrs]
  BY <1>7 DEF Chain
<1>9. used' = Places(n - 1, z)
  BY <1>3, <1>4, <1>7 DEF Unlink
<1>10. ListInv' /\ ItemsSeen' = [nodes |-> Names(n - 1, z, node'), len |-> len']
  BY <1>1, <1>3, <1>5, <1>7, <1>8, <1>9, IdleNext
<1>11. PICK p : p = node[s[k]].item
  OBVIOUS
<1>12. p \in Objects
  BY <1>3, <1>11 DEF Chain
<1>13. PICK l : l = ItemsSeen
  OBVIOUS
<1>14. l.nodes = Names(n, s, node) /\ l.len = len
  BY <1>3, <1>13
<1>15. A!RemoveNode(l, p).nodes = A!Cut(Names(n, s, node), k + 1)
  BY <1>3, <1>11, <1>14, IndexOfFacts
<1>16. A!RemoveNode(l, p) = [nodes |-> A!RemoveNode(l, p).nodes, len |-> l.len]
  BY DEF A!RemoveNode
<1>17. ItemsSeen' = A!RemoveNode(l, p)
  BY <1>1, <1>7, <1>10, <1>14, <1>15, <1>16
<1> QED
  BY <1>10, <1>12, <1>13, <1>17

\* popListHead takes the first item.
LEMMA PopStep ==
    ASSUME ListInv, PopListHead
    PROVE  ListInv' /\ ItemsSeen' = A!PopHead(ItemsSeen)
<1>1. Idle /\ equalTo' = 0 /\ cur' = cur /\ len' = len - 1 /\ head # 0
  BY DEF PopListHead, Idle
<1>2. PICK n \in Nat : \E s \in [0..(n - 1) -> Addrs] :
              /\ Chain(n, s, node, head, tail) /\ used = Places(n, s) /\ cur = 0
              /\ OnList = used
              /\ ItemsSeen = [nodes |-> Names(n, s, node), len |-> len]
  BY <1>1, IdleFacts
<1>3. PICK s \in [0..(n - 1) -> Addrs] :
              /\ Chain(n, s, node, head, tail) /\ used = Places(n, s) /\ cur = 0
              /\ OnList = used
              /\ ItemsSeen = [nodes |-> Names(n, s, node), len |-> len]
  BY <1>2
<1>4. n # 0 /\ 0 \in 0..(n - 1) /\ head = s[0] /\ tail = s[n - 1] /\ head \in Addrs
  <2>1. n # 0
    BY <1>1, <1>3 DEF Chain
  <2>2. 0 \in 0..(n - 1)
    BY <2>1
  <2> QED
    BY <1>3, <2>1, <2>2 DEF Chain
<1>5. /\ node[head].prev = 0
      /\ node[head].next = IF n = 1 THEN 0 ELSE s[1]
      /\ node[head].next = 0 <=> n = 1
  <2>1. node[s[0]].prev = 0 /\ node[s[0]].next = IF 0 = n - 1 THEN 0 ELSE s[0 + 1]
    BY <1>3, <1>4 DEF Chain
  <2>2. n # 1 => 1 \in 0..(n - 1)
    BY <1>4
  <2> QED
    BY <1>3, <1>4, <2>1, <2>2, AddrFacts
<1>6. head = tail <=> n = 1
  <2>1. n - 1 \in 0..(n - 1)
    BY <1>4
  <2>2. s[0] = s[n - 1] => 0 = n - 1
    BY <1>3, <1>4, <2>1 DEF Chain
  <2> QED
    BY <1>4, <2>2
<1>7. Unlink(s[0])
  <2>1. \A a \in Addrs : a # 0
    BY AddrFacts
  <2>2. node' = Freed(Unlinked(head), head)
    <3>1. ASSUME NEW a \in Addrs
          PROVE  (IF a = node[head].next THEN [node[a] EXCEPT !.prev = 0] ELSE node[a]) =
                 (IF a = node[head].prev THEN [node[a] EXCEPT !.next = node[head].next]
                  ELSE IF a = node[head].next THEN [node[a] EXCEPT !.prev = node[head].prev]
                  ELSE node[a])
      BY <1>5, <2>1
    <3> QED
      BY <3>1 DEF PopListHead, Freed, Unlinked
  <2>3. tail' = IF head = tail THEN node[head].prev ELSE tail
    BY <1>5, <1>6 DEF PopListHead
  <2> QED
    BY <1>4, <2>2, <2>3 DEF PopListHead, Unlink
<1>8. node \in [Addrs -> Node] /\ len' \in Int
  BY <1>1 DEF ListInv
<1>9. PICK k \in 0..(n - 1) : k = 0
  BY <1>4
<1>10. PICK z : z = Dropped(n, s, k)
  OBVIOUS
<1>11. /\ node' \in [Addrs -> Node]
       /\ Chain(n - 1, z, node', head', tail')
       /\ Places(n - 1, z) = Places(n, s) \ {s[k]}
       /\ Names(n - 1, z, node') = A!Cut(Names(n, s, node), k + 1)
  <2>1. Unlink(s[k])
    BY <1>7, <1>9
  <2> QED
    BY <1>3, <1>8, <1>10, <2>1, Dropping
<1>12. n - 1 \in Nat /\ z \in [0..((n - 1) - 1) -> Addrs]
  BY <1>4, <1>11 DEF Chain
<1>13. used' = Places(n - 1, z)
  BY <1>3, <1>7, <1>9, <1>11 DEF Unlink
<1>14. ListInv' /\ ItemsSeen' = [nodes |-> Names(n - 1, z, node'), len |-> len']
  BY <1>1, <1>3, <1>8, <1>11, <1>12, <1>13, IdleNext
<1>15. PICK B \in Seq(Objects) : B = Names(n, s, node) /\ Len(B) = n
  BY <1>3, NamesFacts
<1>16. B # <<>>
  BY <1>4, <1>15, EmptySeq
<1>17. Tail(B) = A!Cut(B, 1)
  BY <1>16, TailFacts
<1>18. A!PopHead(ItemsSeen) = [nodes |-> Tail(B), len |-> len - 1]
  BY <1>3, <1>15, <1>16 DEF A!PopHead
<1>19. k + 1 = 1
  BY <1>9
<1>20. Names(n - 1, z, node') = Tail(B)
  BY <1>11, <1>15, <1>17, <1>19
<1> QED
  BY <1>1, <1>14, <1>18, <1>20

\* The loop of removeFromListWithEquality begins: nothing to be seen yet.
LEMMA BeginStep ==
    ASSUME ListInv, NEW p \in Objects, RemoveBegin(p)
    PROVE  ListInv' /\ ItemsSeen' = ItemsSeen
<1>1. /\ Idle /\ equalTo' = p /\ cur' = head /\ len' = len - 1 /\ head # 0
      /\ before' = Items /\ p # 0
      /\ node' = node /\ used' = used /\ head' = head /\ tail' = tail
  BY AddrFacts DEF RemoveBegin
<1>2. PICK n \in Nat : \E s \in [0..(n - 1) -> Addrs] :
              /\ Chain(n, s, node, head, tail) /\ used = Places(n, s) /\ cur = 0
              /\ OnList = used
              /\ ItemsSeen = [nodes |-> Names(n, s, node), len |-> len]
  BY <1>1, IdleFacts
<1>3. PICK s \in [0..(n - 1) -> Addrs] :
              /\ Chain(n, s, node, head, tail) /\ used = Places(n, s) /\ cur = 0
              /\ OnList = used
              /\ ItemsSeen = [nodes |-> Names(n, s, node), len |-> len]
  BY <1>2
<1>4. n # 0 /\ 0 \in 0..(n - 1) /\ head = s[0]
  <2>1. n # 0
    BY <1>1, <1>3 DEF Chain
  <2>2. 0 \in 0..(n - 1)
    BY <2>1
  <2> QED
    BY <1>3, <2>1, <2>2 DEF Chain
<1>5. ItemsSeen = Items
  BY <1>1 DEF ItemsSeen, Idle
<1>6. before' = [nodes |-> Names(n, s, node), len |-> len]
  BY <1>1, <1>3, <1>5
<1>7. Names(n, s, node) # <<>>
  <2>1. PICK B \in Seq(Objects) : B = Names(n, s, node) /\ Len(B) = n
    BY <1>3, NamesFacts
  <2> QED
    BY <1>4, <2>1, EmptySeq
<1>8. node \in [Addrs -> Node] /\ len \in Int
  BY DEF ListInv
<1>9. Looping(n, s)'
  <2>1. \A i \in 0..(0 - 1) : FALSE
    OBVIOUS
  <2>2. before.nodes' = Names(n, s, node)' /\ before.len' = len' + 1
    BY <1>1, <1>6, <1>8 DEF Names
  <2> QED
    BY <1>1, <1>4, <1>6, <1>7, <1>8, <2>1, <2>2 DEF Looping
<1>10. Linked(n, s)'
  <2>1. Chain(n, s, node, head, tail)'
    BY <1>1, <1>3 DEF Chain
  <2> QED
    BY <1>1, <1>3, <1>9, <2>1 DEF Linked
<1>11. n \in 0..Cardinality(Addrs)
  BY <1>3, ChainLength, AddrFacts
<1>12. len' \in Int /\ node' \in [Addrs -> Node]
  BY <1>1, <1>8
<1>13. ListInv'
  BY <1>10, <1>11, <1>12 DEF ListInv
<1>14. ItemsSeen' = before'
  BY <1>1 DEF ItemsSeen
<1> QED
  BY <1>1, <1>5, <1>13, <1>14

\* What the invariant says from within the loop.
LEMMA LoopFacts ==
    ASSUME ListInv, ~Idle
    PROVE  \E n \in Nat : \E s \in [0..(n - 1) -> Addrs] :
              /\ n <= Cardinality(Addrs)
              /\ Chain(n, s, node, head, tail) /\ used = Places(n, s)
              /\ Looping(n, s)
<1>1. PICK n \in 0..Cardinality(Addrs) : \E s \in [0..(n - 1) -> Addrs] : Linked(n, s)
  BY DEF ListInv
<1>2. n \in Nat /\ n <= Cardinality(Addrs)
  BY <1>1, AddrFacts
<1>3. PICK s \in [0..(n - 1) -> Addrs] : Linked(n, s)
  BY <1>1
<1> QED
  BY <1>2, <1>3 DEF Linked, Idle

\* A round of the loop goes on to the next node, whether or not it frees the
\* one it is at; the last round is the whole removal.
LEMMA RoundStep ==
    ASSUME ListInv, RemoveRound
    PROVE  ListInv' /\ (\/ ItemsSeen' = ItemsSeen
                        \/ \E p \in Objects : ItemsSeen' = A!RemoveItem(ItemsSeen, p))
<1>1. ~Idle /\ len' = len /\ len \in Int /\ node \in [Addrs -> Node]
  BY DEF RemoveRound, ListInv
<1>2. PICK n \in Nat : \E s \in [0..(n - 1) -> Addrs] :
              /\ n <= Cardinality(Addrs)
              /\ Chain(n, s, node, head, tail) /\ used = Places(n, s)
              /\ Looping(n, s)
  BY <1>1, LoopFacts
<1>3. PICK s \in [0..(n - 1) -> Addrs] :
              /\ n <= Cardinality(Addrs)
              /\ Chain(n, s, node, head, tail) /\ used = Places(n, s)
              /\ Looping(n, s)
  BY <1>2
<1>4. PICK k \in 0..(n - 1) :
          /\ cur = s[k]
          /\ \/ /\ before.nodes = Names(n, s, node)
                /\ \A i \in 0..(k - 1) : node[s[i]].item # equalTo
             \/ /\ Names(n, s, node) = A!RemoveNode(before, equalTo).nodes
                /\ \A i \in 0..(n - 1) : node[s[i]].item # equalTo
  BY <1>3 DEF Looping
<1>5. PICK q \in Objects : q = equalTo
  BY <1>3 DEF Looping
<1>6. q # 0 /\ before.nodes # <<>> /\ before.len = len + 1
  BY <1>3, <1>5, AddrFacts DEF Looping
<1>7. /\ s \in [0..(n - 1) -> Addrs] /\ s[k] \in Addrs
      /\ node[s[k]].next = IF k = n - 1 THEN 0 ELSE s[k + 1]
      /\ k # n - 1 => k + 1 \in 0..(n - 1) /\ s[k + 1] \in Addrs /\ s[k + 1] # 0
  <2>1. k # n - 1 => k + 1 \in 0..(n - 1)
    OBVIOUS
  <2> QED
    BY <1>3, <2>1, AddrFacts DEF Chain
<1>8. /\ equalTo' = IF cur' = 0 THEN 0 ELSE q
      /\ before' = IF cur' = 0 THEN EmptyItems ELSE before
      /\ cur' = node'[s[k]].next
  BY <1>4, <1>5 DEF RemoveRound
<1>9. ItemsSeen = before
  BY <1>1 DEF ItemsSeen, Idle
<1>10. A!RemoveItem(before, q) = [nodes |-> A!RemoveNode(before, q).nodes, len |-> len]
  BY <1>1, <1>6 DEF A!RemoveItem
\* Once no node has the item, the list is what removing it leaves.
<1> DEFINE Gone(m, z) ==
        /\ Names(m, z, node') = A!RemoveNode(before, q).nodes
        /\ \A i \in 0..(m - 1) : node'[z[i]].item # q
<1>11. ASSUME NEW m \in Nat, NEW z, z \in [0..(m - 1) -> Addrs], node' \in [Addrs -> Node],
              Chain(m, z, node', head', tail'), used' = Places(m, z), Gone(m, z), cur' = 0
       PROVE  ListInv' /\ ItemsSeen' = A!RemoveItem(before, q)
  <2>1. ListInv' /\ ItemsSeen' = [nodes |-> Names(m, z, node'), len |-> len']
    BY <1>1, <1>8, <1>11, IdleNext
  <2> QED
    BY <1>1, <1>10, <1>11, <2>1
<1>12. ASSUME NEW m \in Nat, NEW z, z \in [0..(m - 1) -> Addrs], node' \in [Addrs -> Node],
              Chain(m, z, node', head', tail'), used' = Places(m, z), cur' # 0,
              Looping(m, z)'
       PROVE  ListInv' /\ ItemsSeen' = before
  <2>1. m \in 0..Cardinality(Addrs)
    BY <1>12, ChainLength, AddrFacts
  <2>2. equalTo' # 0
    BY <1>6, <1>8, <1>12
  <2>3. Linked(m, z)'
    BY <1>12, <2>2 DEF Linked
  <2>4. ListInv'
    BY <1>1, <1>12, <2>1, <2>3 DEF ListInv
  <2>5. ItemsSeen' = before'
    BY <2>2 DEF ItemsSeen
  <2> QED
    BY <1>8, <1>12, <2>4, <2>5
<1>13. CASE node[s[k]].item = q
  <2>1. /\ before.nodes = Names(n, s, node)
        /\ \A i \in 0..(k - 1) : node[s[i]].item # q
    BY <1>4, <1>5, <1>13
  <2>2. Unlink(s[k])
    BY <1>4, <1>5, <1>13 DEF RemoveRound
  <2>3. PICK z : z = Dropped(n, s, k)
    OBVIOUS
  <2>4. /\ node' \in [Addrs -> Node]
        /\ \A i \in 0..(n - 1) : node'[s[i]].item = node[s[i]].item
        /\ node'[s[k]].next = node[s[k]].next
        /\ Chain(n - 1, z, node', head', tail')
        /\ Places(n - 1, z) = Places(n, s) \ {s[k]}
        /\ Names(n - 1, z, node') = A!Cut(Names(n, s, node), k + 1)
    BY <1>1, <1>3, <2>2, <2>3, Dropping
  <2>5. PICK m \in Nat : m = n - 1 /\ z \in [0..(m - 1) -> Addrs]
    BY <2>4 DEF Chain
  <2>6. used' = Places(m, z)
    BY <1>3, <2>2, <2>4, <2>5 DEF Unlink
  <2>7. A!RemoveNode(before, q).nodes = A!Cut(Names(n, s, node), k + 1)
    BY <1>3, <1>13, <2>1, IndexOfFacts
  <2>8. ASSUME NEW i \in 0..(m - 1) PROVE node'[z[i]].item # q
    <3>1. m - 1 = n - 2
      BY <2>5
    <3>2. z[i] = IF i < k THEN s[i] ELSE s[i + 1]
      BY <2>3, <3>1 DEF Dropped
    <3>3. PICK j \in 0..(n - 1) : z[i] = s[j] /\ j # k
      <4>1. i \in 0..(n - 1) /\ i + 1 \in 0..(n - 1) /\ (i < k => i # k) /\ (~(i < k) => i + 1 # k)
        BY <3>1
      <4> QED
        BY <3>2, <4>1
    <3>4. node[s[j]].item # node[s[k]].item
      BY <1>3, <3>3 DEF Chain
    <3> QED
      BY <1>13, <2>4, <3>3, <3>4
  <2>9. Gone(m, z)
    BY <2>4, <2>5, <2>7, <2>8
  <2>10. cur' = IF k = n - 1 THEN 0 ELSE s[k + 1]
    BY <1>7, <1>8, <2>4
  <2>11. CASE k = n - 1
    <3>1. cur' = 0
      BY <2>10, <2>11
    <3>2. ListInv' /\ ItemsSeen' = A!RemoveItem(before, q)
      BY <1>11, <2>4, <2>5, <2>6, <2>9, <3>1
    <3> QED
      BY <1>9, <3>2
  <2>12. CASE k # n - 1
    <3>1. cur' = s[k + 1] /\ cur' # 0
      BY <1>7, <2>10, <2>12
    <3>2. k \in 0..(m - 1) /\ cur' = z[k]
      <4>1. k \in 0..(n - 2) /\ m - 1 = n - 2 /\ ~(k < k)
        BY <2>5, <2>12
      <4>2. z[k] = s[k + 1]
        BY <2>3, <4>1 DEF Dropped
      <4> QED
        BY <3>1, <4>1, <4>2
    <3>3. equalTo' = q /\ before' = before
      BY <1>8, <3>1
    <3>4. Looping(m, z)'
      <4>1. equalTo' \in Objects
        BY <3>3
      <4>2. before'.nodes # <<>> /\ before'.len = len' + 1
        BY <1>1, <1>6, <3>3
      <4>3. Names(m, z, node)' = A!RemoveNode(before', equalTo').nodes
        BY <2>9, <3>3 DEF Names
      <4>4. \A i \in 0..(m - 1) : node'[z[i]].item # equalTo'
        BY <2>9, <3>3
      <4> QED
        BY <3>2, <4>1, <4>2, <4>3, <4>4 DEF Looping
    <3>5. ListInv' /\ ItemsSeen' = before
      BY <1>12, <2>4, <2>5, <2>6, <3>1, <3>4
    <3> QED
      BY <1>9, <3>5
  <2> QED
    BY <2>11, <2>12
<1>14. CASE node[s[k]].item # q
  <2>1. node' = node /\ used' = used /\ head' = head /\ tail' = tail
    BY <1>4, <1>5, <1>14 DEF RemoveRound
  <2>2. cur' = IF k = n - 1 THEN 0 ELSE s[k + 1]
    BY <1>7, <1>8, <2>1
  <2>3. node' \in [Addrs -> Node] /\ Chain(n, s, node', head', tail') /\ used' = Places(n, s)
    BY <1>1, <1>3, <2>1
  <2>4. CASE k = n - 1
    <3>1. cur' = 0
      BY <2>2, <2>4
    <3>2. \A i \in 0..(n - 1) : node[s[i]].item # q
      <4>1. \A i \in 0..(n - 1) : i = k \/ i \in 0..(k - 1)
        BY <2>4
      <4> QED
        BY <1>4, <1>5, <1>14, <4>1
    <3>3. Names(n, s, node) = A!RemoveNode(before, q).nodes
      <4>1. CASE before.nodes = Names(n, s, node)
        BY <1>3, <3>2, <4>1, NotThere
      <4>2. CASE Names(n, s, node) = A!RemoveNode(before, equalTo).nodes
        BY <1>5, <4>2
      <4> QED
        BY <1>4, <4>1, <4>2
    <3>4. Gone(n, s)
      BY <2>1, <3>2, <3>3
    <3>5. ListInv' /\ ItemsSeen' = A!RemoveItem(before, q)
      BY <1>3, <1>11, <2>3, <3>1, <3>4
    <3> QED
      BY <1>9, <3>5
  <2>5. CASE k # n - 1
    <3>1. cur' = s[k + 1] /\ cur' # 0 /\ k + 1 \in 0..(n - 1)
      BY <1>7, <2>2, <2>5
    <3>2. equalTo' = q /\ before' = before
      BY <1>8, <3>1
    <3>3. \A i \in 0..((k + 1) - 1) : i = k \/ i \in 0..(k - 1)
      OBVIOUS
    <3>4. Looping(n, s)'
      <4>1. equalTo' \in Objects
        BY <3>2
      <4>2. before'.nodes # <<>> /\ before'.len = len' + 1
        BY <1>1, <1>6, <3>2
      <4>3. \/ /\ before'.nodes = Names(n, s, node)'
               /\ \A i \in 0..((k + 1) - 1) : node'[s[i]].item # equalTo'
            \/ /\ Names(n, s, node)' = A!RemoveNode(before', equalTo').nodes
               /\ \A i \in 0..(n - 1) : node'[s[i]].item # equalTo'
        <5>1. Names(n, s, node)' = Names(n, s, node)
          BY <2>1 DEF Names
        <5>2. CASE /\ before.nodes = Names(n, s, node)
                   /\ \A i \in 0..(k - 1) : node[s[i]].item # equalTo
          BY <1>5, <1>14, <2>1, <3>2, <3>3, <5>1, <5>2
        <5>3. CASE /\ Names(n, s, node) = A!RemoveNode(before, equalTo).nodes
                   /\ \A i \in 0..(n - 1) : node[s[i]].item # equalTo
          BY <1>5, <2>1, <3>2, <5>1, <5>3
        <5> QED
          BY <1>4, <5>2, <5>3
      <4> QED
        BY <3>1, <4>1, <4>2, <4>3 DEF Looping
    <3>5. ListInv' /\ ItemsSeen' = before
      BY <1>3, <1>12, <2>3, <3>1, <3>4
    <3> QED
      BY <1>9, <3>5
  <2> QED
    BY <2>4, <2>5
<1> QED
  BY <1>13, <1>14

\* destroyList leaves none of the nodes.
LEMMA DestroyStep ==
    ASSUME ListInv, DestroyList
    PROVE  ListInv' /\ ItemsSeen' = A!EmptyList
<1>1. /\ Idle /\ equalTo' = 0 /\ cur' = cur /\ node' = node
      /\ len' = 0 /\ head' = 0 /\ tail' = 0 /\ used' = used \ OnList
  BY DEF DestroyList, Idle
<1>2. cur = 0 /\ OnList = used
  BY <1>1, IdleFacts
<1>3. PICK z \in [0..(0 - 1) -> Addrs] :
         Chain(0, z, node, 0, 0) /\ Places(0, z) = {} /\ Names(0, z, node) = <<>>
  BY NoNodes
<1>4. node' \in [Addrs -> Node] /\ len' \in Int
  BY <1>1 DEF ListInv
<1>5. PICK o \in Nat : o = 0
  OBVIOUS
<1>6. /\ z \in [0..(o - 1) -> Addrs] /\ Chain(o, z, node', head', tail')
      /\ used' = Places(o, z) /\ Names(o, z, node') = <<>>
  BY <1>1, <1>2, <1>3, <1>5
<1>7. ListInv' /\ ItemsSeen' = [nodes |-> Names(o, z, node'), len |-> len']
  BY <1>1, <1>2, <1>4, <1>6, IdleNext
<1> QED
  BY <1>1, <1>6, <1>7 DEF A!EmptyList

\* A step that changes nothing.
LEMMA Stutter ==
    ASSUME ListInv, UNCHANGED listVars
    PROVE  ListInv' /\ ItemsSeen' = ItemsSeen
<1>1. PICK n \in 0..Cardinality(Addrs) : \E s \in [0..(n - 1) -> Addrs] : Linked(n, s)
  BY DEF ListInv
<1>2. n \in Nat
  BY <1>1, AddrFacts
<1>3. PICK s \in [0..(n - 1) -> Addrs] : Linked(n, s)
  BY <1>1
<1>4. Linked(n, s)'
  BY <1>3 DEF listVars, Linked, Chain, Looping, Names
<1>5. ListInv'
  BY <1>1, <1>4 DEF ListInv, listVars
<1>6. Items = [nodes |-> Names(n, s, node), len |-> len]
  BY <1>2, <1>3, Reading DEF ChainRead, Linked
<1>7. Items' = [nodes |-> Names(n, s, node'), len |-> len']
  BY <1>2, <1>4, ReadingNext DEF ChainRead, Linked
<1>8. Items' = Items
  BY <1>6, <1>7 DEF listVars
<1> QED
  BY <1>5, <1>8 DEF ItemsSeen, listVars

\* Any step.
LEMMA Step ==
    ASSUME ListInv, [ListNext]_listVars
    PROVE  ListInv' /\ [A!Next]_ItemsSeen
<1>1. ASSUME NEW p \in Objects, Push(p) PROVE ListInv' /\ A!Next
  BY <1>1, PushStep DEF A!Next
<1>2. ASSUME NEW p \in Objects, RemoveBegin(p) PROVE ListInv' /\ ItemsSeen' = ItemsSeen
  BY <1>2, BeginStep
<1>3. CASE RemoveNodeFromList
  BY <1>3, RemoveNodeStep DEF A!Next
<1>4. CASE PopListHead
  BY <1>4, PopStep DEF A!Next
<1>5. CASE RemoveRound
  BY <1>5, RoundStep DEF A!Next
<1>6. CASE DestroyList
  BY <1>6, DestroyStep DEF A!Next
<1>7. CASE UNCHANGED listVars
  BY <1>7, Stutter
<1> QED
  BY <1>1, <1>2, <1>3, <1>4, <1>5, <1>6, <1>7 DEF ListNext

----------------------------------------------------------------------------
(* Theorems.                                                                *)

\* The nodes given out and not freed always form one chain: this holds
\* between the rounds of the removal loop as well.
THEOREM Invariance == ListSpec => []ListInv
<1>1. ListInit => ListInv
  BY Start
<1>2. ListInv /\ [ListNext]_listVars => ListInv'
  BY Step
<1> QED
  BY <1>1, <1>2, PTL DEF ListSpec

\* prev leads back the way next leads, tail is the last node, and no node is
\* lost or freed while it is on the list.
THEOREM Links == ListSpec => []WellLinked
<1>1. ListInv => WellLinked
  <2> SUFFICES ASSUME ListInv PROVE WellLinked
    OBVIOUS
  <2>1. PICK n \in 0..Cardinality(Addrs) : \E s \in [0..(n - 1) -> Addrs] : Linked(n, s)
    BY DEF ListInv
  <2>2. n \in Nat
    BY <2>1, AddrFacts
  <2>3. PICK s \in [0..(n - 1) -> Addrs] : Linked(n, s)
    BY <2>1
  <2>4. Chain(n, s, node, head, tail) /\ used = Places(n, s)
    BY <2>3 DEF Linked
  <2>5. OnList = Places(n, s) /\ Count = n /\ \A i \in 0..(n - 1) : Nth[i] = s[i]
    BY <2>2, <2>4, Reading DEF ChainRead
  <2>6. n # 0 => 0 \in 0..(n - 1) /\ n - 1 \in 0..(n - 1)
    BY <2>2
  <2>7. head # 0 => node[head].prev = 0
    BY <2>2, <2>4, <2>6 DEF Chain
  <2>8. IF n = 0 THEN head = 0 /\ tail = 0 ELSE tail = Nth[n - 1]
    BY <2>4, <2>5, <2>6 DEF Chain
  <2>9. ASSUME NEW i \in 1..(n - 1) PROVE node[Nth[i]].prev = Nth[i - 1]
    <3>1. i \in 0..(n - 1) /\ i - 1 \in 0..(n - 1) /\ i # 0
      BY <2>2
    <3> QED
      BY <2>4, <2>5, <3>1 DEF Chain
  <2> QED
    BY <2>4, <2>5, <2>7, <2>8, <2>9 DEF WellLinked
<1> QED
  BY <1>1, Invariance, PTL

\* The loop of removeFromListWithEquality is always at a node of the list,
\* although the last thing it read may have been a freed one.
THEOREM Loop == ListSpec => []LoopOnNodes
<1>1. ListInv => LoopOnNodes
  <2> SUFFICES ASSUME ListInv, cur # 0 PROVE cur \in used /\ node[cur].item \in Objects
    BY DEF LoopOnNodes
  <2>1. PICK n \in 0..Cardinality(Addrs) : \E s \in [0..(n - 1) -> Addrs] : Linked(n, s)
    BY DEF ListInv
  <2>2. PICK s \in [0..(n - 1) -> Addrs] : Linked(n, s)
    BY <2>1
  <2>3. PICK k \in 0..(n - 1) : cur = s[k]
    BY <2>2 DEF Linked, Looping
  <2> QED
    BY <2>2, <2>3 DEF Linked, Chain, Places
<1> QED
  BY <1>1, Invariance, PTL

\* The linked nodes are the list of items that Lists describes, and Sched
\* and the others use: every operation is its counterpart there, and the
\* removal loop takes effect at once, when it is over.
THEOREM Refinement == ListSpec => ImplementsItems
<1>1. ListInit => A!Init
  BY Start
<1>2. ListInv /\ [ListNext]_listVars => [A!Next]_ItemsSeen
  BY Step
<1> QED
  BY <1>1, <1>2, Invariance, PTL DEF ListSpec, ImplementsItems, A!Spec
=============================================================================
