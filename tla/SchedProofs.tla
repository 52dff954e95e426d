---------------------------- MODULE SchedProofs ----------------------------
(***************************************************************************)
(* What holds of the scheduler for any number of terminals, key presses    *)
(* and faults.                                                             *)
(***************************************************************************)
EXTENDS Sched, TLAPS

----------------------------------------------------------------------------
(* Facts about the run queue as a list.                                     *)

Distinct(s) == \A i, j \in 1..Len(s) : s[i] = s[j] => i = j

\* A list whose items are distinct and whose len does not fall short.
GoodList(l) ==
    /\ l \in [nodes : Seq(Nat), len : Int]
    /\ Distinct(l.nodes)
    /\ l.len >= Len(l.nodes)

\* Cut takes one item out of a sequence and keeps the order of the others.
LEMMA CutFacts ==
    ASSUME NEW s \in Seq(Nat), NEW k \in 1..Len(s)
    PROVE  /\ Cut(s, k) \in Seq(Nat)
           /\ Len(Cut(s, k)) = Len(s) - 1
           /\ \A i \in 1..(Len(s) - 1) :
                 Cut(s, k)[i] = IF i < k THEN s[i] ELSE s[i + 1]
<1>1. Len(s) \in Nat /\ Len(s) - 1 \in Nat
  OBVIOUS
<1>2. \A i \in 1..(Len(s) - 1) : (IF i < k THEN s[i] ELSE s[i + 1]) \in Nat
  BY <1>1
<1>3. Cut(s, k) \in [1..(Len(s) - 1) -> Nat]
  BY <1>2 DEF Cut
<1>4. Cut(s, k) \in Seq(Nat) /\ Len(Cut(s, k)) = Len(s) - 1
  BY <1>1, <1>3
<1> QED
  BY <1>4 DEF Cut

\* IndexOf finds an item that is there.
LEMMA IndexOfFacts ==
    ASSUME NEW l, l \in [nodes : Seq(Nat), len : Int], NEW p, Has(l, p)
    PROVE  IndexOf(l.nodes, p) \in 1..Len(l.nodes) /\ l.nodes[IndexOf(l.nodes, p)] = p
BY DEF Has, IndexOf

\* pushListTail of an item that is not there.
LEMMA PushTailFacts ==
    ASSUME NEW l, GoodList(l), NEW p \in Nat, ~Has(l, p)
    PROVE  /\ GoodList(PushTail(l, p))
           /\ \A q : Has(PushTail(l, p), q) <=> Has(l, q) \/ q = p
           /\ PushTail(l, p).nodes # <<>>
<1> DEFINE s == l.nodes
           t == Append(s, p)
<1>1. s \in Seq(Nat) /\ Len(s) \in Nat /\ l.len \in Int /\ l.len >= Len(s)
  BY DEF GoodList
<1>2. t \in Seq(Nat) /\ Len(t) = Len(s) + 1 /\ t[Len(s) + 1] = p
      /\ \A i \in 1..Len(s) : t[i] = s[i]
  BY <1>1
<1>3. PushTail(l, p) = [nodes |-> t, len |-> l.len + 1]
  BY DEF PushTail
<1>4. Distinct(t)
  BY <1>1, <1>2 DEF GoodList, Distinct, Has
<1>5. GoodList(PushTail(l, p))
  BY <1>1, <1>2, <1>3, <1>4 DEF GoodList
<1>6. ASSUME NEW q PROVE Has(PushTail(l, p), q) <=> Has(l, q) \/ q = p
  BY <1>1, <1>2, <1>3 DEF Has
<1>7. Len(t) # 0
  BY <1>1, <1>2
<1>8. PushTail(l, p).nodes # <<>>
  BY <1>3, <1>7
<1> QED
  BY <1>5, <1>6, <1>8

\* removeNodeFromList takes out the item and nothing else.
LEMMA RemoveNodeFacts ==
    ASSUME NEW l, GoodList(l), NEW p
    PROVE  /\ GoodList(RemoveNode(l, p))
           /\ \A q : Has(RemoveNode(l, p), q) <=> Has(l, q) /\ q # p
           /\ RemoveNode(l, p).len = l.len
           /\ Has(l, p) => Len(RemoveNode(l, p).nodes) = Len(l.nodes) - 1
<1>1. CASE ~Has(l, p)
  <2>1. RemoveNode(l, p) = l
    BY <1>1 DEF RemoveNode, GoodList
  <2> QED
    BY <1>1, <2>1
<1>2. CASE Has(l, p)
  <2> DEFINE s == l.nodes
             k == IndexOf(s, p)
             c == Cut(s, k)
  <2>1. s \in Seq(Nat) /\ Len(s) \in Nat /\ l.len \in Int /\ l.len >= Len(s) /\ Distinct(s)
    BY DEF GoodList
  <2>2. k \in 1..Len(s) /\ s[k] = p
    BY <1>2, IndexOfFacts DEF GoodList
  <2>3. c \in Seq(Nat) /\ Len(c) = Len(s) - 1
        /\ \A i \in 1..(Len(s) - 1) : c[i] = IF i < k THEN s[i] ELSE s[i + 1]
    BY <2>1, <2>2, CutFacts
  <2>4. RemoveNode(l, p) = [nodes |-> c, len |-> l.len]
    BY <1>2 DEF RemoveNode
  <2>5. Distinct(c)
    <3> SUFFICES ASSUME NEW i \in 1..Len(c), NEW j \in 1..Len(c), c[i] = c[j]
                 PROVE  i = j
      BY DEF Distinct
    <3> DEFINE from(x) == IF x < k THEN x ELSE x + 1
    <3>1. i \in 1..(Len(s) - 1) /\ j \in 1..(Len(s) - 1)
      BY <2>3
    <3>2. from(i) \in 1..Len(s) /\ from(j) \in 1..Len(s)
      BY <2>1, <2>2, <3>1
    <3>3. c[i] = s[from(i)] /\ c[j] = s[from(j)]
      BY <2>3, <3>1
    <3>4. from(i) = from(j)
      BY <2>1, <3>2, <3>3 DEF Distinct
    <3> QED
      BY <2>1, <2>2, <3>1, <3>4
  <2>6. ASSUME NEW q PROVE Has(RemoveNode(l, p), q) <=> Has(l, q) /\ q # p
    <3>1. ASSUME Has(RemoveNode(l, p), q) PROVE Has(l, q) /\ q # p
      <4>1. PICK i \in 1..(Len(s) - 1) : c[i] = q
        BY <2>3, <2>4, <3>1 DEF Has
      <4> DEFINE j == IF i < k THEN i ELSE i + 1
      <4>2. j \in 1..Len(s) /\ j # k
        BY <2>1, <2>2, <4>1
      <4>3. c[i] = s[j]
        BY <2>3, <4>1
      <4>4. s[j] = q /\ s[j] # s[k]
        BY <2>1, <2>2, <4>1, <4>2, <4>3 DEF Distinct
      <4> QED
        BY <2>2, <4>2, <4>4 DEF Has
    <3>2. ASSUME Has(l, q), q # p PROVE Has(RemoveNode(l, p), q)
      <4>1. PICK i \in 1..Len(s) : s[i] = q
        BY <3>2 DEF Has
      <4>2. i # k
        BY <2>2, <3>2, <4>1
      <4>3. CASE i < k
        <5>1. i \in 1..(Len(s) - 1) /\ c[i] = q
          BY <2>1, <2>2, <2>3, <4>1, <4>3
        <5> QED
          BY <2>3, <2>4, <5>1 DEF Has
      <4>4. CASE i > k
        <5>1. i - 1 \in 1..(Len(s) - 1) /\ ~(i - 1 < k) /\ (i - 1) + 1 = i
          BY <2>1, <2>2, <4>1, <4>4
        <5>2. c[i - 1] = s[(i - 1) + 1]
          BY <2>3, <5>1
        <5>3. c[i - 1] = q
          BY <4>1, <5>1, <5>2
        <5> QED
          BY <2>3, <2>4, <5>1, <5>3 DEF Has
      <4> QED
        BY <2>1, <2>2, <4>1, <4>2, <4>3, <4>4
    <3> QED
      BY <3>1, <3>2
  <2>7. GoodList(RemoveNode(l, p))
    BY <2>1, <2>3, <2>4, <2>5 DEF GoodList
  <2> QED
    BY <2>3, <2>4, <2>6, <2>7
<1> QED
  BY <1>1, <1>2

\* removeFromList of an item that is there.
LEMMA RemoveItemFacts ==
    ASSUME NEW l, GoodList(l), NEW p, Has(l, p)
    PROVE  /\ GoodList(RemoveItem(l, p))
           /\ \A q : Has(RemoveItem(l, p), q) <=> Has(l, q) /\ q # p
<1> DEFINE r == RemoveNode(l, p)
<1>1. GoodList(r) /\ (\A q : Has(r, q) <=> Has(l, q) /\ q # p)
      /\ r.len = l.len /\ Len(r.nodes) = Len(l.nodes) - 1
  BY RemoveNodeFacts
<1>2. l.nodes # <<>>
  BY DEF Has, GoodList
<1>3. RemoveItem(l, p) = [nodes |-> r.nodes, len |-> l.len - 1]
  BY <1>2 DEF RemoveItem
<1>4. Len(l.nodes) \in Nat /\ l.len \in Int /\ l.len >= Len(l.nodes)
  BY DEF GoodList
<1>5. GoodList(RemoveItem(l, p))
  <2> HIDE DEF r
  <2> QED BY <1>1, <1>3, <1>4 DEF GoodList
<1>6. ASSUME NEW q PROVE Has(RemoveItem(l, p), q) <=> Has(r, q)
  BY <1>3 DEF Has
<1> QED
  BY <1>1, <1>5, <1>6

\* What waitloop finds by following a node: a node of the list.
LEMMA NextFacts ==
    ASSUME NEW l, GoodList(l), NEW p, ~Has(l, 0)
    PROVE  /\ NextNode(l, p) \in Nat
           /\ NextNode(l, p) # 0 => Has(l, NextNode(l, p)) /\ NextNode(l, p) # p
           /\ Head0(l) \in Nat
           /\ Head0(l) # 0 <=> l.nodes # <<>>
           /\ Head0(l) # 0 => Has(l, Head0(l))
           /\ Has(l, p) => NextCirc(l, p) # 0 /\ Has(l, NextCirc(l, p))
<1> DEFINE s == l.nodes
           k == IndexOf(s, p)
<1>1. s \in Seq(Nat) /\ Len(s) \in Nat /\ Distinct(s)
  BY DEF GoodList
<1>2. Has(l, p) => k \in 1..Len(s) /\ s[k] = p
  BY IndexOfFacts DEF GoodList
<1>3. NextNode(l, p) \in Nat
      /\ (NextNode(l, p) # 0 => Has(l, NextNode(l, p)) /\ NextNode(l, p) # p)
  <2>1. CASE Has(l, p) /\ k < Len(s)
    <3>1. k + 1 \in 1..Len(s) /\ NextNode(l, p) = s[k + 1]
      BY <1>1, <1>2, <2>1 DEF NextNode
    <3>2. s[k + 1] # s[k]
      BY <1>1, <1>2, <2>1, <3>1 DEF Distinct
    <3> QED
      BY <1>1, <1>2, <2>1, <3>1, <3>2 DEF Has
  <2>2. CASE ~(Has(l, p) /\ k < Len(s))
    BY <2>2 DEF NextNode
  <2> QED
    BY <2>1, <2>2
<1>4. s # <<>> => Len(s) > 0 /\ Has(l, s[1]) /\ s[1] \in Nat /\ s[1] # 0
  <2> SUFFICES ASSUME s # <<>> PROVE Len(s) > 0 /\ Has(l, s[1]) /\ s[1] \in Nat /\ s[1] # 0
    OBVIOUS
  <2>1. Len(s) > 0 /\ s[1] \in Nat
    BY <1>1
  <2>2. Has(l, s[1])
    BY <1>1, <2>1 DEF Has
  <2> QED
    BY <2>1, <2>2
<1>5. Head0(l) \in Nat /\ (Head0(l) # 0 <=> s # <<>>) /\ (Head0(l) # 0 => Has(l, Head0(l)))
  BY <1>4 DEF Head0
<1>6. Has(l, p) => s # <<>>
  BY <1>1 DEF Has
<1>7. Has(l, p) => NextCirc(l, p) # 0 /\ Has(l, NextCirc(l, p))
  BY <1>3, <1>5, <1>6 DEF NextCirc
<1> QED
  BY <1>3, <1>5, <1>7

----------------------------------------------------------------------------
(* The inductive invariant.  RunnableOnce alone is not inductive: a wake-up  *)
(* keeps it only because what wakes a process knows that it is off the run   *)
(* queue (NoDoubleWake), a process is killed or blocked only while it is on  *)
(* it (CpuOwner), and waitloop trusts len not to fall short (GoodList).      *)

Inv ==
    /\ TypeOK
    /\ GoodList(runnable) /\ RunnableOnce
    /\ NoDoubleWake
    /\ ShellAlive
    /\ CpuOwner
    /\ HltIdle

\* RunnableOnce in terms of Has, the form the steps below use.
LEMMA QueuedIsLive ==
    ASSUME GoodList(runnable)
    PROVE  RunnableOnce <=> \A q : Has(runnable, q) => q \in Live
BY DEF GoodList, Distinct, RunnableOnce, Has

\* The same, of the next state.
LEMMA QueuedIsLiveNext ==
    ASSUME GoodList(runnable'), \A q : Has(runnable', q) => q \in Live'
    PROVE  RunnableOnce'
BY DEF GoodList, Distinct, RunnableOnce, Has

\* Adding an entry to the process table.
LEMMA WithProcFacts ==
    ASSUME NEW ps, NEW pid, NEW x
    PROVE  /\ DOMAIN WithProc(ps, pid, x) = DOMAIN ps \cup {pid}
           /\ WithProc(ps, pid, x)[pid] = x
           /\ \A q \in DOMAIN ps \ {pid} : WithProc(ps, pid, x)[q] = ps[q]
           /\ WithProc(ps, pid, x) = [q \in DOMAIN WithProc(ps, pid, x) |-> WithProc(ps, pid, x)[q]]
BY DEF WithProc

\* Dropping one.
LEMMA WithoutProcFacts ==
    ASSUME NEW ps, NEW pid
    PROVE  /\ DOMAIN WithoutProc(ps, pid) = DOMAIN ps \ {pid}
           /\ \A q \in DOMAIN ps \ {pid} : WithoutProc(ps, pid)[q] = ps[q]
           /\ WithoutProc(ps, pid) = [q \in DOMAIN WithoutProc(ps, pid) |-> WithoutProc(ps, pid)[q]]
BY DEF WithoutProc

\* A new process is of the right type and waits for nobody.
LEMMA NewProcFacts ==
    ASSUME NEW prog \in Programs, NEW t \in Terms
    PROVE  /\ NewProc(prog, t) \in Proc
           /\ NewProc(prog, t).waiting = 0
           /\ NewProc(prog, t).stdout = t
BY DEF NewProc, Proc, Programs, Lines

\* Pids are positive: 0 is never a process.
LEMMA PidFacts ==
    ASSUME TypeOK
    PROVE  /\ 0 \notin Live
           /\ last_pid + 1 \in Nat /\ last_pid + 1 # 0 /\ last_pid + 1 \notin Live
           /\ Live \subseteq Nat
           /\ \A p \in Live : procs[p].stdout \in Terms /\ procs[p].waiting \in Nat
BY DEF TypeOK, Live, Proc

\* The invariant holds after boot.
LEMMA InitInv == Init => Inv
<1> SUFFICES ASSUME Init PROVE Inv
  OBVIOUS
<1>1. DOMAIN procs = {1} /\ procs[1] = NewProc("sh", BootTerm) /\ Live = {1}
  BY DEF Init, Live
<1>2. NewProc("sh", BootTerm) \in Proc /\ NewProc("sh", BootTerm).waiting = 0
      /\ NewProc("sh", BootTerm).stdout = BootTerm
  BY NewProcFacts, SchedAssumption DEF Programs
<1>3. TypeOK
  <2>1. wq \in Seq(Items) /\ runnable \in [nodes : Seq(Nat), len : Int]
    BY DEF Init
  <2>2. DOMAIN procs \subseteq 1..last_pid /\ last_pid \in Nat
    BY <1>1 DEF Init
  <2>3. procs = [p \in DOMAIN procs |-> procs[p]]
    BY DEF Init
  <2>4. \A p \in Live : procs[p] \in Proc
    BY <1>1, <1>2
  <2>5. /\ {curProc, next, inputs, faults} \subseteq Nat
        /\ mode \in {"user", "work", "hlt"}
        /\ sh \in [Terms -> Nat] /\ reading \in [Terms -> Nat] /\ at \in Terms
        /\ reused \in BOOLEAN /\ corrupt \in BOOLEAN
    <3>1. {curProc, next, inputs, faults} \subseteq Nat
      BY DEF Init
    <3>2. sh \in [Terms -> Nat] /\ reading \in [Terms -> Nat]
      BY DEF Init
    <3> QED
      BY <3>1, <3>2, SchedAssumption DEF Init
  <2> QED
    BY <2>1, <2>2, <2>3, <2>4, <2>5 DEF TypeOK
<1>4. GoodList(runnable)
  BY DEF Init, GoodList, Distinct
<1>5. RunnableOnce
  BY <1>1 DEF Init, RunnableOnce
<1>6. NoDoubleWake
  BY <1>1, <1>2 DEF Init, NoDoubleWake
<1>7. ShellAlive
  BY <1>1, <1>2 DEF Init, ShellAlive
<1>8. CpuOwner
  BY <1>1 DEF Init, CpuOwner
<1>9. HltIdle
  BY DEF Init, HltIdle
<1> QED
  BY <1>3, <1>4, <1>5, <1>6, <1>7, <1>8, <1>9 DEF Inv

\* The process that has the CPU, as the invariant describes it.
LEMMA RunningFacts ==
    ASSUME Inv, NEW p, Running(p)
    PROVE  /\ p \in Live /\ p \in Nat /\ p # 0 /\ p = curProc
           /\ Has(runnable, p) /\ next = 0
           /\ \A t \in Terms : reading[t] # p
           /\ \A q \in Live : procs[q].waiting # p
           /\ procs[p].stdout \in Terms
           /\ mode = "user"
<1>1. p = curProc /\ mode = "user"
  BY DEF Running
<1>2. p \in Live /\ Has(runnable, p) /\ next = 0
  BY <1>1 DEF Inv, CpuOwner
<1>3. p \in Nat /\ p # 0 /\ procs[p].stdout \in Terms
  BY <1>2, PidFacts DEF Inv
<1>4. \A t \in Terms : reading[t] # p
  BY <1>2, <1>3 DEF Inv, NoDoubleWake
<1>5. \A q \in Live : procs[q].waiting # p
  BY <1>2, <1>3 DEF Inv, NoDoubleWake
<1> QED
  BY <1>1, <1>2, <1>3, <1>4, <1>5

\* Giving up the CPU: the process leaves the run queue, nobody else does.
LEMMA BlockFacts ==
    ASSUME Inv, NEW p, Running(p), Block(p)
    PROVE  /\ GoodList(runnable')
           /\ \A q : Has(runnable', q) <=> Has(runnable, q) /\ q # p
           /\ curProc' = 0 /\ mode' = "work"
BY RemoveNodeFacts DEF Inv, Block

\* The system call readline.
LEMMA ReadlineInv == ASSUME Inv, NEW p, Readline(p) PROVE Inv'
<1>1. /\ p \in Live /\ p \in Nat /\ p # 0 /\ Has(runnable, p) /\ next = 0
      /\ procs[p].stdout \in Terms
      /\ \A t \in Terms : reading[t] # p
      /\ \A q \in Live : procs[q].waiting # p
  BY RunningFacts DEF Readline
<1>2. /\ GoodList(runnable')
      /\ \A q : Has(runnable', q) <=> Has(runnable, q) /\ q # p
      /\ curProc' = 0 /\ mode' = "work"
  BY BlockFacts DEF Readline
<1>3. /\ procs' = [procs EXCEPT ![p].pc = "got"]
      /\ reading' = [reading EXCEPT ![procs[p].stdout] = p]
      /\ UNCHANGED <<last_pid, next, sh, at, wq, reused, corrupt, inputs, faults>>
  BY DEF Readline
<1>4. /\ Live' = Live
      /\ \A q \in Live : /\ procs'[q].stdout = procs[q].stdout
                         /\ procs'[q].waiting = procs[q].waiting
                         /\ procs'[q] \in Proc
  BY <1>1, <1>3 DEF Inv, TypeOK, Live, Proc
<1>5. TypeOK'
  BY <1>1, <1>2, <1>3, <1>4 DEF Inv, TypeOK, GoodList, Live
<1>6. RunnableOnce'
  BY <1>2, <1>4, QueuedIsLive, QueuedIsLiveNext DEF Inv
<1>7. NoDoubleWake'
  BY <1>1, <1>2, <1>3, <1>4 DEF Inv, NoDoubleWake, TypeOK
<1>8. ShellAlive'
  BY <1>3, <1>4 DEF Inv, ShellAlive
<1>9. CpuOwner'
  BY <1>1, <1>2, <1>3, <1>4, PidFacts DEF Inv, CpuOwner
<1>10. HltIdle'
  BY <1>2 DEF HltIdle
<1> QED
  BY <1>2, <1>5, <1>6, <1>7, <1>8, <1>9, <1>10 DEF Inv

\* The system call runProg: the child is new to everything that names pids.
LEMMA RunProgInv == ASSUME Inv, NEW p, RunProg(p) PROVE Inv'
<1> DEFINE new   == last_pid + 1
           prog  == procs[p].line
           t     == procs[p].stdout
<1>1. /\ p \in Live /\ p \in Nat /\ p # 0 /\ t \in Terms
      /\ p = curProc /\ mode = "user" /\ Has(runnable, p) /\ next = 0
  BY RunningFacts DEF RunProg
<1>2. new \in Nat /\ new # 0 /\ new \notin Live
  BY PidFacts DEF Inv
<1>3. UNCHANGED <<curProc, next, mode, sh, reading, at, wq, reused, corrupt, inputs, faults>>
  BY DEF RunProg
<1>4. ASSUME prog = "other", procs' = [procs EXCEPT ![p].pc = "start"],
             UNCHANGED <<last_pid, runnable>>
      PROVE  Inv'
  <2>1. /\ Live' = Live
        /\ \A q \in Live : /\ procs'[q].stdout = procs[q].stdout
                           /\ procs'[q].waiting = procs[q].waiting
                           /\ procs'[q] \in Proc
    BY <1>1, <1>4 DEF Inv, TypeOK, Live, Proc
  <2>2. TypeOK'
    BY <1>3, <1>4, <2>1 DEF Inv, TypeOK, Live
  <2>3. GoodList(runnable') /\ RunnableOnce'
    BY <1>4, <2>1 DEF Inv, RunnableOnce
  <2>4. NoDoubleWake'
    BY <1>3, <1>4, <2>1 DEF Inv, NoDoubleWake
  <2>5. ShellAlive'
    BY <1>3, <2>1 DEF Inv, ShellAlive
  <2>6. CpuOwner'
    BY <1>3, <1>4, <2>1 DEF Inv, CpuOwner
  <2>7. HltIdle'
    BY <1>1, <1>3 DEF HltIdle
  <2> QED
    BY <2>2, <2>3, <2>4, <2>5, <2>6, <2>7 DEF Inv
<1>5. ASSUME prog \in Programs,
             CreateProc([procs EXCEPT ![p].pc = "wait", ![p].child = new], prog, t)
      PROVE  Inv'
  <2> DEFINE mid == [procs EXCEPT ![p].pc = "wait", ![p].child = new]
  <2>1. /\ DOMAIN mid = Live
        /\ \A q \in Live : /\ mid[q].stdout = procs[q].stdout
                           /\ mid[q].waiting = procs[q].waiting
                           /\ mid[q] \in Proc
    BY <1>1, <1>2 DEF Inv, TypeOK, Live, Proc
  <2>2. /\ NewProc(prog, t) \in Proc /\ NewProc(prog, t).waiting = 0
    BY <1>1, <1>5, NewProcFacts
  <2> HIDE DEF mid
  <2>3. procs' = WithProc(mid, new, NewProc(prog, t))
    BY <1>5 DEF mid, CreateProc
  <2>4. /\ Live' = Live \cup {new}
        /\ procs'[new] = NewProc(prog, t)
        /\ \A q \in Live : procs'[q] = mid[q]
        /\ procs' = [q \in DOMAIN procs' |-> procs'[q]]
    <3> DEFINE w == WithProc(mid, new, NewProc(prog, t))
    <3>1. /\ DOMAIN w = DOMAIN mid \cup {new} /\ w[new] = NewProc(prog, t)
          /\ \A q \in DOMAIN mid \ {new} : w[q] = mid[q]
          /\ w = [q \in DOMAIN w |-> w[q]]
      BY DEF WithProc
    <3> HIDE DEF w
    <3>2. procs' = w
      BY <2>3 DEF w
    <3> QED
      BY <1>2, <2>1, <3>1, <3>2 DEF Live
  <2>5. /\ GoodList(runnable')
        /\ \A q : Has(runnable', q) <=> Has(runnable, q) \/ q = new
        /\ last_pid' = new
    BY <1>2, <1>5, QueuedIsLive, PushTailFacts DEF Inv, CreateProc
  <2>6. TypeOK'
    BY <1>2, <1>3, <2>1, <2>2, <2>4, <2>5 DEF Inv, TypeOK, GoodList, Live
  <2>7. RunnableOnce'
    BY <2>4, <2>5, QueuedIsLive, QueuedIsLiveNext DEF Inv
  <2>8. NoDoubleWake'
    BY <1>2, <1>3, <2>1, <2>2, <2>4, <2>5 DEF Inv, NoDoubleWake
  <2>9. ShellAlive'
    BY <1>2, <1>3, <2>1, <2>4 DEF Inv, ShellAlive
  <2>10. CpuOwner'
    BY <1>1, <1>2, <1>3, <2>4, <2>5 DEF Inv, CpuOwner
  <2>11. HltIdle'
    BY <1>1, <1>3 DEF HltIdle
  <2> QED
    BY <2>5, <2>6, <2>7, <2>8, <2>9, <2>10, <2>11 DEF Inv
<1> QED
  BY <1>4, <1>5 DEF RunProg

\* The shell's own commands.
LEMMA ShellHelpInv == ASSUME Inv, NEW p, ShellHelp(p) PROVE Inv'
<1>1. p \in Live /\ mode = "user"
  BY RunningFacts DEF ShellHelp
<1>2. /\ procs' = [procs EXCEPT ![p].pc = "start"]
      /\ UNCHANGED <<last_pid, runnable, curProc, next, mode, sh, reading, at, wq,
                     reused, corrupt, inputs, faults>>
  BY DEF ShellHelp
<1>3. /\ Live' = Live
      /\ \A q \in Live : /\ procs'[q].stdout = procs[q].stdout
                         /\ procs'[q].waiting = procs[q].waiting
                         /\ procs'[q] \in Proc
  BY <1>1, <1>2 DEF Inv, TypeOK, Live, Proc
<1>4. TypeOK'
  BY <1>2, <1>3 DEF Inv, TypeOK, Live
<1>5. GoodList(runnable') /\ RunnableOnce'
  BY <1>2, <1>3 DEF Inv, RunnableOnce
<1>6. NoDoubleWake'
  BY <1>2, <1>3 DEF Inv, NoDoubleWake
<1>7. ShellAlive' /\ CpuOwner' /\ HltIdle'
  BY <1>1, <1>2, <1>3 DEF Inv, ShellAlive, CpuOwner, HltIdle
<1> QED
  BY <1>4, <1>5, <1>6, <1>7 DEF Inv

\* The system call wait: the caller is not known to anything else that wakes.
LEMMA WaitInv == ASSUME Inv, NEW p, Wait(p) PROVE Inv'
<1> DEFINE c == procs[p].child
<1>1. /\ p \in Live /\ p \in Nat /\ p # 0 /\ Has(runnable, p) /\ next = 0
      /\ p = curProc /\ mode = "user"
      /\ \A t \in Terms : reading[t] # p
      /\ \A q \in Live : procs[q].waiting # p
  BY RunningFacts DEF Wait
<1>2. UNCHANGED <<last_pid, next, sh, reading, at, wq, reused, corrupt, inputs, faults>>
  BY DEF Wait
<1>3. ASSUME c \in Live, procs' = [procs EXCEPT ![p].pc = "start", ![c].waiting = p],
             Block(p)
      PROVE  Inv'
  <2>1. /\ GoodList(runnable')
        /\ \A q : Has(runnable', q) <=> Has(runnable, q) /\ q # p
        /\ curProc' = 0 /\ mode' = "work"
    BY <1>3, BlockFacts DEF Wait
  <2>2. /\ Live' = Live
        /\ \A q \in Live : /\ procs'[q].stdout = procs[q].stdout
                           /\ procs'[q].waiting = IF q = c THEN p ELSE procs[q].waiting
                           /\ procs'[q] \in Proc
        /\ procs' = [q \in DOMAIN procs' |-> procs'[q]]
    <3> DEFINE mid == [procs EXCEPT ![p].pc = "start"]
    <3>1. /\ DOMAIN mid = Live
          /\ \A q \in Live : /\ mid[q].stdout = procs[q].stdout
                             /\ mid[q].waiting = procs[q].waiting
                             /\ mid[q] \in Proc
      BY <1>1 DEF Inv, TypeOK, Live, Proc
    <3>2. procs' = [mid EXCEPT ![c].waiting = p]
      BY <1>3
    <3> HIDE DEF mid
    <3>3. /\ Live' = Live
          /\ procs' = [q \in DOMAIN procs' |-> procs'[q]]
          /\ \A q \in Live \ {c} : procs'[q] = mid[q]
          /\ procs'[c] = [mid[c] EXCEPT !.waiting = p]
      BY <1>3, <3>1, <3>2 DEF Live
    <3>4. /\ procs'[c].stdout = mid[c].stdout
          /\ procs'[c].waiting = p
          /\ procs'[c] \in Proc
      BY <1>1, <1>3, <3>1, <3>3 DEF Proc
    <3> HIDE DEF c
    <3>5. ASSUME NEW q \in Live
          PROVE  /\ procs'[q].stdout = procs[q].stdout
                 /\ procs'[q].waiting = IF q = c THEN p ELSE procs[q].waiting
                 /\ procs'[q] \in Proc
      <4>1. CASE q = c
        BY <3>1, <3>4, <4>1
      <4>2. CASE q # c
        BY <3>1, <3>3, <4>2
      <4> QED
        BY <4>1, <4>2
    <3> QED
      BY <3>3, <3>5
  <2>3. TypeOK'
    <3> HIDE DEF c
    <3>1. DOMAIN procs' \subseteq 1..last_pid'
      BY <1>2, <2>2 DEF Inv, TypeOK, Live
    <3>2. /\ last_pid' \in Nat
          /\ {curProc', next', inputs', faults'} \subseteq Nat
          /\ mode' \in {"user", "work", "hlt"}
          /\ sh' \in [Terms -> Nat] /\ reading' \in [Terms -> Nat] /\ at' \in Terms
          /\ wq' \in Seq(Items) /\ reused' \in BOOLEAN /\ corrupt' \in BOOLEAN
      BY <1>2, <2>1 DEF Inv, TypeOK
    <3>3. \A q \in Live' : procs'[q] \in Proc
      BY <2>2
    <3>4. runnable' \in [nodes : Seq(Nat), len : Int]
      BY <2>1 DEF GoodList
    <3> QED
      BY <2>2, <3>1, <3>2, <3>3, <3>4 DEF TypeOK
  <2>4. RunnableOnce'
    BY <2>1, <2>2, QueuedIsLive, QueuedIsLiveNext DEF Inv
  <2>5. NoDoubleWake'
    <3> HIDE DEF c
    <3>1. ASSUME NEW t \in Terms, reading'[t] # 0
          PROVE  /\ reading'[t] \in Live' /\ ~Has(runnable', reading'[t])
                 /\ procs'[reading'[t]].stdout = t
      BY <1>2, <2>1, <2>2, <3>1 DEF Inv, NoDoubleWake
    <3>2. ASSUME NEW q \in Live', procs'[q].waiting # 0
          PROVE  /\ procs'[q].waiting \in Live'
                 /\ ~Has(runnable', procs'[q].waiting)
                 /\ \A t \in Terms : reading'[t] # procs'[q].waiting
                 /\ \A r \in Live' : procs'[r].waiting = procs'[q].waiting => r = q
      <4>0. reading' = reading /\ Live' = Live /\ q \in Live
        BY <1>2, <2>2, <3>2
      <4>1. CASE q = c
        <5>1. procs'[q].waiting = p
          BY <2>2, <4>0, <4>1
        <5>2. ASSUME NEW r \in Live, procs'[r].waiting = p PROVE r = q
          BY <1>1, <2>2, <4>1, <5>2
        <5> QED
          BY <1>1, <2>1, <4>0, <5>1, <5>2
      <4>2. CASE q # c
        <5>1. procs'[q].waiting = procs[q].waiting /\ procs[q].waiting # p
          BY <1>1, <2>2, <4>0, <4>2
        <5>2. ASSUME NEW r \in Live, procs'[r].waiting = procs[q].waiting PROVE r = q
          BY <1>1, <2>2, <3>2, <4>0, <5>1, <5>2 DEF Inv, NoDoubleWake
        <5> QED
          BY <2>1, <3>2, <4>0, <5>1, <5>2 DEF Inv, NoDoubleWake
      <4> QED
        BY <4>1, <4>2
    <3> QED
      BY <3>1, <3>2 DEF NoDoubleWake
  <2>6. ShellAlive'
    BY <1>2, <2>2 DEF Inv, ShellAlive
  <2>7. CpuOwner'
    BY <1>1, <1>2, <2>1, <2>2, PidFacts DEF Inv, CpuOwner
  <2>8. HltIdle'
    BY <2>1 DEF HltIdle
  <2> QED
    BY <2>1, <2>3, <2>4, <2>5, <2>6, <2>7, <2>8 DEF Inv
<1>4. ASSUME c \notin Live, procs' = [procs EXCEPT ![p].pc = "start"],
             UNCHANGED <<runnable, curProc, mode>>
      PROVE  Inv'
  <2>1. /\ Live' = Live
        /\ \A q \in Live : /\ procs'[q].stdout = procs[q].stdout
                           /\ procs'[q].waiting = procs[q].waiting
                           /\ procs'[q] \in Proc
    BY <1>1, <1>4 DEF Inv, TypeOK, Live, Proc
  <2>2. TypeOK'
    <3>1. procs' = [q \in DOMAIN procs' |-> procs'[q]]
      BY <1>4
    <3>2. DOMAIN procs' \subseteq 1..last_pid'
      BY <1>2, <2>1 DEF Inv, TypeOK, Live
    <3> HIDE DEF c
    <3> QED
      BY <1>2, <1>4, <2>1, <3>1, <3>2 DEF Inv, TypeOK
  <2>3. GoodList(runnable') /\ RunnableOnce'
    BY <1>4, <2>1 DEF Inv, RunnableOnce
  <2>4. NoDoubleWake'
    BY <1>2, <1>4, <2>1 DEF Inv, NoDoubleWake
  <2>5. ShellAlive' /\ CpuOwner' /\ HltIdle'
    BY <1>1, <1>2, <1>4, <2>1 DEF Inv, ShellAlive, CpuOwner, HltIdle
  <2> QED
    BY <2>2, <2>3, <2>4, <2>5 DEF Inv
<1> QED
  BY <1>3, <1>4 DEF Wait, Found

\* The run queue once killProc has woken everybody and taken the process out.
LEMMA KillQueueFacts ==
    ASSUME Inv, NEW p, Running(p)
    PROVE  /\ GoodList(Woken(p)) /\ Has(Woken(p), p) /\ ~Has(Woken(p), 0)
           /\ GoodList(RemoveItem(Woken(p), p))
           /\ \A q : Has(RemoveItem(Woken(p), p), q) <=>
                 q # p /\ \/ Has(runnable, q)
                          \/ IsShell(p) /\ q = last_pid + 1
                          \/ q = Waiter(p) /\ q # 0
<1> DEFINE new == last_pid + 1
<1>1. p \in Live /\ Has(runnable, p)
  BY RunningFacts
<1>2. /\ 0 \notin Live /\ new \in Nat /\ new # 0 /\ new \notin Live
      /\ Live \subseteq Nat
  BY PidFacts DEF Inv
<1>3. GoodList(runnable) /\ \A q : Has(runnable, q) => q \in Live
  BY QueuedIsLive DEF Inv
<1>4. Waiter(p) # 0 => Waiter(p) \in Live /\ ~Has(runnable, Waiter(p))
  BY <1>1 DEF Inv, NoDoubleWake, Waiter
<1>5. /\ GoodList(Respawned(p))
      /\ \A q : Has(Respawned(p), q) <=> Has(runnable, q) \/ (IsShell(p) /\ q = new)
  <2>1. CASE IsShell(p)
    BY <1>2, <1>3, <2>1, PushTailFacts DEF Respawned
  <2>2. CASE ~IsShell(p)
    BY <1>3, <2>2 DEF Respawned
  <2> QED
    BY <2>1, <2>2
<1>6. /\ GoodList(Woken(p))
      /\ \A q : Has(Woken(p), q) <=> Has(Respawned(p), q) \/ (q = Waiter(p) /\ q # 0)
  <2>1. CASE Waiter(p) # 0
    <3>1. Waiter(p) \in Live /\ ~Has(runnable, Waiter(p))
      BY <1>4, <2>1
    <3>2. Waiter(p) \in Nat /\ Waiter(p) # new
      BY <1>2, <3>1
    <3>3. ~Has(Respawned(p), Waiter(p))
      BY <1>5, <3>1, <3>2
    <3> QED
      BY <1>5, <2>1, <3>2, <3>3, PushTailFacts DEF Woken
  <2>2. CASE Waiter(p) = 0
    BY <1>5, <2>2 DEF Woken
  <2> QED
    BY <2>1, <2>2
<1>7. Has(Woken(p), p) /\ ~Has(Woken(p), 0)
  BY <1>1, <1>2, <1>3, <1>5, <1>6
<1>8. /\ GoodList(RemoveItem(Woken(p), p))
      /\ \A q : Has(RemoveItem(Woken(p), p), q) <=> Has(Woken(p), q) /\ q # p
  BY <1>6, <1>7, RemoveItemFacts
<1> QED
  BY <1>5, <1>6, <1>7, <1>8

\* The process table killProc leaves.
LEMMA KillTableFacts ==
    ASSUME Inv, NEW p, Running(p), KillProc(p)
    PROVE  /\ Live' = (Live \ {p}) \cup (IF IsShell(p) THEN {last_pid + 1} ELSE {})
           /\ procs' = [q \in DOMAIN procs' |-> procs'[q]]
           /\ \A q \in Live \ {p} : procs'[q] = procs[q]
           /\ IsShell(p) => procs'[last_pid + 1] = NewProc("sh", procs[p].stdout)
<1> DEFINE new  == last_pid + 1
           rest == WithoutProc(procs, p)
           x    == NewProc("sh", procs[p].stdout)
<1>1. p \in Live /\ new \notin Live
  BY RunningFacts, PidFacts DEF Inv
<1>2. /\ DOMAIN rest = Live \ {p}
      /\ \A q \in Live \ {p} : rest[q] = procs[q]
      /\ rest = [q \in DOMAIN rest |-> rest[q]]
  BY DEF WithoutProc, Live
<1>3. CASE IsShell(p)
  <2> DEFINE w == WithProc(rest, new, x)
  <2>1. /\ DOMAIN w = DOMAIN rest \cup {new} /\ w[new] = x
        /\ \A q \in DOMAIN rest \ {new} : w[q] = rest[q]
        /\ w = [q \in DOMAIN w |-> w[q]]
    BY DEF WithProc
  <2>2. procs' = w
    BY <1>3 DEF KillProc
  <2> HIDE DEF w, rest, x
  <2>3. /\ Live' = (Live \ {p}) \cup {new}
        /\ procs' = [q \in DOMAIN procs' |-> procs'[q]]
        /\ \A q \in Live \ {p} : procs'[q] = procs[q]
        /\ procs'[new] = x
    BY <1>1, <1>2, <2>1, <2>2 DEF Live
  <2> QED
    BY <1>3, <2>3 DEF x
<1>4. CASE ~IsShell(p)
  <2>1. procs' = rest
    BY <1>4 DEF KillProc
  <2> HIDE DEF rest
  <2> QED
    BY <1>2, <1>4, <2>1 DEF Live
<1> QED
  BY <1>3, <1>4

\* killProc of the process that has the CPU, on the way to waitloop.
LEMMA KillProcInv ==
    ASSUME Inv, NEW p, Running(p), KillProc(p), mode' = "work",
           UNCHANGED <<reading, at, wq, reused, corrupt>>,
           inputs' \in Nat, faults' \in Nat
    PROVE  Inv'
<1> DEFINE new == last_pid + 1
           t   == procs[p].stdout
           w   == Waiter(p)
<1>1. /\ p \in Live /\ p \in Nat /\ p # 0 /\ Has(runnable, p) /\ t \in Terms
      /\ \A u \in Terms : reading[u] # p
      /\ \A q \in Live : procs[q].waiting # p
  BY RunningFacts
<1>2. /\ 0 \notin Live /\ new \in Nat /\ new # 0 /\ new \notin Live
      /\ \A q \in Live : procs[q].waiting \in Nat
  BY PidFacts DEF Inv
<1>3. /\ Live' = (Live \ {p}) \cup (IF IsShell(p) THEN {new} ELSE {})
      /\ procs' = [q \in DOMAIN procs' |-> procs'[q]]
      /\ \A q \in Live \ {p} : procs'[q] = procs[q]
      /\ IsShell(p) => procs'[new] = NewProc("sh", t)
  BY KillTableFacts
<1>4. /\ NewProc("sh", t) \in Proc /\ NewProc("sh", t).waiting = 0
      /\ NewProc("sh", t).stdout = t
  BY <1>1, NewProcFacts DEF Programs
<1>5. /\ GoodList(Woken(p)) /\ Has(Woken(p), p) /\ ~Has(Woken(p), 0)
      /\ GoodList(runnable')
      /\ \A q : Has(runnable', q) <=>
            q # p /\ \/ Has(runnable, q)
                     \/ IsShell(p) /\ q = new
                     \/ q = w /\ q # 0
      /\ runnable' = RemoveItem(Woken(p), p)
  BY KillQueueFacts DEF KillProc
<1>6. /\ curProc' = 0 \/ curProc' = p
      /\ next' \in Nat
      /\ next' # 0 => next' # p /\ Has(Woken(p), next')
  BY <1>5, NextFacts DEF KillProc
<1>7. /\ sh' = IF IsShell(p) THEN [sh EXCEPT ![t] = new] ELSE sh
      /\ last_pid' = IF IsShell(p) THEN new ELSE last_pid
  BY DEF KillProc
<1>8. \A q \in Live : q # p /\ w # 0 /\ procs[q].waiting = w => FALSE
  BY <1>1 DEF Inv, NoDoubleWake, Waiter
<1>9. w # 0 => w \in Live /\ w # p /\ (\A u \in Terms : reading[u] # w)
  BY <1>1 DEF Inv, NoDoubleWake, Waiter
<1> HIDE DEF new, t, w
<1>10. TypeOK'
  <2>1. DOMAIN procs' \subseteq 1..last_pid' /\ last_pid' \in Nat
    <3>1. last_pid \in Nat /\ Live \subseteq 1..last_pid /\ new = last_pid + 1
      BY DEF Inv, TypeOK, Live, new
    <3> QED
      BY <1>3, <1>7, <3>1 DEF Live
  <2>2. \A q \in Live' : procs'[q] \in Proc
    BY <1>3, <1>4 DEF Inv, TypeOK
  <2>3. sh' \in [Terms -> Nat]
    BY <1>2, <1>7 DEF Inv, TypeOK
  <2>4. runnable' \in [nodes : Seq(Nat), len : Int]
    BY <1>5 DEF GoodList
  <2>5. {curProc', next', inputs', faults'} \subseteq Nat
    BY <1>1, <1>6
  <2> QED
    BY <1>3, <2>1, <2>2, <2>3, <2>4, <2>5 DEF Inv, TypeOK
<1>11. RunnableOnce'
  <2>1. \A q : Has(runnable', q) => q \in Live'
    BY <1>3, <1>5, <1>9, QueuedIsLive DEF Inv
  <2> QED
    BY <1>5, <2>1, QueuedIsLiveNext
<1>12. NoDoubleWake'
  <2>1. ASSUME NEW u \in Terms, reading'[u] # 0
        PROVE  /\ reading'[u] \in Live' /\ ~Has(runnable', reading'[u])
               /\ procs'[reading'[u]].stdout = u
    <3>1. /\ reading'[u] = reading[u] /\ reading[u] \in Live /\ reading[u] # p
          /\ ~Has(runnable, reading[u]) /\ procs[reading[u]].stdout = u
          /\ reading[u] # new
      BY <1>1, <1>2, <2>1 DEF Inv, NoDoubleWake
    <3> QED
      BY <1>3, <1>5, <1>9, <3>1
  <2>2. ASSUME NEW q \in Live', procs'[q].waiting # 0
        PROVE  /\ procs'[q].waiting \in Live'
               /\ ~Has(runnable', procs'[q].waiting)
               /\ \A u \in Terms : reading'[u] # procs'[q].waiting
               /\ \A r \in Live' : procs'[r].waiting = procs'[q].waiting => r = q
    <3>1. q \in Live /\ q # p /\ procs'[q] = procs[q]
      BY <1>2, <1>3, <1>4, <2>2
    <3> DEFINE v == procs[q].waiting
    <3>2. /\ v # 0 /\ v \in Live /\ ~Has(runnable, v) /\ v # p /\ v # new /\ v # w
          /\ \A u \in Terms : reading[u] # v
          /\ \A r \in Live : procs[r].waiting = v => r = q
      BY <1>1, <1>2, <1>8, <2>2, <3>1 DEF Inv, NoDoubleWake
    <3>3. \A r \in Live' : procs'[r].waiting = v => r = q
      BY <1>2, <1>3, <1>4, <3>2
    <3> HIDE DEF v
    <3>4. procs'[q].waiting = v
      BY <3>1 DEF v
    <3> QED
      BY <1>3, <1>5, <3>2, <3>3, <3>4
  <2> QED
    BY <2>1, <2>2 DEF NoDoubleWake
<1>13. ShellAlive'
  <2> SUFFICES ASSUME NEW u \in Terms, sh'[u] # 0
               PROVE  sh'[u] \in Live' /\ procs'[sh'[u]].stdout = u
    BY DEF ShellAlive
  <2>1. CASE IsShell(p) /\ u = t
    <3>1. sh'[u] = new
      BY <1>7, <2>1 DEF Inv, TypeOK
    <3> QED
      BY <1>3, <1>4, <2>1, <3>1
  <2>2. CASE ~(IsShell(p) /\ u = t)
    <3>1. sh'[u] = sh[u] /\ sh[u] \in Live /\ procs[sh[u]].stdout = u
      BY <1>7, <2>2 DEF Inv, TypeOK, ShellAlive
    <3>2. sh[u] # p
      BY <2>2, <3>1 DEF IsShell, t
    <3> QED
      BY <1>3, <3>1, <3>2
  <2> QED
    BY <2>1, <2>2
<1>14. CpuOwner'
  <2>1. curProc' \notin Live'
    BY <1>1, <1>2, <1>3, <1>6 DEF new
  <2>2. next' # 0 => Has(runnable', next')
    BY <1>5, <1>6, RemoveItemFacts
  <2> QED
    BY <2>1, <2>2 DEF CpuOwner
<1>15. HltIdle'
  BY DEF HltIdle
<1> QED
  BY <1>5, <1>10, <1>11, <1>12, <1>13, <1>14, <1>15 DEF Inv

\* Both ways a process dies.
LEMMA ExitInv == ASSUME Inv, NEW p, Exit(p) PROVE Inv'
BY KillProcInv DEF Exit, Inv, TypeOK

\* A fault in user mode ends the process as exit does.
LEMMA FaultInv == ASSUME Inv, NEW p, Fault(p) PROVE Inv'
<1>1. inputs' \in Nat /\ faults' \in Nat
  BY DEF Fault, Inv, TypeOK
<1> QED
  BY <1>1, KillProcInv DEF Fault

\* The timer.
LEMMA PreemptInv == Inv /\ Preempt => Inv'
<1> SUFFICES ASSUME Inv, Preempt PROVE Inv'
  OBVIOUS
<1>1. /\ UNCHANGED <<procs, last_pid, runnable, curProc, next, sh, reading, at, wq,
                     reused, corrupt, inputs, faults>>
      /\ mode' = "work" /\ Live' = Live
  BY DEF Preempt, Live
<1>2. TypeOK'
  BY <1>1 DEF Inv, TypeOK
<1>3. GoodList(runnable') /\ RunnableOnce'
  BY <1>1 DEF Inv, RunnableOnce
<1>4. NoDoubleWake' /\ ShellAlive'
  BY <1>1 DEF Inv, NoDoubleWake, ShellAlive
<1>5. CpuOwner' /\ HltIdle'
  BY <1>1 DEF Inv, CpuOwner, HltIdle
<1> QED
  BY <1>2, <1>3, <1>4, <1>5 DEF Inv

\* An interrupt handler only queues work.
LEMMA QueueInv ==
    ASSUME Inv, NEW item \in Items, Queue(item), inputs' \in Nat,
           UNCHANGED <<procs, last_pid, runnable, curProc, next, sh, reading, at,
                       reused, corrupt, faults>>
    PROVE  Inv'
<1>1. /\ mode' = IF mode = "hlt" THEN "work" ELSE mode
      /\ wq' = Append(wq, item) /\ Live' = Live
  BY DEF Queue, Live
<1>2. TypeOK'
  <2>1. wq' \in Seq(Items)
    BY <1>1 DEF Inv, TypeOK
  <2> QED
    BY <1>1, <2>1 DEF Inv, TypeOK
<1>3. GoodList(runnable') /\ RunnableOnce'
  BY <1>1 DEF Inv, RunnableOnce
<1>4. NoDoubleWake' /\ ShellAlive'
  BY <1>1 DEF Inv, NoDoubleWake, ShellAlive
<1>5. CpuOwner' /\ HltIdle'
  BY <1>1 DEF Inv, CpuOwner, HltIdle
<1> QED
  BY <1>2, <1>3, <1>4, <1>5 DEF Inv

\* The keyboard handler queues an item.
LEMMA KeyIrqInv == Inv /\ KeyIrq => Inv'
<1> SUFFICES ASSUME Inv, KeyIrq PROVE Inv'
  OBVIOUS
<1>1. PICK item \in KeyItems : Queue(item)
  BY DEF KeyIrq
<1>2. item \in Items
  BY <1>1 DEF Items
<1>3. inputs' \in Nat
  BY DEF KeyIrq, Inv, TypeOK
<1> QED
  BY <1>1, <1>2, <1>3, QueueInv DEF KeyIrq

\* The handler of the periodic interrupt queues an item.
LEMMA CallbackIrqInv == Inv /\ CallbackIrq => Inv'
<1> SUFFICES ASSUME Inv, CallbackIrq PROVE Inv'
  OBVIOUS
<1>1. Clock \in Items
  BY DEF Items
<1>2. inputs' \in Nat
  BY DEF CallbackIrq, Inv, TypeOK
<1> QED
  BY <1>1, <1>2, QueueInv DEF CallbackIrq

\* A line typed for a process puts exactly that process on the run queue.
LEMMA GotLineInv ==
    ASSUME Inv, mode = "work", NEW line \in Lines, GotLine(line),
           UNCHANGED <<curProc, next, mode, corrupt, inputs, faults>>,
           wq' \in Seq(Items), reused' \in BOOLEAN
    PROVE  Inv'
<1> DEFINE r == reading[at]
<1>1. /\ at \in Terms /\ r \in Nat /\ reading' = [reading EXCEPT ![at] = 0]
      /\ UNCHANGED <<last_pid, sh, at>>
  BY DEF GotLine, Inv, TypeOK
<1>2. /\ reading'[at] = 0
      /\ \A t \in Terms : reading'[t] # 0 => reading'[t] = reading[t] /\ t # at
  BY <1>1 DEF Inv, TypeOK
<1>3. 0 \notin Live
  BY PidFacts DEF Inv
<1>4. CASE r \in Live
  <2>1. /\ ~Has(runnable, r) /\ r # 0 /\ procs[r].stdout = at
        /\ \A q \in Live : procs[q].waiting # r
    BY <1>1, <1>3, <1>4 DEF Inv, NoDoubleWake
  <2>2. /\ procs' = [procs EXCEPT ![r].line = line]
        /\ runnable' = PushTail(runnable, r)
    BY <1>4 DEF GotLine, Found
  <2> HIDE DEF r
  <2>3. /\ Live' = Live /\ procs' = [q \in DOMAIN procs' |-> procs'[q]]
        /\ \A q \in Live : /\ procs'[q].stdout = procs[q].stdout
                           /\ procs'[q].waiting = procs[q].waiting
                           /\ procs'[q] \in Proc
    BY <1>4, <2>2 DEF Inv, TypeOK, Live, Proc
  <2>4. /\ GoodList(runnable') /\ runnable'.nodes # <<>>
        /\ \A q : Has(runnable', q) <=> Has(runnable, q) \/ q = r
    BY <1>1, <2>1, <2>2, PushTailFacts DEF Inv
  <2>5. TypeOK'
    <3>1. DOMAIN procs' \subseteq 1..last_pid'
      BY <1>1, <2>3 DEF Inv, TypeOK, Live
    <3>2. runnable' \in [nodes : Seq(Nat), len : Int] /\ reading' \in [Terms -> Nat]
      BY <1>1, <2>4 DEF GoodList, Inv, TypeOK
    <3> QED
      BY <1>1, <2>3, <3>1, <3>2 DEF Inv, TypeOK
  <2>6. RunnableOnce'
    BY <1>4, <2>3, <2>4, QueuedIsLive, QueuedIsLiveNext DEF Inv
  <2>7. NoDoubleWake'
    <3>1. \A t \in Terms : reading[t] = r => t = at
      BY <1>4, <2>1, <1>3 DEF Inv, NoDoubleWake
    <3> QED
      BY <1>2, <1>3, <1>4, <2>1, <2>3, <2>4, <3>1 DEF Inv, NoDoubleWake
  <2>8. ShellAlive' /\ CpuOwner' /\ HltIdle'
    BY <1>1, <2>3, <2>4 DEF Inv, ShellAlive, CpuOwner, HltIdle
  <2> QED
    BY <2>4, <2>5, <2>6, <2>7, <2>8 DEF Inv
<1>5. CASE r \notin Live
  <2>1. UNCHANGED <<procs, runnable>> /\ Live' = Live
    BY <1>5 DEF GotLine, Found, Live
  <2>2. TypeOK'
    BY <1>1, <2>1 DEF Inv, TypeOK
  <2>3. GoodList(runnable') /\ RunnableOnce'
    BY <2>1 DEF Inv, RunnableOnce
  <2>4. NoDoubleWake'
    BY <1>2, <2>1 DEF Inv, NoDoubleWake
  <2>5. ShellAlive' /\ CpuOwner' /\ HltIdle'
    BY <1>1, <2>1 DEF Inv, ShellAlive, CpuOwner, HltIdle
  <2> QED
    BY <2>2, <2>3, <2>4, <2>5 DEF Inv
<1> QED
  BY <1>4, <1>5

\* A terminal shown for the first time gets a shell of its own.
LEMMA ShowTermInv ==
    ASSUME Inv, mode = "work", NEW t \in Terms, ShowTerm(t),
           UNCHANGED <<curProc, next, mode, corrupt, inputs, faults>>,
           wq' \in Seq(Items), reused' \in BOOLEAN
    PROVE  Inv'
<1> DEFINE new == last_pid + 1
           x   == NewProc("sh", t)
<1>1. at' = t /\ reading' = reading
  BY DEF ShowTerm
<1>2. new \in Nat /\ new # 0 /\ new \notin Live
  BY PidFacts DEF Inv
<1>3. x \in Proc /\ x.waiting = 0 /\ x.stdout = t
  BY NewProcFacts DEF Programs
<1>4. CASE sh[t] = 0
  <2> DEFINE w == WithProc(procs, new, x)
  <2>1. /\ DOMAIN w = DOMAIN procs \cup {new} /\ w[new] = x
        /\ \A q \in DOMAIN procs \ {new} : w[q] = procs[q]
        /\ w = [q \in DOMAIN w |-> w[q]]
    BY DEF WithProc
  <2>2. procs' = w /\ sh' = [sh EXCEPT ![t] = new] /\ CreateProc(procs, "sh", t)
    BY <1>4 DEF ShowTerm, CreateProc
  <2> HIDE DEF w, x
  <2>3. /\ Live' = Live \cup {new} /\ procs'[new] = x
        /\ \A q \in Live : procs'[q] = procs[q]
        /\ procs' = [q \in DOMAIN procs' |-> procs'[q]]
    BY <1>2, <2>1, <2>2 DEF Live
  <2>4. /\ GoodList(runnable') /\ last_pid' = new
        /\ \A q : Has(runnable', q) <=> Has(runnable, q) \/ q = new
    BY <1>2, <2>2, QueuedIsLive, PushTailFacts DEF Inv, CreateProc
  <2>5. TypeOK'
    <3>1. DOMAIN procs' \subseteq 1..last_pid' /\ last_pid' \in Nat
      BY <2>3, <2>4 DEF Inv, TypeOK, Live
    <3>2. runnable' \in [nodes : Seq(Nat), len : Int]
      BY <2>4 DEF GoodList
    <3>3. \A q \in Live' : procs'[q] \in Proc
      BY <1>3, <2>3 DEF Inv, TypeOK
    <3>4. sh' \in [Terms -> Nat]
      BY <1>2, <2>2 DEF Inv, TypeOK
    <3> QED
      BY <1>1, <2>3, <3>1, <3>2, <3>3, <3>4 DEF Inv, TypeOK
  <2>6. RunnableOnce'
    BY <2>3, <2>4, QueuedIsLive, QueuedIsLiveNext DEF Inv
  <2>7. NoDoubleWake'
    BY <1>1, <1>2, <1>3, <2>3, <2>4 DEF Inv, NoDoubleWake
  <2>8. ShellAlive'
    <3> SUFFICES ASSUME NEW u \in Terms, sh'[u] # 0
                 PROVE  sh'[u] \in Live' /\ procs'[sh'[u]].stdout = u
      BY DEF ShellAlive
    <3>1. CASE u = t
      <4>1. sh'[u] = new
        BY <2>2, <3>1 DEF Inv, TypeOK
      <4> QED
        BY <1>3, <2>3, <3>1, <4>1
    <3>2. CASE u # t
      <4>1. sh'[u] = sh[u] /\ sh[u] \in Live /\ procs[sh[u]].stdout = u
        BY <2>2, <3>2 DEF Inv, TypeOK, ShellAlive
      <4> QED
        BY <2>3, <4>1
    <3> QED
      BY <3>1, <3>2
  <2>9. CpuOwner' /\ HltIdle'
    <3>1. curProc \notin Live => curProc' \notin Live' \/ Has(runnable', curProc')
      BY <2>3, <2>4
    <3> QED
      BY <2>3, <2>4, <3>1 DEF Inv, CpuOwner, HltIdle
  <2> QED
    BY <2>4, <2>5, <2>6, <2>7, <2>8, <2>9 DEF Inv
<1>5. CASE sh[t] # 0
  <2>1. UNCHANGED <<procs, last_pid, runnable, sh>> /\ Live' = Live
    BY <1>5 DEF ShowTerm, Live
  <2>2. TypeOK'
    BY <1>1, <2>1 DEF Inv, TypeOK
  <2>3. GoodList(runnable') /\ RunnableOnce' /\ NoDoubleWake'
    BY <1>1, <2>1 DEF Inv, RunnableOnce, NoDoubleWake
  <2>4. ShellAlive' /\ CpuOwner' /\ HltIdle'
    BY <1>1, <2>1 DEF Inv, ShellAlive, CpuOwner, HltIdle
  <2> QED
    BY <2>2, <2>3, <2>4 DEF Inv
<1> QED
  BY <1>4, <1>5

\* waitloop running what the interrupt handlers queued.
LEMMA WorkInv == Inv /\ Work => Inv'
<1> SUFFICES ASSUME Inv, Work PROVE Inv'
  OBVIOUS
<1>1. /\ mode = "work" /\ wq # <<>> /\ wq' = Tail(wq)
      /\ UNCHANGED <<curProc, next, mode, corrupt, inputs, faults>>
  BY DEF Work
<1>2. wq' \in Seq(Items) /\ Head(wq) \in Items
  BY <1>1 DEF Inv, TypeOK
<1>3. reused' \in BOOLEAN
  <2>1. PICK hit \in {FALSE, MayReuse} :
           reused' = (reused \/ (hit /\ curProc # 0 /\ curProc \notin Live))
    BY DEF Work
  <2> QED
    BY <2>1, Zenon
<1>4. ASSUME NEW line \in Lines, GotLine(line) PROVE Inv'
  BY <1>1, <1>2, <1>3, <1>4, GotLineInv
<1>5. ASSUME Head(wq).what = "show", ShowTerm(Head(wq).term) PROVE Inv'
  <2>1. Head(wq).term \in Terms
    BY <1>2, SchedAssumption DEF Items, KeyItems, Clock
  <2> QED
    BY <1>1, <1>2, <1>3, <1>5, <2>1, ShowTermInv
<1>6. ASSUME UNCHANGED <<procs, last_pid, runnable, sh, reading, at>> PROVE Inv'
  <2>1. Live' = Live
    BY <1>6 DEF Live
  <2>2. TypeOK'
    BY <1>1, <1>2, <1>3, <1>6, <2>1 DEF Inv, TypeOK
  <2>3. GoodList(runnable') /\ RunnableOnce' /\ NoDoubleWake'
    BY <1>6, <2>1 DEF Inv, RunnableOnce, NoDoubleWake
  <2>4. ShellAlive' /\ CpuOwner' /\ HltIdle'
    BY <1>1, <1>6, <2>1 DEF Inv, ShellAlive, CpuOwner, HltIdle
  <2> QED
    BY <2>2, <2>3, <2>4 DEF Inv
<1> QED
  BY <1>4, <1>5, <1>6 DEF Work

\* The process waitloop chooses is on the run queue; none means an empty one.
LEMMA SuccessorFacts ==
    ASSUME Inv, mode = "work"
    PROVE  /\ Successor \in Nat
           /\ Successor # 0 => Has(runnable, Successor) /\ Successor \in Live
           /\ Successor = 0 => runnable.nodes = <<>>
<1>1. /\ GoodList(runnable) /\ \A q : Has(runnable, q) => q \in Live
      /\ 0 \notin Live /\ Live \subseteq Nat
  BY QueuedIsLive, PidFacts DEF Inv
<1>2. ~Has(runnable, 0)
  BY <1>1
<1>3. /\ Head0(runnable) \in Nat
      /\ Head0(runnable) # 0 <=> runnable.nodes # <<>>
      /\ Head0(runnable) # 0 => Has(runnable, Head0(runnable))
      /\ Has(runnable, curProc) =>
            NextCirc(runnable, curProc) # 0 /\ Has(runnable, NextCirc(runnable, curProc))
  BY <1>1, <1>2, NextFacts
<1>4. CASE curProc = 0
  <2>1. ~(runnable.len > 0) => runnable.nodes = <<>>
    <3>1. /\ runnable.nodes \in Seq(Nat) /\ Len(runnable.nodes) \in Nat
          /\ runnable.len \in Int /\ runnable.len >= Len(runnable.nodes)
      BY <1>1 DEF GoodList
    <3> QED
      BY <3>1
  <2> QED
    BY <1>1, <1>3, <1>4, <2>1 DEF Successor
<1>5. CASE curProc \in Live
  <2>1. Has(runnable, curProc) /\ curProc # 0
    BY <1>1, <1>5 DEF Inv, CpuOwner
  <2> QED
    BY <1>1, <1>3, <1>5, <2>1 DEF Successor
<1>6. CASE curProc # 0 /\ curProc \notin Live
  <2>1. next # 0 => Has(runnable, next)
    BY DEF Inv, CpuOwner
  <2> QED
    BY <1>1, <1>3, <1>6, <2>1 DEF Successor
<1> QED
  BY <1>4, <1>5, <1>6

\* waitloop resuming a process, halting, or following garbage.
LEMMA PickInv == Inv /\ Pick => Inv'
<1> SUFFICES ASSUME Inv, Pick PROVE Inv'
  OBVIOUS
<1>1. /\ mode = "work" /\ Live' = Live
      /\ UNCHANGED <<procs, last_pid, runnable, sh, reading, at, wq, inputs, faults>>
  BY DEF Pick, Live
<1>2. GoodList(runnable') /\ RunnableOnce' /\ NoDoubleWake' /\ ShellAlive'
  BY <1>1 DEF Inv, RunnableOnce, NoDoubleWake, ShellAlive
<1>3. CASE corrupt' = TRUE /\ UNCHANGED <<curProc, next, mode, reused>>
  <2>1. TypeOK'
    BY <1>1, <1>3 DEF Inv, TypeOK
  <2>2. CpuOwner' /\ HltIdle'
    BY <1>1, <1>3 DEF Inv, CpuOwner, HltIdle
  <2> QED
    BY <1>2, <2>1, <2>2 DEF Inv
<1>4. CASE /\ curProc' = Successor
           /\ mode' = IF Successor # 0 THEN "user" ELSE "hlt"
           /\ next' = 0 /\ reused' = FALSE /\ UNCHANGED corrupt
  <2>1. TypeOK'
    <3>1. Successor \in Nat
      BY <1>1, SuccessorFacts
    <3>2. {curProc', next'} \subseteq Nat /\ mode' \in {"user", "work", "hlt"}
      BY <1>4, <3>1
    <3>3. reused' \in BOOLEAN /\ corrupt' = corrupt
      BY <1>4, Zenon
    <3> QED
      BY <1>1, <3>2, <3>3 DEF Inv, TypeOK
  <2>2. CpuOwner'
    <3>1. CASE Successor # 0
      BY <1>1, <1>4, <3>1, SuccessorFacts DEF CpuOwner
    <3>2. CASE Successor = 0
      BY <1>1, <1>4, <3>2, PidFacts DEF CpuOwner, Inv
    <3> QED
      BY <3>1, <3>2
  <2>3. HltIdle'
    BY <1>1, <1>4, SuccessorFacts DEF HltIdle
  <2> QED
    BY <1>2, <2>1, <2>2, <2>3 DEF Inv
<1> QED
  BY <1>3, <1>4 DEF Pick

\* No step leaves the invariant.
LEMMA NextInv == Inv /\ [Next]_vars => Inv'
<1> SUFFICES ASSUME Inv, [Next]_vars PROVE Inv'
  OBVIOUS
<1>1. CASE UserStep(curProc)
  BY <1>1, ReadlineInv, RunProgInv, ShellHelpInv, WaitInv, ExitInv DEF UserStep
<1>2. CASE Fault(curProc)
  BY <1>2, FaultInv
<1>3. CASE Preempt
  BY <1>3, PreemptInv
<1>4. CASE KeyIrq
  BY <1>4, KeyIrqInv
<1>5. CASE CallbackIrq
  BY <1>5, CallbackIrqInv
<1>6. CASE Work
  BY <1>6, WorkInv
<1>7. CASE Pick
  BY <1>7, PickInv
<1>8. CASE UNCHANGED vars
  <2>1. UNCHANGED <<procs, last_pid, runnable, curProc, next, mode, sh, reading, at,
                    wq, reused, corrupt, inputs, faults>> /\ Live' = Live
    BY <1>8 DEF vars, Live
  <2>2. TypeOK'
    BY <2>1 DEF Inv, TypeOK
  <2>3. GoodList(runnable') /\ RunnableOnce' /\ NoDoubleWake' /\ ShellAlive'
    BY <2>1 DEF Inv, RunnableOnce, NoDoubleWake, ShellAlive
  <2>4. CpuOwner' /\ HltIdle'
    BY <2>1 DEF Inv, CpuOwner, HltIdle
  <2> QED
    BY <2>2, <2>3, <2>4 DEF Inv
<1> QED
  BY <1>1, <1>2, <1>3, <1>4, <1>5, <1>6, <1>7, <1>8 DEF Next

\* The inductive invariant holds in every reachable state.
THEOREM Invariance == Spec => []Inv
<1>1. Init => Inv
  BY InitInv
<1>2. Inv /\ [Next]_vars => Inv'
  BY NextInv
<1> QED
  BY <1>1, <1>2, PTL DEF Spec

----------------------------------------------------------------------------
(* The theorems, for any number of terminals, key presses, faults and       *)
(* pending work items, and whether or not freed memory is reused.           *)

\* The variables keep their types.
THEOREM TypeCorrect == Spec => []TypeOK
<1>1. Inv => TypeOK
  BY DEF Inv
<1> QED
  BY <1>1, Invariance, PTL

\* The run queue holds live processes, each of them once: createProc,
\* killProc and gotLine never queue a process twice or a freed one.
THEOREM QueueSound == Spec => []RunnableOnce
<1>1. Inv => RunnableOnce
  BY DEF Inv
<1> QED
  BY <1>1, Invariance, PTL

\* Nothing is set to wake a process that is on the run queue or dead, and no
\* two things the same one (the readers of the terminals and "waiting").
THEOREM WakersSound == Spec => []NoDoubleWake
<1>1. Inv => NoDoubleWake
  BY DEF Inv
<1> QED
  BY <1>1, Invariance, PTL

\* A terminal's shell is alive and its own: procDone replaces a dead one.
THEOREM ShellsSound == Spec => []ShellAlive
<1>1. Inv => ShellAlive
  BY DEF Inv
<1> QED
  BY <1>1, Invariance, PTL

\* The process with the CPU is on the run queue, and the pointer waitloop
\* finds in the freed node of a killed one leads to a process that is.
THEOREM CpuSound == Spec => []CpuOwner
<1>1. Inv => CpuOwner
  BY DEF Inv
<1> QED
  BY <1>1, Invariance, PTL

\* waitloop halts the CPU only with an empty run queue.
THEOREM HltSound == Spec => []HltIdle
<1>1. Inv => HltIdle
  BY DEF Inv
<1> QED
  BY <1>1, Invariance, PTL

----------------------------------------------------------------------------
(* Who wakes a blocked process.  BlockedHasWaker is not inductive: a second  *)
(* reader of a terminal, or a second process that waits for a child, would   *)
(* displace the first.  It holds because the processes of a terminal form a  *)
(* chain, each holding the next, in which only the youngest can read or      *)
(* start another; a fault breaks the chain in the middle.                    *)

\* p has started r and has not yet waited for it, or waits for it.
Holds(p, r) ==
    \/ procs[p].pc = "wait" /\ procs[p].child = r
    \/ procs[r].waiting = p

\* A process is younger than the one that holds it, on the same terminal.
HeldYounger ==
    \A p, r \in Live : Holds(p, r) => p < r /\ procs[r].stdout = procs[p].stdout

\* Of the processes on a terminal, all but the youngest hold another one.
OneActive ==
    \A p, q \in Live : p < q /\ procs[q].stdout = procs[p].stdout =>
        \E r \in Live : Holds(p, r) /\ r <= q

\* The shell of a terminal is the eldest of its processes.
ShellEldest ==
    \A p \in Live : sh[procs[p].stdout] # 0 /\ sh[procs[p].stdout] <= p

\* Only a shell waits, for a pid that has been given out.
ChildrenNamed ==
    \A p \in Live : procs[p].pc = "wait" =>
        procs[p].prog = "sh" /\ procs[p].child <= last_pid

\* A reader is past its readline, a waiter past its wait.
BlockedPast ==
    /\ \A t \in Terms : reading[t] # 0 => procs[reading[t]].pc = "got"
    /\ \A q \in Live : procs[q].waiting # 0 => procs[procs[q].waiting].pc = "start"

Family == HeldYounger /\ OneActive /\ ShellEldest /\ ChildrenNamed /\ BlockedPast

WakerInv == faults = 0 => Family /\ BlockedHasWaker

\* The only process of its terminal that can do something is its youngest.
LEMMA ActiveIsYoungest ==
    ASSUME Inv, Family, NEW p, Running(p),
           procs[p].pc = "wait" => procs[p].child \notin Live
    PROVE  \A q \in Live : procs[q].stdout = procs[p].stdout => q <= p
<1>1. /\ p \in Live /\ p \in Nat /\ Live \subseteq Nat
      /\ \A r \in Live : procs[r].waiting # p
  BY RunningFacts, PidFacts DEF Inv
<1>2. \A r \in Live : ~Holds(p, r)
  BY <1>1 DEF Holds
<1>3. ASSUME NEW q \in Live, procs[q].stdout = procs[p].stdout PROVE ~(p < q)
  BY <1>1, <1>2, <1>3 DEF Family, OneActive
<1> QED
  BY <1>1, <1>3

\* A step after which the same processes hold each other.
LEMMA SameFamily ==
    ASSUME Inv, Family, Live' = Live, UNCHANGED sh,
           \A q \in Live : procs'[q].stdout = procs[q].stdout,
           \A q, r \in Live : Holds(q, r)' <=> Holds(q, r)
    PROVE  HeldYounger' /\ OneActive' /\ ShellEldest'
<1>1. HeldYounger' /\ OneActive'
  BY DEF Family, HeldYounger, OneActive
<1>2. ShellEldest'
  BY DEF Family, ShellEldest
<1> QED
  BY <1>1, <1>2

\* A step of the process p that changes only where it is.
LEMMA PcFacts ==
    ASSUME Inv, NEW p \in Live, NEW x, procs' = [procs EXCEPT ![p].pc = x]
    PROVE  /\ Live' = Live
           /\ procs'[p].pc = x
           /\ \A q \in Live : /\ procs'[q].stdout = procs[q].stdout
                              /\ procs'[q].prog = procs[q].prog
                              /\ procs'[q].waiting = procs[q].waiting
                              /\ procs'[q].child = procs[q].child
                              /\ q # p => procs'[q].pc = procs[q].pc
BY DEF Inv, TypeOK, Live, Proc

\* readline: no other process is reading, so that none is displaced.
LEMMA ReadlineWakers ==
    ASSUME Inv, Family, BlockedHasWaker, faults = 0, NEW p, Readline(p)
    PROVE  Family' /\ BlockedHasWaker'
<1> DEFINE t == procs[p].stdout
<1>1. /\ p \in Live /\ p \in Nat /\ p # 0 /\ t \in Terms /\ Has(runnable, p)
      /\ \A u \in Terms : reading[u] # p
  BY RunningFacts DEF Readline
<1>2. /\ \A q : Has(runnable', q) <=> Has(runnable, q) /\ q # p
      /\ procs[p].pc = "start" /\ procs' = [procs EXCEPT ![p].pc = "got"]
      /\ reading' = [reading EXCEPT ![t] = p]
      /\ UNCHANGED <<last_pid, sh, faults>>
  BY BlockFacts DEF Readline
<1>3. /\ Live' = Live /\ procs'[p].pc = "got"
      /\ \A q \in Live : /\ procs'[q].stdout = procs[q].stdout
                         /\ procs'[q].prog = procs[q].prog
                         /\ procs'[q].waiting = procs[q].waiting
                         /\ procs'[q].child = procs[q].child
                         /\ q # p => procs'[q].pc = procs[q].pc
  BY <1>1, <1>2, PcFacts
<1>4. \A q, r \in Live : Holds(q, r)' <=> Holds(q, r)
  BY <1>2, <1>3 DEF Holds
<1>9. HeldYounger' /\ OneActive' /\ ShellEldest'
  BY <1>2, <1>3, <1>4, SameFamily
<1>10. ChildrenNamed'
  BY <1>2, <1>3 DEF Family, ChildrenNamed
<1>5. reading[t] = 0
  <2> SUFFICES ASSUME reading[t] # 0 PROVE FALSE
    OBVIOUS
  <2> DEFINE q == reading[t]
  <2>1. /\ q \in Live /\ procs[q].stdout = t /\ procs[q].pc = "got" /\ q # p
        /\ \A r \in Live : procs[r].waiting # q
    BY <1>1 DEF Inv, NoDoubleWake, Family, BlockedPast
  <2>2. q <= p /\ q \in Nat
    BY <1>2, <2>1, ActiveIsYoungest, PidFacts DEF Readline, Inv
  <2>3. q < p
    BY <1>1, <2>1, <2>2
  <2>4. PICK r \in Live : Holds(q, r)
    BY <1>1, <2>1, <2>3 DEF Family, OneActive
  <2> QED
    BY <2>1, <2>4 DEF Holds
<1>6. \A u \in Terms : reading'[u] = IF u = t THEN p ELSE reading[u]
  BY <1>2 DEF Inv, TypeOK
<1>7. BlockedPast'
  <2>1. ASSUME NEW u \in Terms, reading'[u] # 0 PROVE procs'[reading'[u]].pc = "got"
    <3>1. CASE u = t
      BY <1>3, <1>6, <3>1
    <3>2. CASE u # t
      <4>1. reading'[u] = reading[u] /\ reading[u] \in Live /\ reading[u] # p /\ procs[reading[u]].pc = "got"
        BY <1>1, <1>6, <2>1, <3>2 DEF Family, BlockedPast, Inv, NoDoubleWake
      <4> QED
        BY <1>3, <4>1
    <3> QED
      BY <3>1, <3>2
  <2>2. ASSUME NEW q \in Live, procs'[q].waiting # 0 PROVE procs'[procs'[q].waiting].pc = "start"
    <3>1. procs[q].waiting \in Live /\ procs[q].waiting # p /\ procs[procs[q].waiting].pc = "start"
      BY <1>3, <2>2, RunningFacts DEF Readline, Family, BlockedPast, Inv, NoDoubleWake
    <3> QED
      BY <1>3, <3>1
  <2> QED
    BY <1>3, <2>1, <2>2 DEF BlockedPast
<1>8. BlockedHasWaker'
  <2> SUFFICES ASSUME NEW q \in Live, ~Has(runnable', q)
               PROVE  \/ \E u \in Terms : reading'[u] = q
                      \/ \E r \in Live : procs'[r].waiting = q
    BY <1>3 DEF BlockedHasWaker
  <2>1. CASE q = p
    BY <1>1, <1>6, <2>1
  <2>2. CASE q # p
    <3>1. \/ \E u \in Terms : reading[u] = q
          \/ \E r \in Live : procs[r].waiting = q
      BY <1>2, <2>2 DEF BlockedHasWaker
    <3>2. q # 0
      BY PidFacts DEF Inv
    <3> QED
      BY <1>3, <1>5, <1>6, <3>1, <3>2
  <2> QED
    BY <2>1, <2>2
<1> QED
  BY <1>7, <1>8, <1>9, <1>10 DEF Family

\* Steps that wake nobody, block nobody and leave the families as they are.
LEMMA SameWakers ==
    ASSUME Inv, Family, BlockedHasWaker, faults = 0,
           Live' = Live, UNCHANGED <<sh, last_pid, reading, runnable, faults>>,
           \A q \in Live : /\ procs'[q].stdout = procs[q].stdout
                           /\ procs'[q].prog = procs[q].prog
                           /\ procs'[q].waiting = procs[q].waiting
                           /\ procs'[q].pc = "wait" => procs[q].pc = "wait" /\ procs'[q].child = procs[q].child
                           /\ ~Has(runnable, q) => procs'[q].pc = procs[q].pc,
           \A q, r \in Live : Holds(q, r)' <=> Holds(q, r)
    PROVE  Family' /\ BlockedHasWaker'
<1>1. HeldYounger' /\ OneActive' /\ ShellEldest'
  BY SameFamily
<1>2. ChildrenNamed'
  BY DEF Family, ChildrenNamed
<1>3. BlockedPast'
  <2>1. ASSUME NEW u \in Terms, reading'[u] # 0 PROVE procs'[reading'[u]].pc = "got"
    BY <2>1 DEF Family, BlockedPast, Inv, NoDoubleWake
  <2>2. ASSUME NEW q \in Live, procs'[q].waiting # 0 PROVE procs'[procs'[q].waiting].pc = "start"
    <3>1. /\ procs'[q].waiting = procs[q].waiting /\ procs[q].waiting \in Live
          /\ ~Has(runnable, procs[q].waiting) /\ procs[procs[q].waiting].pc = "start"
      BY <2>2 DEF Family, BlockedPast, Inv, NoDoubleWake
    <3> QED
      BY <3>1
  <2> QED
    BY <2>1, <2>2 DEF BlockedPast
<1>4. BlockedHasWaker'
  BY DEF BlockedHasWaker
<1> QED
  BY <1>1, <1>2, <1>3, <1>4 DEF Family

\* A shell that goes on to read its next line.
LEMMA StartWakers ==
    ASSUME Inv, Family, BlockedHasWaker, faults = 0, NEW p, Running(p),
           procs[p].pc = "wait" => procs[p].child \notin Live,
           procs' = [procs EXCEPT ![p].pc = "start"],
           UNCHANGED <<sh, last_pid, reading, runnable, faults>>
    PROVE  Family' /\ BlockedHasWaker'
<1>1. p \in Live /\ Has(runnable, p)
  BY RunningFacts
<1>2. /\ Live' = Live /\ procs'[p].pc = "start"
      /\ \A q \in Live : /\ procs'[q].stdout = procs[q].stdout
                         /\ procs'[q].prog = procs[q].prog
                         /\ procs'[q].waiting = procs[q].waiting
                         /\ procs'[q].child = procs[q].child
                         /\ q # p => procs'[q].pc = procs[q].pc
  BY <1>1, PcFacts
<1>3. \A q, r \in Live : Holds(q, r)' <=> Holds(q, r)
  BY <1>1, <1>2 DEF Holds
<1> QED
  BY <1>1, <1>2, <1>3, SameWakers

\* A shell that starts a program keeps somebody to wake whoever is blocked.
LEMMA ShellHelpWakers ==
    ASSUME Inv, Family, BlockedHasWaker, faults = 0, NEW p, ShellHelp(p)
    PROVE  Family' /\ BlockedHasWaker'
BY StartWakers DEF ShellHelp

\* Steps that leave processes alone.
LEMMA IdleWakers ==
    ASSUME Inv, Family, BlockedHasWaker, faults = 0,
           UNCHANGED <<procs, sh, last_pid, reading, runnable, faults>>
    PROVE  Family' /\ BlockedHasWaker'
<1>1. Live' = Live /\ \A q, r \in Live : Holds(q, r)' <=> Holds(q, r)
  BY DEF Live, Holds
<1> QED
  BY <1>1, SameWakers

\* runProg: the child becomes the youngest, held by the shell that started it.
LEMMA RunProgWakers ==
    ASSUME Inv, Family, BlockedHasWaker, faults = 0, NEW p, RunProg(p)
    PROVE  Family' /\ BlockedHasWaker'
<1> DEFINE t == procs[p].stdout
<1>0. PICK new : new = last_pid + 1
  OBVIOUS
<1>1. /\ p \in Live /\ p \in Nat /\ p # 0 /\ Has(runnable, p) /\ t \in Terms
      /\ \A u \in Terms : reading[u] # p
      /\ \A q \in Live : procs[q].waiting # p
  BY RunningFacts DEF RunProg
<1>2. CASE procs' = [procs EXCEPT ![p].pc = "start"] /\ UNCHANGED <<last_pid, runnable>>
  BY <1>2, StartWakers DEF RunProg
<1>3. CASE /\ procs[p].line \in Programs
           /\ CreateProc([procs EXCEPT ![p].pc = "wait", ![p].child = new], procs[p].line, t)
  <2>1. /\ procs[p].pc = "got" /\ procs[p].prog = "sh" /\ last_pid' = new /\ runnable' = PushTail(runnable, new)
        /\ UNCHANGED <<sh, reading, faults>>
    BY <1>0, <1>3 DEF RunProg, CreateProc
  <2>2. /\ Live' = Live \cup {new}
        /\ procs'[new].pc = "start" /\ procs'[new].waiting = 0 /\ procs'[new].stdout = t
        /\ procs'[p].pc = "wait" /\ procs'[p].child = new
        /\ \A q \in Live : /\ procs'[q].stdout = procs[q].stdout
                           /\ procs'[q].prog = procs[q].prog
                           /\ procs'[q].waiting = procs[q].waiting
                           /\ q # p => procs'[q] = procs[q]
    <3> DEFINE mid == [procs EXCEPT ![p].pc = "wait", ![p].child = new]
               x   == NewProc(procs[p].line, t)
    <3>1. /\ DOMAIN mid = Live
          /\ mid[p].pc = "wait" /\ mid[p].child = new
          /\ \A q \in Live : /\ mid[q].stdout = procs[q].stdout
                             /\ mid[q].prog = procs[q].prog
                             /\ mid[q].waiting = procs[q].waiting
                             /\ q # p => mid[q] = procs[q]
      BY <1>1 DEF Inv, TypeOK, Live, Proc
    <3>2. x.pc = "start" /\ x.waiting = 0 /\ x.stdout = t
      BY DEF NewProc
    <3>3. procs' = WithProc(mid, new, x)
      BY <1>0, <1>3 DEF CreateProc
    <3>4. new \notin Live
      BY <1>0, PidFacts DEF Inv
    <3> HIDE DEF mid, x
    <3>5. /\ DOMAIN WithProc(mid, new, x) = DOMAIN mid \cup {new}
          /\ WithProc(mid, new, x)[new] = x
          /\ \A q \in DOMAIN mid \ {new} : WithProc(mid, new, x)[q] = mid[q]
      BY DEF WithProc
    <3>6. Live' = Live \cup {new} /\ procs'[new] = x /\ \A q \in Live : procs'[q] = mid[q]
      BY <3>1, <3>3, <3>4, <3>5 DEF Live
    <3> QED
      BY <1>1, <3>1, <3>2, <3>6
  <2>3. \A q : Has(runnable', q) <=> Has(runnable, q) \/ q = new
    BY <1>0, <2>1, QueuedIsLive, PidFacts, PushTailFacts DEF Inv
  <2>4. /\ \A q \in Live : q \in Nat /\ q # 0 /\ q < new /\ procs[q].waiting # new
        /\ new \notin Live /\ new \in Nat /\ new # 0
    BY <1>0, PidFacts DEF Inv, TypeOK, NoDoubleWake, Live
  <2>5. \A q \in Live : procs[q].pc = "wait" => procs[q].child # new
    BY <1>0, <2>4 DEF Family, ChildrenNamed, Inv, TypeOK, Proc
  <2>6. /\ \A q, r \in Live : Holds(q, r)' <=> Holds(q, r)
        /\ \A q \in Live : Holds(q, new)' <=> q = p
        /\ \A r \in Live' : ~Holds(new, r)'
    <3>1. \A q, r \in Live : Holds(q, r)' <=> Holds(q, r)
      BY <1>1, <2>1, <2>2, <2>4, <2>5 DEF Holds
    <3>2. \A q \in Live : Holds(q, new)' <=> q = p
      BY <1>1, <2>2, <2>4, <2>5 DEF Holds
    <3>3. \A r \in Live' : ~Holds(new, r)'
      BY <2>2, <2>4 DEF Holds
    <3> QED
      BY <3>1, <3>2, <3>3
  <2>7. \A q \in Live : procs[q].stdout = t => q <= p
    BY <2>1, ActiveIsYoungest DEF RunProg
  <2>8. HeldYounger'
    <3> SUFFICES ASSUME NEW q \in Live', NEW r \in Live', Holds(q, r)'
                 PROVE  q < r /\ procs'[r].stdout = procs'[q].stdout
      BY DEF HeldYounger
    <3>1. q \in Live
      BY <2>2, <2>6
    <3>2. CASE r \in Live
      BY <2>2, <2>6, <3>1, <3>2 DEF HeldYounger, Family
    <3>3. CASE r = new
      BY <2>2, <2>4, <2>6, <3>1, <3>3
    <3> QED
      BY <2>2, <3>2, <3>3
  <2>9. OneActive'
    <3> SUFFICES ASSUME NEW q \in Live', NEW r \in Live', q < r, procs'[r].stdout = procs'[q].stdout
                 PROVE  \E z \in Live' : Holds(q, z)' /\ z <= r
      BY DEF OneActive
    <3>1. CASE q \in Live /\ r \in Live
      <4>1. PICK z \in Live : Holds(q, z) /\ z <= r
        BY <2>2, <3>1 DEF Family, OneActive
      <4> QED
        BY <2>2, <2>6, <3>1, <4>1
    <3>2. CASE q = p /\ r = new
      <4>1. Holds(p, new)' /\ new <= new /\ new \in Live'
        BY <1>1, <2>2, <2>4, <2>6
      <4> QED
        BY <3>2, <4>1
    <3>3. CASE q \in Live /\ q # p /\ r = new
      <4>1. procs[q].stdout = t /\ q < p
        BY <1>1, <2>2, <2>4, <2>7, <3>3
      <4>2. PICK z \in Live : Holds(q, z) /\ z <= p
        BY <1>1, <3>3, <4>1 DEF Family, OneActive
      <4>3. z <= new
        BY <2>4, <4>2
      <4> QED
        BY <2>2, <2>6, <3>3, <4>2, <4>3
    <3>4. q # new
      BY <2>2, <2>4
    <3> QED
      BY <2>2, <3>1, <3>2, <3>3, <3>4
  <2>10. ShellEldest'
    <3>1. sh[t] # 0 /\ sh[t] <= p
      BY <1>1 DEF Family, ShellEldest
    <3>2. sh[t] <= new
      BY <1>1, <2>4, <3>1 DEF Inv, TypeOK
    <3> QED
      BY <2>1, <2>2, <3>1, <3>2 DEF Family, ShellEldest
  <2>11. ChildrenNamed'
    <3>1. ASSUME NEW q \in Live, q # p, procs[q].pc = "wait" PROVE procs[q].prog = "sh" /\ procs[q].child <= new
      BY <1>0, <3>1 DEF Family, ChildrenNamed, Inv, TypeOK, Proc
    <3>2. new <= new
      BY <2>4
    <3> QED
      BY <2>1, <2>2, <3>1, <3>2 DEF ChildrenNamed
  <2>12. BlockedPast'
    <3>1. ASSUME NEW u \in Terms, reading'[u] # 0 PROVE procs'[reading'[u]].pc = "got"
      <4>1. reading'[u] = reading[u] /\ reading[u] \in Live /\ reading[u] # p /\ procs[reading[u]].pc = "got"
        BY <1>1, <2>1, <3>1 DEF Family, BlockedPast, Inv, NoDoubleWake
      <4> QED
        BY <2>2, <4>1
    <3>2. ASSUME NEW q \in Live', procs'[q].waiting # 0 PROVE procs'[procs'[q].waiting].pc = "start"
      <4>1. q \in Live /\ procs'[q].waiting = procs[q].waiting
        BY <2>2, <3>2
      <4>2. procs[q].waiting \in Live /\ procs[q].waiting # p /\ procs[procs[q].waiting].pc = "start"
        BY <1>1, <3>2, <4>1 DEF Family, BlockedPast, Inv, NoDoubleWake
      <4> QED
        BY <2>2, <4>1, <4>2
    <3> QED
      BY <3>1, <3>2 DEF BlockedPast
  <2>13. BlockedHasWaker'
    BY <2>1, <2>2, <2>3 DEF BlockedHasWaker
  <2> QED
    BY <2>8, <2>9, <2>10, <2>11, <2>12, <2>13 DEF Family
<1> QED
  BY <1>0, <1>2, <1>3 DEF RunProg

\* wait: only the one that started a child waits for it.
LEMMA WaitWakers ==
    ASSUME Inv, Family, BlockedHasWaker, faults = 0, NEW p, Wait(p)
    PROVE  Family' /\ BlockedHasWaker'
<1>1. /\ p \in Live /\ p \in Nat /\ p # 0 /\ Has(runnable, p)
      /\ \A u \in Terms : reading[u] # p
      /\ \A q \in Live : procs[q].waiting # p
  BY RunningFacts DEF Wait
<1>2. PICK c : c = procs[p].child
  OBVIOUS
<1>3. CASE c \notin Live
  BY <1>2, <1>3, StartWakers DEF Wait, Found
<1>4. CASE c \in Live
  <2>1. /\ procs' = [procs EXCEPT ![p].pc = "start", ![c].waiting = p]
        /\ procs[p].pc = "wait" /\ Block(p) /\ UNCHANGED <<last_pid, sh, reading, faults>>
    BY <1>2, <1>4 DEF Wait, Found
  <2>2. Holds(p, c) /\ p < c /\ procs[c].stdout = procs[p].stdout
    BY <1>1, <1>2, <1>4, <2>1 DEF Holds, Family, HeldYounger
  <2>3. c \in Nat /\ c # p
    BY <1>1, <1>4, <2>2, PidFacts DEF Inv
  <2>4. \A q : Has(runnable', q) <=> Has(runnable, q) /\ q # p
    BY <2>1, BlockFacts DEF Wait
  <2>5. /\ Live' = Live
        /\ procs'[p].pc = "start" /\ procs'[c].waiting = p
        /\ \A q \in Live : /\ procs'[q].stdout = procs[q].stdout
                           /\ procs'[q].prog = procs[q].prog
                           /\ procs'[q].child = procs[q].child
                           /\ q # p => procs'[q].pc = procs[q].pc
                           /\ q # c => procs'[q].waiting = procs[q].waiting
    BY <1>1, <1>4, <2>1, <2>3 DEF Inv, TypeOK, Live, Proc
  <2>6. procs[c].waiting = 0
    <3> SUFFICES ASSUME procs[c].waiting # 0 PROVE FALSE
      OBVIOUS
    <3>1. PICK w : w = procs[c].waiting
      OBVIOUS
    <3>2. /\ w \in Live /\ procs[w].pc = "start" /\ w # p
          /\ \A r \in Live : procs[r].waiting = w => r = c
      BY <1>1, <1>4, <3>1 DEF Inv, NoDoubleWake, Family, BlockedPast
    <3>3. Holds(w, c) /\ w < c /\ procs[w].stdout = procs[p].stdout /\ w \in Nat
      BY <1>4, <2>2, <3>1, <3>2, PidFacts DEF Holds, Family, HeldYounger, Inv
    <3>4. CASE p < w
      <4>1. PICK r \in Live : Holds(p, r) /\ r <= w
        BY <1>1, <3>2, <3>3, <3>4 DEF Family, OneActive
      <4>2. r = c
        BY <1>1, <1>2, <4>1 DEF Holds
      <4> QED
        BY <2>3, <3>3, <4>1, <4>2
    <3>5. CASE w < p
      <4>1. PICK r \in Live : Holds(w, r) /\ r <= p
        BY <1>1, <3>2, <3>3, <3>5 DEF Family, OneActive
      <4>2. r = c
        BY <3>2, <4>1 DEF Holds
      <4> QED
        BY <1>1, <2>2, <2>3, <4>1, <4>2
    <3> QED
      BY <1>1, <3>2, <3>3, <3>4, <3>5
  <2>7. \A q \in Live : q # 0
    BY PidFacts DEF Inv
  <2>8. \A q, r \in Live : Holds(q, r)' <=> Holds(q, r)
    <3> SUFFICES ASSUME NEW q \in Live, NEW r \in Live PROVE Holds(q, r)' <=> Holds(q, r)
      OBVIOUS
    <3>1. CASE q = p
      <4>1. Holds(q, r) <=> r = c
        BY <1>1, <1>2, <2>1, <3>1 DEF Holds
      <4>2. Holds(q, r)' <=> r = c
        BY <1>1, <2>5, <3>1 DEF Holds
      <4> QED
        BY <4>1, <4>2
    <3>2. CASE q # p
      BY <2>5, <2>6, <2>7, <3>2 DEF Holds
    <3> QED
      BY <3>1, <3>2
  <2>9. HeldYounger' /\ OneActive' /\ ShellEldest'
    BY <2>1, <2>5, <2>8, SameFamily
  <2>10. ChildrenNamed'
    BY <2>1, <2>5 DEF Family, ChildrenNamed
  <2>11. BlockedPast'
    <3>1. ASSUME NEW u \in Terms, reading'[u] # 0 PROVE procs'[reading'[u]].pc = "got"
      <4>1. reading'[u] = reading[u] /\ reading[u] \in Live /\ reading[u] # p /\ procs[reading[u]].pc = "got"
        BY <1>1, <2>1, <3>1 DEF Family, BlockedPast, Inv, NoDoubleWake
      <4> QED
        BY <2>5, <4>1
    <3>2. ASSUME NEW q \in Live, procs'[q].waiting # 0 PROVE procs'[procs'[q].waiting].pc = "start"
      <4>1. CASE q = c
        BY <2>5, <4>1
      <4>2. CASE q # c
        <5>1. procs'[q].waiting = procs[q].waiting
          BY <2>5, <4>2
        <5>2. procs[q].waiting \in Live /\ procs[q].waiting # p /\ procs[procs[q].waiting].pc = "start"
          BY <1>1, <3>2, <5>1 DEF Family, BlockedPast, Inv, NoDoubleWake
        <5> QED
          BY <2>5, <5>1, <5>2
      <4> QED
        BY <4>1, <4>2
    <3> QED
      BY <2>5, <3>1, <3>2 DEF BlockedPast
  <2>12. BlockedHasWaker'
    <3> SUFFICES ASSUME NEW q \in Live, ~Has(runnable', q)
                 PROVE  \/ \E u \in Terms : reading'[u] = q
                        \/ \E r \in Live : procs'[r].waiting = q
      BY <2>5 DEF BlockedHasWaker
    <3>1. CASE q = p
      BY <1>4, <2>5, <3>1
    <3>2. CASE q # p
      <4>1. \/ \E u \in Terms : reading[u] = q
            \/ \E r \in Live : procs[r].waiting = q
        BY <2>4, <3>2 DEF BlockedHasWaker
      <4> QED
        BY <2>1, <2>5, <2>6, <2>7, <4>1
    <3> QED
      BY <3>1, <3>2
  <2> QED
    BY <2>9, <2>10, <2>11, <2>12 DEF Family
<1> QED
  BY <1>3, <1>4

\* exit: the process that waits is woken, a dead shell replaced.
LEMMA ExitWakers ==
    ASSUME Inv, Family, BlockedHasWaker, faults = 0, NEW p, Exit(p)
    PROVE  Family' /\ BlockedHasWaker'
<1> DEFINE t == procs[p].stdout
<1>1. /\ p \in Live /\ p \in Nat /\ p # 0 /\ Has(runnable, p) /\ t \in Terms
      /\ \A u \in Terms : reading[u] # p
      /\ \A q \in Live : procs[q].waiting # p
      /\ Running(p) /\ KillProc(p) /\ UNCHANGED <<reading, faults>>
  BY RunningFacts DEF Exit
<1>2. PICK new : new = last_pid + 1
  OBVIOUS
<1>3. PICK K : K = Live \ {p}
  OBVIOUS
<1>4. /\ Live' = K \cup (IF IsShell(p) THEN {new} ELSE {})
      /\ \A q \in K : procs'[q] = procs[q]
      /\ IsShell(p) => procs'[new] = NewProc("sh", t)
  BY <1>1, <1>2, <1>3, KillTableFacts
<1>5. NewProc("sh", t).pc = "start" /\ NewProc("sh", t).waiting = 0 /\ NewProc("sh", t).stdout = t
  BY DEF NewProc
<1>6. /\ \A q \in Live : q \in Nat /\ q # 0 /\ q < new /\ procs[q].waiting # new
      /\ new \notin Live /\ new \in Nat /\ new # 0 /\ last_pid \in Nat
  BY <1>2, PidFacts DEF Inv, TypeOK, NoDoubleWake, Live
<1>7. \A q \in Live : procs[q].pc = "wait" => procs[q].child # new
  BY <1>2, <1>6 DEF Family, ChildrenNamed, Inv, TypeOK, Proc
<1>8. \A q \in Live : procs[q].stdout = t => q <= p
  <2>1. procs[p].pc # "wait"
    BY <1>1 DEF Exit, AtExit, Family, ChildrenNamed
  <2> QED
    BY <1>1, <2>1, ActiveIsYoungest
<1>9. IsShell(p) => \A q \in K : procs[q].stdout # t
  <2> SUFFICES ASSUME IsShell(p), NEW q \in K, procs[q].stdout = t PROVE FALSE
    OBVIOUS
  <2>1. p <= q /\ q <= p /\ q # p /\ q \in Nat
    BY <1>3, <1>6, <1>8 DEF Family, ShellEldest, IsShell
  <2> QED
    BY <1>1, <2>1
<1>10. /\ \A q, r \in K : Holds(q, r)' <=> Holds(q, r)
       /\ IsShell(p) => \A q \in Live' : ~(Holds(q, new)') /\ ~(Holds(new, q)')
  <2>1. \A q, r \in K : Holds(q, r)' <=> Holds(q, r)
    BY <1>4 DEF Holds
  <2>2. ASSUME IsShell(p), NEW q \in Live' PROVE ~(Holds(q, new)') /\ ~(Holds(new, q)')
    <3>1. CASE q \in K
      BY <1>3, <1>4, <1>5, <1>6, <1>7, <2>2, <3>1 DEF Holds
    <3>2. CASE q = new
      BY <1>4, <1>5, <1>6, <2>2, <3>2 DEF Holds
    <3> QED
      BY <1>4, <2>2, <3>1, <3>2
  <2> QED
    BY <2>1, <2>2
<1>11. HeldYounger'
  <2> SUFFICES ASSUME NEW q \in Live', NEW r \in Live', Holds(q, r)'
               PROVE  q < r /\ procs'[r].stdout = procs'[q].stdout
    BY DEF HeldYounger
  <2>1. q \in K /\ r \in K
    BY <1>4, <1>10
  <2> QED
    BY <1>3, <1>4, <1>10, <2>1 DEF HeldYounger, Family
<1>12. OneActive'
  <2> SUFFICES ASSUME NEW q \in Live', NEW r \in Live', q < r, procs'[r].stdout = procs'[q].stdout
               PROVE  \E z \in Live' : Holds(q, z)' /\ z <= r
    BY DEF OneActive
  <2>1. q \in K /\ r \in K
    <3>1. CASE IsShell(p) /\ q = new
      BY <1>3, <1>4, <1>6, <3>1
    <3>2. CASE IsShell(p) /\ q \in K /\ r = new
      BY <1>4, <1>5, <1>9, <3>2
    <3> QED
      BY <1>4, <3>1, <3>2
  <2>2. PICK z \in Live : Holds(q, z) /\ z <= r
    BY <1>3, <1>4, <2>1 DEF Family, OneActive
  <2>3. z # p
    <3> SUFFICES ASSUME z = p PROVE FALSE
      OBVIOUS
    <3>1. procs[p].stdout = procs[q].stdout /\ procs[r].stdout = procs[q].stdout
      BY <1>3, <1>4, <2>1, <2>2 DEF Family, HeldYounger
    <3>2. r <= p /\ p <= r /\ r # p /\ r \in Nat
      BY <1>3, <1>6, <1>8, <2>1, <2>2, <3>1
    <3> QED
      BY <1>1, <3>2
  <2>4. z \in K
    BY <1>3, <2>3
  <2> QED
    BY <1>4, <1>10, <2>1, <2>2, <2>4
<1>13. ShellEldest'
  <2>1. sh' = (IF IsShell(p) THEN [sh EXCEPT ![t] = new] ELSE sh) /\ sh \in [Terms -> Nat]
    BY <1>1, <1>2 DEF KillProc, Inv, TypeOK
  <2> SUFFICES ASSUME NEW q \in Live'
               PROVE  sh'[procs'[q].stdout] # 0 /\ sh'[procs'[q].stdout] <= q
    BY DEF ShellEldest
  <2>2. CASE q \in K
    <3>1. sh'[procs[q].stdout] = sh[procs[q].stdout]
      BY <1>9, <2>1, <2>2
    <3> QED
      BY <1>3, <1>4, <2>2, <3>1 DEF Family, ShellEldest
  <2>3. CASE IsShell(p) /\ q = new
    BY <1>1, <1>4, <1>5, <1>6, <2>1, <2>3
  <2> QED
    BY <1>4, <2>2, <2>3
<1>14. ChildrenNamed'
  <2>1. last_pid' \in {last_pid, new}
    BY <1>1, <1>2 DEF KillProc
  <2>2. ASSUME NEW q \in K, procs[q].pc = "wait" PROVE procs[q].prog = "sh" /\ procs[q].child <= last_pid'
    <3>1. procs[q].prog = "sh" /\ procs[q].child <= last_pid /\ procs[q].child \in Nat
      BY <1>3, <2>2 DEF Family, ChildrenNamed, Inv, TypeOK, Proc
    <3> QED
      BY <1>2, <1>6, <2>1, <3>1
  <2> QED
    BY <1>4, <1>5, <2>2 DEF ChildrenNamed
<1>15. BlockedPast'
  <2>1. ASSUME NEW u \in Terms, reading'[u] # 0 PROVE procs'[reading'[u]].pc = "got"
    <3>1. reading'[u] = reading[u] /\ reading[u] \in K /\ procs[reading[u]].pc = "got"
      BY <1>1, <1>3, <2>1 DEF Family, BlockedPast, Inv, NoDoubleWake
    <3> QED
      BY <1>4, <3>1
  <2>2. ASSUME NEW q \in Live', procs'[q].waiting # 0 PROVE procs'[procs'[q].waiting].pc = "start"
    <3>1. q \in K /\ procs'[q] = procs[q]
      BY <1>4, <1>5, <2>2
    <3>2. procs[q].waiting \in K /\ procs[procs[q].waiting].pc = "start"
      BY <1>1, <1>3, <2>2, <3>1 DEF Family, BlockedPast, Inv, NoDoubleWake
    <3> QED
      BY <1>4, <3>1, <3>2
  <2> QED
    BY <2>1, <2>2 DEF BlockedPast
<1>16. BlockedHasWaker'
  <2> SUFFICES ASSUME NEW q \in Live', ~Has(runnable', q)
               PROVE  \/ \E u \in Terms : reading'[u] = q
                      \/ \E r \in Live' : procs'[r].waiting = q
    BY DEF BlockedHasWaker
  <2>1. \A x : Has(runnable', x) <=> x # p /\ \/ Has(runnable, x)
                                              \/ IsShell(p) /\ x = new
                                              \/ x = Waiter(p) /\ x # 0
    BY <1>1, <1>2, KillQueueFacts DEF KillProc
  <2>2. q \in K /\ ~Has(runnable, q) /\ q # procs[p].waiting
    BY <1>1, <1>3, <1>4, <1>6, <2>1 DEF Waiter
  <2>3. \/ \E u \in Terms : reading[u] = q
        \/ \E r \in Live : procs[r].waiting = q
    BY <1>3, <2>2 DEF BlockedHasWaker
  <2> QED
    BY <1>1, <1>3, <1>4, <2>2, <2>3
<1> QED
  BY <1>11, <1>12, <1>13, <1>14, <1>15, <1>16 DEF Family

\* A line for a reader: the process it puts back on the run queue is the
\* one that loses its waker.
LEMMA GotLineWakers ==
    ASSUME Inv, Family, BlockedHasWaker, faults = 0, NEW line \in Lines, GotLine(line),
           UNCHANGED faults
    PROVE  Family' /\ BlockedHasWaker'
<1>1. PICK r : r = reading[at]
  OBVIOUS
<1>2. /\ at \in Terms /\ r \in Nat /\ reading' = [reading EXCEPT ![at] = 0]
      /\ UNCHANGED <<last_pid, sh>>
  BY <1>1 DEF GotLine, Inv, TypeOK
<1>3. \A u \in Terms : reading'[u] = IF u = at THEN 0 ELSE reading[u]
  BY <1>2 DEF Inv, TypeOK
<1>4. CASE r \in Live
  <2>1. /\ procs' = [procs EXCEPT ![r].line = line]
        /\ runnable' = PushTail(runnable, r)
    BY <1>1, <1>4 DEF GotLine, Found
  <2>2. /\ ~Has(runnable, r) /\ r # 0 /\ procs[r].stdout = at
        /\ \A q \in Live : procs[q].waiting # r
    BY <1>1, <1>2, <1>4, PidFacts DEF Inv, NoDoubleWake
  <2>3. \A q : Has(runnable', q) <=> Has(runnable, q) \/ q = r
    BY <1>2, <2>1, <2>2, PushTailFacts DEF Inv
  <2>4. /\ Live' = Live
        /\ \A q \in Live : /\ procs'[q].stdout = procs[q].stdout
                           /\ procs'[q].prog = procs[q].prog
                           /\ procs'[q].pc = procs[q].pc
                           /\ procs'[q].waiting = procs[q].waiting
                           /\ procs'[q].child = procs[q].child
    BY <1>4, <2>1 DEF Inv, TypeOK, Live, Proc
  <2>5. \A q, z \in Live : Holds(q, z)' <=> Holds(q, z)
    BY <2>4 DEF Holds
  <2>6. HeldYounger' /\ OneActive' /\ ShellEldest'
    BY <1>2, <2>4, <2>5, SameFamily
  <2>7. ChildrenNamed'
    BY <1>2, <2>4 DEF Family, ChildrenNamed
  <2>8. BlockedPast'
    <3>1. ASSUME NEW u \in Terms, reading'[u] # 0 PROVE procs'[reading'[u]].pc = "got"
      <4>1. reading'[u] = reading[u] /\ reading[u] \in Live /\ procs[reading[u]].pc = "got"
        BY <1>3, <3>1 DEF Family, BlockedPast, Inv, NoDoubleWake
      <4> QED
        BY <2>4, <4>1
    <3>2. ASSUME NEW q \in Live, procs'[q].waiting # 0 PROVE procs'[procs'[q].waiting].pc = "start"
      <4>1. procs[q].waiting \in Live /\ procs[procs[q].waiting].pc = "start"
        BY <2>4, <3>2 DEF Family, BlockedPast, Inv, NoDoubleWake
      <4> QED
        BY <2>4, <4>1
    <3> QED
      BY <2>4, <3>1, <3>2 DEF BlockedPast
  <2>9. BlockedHasWaker'
    <3> SUFFICES ASSUME NEW q \in Live, ~Has(runnable', q)
                 PROVE  \/ \E u \in Terms : reading'[u] = q
                        \/ \E z \in Live : procs'[z].waiting = q
      BY <2>4 DEF BlockedHasWaker
    <3>1. ~Has(runnable, q) /\ q # r
      BY <2>3
    <3>2. \/ \E u \in Terms : reading[u] = q
          \/ \E z \in Live : procs[z].waiting = q
      BY <3>1 DEF BlockedHasWaker
    <3> QED
      BY <1>1, <1>3, <2>4, <3>1, <3>2
  <2> QED
    BY <2>6, <2>7, <2>8, <2>9 DEF Family
<1>5. CASE r \notin Live
  <2>1. UNCHANGED <<procs, runnable>>
    BY <1>1, <1>5 DEF GotLine, Found
  <2>2. r = 0
    BY <1>1, <1>2, <1>5 DEF Inv, NoDoubleWake
  <2>3. reading' = reading
    BY <1>1, <1>2, <2>2 DEF Inv, TypeOK
  <2> QED
    BY <1>2, <2>1, <2>3, IdleWakers
<1> QED
  BY <1>4, <1>5

\* A terminal shown for the first time: its shell is alone on it.
LEMMA ShowTermWakers ==
    ASSUME Inv, Family, BlockedHasWaker, faults = 0, NEW t \in Terms, ShowTerm(t),
           UNCHANGED faults
    PROVE  Family' /\ BlockedHasWaker'
<1>1. reading' = reading
  BY DEF ShowTerm
<1>2. CASE sh[t] # 0
  BY <1>1, <1>2, IdleWakers DEF ShowTerm
<1>3. CASE sh[t] = 0
  <2>1. PICK new : new = last_pid + 1
    OBVIOUS
  <2>2. PICK x : x = NewProc("sh", t)
    OBVIOUS
  <2>3. x.pc = "start" /\ x.waiting = 0 /\ x.stdout = t
    BY <2>2 DEF NewProc
  <2>4. /\ procs' = WithProc(procs, new, x) /\ last_pid' = new
        /\ runnable' = PushTail(runnable, new) /\ sh' = [sh EXCEPT ![t] = new]
    BY <1>3, <2>1, <2>2 DEF ShowTerm, CreateProc
  <2>5. /\ \A q \in Live : q \in Nat /\ q # 0 /\ q < new /\ procs[q].waiting # new
        /\ new \notin Live /\ new \in Nat /\ new # 0 /\ last_pid \in Nat
    BY <2>1, PidFacts DEF Inv, TypeOK, NoDoubleWake, Live
  <2>6. \A q \in Live : procs[q].pc = "wait" =>
           procs[q].child # new /\ procs[q].child <= new
    BY <2>1, <2>5 DEF Family, ChildrenNamed, Inv, TypeOK, Proc
  <2>7. /\ Live' = Live \cup {new} /\ procs'[new] = x
        /\ \A q \in Live : procs'[q] = procs[q]
    <3>1. /\ DOMAIN procs' = DOMAIN procs \cup {new} /\ procs'[new] = x
          /\ \A q \in DOMAIN procs \ {new} : procs'[q] = procs[q]
      BY <2>4 DEF WithProc
    <3> QED
      BY <2>5, <3>1 DEF Live
  <2>8. \A q : Has(runnable', q) <=> Has(runnable, q) \/ q = new
    BY <2>4, <2>5, QueuedIsLive, PushTailFacts DEF Inv
  <2>9. \A q \in Live : procs[q].stdout # t
    BY <1>3 DEF Family, ShellEldest
  <2>10. /\ \A q, r \in Live : Holds(q, r)' <=> Holds(q, r)
         /\ \A q \in Live' : ~(Holds(q, new)') /\ ~(Holds(new, q)')
    <3>1. \A q, r \in Live : Holds(q, r)' <=> Holds(q, r)
      BY <2>7 DEF Holds
    <3>2. ASSUME NEW q \in Live' PROVE ~(Holds(q, new)') /\ ~(Holds(new, q)')
      <4>1. CASE q \in Live
        BY <2>3, <2>5, <2>6, <2>7, <4>1 DEF Holds
      <4>2. CASE q = new
        BY <2>3, <2>5, <2>7, <4>2 DEF Holds
      <4> QED
        BY <2>7, <4>1, <4>2
    <3> QED
      BY <3>1, <3>2
  <2>11. HeldYounger'
    <3> SUFFICES ASSUME NEW q \in Live', NEW r \in Live', Holds(q, r)'
                 PROVE  q < r /\ procs'[r].stdout = procs'[q].stdout
      BY DEF HeldYounger
    <3>1. q \in Live /\ r \in Live
      BY <2>7, <2>10
    <3> QED
      BY <2>7, <2>10, <3>1 DEF HeldYounger, Family
  <2>12. OneActive'
    <3> SUFFICES ASSUME NEW q \in Live', NEW r \in Live', q < r, procs'[r].stdout = procs'[q].stdout
                 PROVE  \E z \in Live' : Holds(q, z)' /\ z <= r
      BY DEF OneActive
    <3>1. q \in Live /\ r \in Live
      <4>1. CASE q = new
        BY <2>5, <2>7, <4>1
      <4>2. CASE q \in Live /\ r = new
        BY <2>3, <2>7, <2>9, <4>2
      <4> QED
        BY <2>7, <4>1, <4>2
    <3>2. PICK z \in Live : Holds(q, z) /\ z <= r
      BY <2>7, <3>1 DEF Family, OneActive
    <3> QED
      BY <2>7, <2>10, <3>1, <3>2
  <2>13. ShellEldest'
    <3> SUFFICES ASSUME NEW q \in Live'
                 PROVE  sh'[procs'[q].stdout] # 0 /\ sh'[procs'[q].stdout] <= q
      BY DEF ShellEldest
    <3>1. CASE q \in Live
      <4>1. sh'[procs[q].stdout] = sh[procs[q].stdout]
        BY <2>4, <2>9, <3>1 DEF Inv, TypeOK
      <4> QED
        BY <2>7, <3>1, <4>1 DEF Family, ShellEldest
    <3>2. CASE q = new
      <4>1. sh'[t] = new
        BY <2>4 DEF Inv, TypeOK
      <4> QED
        BY <2>3, <2>5, <2>7, <3>2, <4>1
    <3> QED
      BY <2>7, <3>1, <3>2
  <2>14. ChildrenNamed'
    BY <2>3, <2>4, <2>6, <2>7 DEF Family, ChildrenNamed
  <2>15. BlockedPast'
    <3>1. ASSUME NEW u \in Terms, reading'[u] # 0 PROVE procs'[reading'[u]].pc = "got"
      <4>1. reading'[u] = reading[u] /\ reading[u] \in Live /\ procs[reading[u]].pc = "got"
        BY <1>1, <3>1 DEF Family, BlockedPast, Inv, NoDoubleWake
      <4> QED
        BY <2>7, <4>1
    <3>2. ASSUME NEW q \in Live', procs'[q].waiting # 0 PROVE procs'[procs'[q].waiting].pc = "start"
      <4>1. q \in Live /\ procs'[q] = procs[q]
        BY <2>3, <2>7, <3>2
      <4>2. procs[q].waiting \in Live /\ procs[procs[q].waiting].pc = "start"
        BY <3>2, <4>1 DEF Family, BlockedPast, Inv, NoDoubleWake
      <4> QED
        BY <2>7, <4>1, <4>2
    <3> QED
      BY <3>1, <3>2 DEF BlockedPast
  <2>16. BlockedHasWaker'
    BY <1>1, <2>7, <2>8 DEF BlockedHasWaker
  <2> QED
    BY <2>11, <2>12, <2>13, <2>14, <2>15, <2>16 DEF Family
<1> QED
  BY <1>2, <1>3

\* No step leaves the invariant: a fault makes it vacuous.
LEMMA NextWakers ==
    ASSUME Inv, WakerInv, [Next]_vars
    PROVE  WakerInv'
<1> SUFFICES ASSUME faults' = 0 PROVE Family' /\ BlockedHasWaker'
  BY DEF WakerInv
<1>1. CASE Fault(curProc)
  BY <1>1 DEF Fault, Inv, TypeOK
<1>2. CASE UNCHANGED faults
  <2>1. Family /\ BlockedHasWaker /\ faults = 0
    BY <1>2 DEF WakerInv
  <2>2. CASE UserStep(curProc)
    BY <2>1, <2>2, ReadlineWakers, RunProgWakers, ShellHelpWakers, WaitWakers, ExitWakers
       DEF UserStep
  <2>3. CASE Work
    <3>1. Head(wq) \in Items
      BY <2>3 DEF Work, Inv, TypeOK
    <3>2. ASSUME Head(wq).what = "show", ShowTerm(Head(wq).term)
          PROVE  Family' /\ BlockedHasWaker'
      <4>1. Head(wq).term \in Terms
        BY <3>1, SchedAssumption DEF Items, KeyItems, Clock
      <4> QED
        BY <1>2, <2>1, <3>2, <4>1, ShowTermWakers
    <3>3. ASSUME NEW line \in Lines, GotLine(line) PROVE Family' /\ BlockedHasWaker'
      BY <1>2, <2>1, <3>3, GotLineWakers
    <3>4. ASSUME UNCHANGED <<procs, last_pid, runnable, sh, reading, at>>
          PROVE  Family' /\ BlockedHasWaker'
      BY <1>2, <2>1, <3>4, IdleWakers
    <3> QED
      BY <2>3, <3>2, <3>3, <3>4 DEF Work
  <2>4. CASE Preempt \/ KeyIrq \/ CallbackIrq \/ Pick \/ UNCHANGED vars
    <3>1. UNCHANGED <<procs, sh, last_pid, reading, runnable, faults>>
      BY <2>4 DEF Preempt, KeyIrq, CallbackIrq, Pick, vars
    <3> QED
      BY <2>1, <3>1, IdleWakers
  <2> QED
    BY <2>2, <2>3, <2>4, <1>1 DEF Next
<1>3. Fault(curProc) \/ UNCHANGED faults
  BY DEF Next, UserStep, Readline, RunProg, ShellHelp, Wait, Exit, Preempt, KeyIrq,
         CallbackIrq, Work, Pick, vars
<1> QED
  BY <1>1, <1>2, <1>3

\* After boot there is one process, the shell, on the run queue.
LEMMA InitWakers == Init => WakerInv
<1> SUFFICES ASSUME Init PROVE Family /\ BlockedHasWaker
  BY DEF WakerInv
<1>1. DOMAIN procs = {1} /\ procs[1] = NewProc("sh", BootTerm) /\ Live = {1}
  BY DEF Init, Live
<1>2. /\ procs[1].pc = "start" /\ procs[1].waiting = 0 /\ procs[1].stdout = BootTerm
      /\ Has(runnable, 1) /\ sh[BootTerm] = 1 /\ \A t \in Terms : reading[t] = 0
  BY <1>1, SchedAssumption DEF Init, NewProc, Has
<1>3. HeldYounger /\ OneActive
  BY <1>1, <1>2 DEF HeldYounger, OneActive, Holds
<1>4. ShellEldest /\ ChildrenNamed /\ BlockedPast
  BY <1>1, <1>2 DEF ShellEldest, ChildrenNamed, BlockedPast
<1>5. BlockedHasWaker
  BY <1>1, <1>2 DEF BlockedHasWaker
<1> QED
  BY <1>3, <1>4, <1>5 DEF Family

\* A process off the run queue is the reader of a terminal or named in
\* another's "waiting", unless a fault has killed a process: the only lists
\* of blocked processes the kernel keeps.
THEOREM WakersFound == Spec => []BlockedHasWaker
<1>1. Init => Inv /\ WakerInv
  BY InitInv, InitWakers
<1>2. Inv /\ WakerInv /\ [Next]_vars => Inv' /\ WakerInv'
  BY NextInv, NextWakers
<1>3. Inv /\ WakerInv => BlockedHasWaker
  BY DEF WakerInv, BlockedHasWaker
<1> QED
  BY <1>1, <1>2, <1>3, PTL DEF Spec
=============================================================================
