---------------------------- MODULE LinkQueueProofs ----------------------------
(***************************************************************************)
(* Proofs about LockFreeLinkedQueueT with one pushing thread, for any      *)
(* number of popping threads and of nodes, over either pool: it is one     *)
(* first-in-first-out queue, it loses no node, and a node that was given   *)
(* back is used by no thread but a pop that another has overtaken.  With   *)
(* two pushing threads the list is no queue (Push swaps the next pointer   *)
(* of a node it has not checked), so that the number of pushing threads is *)
(* the assumption of everything.                                           *)
(***************************************************************************)
EXTENDS LinkQueue, FiniteSetTheorems, SequenceTheorems, TLAPS

OnePusher == \E p : Pushers = {p}
OnePopper == \E c : Poppers = {c}

--------------------------------------------------------------------------------
(* The inductive invariant *)

PushStates == {"idle", "pushAlloc", "pushInit", "pushTail", "pushNext", "pushCount", "pushCheck",
               "pushTarget", "pushLink", "pushSwing", "pushCounts"}
PopStates == {"idle", "popHead", "popTail", "popNext", "popCheck", "popHelp", "popData", "popSwap",
              "popCounts", "popFree"}
Maybe == Nodes \cup {Null}
Ends == [ptr : Nodes, count : Nat]
Frames == [new : Maybe, at : Pointers, tail : Pointers, next : Pointers, target : Maybe,
           data : Values \cup {None}, tries : Nat]

TypeOK ==
  /\ head \in Ends /\ tail \in Ends
  /\ node \in [Nodes -> [next : Pointers, data : Values \cup {None}]]
  /\ pool \in Seq(Nodes)
  /\ num \in Int
  /\ pc \in [Threads -> PushStates \cup PopStates]
  /\ \A p \in Pushers : pc[p] \in PushStates
  /\ \A c \in Poppers : pc[c] \in PopStates
  /\ frame \in [Threads -> Frames]
  /\ \A c \in Poppers : frame[c].new = Null
  /\ sent \in [Pushers -> 0..MaxPush]
  /\ \A p \in Pushers : pc[p] # "idle" => sent[p] < MaxPush
  /\ got \in [Poppers -> Values \cup {None}]
  /\ lost = {} /\ stray = FALSE /\ touched \in BOOLEAN

\* The nodes l lead from h on by their next pointers, each once.
IsPath(l, h, nd) ==
  /\ l \in Seq(Nodes) /\ l # <<>>
  /\ l[1] = h
  /\ \A i \in 1..(Len(l) - 1) : nd[l[i]].next.ptr = l[i + 1]
  /\ nd[l[Len(l)]].next.ptr = Null
  /\ \A i, j \in 1..Len(l) : l[i] = l[j] => i = j
End(l) == l[Len(l)]

\* The node and the value of a push that has not linked them.
Holding == {"pushInit", "pushTail", "pushNext", "pushCount", "pushCheck", "pushTarget", "pushLink"}
Holds(p) == pc[p] \in Holding
Filled(p) ==
  pc[p] \in Holding \ {"pushInit"} =>
    node[frame[p].new].data = Outgoing(p) /\ node[frame[p].new].next.ptr = Null

\* m_Tail names the last node, or the last but one while the push that linked the last
\* has not swung it; a push that has read m_Tail still has the right one.
TailAtEnd(l, p) ==
  /\ pc[p] # "pushSwing" => tail.ptr = End(l)
  /\ pc[p] = "pushSwing" =>
       /\ frame[p].new = End(l)
       /\ \/ tail = frame[p].tail /\ Len(l) > 1 /\ tail.ptr = l[Len(l) - 1]
          \/ tail.count > frame[p].tail.count /\ tail.ptr = End(l)
PushKnows(p) ==
  /\ pc[p] \in {"pushNext", "pushCount", "pushCheck", "pushTarget", "pushLink"} => frame[p].tail = tail
  /\ pc[p] \in {"pushCount", "pushCheck", "pushTarget", "pushLink"} => frame[p].next.ptr = Null
  /\ pc[p] \in {"pushCheck", "pushTarget", "pushLink"} =>
       frame[p].next.count = node[tail.ptr].next.count
  /\ pc[p] = "pushLink" => frame[p].target = tail.ptr

\* A copy is of now, or has a smaller count.
NotNewer(copy, now) == copy \in Ends /\ (copy = now \/ copy.count < now.count)

Owns(c) == pc[c] \in {"popCounts", "popFree"}

\* What a pop has read is still so if m_Head is what it read.
PopKnows(l, c) ==
  LET f == frame[c]
      current == head = f.at
  IN /\ pc[c] \in {"popTail", "popNext", "popCheck", "popHelp", "popData", "popSwap"} => NotNewer(f.at, head)
     /\ pc[c] \in {"popNext", "popCheck", "popHelp", "popData", "popSwap"} =>
          /\ NotNewer(f.tail, tail)
          /\ current /\ f.tail.ptr # f.at.ptr => tail.ptr # head.ptr
     /\ pc[c] = "popCheck" /\ current => f.next.ptr = Null \/ (Len(l) > 1 /\ f.next.ptr = l[2])
     /\ pc[c] \in {"popHelp", "popData", "popSwap"} =>
          /\ f.next.ptr # Null
          /\ current => Len(l) > 1 /\ f.next.ptr = l[2]
     /\ pc[c] = "popHelp" => f.at.ptr = f.tail.ptr /\ (tail = f.tail => current)
     /\ pc[c] \in {"popData", "popSwap"} => f.at.ptr # f.tail.ptr
     /\ pc[c] = "popSwap" /\ current => f.data = node[l[2]].data
     /\ Owns(c) => f.at.ptr \in Nodes

\* Every node is in one place.
Places(l) ==
  /\ \A i, j \in 1..Len(pool) : pool[i] = pool[j] => i = j
  /\ \A i \in 1..Len(pool), j \in 1..Len(l) : pool[i] # l[j]
  /\ \A p \in Pushers : Holds(p) =>
       /\ frame[p].new \in Nodes
       /\ \A i \in 1..Len(pool) : pool[i] # frame[p].new
       /\ \A i \in 1..Len(l) : l[i] # frame[p].new
       /\ \A c \in Poppers : Owns(c) => frame[c].at.ptr # frame[p].new
  /\ \A c \in Poppers : Owns(c) =>
       /\ \A i \in 1..Len(pool) : pool[i] # frame[c].at.ptr
       /\ \A i \in 1..Len(l) : l[i] # frame[c].at.ptr
       /\ \A d \in Poppers : Owns(d) /\ frame[d].at.ptr = frame[c].at.ptr => d = c
  /\ \A n \in Nodes : \/ \E i \in 1..Len(pool) : pool[i] = n
                      \/ \E i \in 1..Len(l) : l[i] = n
                      \/ \E p \in Pushers : Holds(p) /\ frame[p].new = n
                      \/ \E c \in Poppers : Owns(c) /\ frame[c].at.ptr = n

\* m_Num is short of a push that has not counted, and of the pops that have not.
ToCount == {c \in Poppers : pc[c] = "popCounts"}
Counts(l, p) ==
  /\ Len(l) - 1 + Cardinality(ToCount) = num + (IF pc[p] \in Linked THEN 1 ELSE 0)
  /\ pc[p] \in Holding \cup {"pushAlloc"} => num < MaxNum

ListInv(l) ==
  /\ IsPath(l, head.ptr, node)
  /\ Places(l)
  /\ \A p \in Pushers : Filled(p) /\ TailAtEnd(l, p) /\ PushKnows(p) /\ Counts(l, p)
  /\ \A c \in Poppers : PopKnows(l, c)

IInv == TypeOK /\ \E l : ListInv(l)

--------------------------------------------------------------------------------
(* The list *)

\* A set of numbers that has 0, and with each number below n the next one, has n: it would
\* otherwise be as large as what is left of it without 0.
LEMMA Climb ==
  ASSUME NEW n \in Nat, NEW P, 0 \in P, \A k \in 0..(n - 1) : k \in P => k + 1 \in P
  PROVE  n \in P
<1> SUFFICES ASSUME n \notin P PROVE FALSE
  OBVIOUS
<1> DEFINE S == P \cap (0..n)
           f == [k \in S |-> k + 1]
<1>1. IsFiniteSet(0..n)
  BY FS_Interval
<1>2. IsFiniteSet(S) /\ IsFiniteSet(S \ {0}) /\ Cardinality(S \ {0}) = Cardinality(S) - 1
  <2>1. S \in SUBSET (0..n) /\ 0 \in S
    OBVIOUS
  <2> HIDE DEF S
  <2> QED
    BY <1>1, <2>1, FS_Subset, FS_RemoveElement
<1>3. Cardinality(S) \in Nat
  BY <1>2, FS_CardinalityType
<1>4. \A k \in S : k \in Nat /\ k + 1 \in S \ {0}
  OBVIOUS
<1>5. f \in [S -> S \ {0}]
  BY <1>4
<1>6. \E x, y \in S : x # y /\ f[x] = f[y]
  <2> HIDE DEF S, f
  <2> QED
    BY <1>2, <1>3, <1>5, FS_PigeonHole
<1> QED
  BY <1>4, <1>6

LEMMA PathLength ==
  ASSUME NEW l, NEW h, NEW nd, IsPath(l, h, nd)
  PROVE  /\ Len(l) \in Nat \ {0} /\ Len(l) <= Cardinality(Nodes) /\ Cardinality(Nodes) \in Nat
         /\ l \in [1..Len(l) -> Nodes]
<1>1. Len(l) \in Nat \ {0} /\ l \in [1..Len(l) -> Nodes]
  BY EmptySeq, LenProperties DEF IsPath
<1>2. IsFiniteSet(1..Len(l)) /\ Cardinality(1..Len(l)) = Len(l)
  BY <1>1, FS_Interval
<1>3. IsFiniteSet(Nodes) /\ Cardinality(Nodes) \in Nat
  BY PoolAssumption, FS_CardinalityType
<1>4. ~(Cardinality(Nodes) < Len(l))
  <2> SUFFICES ASSUME Cardinality(Nodes) < Len(l) PROVE FALSE
    OBVIOUS
  <2>1. \E x, y \in 1..Len(l) : x # y /\ l[x] = l[y]
    BY <1>1, <1>2, <1>3, FS_PigeonHole
  <2> QED
    BY <2>1 DEF IsPath
<1> QED
  BY <1>1, <1>3, <1>4

\* Where the pointers lead in i steps.
Reach(h, nd) ==
  LET at[i \in 0..Cardinality(Nodes)] ==
        IF i = 0 THEN h ELSE IF at[i - 1] = Null THEN Null ELSE nd[at[i - 1]].next.ptr
  IN at

LEMMA ReachIsPath ==
  ASSUME NEW l, NEW h, NEW nd, IsPath(l, h, nd)
  PROVE  \A i \in 0..Cardinality(Nodes) : Reach(h, nd)[i] = IF i < Len(l) THEN l[i + 1] ELSE Null
<1> DEFINE N == Cardinality(Nodes)
           w == [i \in 0..N |-> IF i < Len(l) THEN l[i + 1] ELSE Null]
           r == Reach(h, nd)
<1>1. Len(l) \in Nat \ {0} /\ Len(l) <= N /\ N \in Nat /\ l \in [1..Len(l) -> Nodes]
  BY PathLength
<1>2. ASSUME NEW i \in 0..N
      PROVE  w[i] = IF i = 0 THEN h ELSE IF w[i - 1] = Null THEN Null ELSE nd[w[i - 1]].next.ptr
  <2>1. CASE i = 0
    BY <1>1, <2>1 DEF IsPath
  <2>2. CASE i # 0 /\ i < Len(l)
    <3>1. i \in 1..(Len(l) - 1) /\ i - 1 \in 0..N /\ i - 1 < Len(l) /\ w[i - 1] = l[i] /\ w[i] = l[i + 1]
      BY <1>1, <2>2
    <3>2. l[i] # Null /\ nd[l[i]].next.ptr = l[i + 1]
      BY <1>1, <3>1, PoolAssumption DEF IsPath
    <3> QED
      BY <2>2, <3>1, <3>2
  <2>3. CASE i = Len(l)
    <3>1. i # 0 /\ i - 1 \in 0..N /\ i - 1 < Len(l) /\ w[i - 1] = l[Len(l)] /\ w[i] = Null
      BY <1>1, <2>3
    <3>2. l[Len(l)] # Null /\ nd[l[Len(l)]].next.ptr = Null
      BY <1>1, PoolAssumption DEF IsPath
    <3> QED
      BY <3>1, <3>2
  <2>4. CASE i > Len(l)
    <3>1. i # 0 /\ i - 1 \in 0..N /\ ~(i - 1 < Len(l)) /\ w[i - 1] = Null /\ w[i] = Null
      BY <1>1, <2>4
    <3> QED
      BY <3>1
  <2>5. i = 0 \/ (i # 0 /\ i < Len(l)) \/ i = Len(l) \/ i > Len(l)
    <3>1. i \in Int /\ Len(l) \in Int
      BY <1>1
    <3> QED
      BY <3>1
  <2> HIDE DEF w
  <2> QED
    BY <2>1, <2>2, <2>3, <2>4, <2>5
<1>3. w = [i \in 0..N |-> IF i = 0 THEN h ELSE IF w[i - 1] = Null THEN Null ELSE nd[w[i - 1]].next.ptr]
  <2>1. w = [i \in 0..N |-> w[i]]
    OBVIOUS
  <2> HIDE DEF w
  <2> QED
    BY <1>2, <2>1
<1>4. r = [i \in 0..N |-> IF i = 0 THEN h ELSE IF r[i - 1] = Null THEN Null ELSE nd[r[i - 1]].next.ptr]
  <2> HIDE DEF w
  <2> QED
    BY <1>3 DEF Reach
<1>5. ASSUME NEW i \in 0..N PROVE r[i] = IF i = 0 THEN h ELSE IF r[i - 1] = Null THEN Null ELSE nd[r[i - 1]].next.ptr
  <2> HIDE DEF r
  <2> QED
    BY <1>4
<1>6. ASSUME NEW n \in 0..N PROVE r[n] = w[n]
  <2> DEFINE P == {k \in 0..n : r[k] = w[k]}
  <2> HIDE DEF r, w
  <2>1. 0 \in P
    BY <1>1, <1>2, <1>5
  <2>2. ASSUME NEW k \in 0..(n - 1), k \in P PROVE k + 1 \in P
    <3>1. k + 1 \in 0..N /\ k + 1 \in 0..n /\ k + 1 # 0 /\ (k + 1) - 1 = k
      BY <1>1
    <3>2. r[k] = w[k]
      BY <2>2
    <3>3. r[k + 1] = IF r[k] = Null THEN Null ELSE nd[r[k]].next.ptr
      BY <1>5, <3>1
    <3>4. w[k + 1] = IF w[k] = Null THEN Null ELSE nd[w[k]].next.ptr
      BY <1>2, <3>1
    <3> QED
      BY <3>1, <3>2, <3>3, <3>4
  <2>3. n \in P
    <3> HIDE DEF P
    <3> QED
      BY <1>1, <2>1, <2>2, Climb
  <2> QED
    BY <2>3
<1> QED
  BY <1>6

LEMMA ReachLength ==
  ASSUME NEW l, NEW h, NEW nd, IsPath(l, h, nd)
  PROVE  [i \in 1..Cardinality({i \in 0..Cardinality(Nodes) : Reach(h, nd)[i] # Null}) |-> Reach(h, nd)[i - 1]] = l
<1> DEFINE N == Cardinality(Nodes)
           r == Reach(h, nd)
           long == {i \in 0..N : r[i] # Null}
<1>1. Len(l) \in Nat \ {0} /\ Len(l) <= N /\ N \in Nat /\ l \in [1..Len(l) -> Nodes]
  BY PathLength
<1>2. \A i \in 0..N : r[i] = IF i < Len(l) THEN l[i + 1] ELSE Null
  BY ReachIsPath
<1> HIDE DEF r
<1>3. long = 0..(Len(l) - 1)
  BY <1>1, <1>2, PoolAssumption
<1>4. Cardinality(long) = Len(l)
  <2> PICK m : m = Len(l) - 1
    OBVIOUS
  <2>1. m \in Nat /\ m = Len(l) - 1 /\ m + 1 = Len(l)
    BY <1>1
  <2>2. Cardinality(0..m) = IF 0 > m THEN 0 ELSE m - 0 + 1
    BY <2>1, FS_Interval
  <2> HIDE DEF long
  <2> QED
    BY <1>1, <1>3, <2>1, <2>2
<1>5. \A i \in 1..Len(l) : r[i - 1] = l[i]
  BY <1>1, <1>2
<1>6. [i \in 1..Cardinality(long) |-> r[i - 1]] = l
  <2>1. l = [i \in 1..Len(l) |-> l[i]]
    BY <1>1
  <2> HIDE DEF long
  <2> QED
    BY <1>4, <1>5, <2>1
<1> QED
  BY <1>6 DEF r

LEMMA ChainIsPath == ASSUME NEW l, IsPath(l, head.ptr, node) PROVE Chain = l
<1>1. Chain = [i \in 1..Cardinality({i \in 0..Cardinality(Nodes) : Reach(head.ptr, node)[i] # Null})
                |-> Reach(head.ptr, node)[i - 1]]
  BY DEF Chain, Reach
<1> QED
  BY <1>1, ReachLength

LEMMA ChainIsPathNext == ASSUME NEW l, IsPath(l, head'.ptr, node') PROVE Chain' = l
<1>1. Chain' = [i \in 1..Cardinality({i \in 0..Cardinality(Nodes) : Reach(head'.ptr, node')[i] # Null})
                 |-> Reach(head'.ptr, node')[i - 1]]
  BY DEF Chain, Reach
<1>2. [i \in 1..Cardinality({i \in 0..Cardinality(Nodes) : Reach(head'.ptr, node')[i] # Null})
                 |-> Reach(head'.ptr, node')[i - 1]] = l
  BY ReachLength
<1> QED
  BY <1>1, <1>2, Zenon

LEMMA PathKept ==
  ASSUME NEW l, NEW h, NEW nd, NEW nd2, IsPath(l, h, nd),
         \A i \in 1..Len(l) : nd2[l[i]].next.ptr = nd[l[i]].next.ptr
  PROVE  IsPath(l, h, nd2)
<1>1. Len(l) \in Nat \ {0}
  BY PathLength
<1> QED
  BY <1>1 DEF IsPath

LEMMA PathAppend ==
  ASSUME NEW l, NEW h, NEW nd, NEW nd2, IsPath(l, h, nd), NEW new \in Nodes,
         \A i \in 1..Len(l) : l[i] # new,
         \A i \in 1..(Len(l) - 1) : nd2[l[i]].next.ptr = nd[l[i]].next.ptr,
         nd2[End(l)].next.ptr = new, nd2[new].next.ptr = Null
  PROVE  IsPath(Append(l, new), h, nd2)
<1> DEFINE m == Append(l, new)
<1>1. Len(l) \in Nat \ {0} /\ l \in Seq(Nodes)
  BY PathLength DEF IsPath
<1>2. /\ m \in Seq(Nodes) /\ m # <<>> /\ Len(m) = Len(l) + 1 /\ m[Len(l) + 1] = new
      /\ \A i \in 1..Len(l) : m[i] = l[i]
  BY <1>1, AppendProperties
<1> HIDE DEF m
<1>3. m[1] = h
  BY <1>1, <1>2 DEF IsPath
<1>4. ASSUME NEW i \in 1..(Len(m) - 1) PROVE nd2[m[i]].next.ptr = m[i + 1]
  <2>1. i \in 1..Len(l)
    BY <1>1, <1>2
  <2>2. CASE i = Len(l)
    BY <1>1, <1>2, <2>1, <2>2 DEF End
  <2>3. CASE i # Len(l)
    <3>1. i \in 1..(Len(l) - 1) /\ i + 1 \in 1..Len(l)
      BY <1>1, <2>1, <2>3
    <3> QED
      BY <1>2, <2>1, <3>1 DEF IsPath
  <2> QED
    BY <2>2, <2>3
<1>5. nd2[m[Len(m)]].next.ptr = Null
  BY <1>2
<1>6. ASSUME NEW i \in 1..Len(m), NEW j \in 1..Len(m), m[i] = m[j] PROVE i = j
  <2>1. CASE i \in 1..Len(l) /\ j \in 1..Len(l)
    BY <1>2, <1>6, <2>1 DEF IsPath
  <2>2. CASE i = Len(l) + 1 \/ j = Len(l) + 1
    BY <1>1, <1>2, <1>6, <2>2
  <2> QED
    BY <1>1, <1>2, <2>1, <2>2
<1>7. IsPath(m, h, nd2)
  BY <1>2, <1>3, <1>4, <1>5, <1>6 DEF IsPath
<1> QED
  BY <1>7 DEF m

LEMMA PathTail ==
  ASSUME NEW l, NEW h, NEW nd, IsPath(l, h, nd), Len(l) > 1
  PROVE  /\ IsPath(Tail(l), l[2], nd)
         /\ Len(Tail(l)) = Len(l) - 1
         /\ \A i \in 1..(Len(l) - 1) : Tail(l)[i] = l[i + 1]
<1> DEFINE m == Tail(l)
<1>1. Len(l) \in Nat \ {0} /\ l \in Seq(Nodes) /\ l # <<>>
  BY PathLength DEF IsPath
<1>2. m \in Seq(Nodes) /\ Len(m) = Len(l) - 1 /\ \A i \in 1..(Len(l) - 1) : m[i] = l[i + 1]
  BY <1>1, HeadTailProperties
<1> HIDE DEF m
<1>3. m # <<>> /\ m[1] = l[2]
  BY <1>1, <1>2, EmptySeq
<1>4. ASSUME NEW i \in 1..(Len(m) - 1) PROVE nd[m[i]].next.ptr = m[i + 1]
  <2>1. i \in 1..(Len(l) - 1) /\ i + 1 \in 1..(Len(l) - 1)
    BY <1>1, <1>2
  <2> QED
    BY <1>2, <2>1 DEF IsPath
<1>5. nd[m[Len(m)]].next.ptr = Null
  <2>1. Len(m) \in 1..(Len(l) - 1) /\ Len(m) + 1 = Len(l)
    BY <1>1, <1>2
  <2> QED
    BY <1>2, <2>1 DEF IsPath
<1>6. ASSUME NEW i \in 1..Len(m), NEW j \in 1..Len(m), m[i] = m[j] PROVE i = j
  <2>1. i + 1 \in 1..Len(l) /\ j + 1 \in 1..Len(l) /\ l[i + 1] = l[j + 1]
    BY <1>1, <1>2, <1>6
  <2>2. i + 1 = j + 1
    BY <2>1 DEF IsPath
  <2> QED
    BY <1>1, <1>2, <2>2
<1>7. IsPath(m, l[2], nd)
  BY <1>2, <1>3, <1>4, <1>5, <1>6 DEF IsPath
<1> QED
  BY <1>2, <1>7 DEF m

\* A sequence without its i-th element.
Without(q, i) == SubSeq(q, 1, i - 1) \o SubSeq(q, i + 1, Len(q))
Shifted(r, q, n, i) == \A k \in 1..(n - 1) : r[k] = IF k < i THEN q[k] ELSE q[k + 1]
Distinct(q) == \A i, j \in 1..Len(q) : q[i] = q[j] => i = j

LEMMA Removed ==
  ASSUME NEW S, NEW q \in Seq(S), NEW i \in 1..Len(q), NEW r, r = Without(q, i)
  PROVE  /\ r \in Seq(S) /\ Len(r) = Len(q) - 1
         /\ Shifted(r, q, Len(q), i)
<1> PICK n : n = Len(q)
  OBVIOUS
<1>1. n \in Nat /\ n = Len(q) /\ i \in 1..n /\ \A k \in 1..n : q[k] \in S
  BY LenProperties, ElementOfSeq
<1> PICK a : a = SubSeq(q, 1, i - 1)
  OBVIOUS
<1> PICK b : b = SubSeq(q, i + 1, n)
  OBVIOUS
<1>2. a \in Seq(S) /\ Len(a) = i - 1 /\ \A k \in 1..(i - 1) : a[k] = q[k]
  BY <1>1, SubSeqProperties
<1>3. b \in Seq(S) /\ Len(b) = n - i /\ \A k \in 1..(n - i) : b[k] = q[i + k]
  BY <1>1, SubSeqProperties
<1>4. r \in Seq(S) /\ Len(r) = n - 1
      /\ \A k \in 1..(n - 1) : r[k] = IF k <= i - 1 THEN a[k] ELSE b[k - (i - 1)]
  <2>1. r = a \o b
    BY <1>1 DEF Without
  <2>2. (i - 1) + (n - i) = n - 1
    BY <1>1
  <2>3. /\ a \o b \in Seq(S)
        /\ Len(a \o b) = Len(a) + Len(b)
        /\ \A k \in 1..(Len(a) + Len(b)) : (a \o b)[k] = IF k <= Len(a) THEN a[k] ELSE b[k - Len(a)]
    <3>1. a \in Seq(S) /\ b \in Seq(S)
      BY <1>2, <1>3
    <3> QED
      BY ZenonT(60), <3>1, ConcatProperties
  <2>4. Len(a) + Len(b) = n - 1
    <3>1. Len(a) = i - 1 /\ Len(b) = n - i
      BY <1>2, <1>3
    <3> QED
      BY <2>2, <3>1
  <2>5. Len(a) = i - 1
    BY <1>2
  <2> QED
    BY <2>1, <2>3, <2>4, <2>5
<1>5. ASSUME NEW k \in 1..(n - 1) PROVE r[k] = IF k < i THEN q[k] ELSE q[k + 1]
  <2>1. CASE k < i
    <3>1. k <= i - 1 /\ k \in 1..(i - 1)
      BY <1>1, <2>1
    <3> QED
      BY <1>2, <1>4, <2>1, <3>1
  <2>2. CASE ~(k < i)
    <3>1. k - (i - 1) \in 1..(n - i) /\ i + (k - (i - 1)) = k + 1 /\ ~(k <= i - 1)
      BY <1>1, <2>2
    <3> QED
      BY <1>3, <1>4, <2>2, <3>1
  <2> QED
    BY <2>1, <2>2
<1> QED
  BY <1>1, <1>4, <1>5 DEF Shifted

LEMMA RemovedIsIn ==
  ASSUME NEW S, NEW q \in Seq(S), NEW i \in 1..Len(q), NEW r, r = Without(q, i), Distinct(q)
  PROVE  /\ \A k \in 1..Len(r) : \E j \in 1..Len(q) : j # i /\ r[k] = q[j]
         /\ \A j \in 1..Len(q) : j = i \/ \E k \in 1..Len(r) : r[k] = q[j]
         /\ Distinct(r)
<1> PICK n : n = Len(q)
  OBVIOUS
<1>1. n \in Nat /\ n = Len(q) /\ i \in 1..n
  BY LenProperties
<1>2. Len(r) = n - 1 /\ \A k \in 1..(n - 1) : r[k] = IF k < i THEN q[k] ELSE q[k + 1]
  <2>1. Len(r) = Len(q) - 1 /\ Shifted(r, q, Len(q), i)
    BY <1>1, Removed
  <2> QED
    BY <1>1, <2>1 DEF Shifted
<1>3. \A j1, j2 \in 1..n : q[j1] = q[j2] => j1 = j2
  BY <1>1 DEF Distinct
<1>4. \A k \in 1..(n - 1) : k \in 1..n /\ k + 1 \in 1..n
  BY <1>1
<1>5. ASSUME NEW k \in 1..(n - 1) PROVE \E j \in 1..n : j # i /\ r[k] = q[j]
  <2>1. CASE k < i
    BY <1>1, <1>2, <1>4, <2>1
  <2>2. CASE ~(k < i)
    <3>1. k + 1 # i
      BY <1>1, <2>2
    <3> QED
      BY <1>2, <1>4, <2>2, <3>1
  <2> QED
    BY <2>1, <2>2
<1>6. ASSUME NEW j \in 1..n, j # i PROVE \E k \in 1..(n - 1) : r[k] = q[j]
  <2>1. CASE j < i
    <3>1. j \in 1..(n - 1)
      BY <1>1, <2>1
    <3> QED
      BY <1>2, <2>1, <3>1
  <2>2. CASE ~(j < i)
    <3>1. j - 1 \in 1..(n - 1) /\ ~(j - 1 < i) /\ (j - 1) + 1 = j
      BY <1>1, <1>6, <2>2
    <3> QED
      BY <1>2, <3>1
  <2> QED
    BY <2>1, <2>2
<1>7. ASSUME NEW k1 \in 1..(n - 1), NEW k2 \in 1..(n - 1), r[k1] = r[k2] PROVE k1 = k2
  <2>1. CASE k1 < i /\ k2 < i
    BY <1>2, <1>3, <1>4, <1>7, <2>1
  <2>2. CASE ~(k1 < i) /\ ~(k2 < i)
    <3>1. k1 + 1 = k2 + 1
      BY <1>2, <1>3, <1>4, <1>7, <2>2
    <3> QED
      BY <3>1
  <2>3. CASE k1 < i /\ ~(k2 < i)
    <3>1. k1 = k2 + 1
      BY <1>2, <1>3, <1>4, <1>7, <2>3
    <3> QED
      BY <1>1, <2>3, <3>1
  <2>4. CASE ~(k1 < i) /\ k2 < i
    <3>1. k1 + 1 = k2
      BY <1>2, <1>3, <1>4, <1>7, <2>4
    <3> QED
      BY <1>1, <2>4, <3>1
  <2> QED
    BY <2>1, <2>2, <2>3, <2>4
<1> QED
  BY <1>1, <1>2, <1>5, <1>6, <1>7 DEF Distinct

--------------------------------------------------------------------------------
(* Types *)

LEMMA FrameTypes ==
  ASSUME NEW f \in Frames
  PROVE  /\ \A x \in Pointers : [f EXCEPT !.tail = x] \in Frames /\ [f EXCEPT !.at = x] \in Frames
         /\ \A x \in Maybe : /\ [f EXCEPT !.next.ptr = x] \in Frames
                             /\ [f EXCEPT !.target = x] \in Frames /\ [f EXCEPT !.new = x] \in Frames
         /\ \A x \in Nat : [f EXCEPT !.next.count = x] \in Frames
         /\ \A x \in Values \cup {None} : [f EXCEPT !.data = x] \in Frames
         /\ [f EXCEPT !.tries = @ + 1] \in Frames
<1>1. ASSUME NEW x \in Pointers
      PROVE  [f EXCEPT !.tail = x] \in Frames /\ [f EXCEPT !.at = x] \in Frames /\ [f EXCEPT !.next = x] \in Frames
  BY DEF Frames
<1>2. f.next \in Pointers
  BY DEF Frames
<1>3. ASSUME NEW x \in Maybe
      PROVE  /\ [f EXCEPT !.next.ptr = x] \in Frames
             /\ [f EXCEPT !.target = x] \in Frames /\ [f EXCEPT !.new = x] \in Frames
  <2>1. [f.next EXCEPT !.ptr = x] \in Pointers
    BY <1>2 DEF Pointers, Maybe
  <2>2. [f EXCEPT !.next.ptr = x] = [f EXCEPT !.next = [f.next EXCEPT !.ptr = x]]
    BY DEF Frames
  <2>3. [f EXCEPT !.target = x] \in Frames /\ [f EXCEPT !.new = x] \in Frames
    BY DEF Frames
  <2> QED
    BY <1>1, <2>1, <2>2, <2>3
<1>4. ASSUME NEW x \in Nat PROVE [f EXCEPT !.next.count = x] \in Frames
  <2>1. [f.next EXCEPT !.count = x] \in Pointers
    BY <1>2 DEF Pointers
  <2>2. [f EXCEPT !.next.count = x] = [f EXCEPT !.next = [f.next EXCEPT !.count = x]]
    BY DEF Frames
  <2> QED
    BY <1>1, <2>1, <2>2
<1>5. ASSUME NEW x \in Values \cup {None} PROVE [f EXCEPT !.data = x] \in Frames
  BY DEF Frames
<1>6. [f EXCEPT !.tries = @ + 1] \in Frames
  BY DEF Frames
<1> QED
  BY <1>1, <1>3, <1>4, <1>5, <1>6

LEMMA NoFrameType == NoFrame \in Frames /\ NoFrame.new = Null
<1>1. NullPointer \in Pointers
  BY DEF NullPointer, Pointers
<1> QED
  BY <1>1 DEF NoFrame, Frames, Maybe

LEMMA EndsArePointers == Ends \subseteq Pointers /\ NullPointer \in Pointers
BY DEF Ends, Pointers, NullPointer

States == PushStates \cup PopStates
Only(t) == \A u \in Threads : u # t => pc'[u] = pc[u] /\ frame'[u] = frame[u]

LEMMA LocalStep ==
  ASSUME TypeOK, NEW t \in Threads, NEW f \in Frames, NEW where \in States, Locally(t, f, where)
  PROVE  /\ pc' \in [Threads -> States] /\ frame' \in [Threads -> Frames]
         /\ pc'[t] = where /\ frame'[t] = f /\ Only(t)
BY DEF TypeOK, Locally, GoTo, Only, States

LEMMA GoToStep ==
  ASSUME TypeOK, NEW t \in Threads, NEW where \in States, GoTo(t, where), UNCHANGED frame
  PROVE  /\ pc' \in [Threads -> States] /\ frame' \in [Threads -> Frames]
         /\ pc'[t] = where /\ frame'[t] = frame[t] /\ Only(t)
BY DEF TypeOK, GoTo, Only, States

LEMMA ReturnStep ==
  ASSUME TypeOK, NEW t \in Threads, Return(t)
  PROVE  /\ pc' \in [Threads -> States] /\ frame' \in [Threads -> Frames]
         /\ pc'[t] = "idle" /\ frame'[t] = NoFrame /\ Only(t)
<1>1. "idle" \in States
  BY DEF States, PushStates
<1> QED
  BY <1>1, NoFrameType, LocalStep DEF Return

\* The end of a round of Pop: the next one, or the end of the call.
LEMMA RejoinStep ==
  ASSUME TypeOK, NEW c \in Poppers, Rejoins(c, "popHead")
  PROVE  /\ pc' \in [Threads -> States] /\ frame' \in [Threads -> Frames]
         /\ pc'[c] \in {"idle", "popHead"} /\ frame'[c].new = Null /\ Only(c) /\ lost' = lost
<1>1. c \in Threads /\ frame[c] \in Frames /\ "popHead" \in States /\ frame[c].new = Null
  BY DEF Threads, TypeOK, States, PopStates
<1>2. CASE frame[c].tries + 1 < MaxRetry
  <2>1. Locally(c, [frame[c] EXCEPT !.tries = @ + 1], "popHead") /\ lost' = lost
    BY <1>2 DEF Rejoins
  <2>2. [frame[c] EXCEPT !.tries = @ + 1] \in Frames /\ [frame[c] EXCEPT !.tries = @ + 1].new = Null
    BY <1>1, FrameTypes DEF Frames
  <2> QED
    BY <1>1, <2>1, <2>2, LocalStep
<1>3. CASE ~(frame[c].tries + 1 < MaxRetry)
  <2>1. Return(c) /\ lost' = lost
    BY <1>1, <1>3 DEF Rejoins
  <2> QED
    BY <1>1, <2>1, ReturnStep, NoFrameType
<1> QED
  BY <1>2, <1>3

LEMMA PushTypes ==
  ASSUME TypeOK, NEW p \in Pushers, Pushers = {p},
         head' \in Ends, tail' \in Ends, num' \in Int,
         node' \in [Nodes -> [next : Pointers, data : Values \cup {None}]], pool' \in Seq(Nodes),
         pc' \in [Threads -> States], frame' \in [Threads -> Frames], pc'[p] \in PushStates, Only(p),
         sent' \in [Pushers -> 0..MaxPush], pc'[p] # "idle" => sent'[p] < MaxPush,
         got' = got, lost' = lost, stray' = stray, touched' \in BOOLEAN
  PROVE  TypeOK' /\ \A c \in Poppers : c # p /\ pc'[c] = pc[c] /\ frame'[c] = frame[c]
<1>1. \A c \in Poppers : c # p /\ pc'[c] = pc[c] /\ frame'[c] = frame[c]
  BY ThreadsAssumption DEF Only, Threads
<1>2. TypeOK'
  BY <1>1 DEF TypeOK, States
<1> QED
  BY <1>1, <1>2

LEMMA PopTypes ==
  ASSUME TypeOK, NEW p \in Pushers, Pushers = {p}, NEW c \in Poppers,
         head' \in Ends, tail' \in Ends, num' \in Int,
         node' = node, pool' \in Seq(Nodes),
         pc' \in [Threads -> States], frame' \in [Threads -> Frames], pc'[c] \in PopStates,
         frame'[c].new = Null, Only(c),
         sent' = sent, got' \in [Poppers -> Values \cup {None}], lost' = lost, stray' = stray, touched' \in BOOLEAN
  PROVE  /\ TypeOK'
         /\ pc'[p] = pc[p] /\ frame'[p] = frame[p] /\ p # c
         /\ \A d \in Poppers : d # c => pc'[d] = pc[d] /\ frame'[d] = frame[d]
<1>1. pc'[p] = pc[p] /\ frame'[p] = frame[p] /\ p # c
  BY ThreadsAssumption DEF Only, Threads
<1>2. \A d \in Poppers : d # c => pc'[d] = pc[d] /\ frame'[d] = frame[d]
  BY DEF Only, Threads
<1>3. TypeOK'
  BY <1>1, <1>2 DEF TypeOK, States
<1> QED
  BY <1>1, <1>2, <1>3

--------------------------------------------------------------------------------
(* What a step leaves alone *)

LEMMA PushLocal ==
  ASSUME TypeOK, NEW l, ListInv(l), NEW p \in Pushers, Pushers = {p}, UNCHANGED shared,
         \A c \in Poppers : c # p /\ pc'[c] = pc[c] /\ frame'[c] = frame[c],
         Holds(p)' <=> Holds(p), Holds(p) => frame'[p].new = frame[p].new,
         Filled(p)', TailAtEnd(l, p)', PushKnows(p)', Counts(l, p)'
  PROVE  ListInv(l)'
<1>1. IsPath(l, head.ptr, node)'
  BY DEF ListInv, IsPath, shared
<1>2. \A c \in Poppers : Owns(c)' <=> Owns(c)
  BY DEF Owns
<1>3. pool' = pool
  BY DEF shared
<1>4. Places(l)
  BY DEF ListInv
<1>5. Places(l)'
  BY <1>2, <1>3, <1>4 DEF Places
<1>6. ASSUME NEW c \in Poppers PROVE PopKnows(l, c)'
  <2>1. PopKnows(l, c)
    BY DEF ListInv
  <2>2. NotNewer(frame[c].at, head)' <=> NotNewer(frame[c].at, head)
    BY DEF NotNewer, shared
  <2>3. NotNewer(frame[c].tail, tail)' <=> NotNewer(frame[c].tail, tail)
    BY DEF NotNewer, shared
  <2> QED
    BY <1>2, <2>1, <2>2, <2>3 DEF PopKnows, shared
<1> QED
  BY <1>1, <1>5, <1>6 DEF ListInv

LEMMA PopLocal ==
  ASSUME TypeOK, NEW l, ListInv(l), NEW p \in Pushers, Pushers = {p}, NEW c \in Poppers,
         UNCHANGED shared, sent' = sent,
         pc'[p] = pc[p], frame'[p] = frame[p], p # c,
         \A d \in Poppers : d # c => pc'[d] = pc[d] /\ frame'[d] = frame[d],
         ~Owns(c), ~Owns(c)', PopKnows(l, c)'
  PROVE  ListInv(l)'
<1>1. IsPath(l, head.ptr, node)'
  BY DEF ListInv, IsPath, shared
<1>2. \A d \in Poppers : (Owns(d)' <=> Owns(d)) /\ (Owns(d) => frame'[d] = frame[d])
  BY DEF Owns
<1>3. pool' = pool
  BY DEF shared
<1>4. Places(l)
  BY DEF ListInv
<1>5. Holds(p)' <=> Holds(p)
  BY DEF Holds
<1>6. Places(l)'
  BY <1>2, <1>3, <1>4, <1>5 DEF Places
<1>7. ASSUME NEW d \in Poppers PROVE PopKnows(l, d)'
  <2> SUFFICES ASSUME d # c PROVE PopKnows(l, d)'
    OBVIOUS
  <2>1. PopKnows(l, d)
    BY DEF ListInv
  <2>2. NotNewer(frame[d].at, head)' <=> NotNewer(frame[d].at, head)
    BY DEF NotNewer, shared
  <2>3. NotNewer(frame[d].tail, tail)' <=> NotNewer(frame[d].tail, tail)
    BY DEF NotNewer, shared
  <2> QED
    BY <1>2, <2>1, <2>2, <2>3 DEF PopKnows, shared
<1>8. ToCount' = ToCount
  <2>1. pc[c] # "popCounts" /\ pc'[c] # "popCounts"
    BY DEF Owns
  <2> QED
    BY <2>1 DEF ToCount
<1>9. Filled(p)' /\ TailAtEnd(l, p)' /\ PushKnows(p)' /\ Counts(l, p)'
  <2>1. Filled(p) /\ TailAtEnd(l, p) /\ PushKnows(p) /\ Counts(l, p)
    BY DEF ListInv
  <2>2. Filled(p)'
    BY <2>1 DEF Filled, Outgoing, shared
  <2>3. TailAtEnd(l, p)'
    BY <2>1 DEF TailAtEnd, End, shared
  <2>4. PushKnows(p)'
    BY <2>1 DEF PushKnows, shared
  <2>5. Counts(l, p)'
    BY <1>8, <2>1 DEF Counts, shared
  <2> QED
    BY <2>2, <2>3, <2>4, <2>5
<1> QED
  BY <1>1, <1>6, <1>7, <1>9 DEF ListInv

\* m_Tail moves on to a node that is not the dummy.
LEMMA SwungPops ==
  ASSUME TypeOK, NEW l, ListInv(l), NEW c \in Poppers, pc'[c] = pc[c], frame'[c] = frame[c],
         UNCHANGED <<head, node>>, tail' \in Ends, tail'.count > tail.count, tail'.ptr # head.ptr
  PROVE  PopKnows(l, c)'
<1>1. PopKnows(l, c)
  BY DEF ListInv
<1>2. NotNewer(frame[c].at, head)' <=> NotNewer(frame[c].at, head)
  BY DEF NotNewer
<1>3. ASSUME NotNewer(frame[c].tail, tail)
      PROVE  NotNewer(frame[c].tail, tail)' /\ tail' # frame[c].tail
  <2>1. frame[c].tail \in Ends /\ frame[c].tail.count <= tail.count /\ frame[c].tail.count \in Nat
        /\ tail.count \in Nat /\ tail'.count \in Nat
    BY <1>3 DEF NotNewer, Ends, TypeOK
  <2>2. frame[c].tail.count < tail'.count
    BY <2>1
  <2> QED
    BY <2>1, <2>2 DEF NotNewer
<1>4. Owns(c)' <=> Owns(c)
  BY DEF Owns
<1> QED
  BY <1>1, <1>2, <1>3, <1>4 DEF PopKnows

--------------------------------------------------------------------------------
(* The queue begins with one node, the dummy. *)

LEMMA InitTypes == ASSUME OnePusher, Init PROVE TypeOK
<1> PICK p : Pushers = {p}
  BY DEF OnePusher
<1> PICK dummy \in Nodes, order \in [1..(Cardinality(Nodes) - 1) -> Nodes] :
       head = [ptr |-> dummy, count |-> 0] /\ pool = order
  BY DEF Init
<1>1. Cardinality(Nodes) \in Nat /\ Cardinality(Nodes) - 1 \in Nat
  <2>1. IsFiniteSet(Nodes) /\ Cardinality(Nodes) \in Nat /\ Cardinality(Nodes) # 0
    BY PoolAssumption, FS_EmptySet, FS_CardinalityType
  <2> QED
    BY <2>1
<1>2. pool \in Seq(Nodes)
  BY <1>1
<1>3. head \in Ends /\ tail \in Ends
  BY DEF Init, Ends
<1>4. node \in [Nodes -> [next : Pointers, data : Values \cup {None}]]
  BY EndsArePointers DEF Init
<1>5. /\ pc = [t \in Threads |-> "idle"] /\ "idle" \in PushStates /\ "idle" \in PopStates
      /\ Pushers \subseteq Threads /\ Poppers \subseteq Threads
  BY DEF Init, PushStates, PopStates, Threads
<1>6. /\ frame \in [Threads -> Frames] /\ \A c \in Poppers : frame[c].new = Null
  BY <1>5, NoFrameType DEF Init
<1>7. sent \in [Pushers -> 0..MaxPush] /\ got \in [Poppers -> Values \cup {None}]
  BY ThreadsAssumption DEF Init
<1>8. num \in Int /\ lost = {} /\ stray = FALSE /\ touched \in BOOLEAN
  <2>1. num = 0 /\ lost = {} /\ stray = FALSE /\ touched = FALSE
    BY DEF Init
  <2>2. num \in Int
    BY <2>1
  <2>3. touched \in BOOLEAN
    BY <2>1, Zenon
  <2> QED
    BY <2>1, <2>2, <2>3, Zenon
<1> QED
  BY <1>2, <1>3, <1>4, <1>5, <1>6, <1>7, <1>8 DEF TypeOK

LEMMA InitList == ASSUME OnePusher, Init PROVE ListInv(<<head.ptr>>)
<1> PICK p : Pushers = {p}
  BY DEF OnePusher
<1> DEFINE n == Cardinality(Nodes) - 1
           l == <<head.ptr>>
<1> PICK dummy \in Nodes, order \in [1..n -> Nodes] :
       {order[i] : i \in DOMAIN order} = Nodes \ {dummy} /\ head = [ptr |-> dummy, count |-> 0] /\ pool = order
  BY DEF Init
<1>1. n \in Nat /\ IsFiniteSet(Nodes) /\ Cardinality(Nodes \ {dummy}) = n
  <2>1. IsFiniteSet(Nodes) /\ Cardinality(Nodes) \in Nat /\ Cardinality(Nodes) # 0
    BY PoolAssumption, FS_EmptySet, FS_CardinalityType
  <2>2. n \in Nat
    BY <2>1
  <2>3. Cardinality(Nodes \ {dummy}) = n
    BY <2>1, FS_RemoveElement
  <2> QED
    BY <2>1, <2>2, <2>3
<1>2. order \in Injection(1..n, Nodes \ {dummy})
  <2>1. IsFiniteSet(1..n) /\ Cardinality(1..n) = n
    <3> HIDE DEF n
    <3> QED
      BY <1>1, FS_Interval
  <2>2. order \in Surjection(1..n, Nodes \ {dummy})
    BY DEF Surjection
  <2> HIDE DEF n
  <2> QED
    BY <1>1, <2>1, <2>2, FS_SurjSameCardinalityImpliesInj
<1>3. Len(pool) = n /\ \A i, j \in 1..Len(pool) : pool[i] = pool[j] => i = j
  <2>1. Len(pool) = n
    BY <1>1
  <2> QED
    BY <1>2, <2>1 DEF Injection, IsInjective
<1>4. \A i \in 1..Len(pool) : pool[i] # dummy
  BY <1>3
<1>5. \A x \in Nodes : x = dummy \/ \E i \in 1..Len(pool) : pool[i] = x
  BY <1>3
<1>6. l \in Seq(Nodes) /\ l # <<>> /\ Len(l) = 1 /\ l[1] = dummy /\ End(l) = dummy
  BY DEF End
<1>7. \A t \in Threads : pc[t] = "idle"
  BY DEF Init
<1>8. p \in Threads /\ Pushers \subseteq Threads /\ Poppers \subseteq Threads
  BY DEF Threads
<1> HIDE DEF l, n
<1>9. IsPath(l, head.ptr, node)
  <2>1. head.ptr = dummy /\ node[dummy].next.ptr = Null
    BY DEF Init, NullPointer
  <2> QED
    BY <1>6, <2>1 DEF IsPath
<1>10. \A t \in Threads : ~Holds(t) /\ ~Owns(t)
  BY <1>7 DEF Holds, Owns, Holding
<1>11. Places(l)
  BY <1>3, <1>4, <1>5, <1>6, <1>8, <1>10 DEF Places
<1>12. Filled(p) /\ TailAtEnd(l, p) /\ PushKnows(p)
  <2>1. tail.ptr = End(l)
    BY <1>6 DEF Init
  <2> QED
    BY <1>7, <1>8, <2>1 DEF Filled, TailAtEnd, PushKnows, Holding
<1>13. Counts(l, p)
  <2>1. ToCount = {}
    BY <1>7, <1>8 DEF ToCount
  <2>2. Cardinality(ToCount) = 0
    BY <2>1, FS_EmptySet
  <2>3. num = 0
    BY DEF Init
  <2> QED
    BY <1>6, <1>7, <1>8, <2>2, <2>3 DEF Counts, Linked, Holding
<1>14. \A c \in Poppers : PopKnows(l, c)
  BY <1>7, <1>8 DEF PopKnows, Owns
<1>15. ListInv(l)
  BY <1>9, <1>11, <1>12, <1>13, <1>14 DEF ListInv
<1> QED
  BY <1>15 DEF l

--------------------------------------------------------------------------------
(* The steps of Push *)

LEMMA PushChecksNumStep ==
  ASSUME TypeOK, NEW l, ListInv(l), NEW p \in Pushers, Pushers = {p}, PushChecksNum(p)
  PROVE  TypeOK' /\ ListInv(l)'
<1>1. p \in Threads /\ pc[p] = "idle" /\ sent[p] < MaxPush
  BY DEF Threads, PushChecksNum
<1>2. /\ pc' \in [Threads -> States] /\ frame' \in [Threads -> Frames]
      /\ pc'[p] \in {"idle", "pushAlloc"} /\ frame'[p] = frame[p] /\ Only(p)
      /\ pc'[p] = "pushAlloc" => num < MaxNum
  <2>1. CASE num < MaxNum
    <3>1. GoTo(p, "pushAlloc") /\ UNCHANGED frame /\ "pushAlloc" \in States
      BY <2>1 DEF PushChecksNum, States, PushStates
    <3> QED
      BY <1>1, <2>1, <3>1, GoToStep
  <2>2. CASE ~(num < MaxNum)
    BY <1>1, <2>2 DEF PushChecksNum, TypeOK, Only, States
  <2> QED
    BY <2>1, <2>2
<1>3. TypeOK' /\ \A c \in Poppers : c # p /\ pc'[c] = pc[c] /\ frame'[c] = frame[c]
  <2>1. pc'[p] \in PushStates
    BY <1>2 DEF PushStates
  <2> QED
    BY <1>1, <1>2, <2>1, PushTypes DEF PushChecksNum, shared, history, TypeOK
<1>4. UNCHANGED shared /\ UNCHANGED <<sent, num, node, tail>>
  BY DEF PushChecksNum, shared
<1>5. ~Holds(p) /\ ~Holds(p)'
  BY <1>1, <1>2 DEF Holds, Holding
<1>6. Filled(p) /\ TailAtEnd(l, p) /\ PushKnows(p) /\ Counts(l, p)
  BY DEF ListInv
<1>7. Filled(p)' /\ PushKnows(p)'
  BY <1>2 DEF Filled, PushKnows, Holding
<1>8. TailAtEnd(l, p)'
  BY <1>1, <1>2, <1>4, <1>6 DEF TailAtEnd, End
<1>9. Counts(l, p)'
  <2>1. ToCount' = ToCount
    BY <1>3 DEF ToCount
  <2> QED
    BY <1>1, <1>2, <1>4, <1>6, <2>1 DEF Counts, Linked, Holding
<1> QED
  BY <1>3, <1>4, <1>5, <1>7, <1>8, <1>9, PushLocal

\* The steps between the initialisation and the swap change the frame and nothing else.
LEMMA PushGoesOn ==
  ASSUME TypeOK, NEW l, ListInv(l), NEW p \in Pushers, Pushers = {p},
         NEW f \in Frames, NEW where \in Holding \ {"pushInit"},
         pc[p] \in Holding \ {"pushInit"}, Locally(p, f, where), f.new = frame[p].new,
         UNCHANGED <<shared, sent, got, lost, stray>>, touched' \in BOOLEAN,
         PushKnows(p)'
  PROVE  TypeOK' /\ ListInv(l)'
<1>1. p \in Threads /\ where \in PushStates /\ where \in States /\ where # "idle" /\ pc[p] # "idle"
  BY DEF Threads, PushStates, States, Holding
<1>2. /\ pc' \in [Threads -> States] /\ frame' \in [Threads -> Frames]
      /\ pc'[p] = where /\ frame'[p] = f /\ Only(p)
  BY <1>1, LocalStep
<1>3. sent[p] < MaxPush
  BY <1>1 DEF TypeOK
<1>4. TypeOK' /\ \A c \in Poppers : c # p /\ pc'[c] = pc[c] /\ frame'[c] = frame[c]
  BY <1>1, <1>2, <1>3, PushTypes DEF shared, TypeOK
<1>5. Holds(p) /\ Holds(p)'
  BY <1>2 DEF Holds
<1>6. Filled(p) /\ TailAtEnd(l, p) /\ Counts(l, p)
  BY DEF ListInv
<1>7. Filled(p)'
  BY <1>2, <1>6 DEF Filled, Outgoing, shared
<1>8. TailAtEnd(l, p)'
  BY <1>2, <1>6 DEF TailAtEnd, Holding, End, shared
<1>9. Counts(l, p)'
  <2>1. ToCount' = ToCount
    BY <1>4 DEF ToCount
  <2> QED
    BY <1>2, <1>6, <2>1 DEF Counts, Linked, Holding, shared
<1> QED
  BY <1>2, <1>4, <1>5, <1>7, <1>8, <1>9, PushLocal

LEMMA PushReadsTailStep ==
  ASSUME TypeOK, NEW l, ListInv(l), NEW p \in Pushers, Pushers = {p}, PushReadsTail(p)
  PROVE  TypeOK' /\ ListInv(l)'
<1> DEFINE f == [frame[p] EXCEPT !.tail = tail]
<1>1. p \in Threads /\ frame[p] \in Frames /\ tail \in Pointers
  BY EndsArePointers DEF Threads, TypeOK
<1>2. f \in Frames /\ f.tail = tail /\ f.new = frame[p].new
  BY <1>1, FrameTypes DEF Frames
<1> HIDE DEF f
<1>3. Locally(p, f, "pushNext") /\ UNCHANGED <<shared, sent, got, history>> /\ pc[p] = "pushTail"
  BY DEF PushReadsTail, f
<1>4. pc'[p] = "pushNext" /\ frame'[p] = f
  <2>1. "pushNext" \in States
    BY DEF States, PushStates
  <2> QED
    BY <1>1, <1>2, <1>3, <2>1, LocalStep
<1>5. PushKnows(p)'
  BY <1>2, <1>3, <1>4 DEF PushKnows, shared
<1>6. pc[p] \in Holding \ {"pushInit"} /\ "pushNext" \in Holding \ {"pushInit"}
  BY <1>3 DEF Holding
<1>7. UNCHANGED <<shared, sent, got, lost, stray>> /\ touched' \in BOOLEAN
  BY <1>3 DEF history, TypeOK
<1> QED
  BY <1>2, <1>3, <1>5, <1>6, <1>7, PushGoesOn

LEMMA PushReadsNextStep ==
  ASSUME TypeOK, NEW l, ListInv(l), NEW p \in Pushers, Pushers = {p}, PushReadsNext(p)
  PROVE  TypeOK' /\ ListInv(l)'
<1> DEFINE f == [frame[p] EXCEPT !.next.ptr = node[frame[p].tail.ptr].next.ptr]
<1>1. p \in Threads /\ frame[p] \in Frames /\ pc[p] = "pushNext"
  BY DEF Threads, TypeOK, PushReadsNext
<1>2. frame[p].tail = tail /\ node[tail.ptr].next.ptr = Null
  BY <1>1 DEF ListInv, PushKnows, TailAtEnd, IsPath, End
<1>3. f \in Frames /\ f.tail = tail /\ f.next.ptr = Null /\ f.new = frame[p].new
  <2>1. Null \in Maybe
    BY DEF Maybe
  <2>2. f = [frame[p] EXCEPT !.next.ptr = Null]
    BY <1>2
  <2>3. [frame[p] EXCEPT !.next.ptr = Null] \in Frames
    BY <1>1, <2>1, FrameTypes
  <2> QED
    BY <1>1, <1>2, <2>2, <2>3 DEF Frames, Pointers
<1> HIDE DEF f
<1>4. Locally(p, f, "pushCount") /\ UNCHANGED <<shared, sent, got, lost, stray>> /\ touched' \in BOOLEAN
  BY DEF PushReadsNext, f, Uses, TypeOK
<1>5. pc'[p] = "pushCount" /\ frame'[p] = f
  <2>1. "pushCount" \in States
    BY DEF States, PushStates
  <2> QED
    BY <1>1, <1>3, <1>4, <2>1, LocalStep
<1>6. PushKnows(p)'
  BY <1>3, <1>4, <1>5 DEF PushKnows, shared
<1>7. pc[p] \in Holding \ {"pushInit"} /\ "pushCount" \in Holding \ {"pushInit"}
  BY <1>1 DEF Holding
<1> QED
  BY <1>3, <1>4, <1>6, <1>7, PushGoesOn

LEMMA PushReadsCountStep ==
  ASSUME TypeOK, NEW l, ListInv(l), NEW p \in Pushers, Pushers = {p}, PushReadsCount(p)
  PROVE  TypeOK' /\ ListInv(l)'
<1> DEFINE k == node[frame[p].tail.ptr].next.count
           f == [frame[p] EXCEPT !.next.count = k]
<1>1. p \in Threads /\ frame[p] \in Frames /\ pc[p] = "pushCount"
  BY DEF Threads, TypeOK, PushReadsCount
<1>2. frame[p].tail = tail /\ frame[p].next.ptr = Null /\ k = node[tail.ptr].next.count
  BY <1>1 DEF ListInv, PushKnows
<1>3. k \in Nat
  BY <1>2 DEF TypeOK, Ends, Pointers
<1>4. f \in Frames /\ f.tail = tail /\ f.next.ptr = Null /\ f.next.count = k /\ f.new = frame[p].new
  <2>1. f \in Frames
    BY <1>1, <1>3, FrameTypes
  <2> HIDE DEF k
  <2> QED
    BY <1>1, <1>2, <2>1 DEF Frames, Pointers
<1>5. Locally(p, f, "pushCheck") /\ UNCHANGED <<shared, sent, got, lost, stray>> /\ touched' \in BOOLEAN
  BY DEF PushReadsCount, Uses, TypeOK
<1> HIDE DEF f, k
<1>6. pc'[p] = "pushCheck" /\ frame'[p] = f
  <2>1. "pushCheck" \in States
    BY DEF States, PushStates
  <2> QED
    BY <1>1, <1>4, <1>5, <2>1, LocalStep
<1>7. PushKnows(p)'
  BY <1>2, <1>4, <1>5, <1>6 DEF PushKnows, shared
<1>8. pc[p] \in Holding \ {"pushInit"} /\ "pushCheck" \in Holding \ {"pushInit"}
  BY <1>1 DEF Holding
<1> QED
  BY <1>4, <1>5, <1>7, <1>8, PushGoesOn

LEMMA PushChecksTailStep ==
  ASSUME TypeOK, NEW l, ListInv(l), NEW p \in Pushers, Pushers = {p}, PushChecksTail(p)
  PROVE  TypeOK' /\ ListInv(l)'
<1>1. p \in Threads /\ frame[p] \in Frames /\ pc[p] = "pushCheck"
  BY DEF Threads, TypeOK, PushChecksTail
<1>2. /\ frame[p].tail = tail /\ frame[p].next.ptr = Null
      /\ frame[p].next.count = node[tail.ptr].next.count
  BY <1>1 DEF ListInv, PushKnows
<1>3. GoTo(p, "pushTarget") /\ UNCHANGED <<frame, lost>>
  BY <1>2 DEF PushChecksTail
<1>4. UNCHANGED <<shared, sent, got, stray, touched>>
  BY DEF PushChecksTail
<1>5. Locally(p, frame[p], "pushTarget")
  BY <1>1, <1>3 DEF Locally, TypeOK
<1>6. pc'[p] = "pushTarget" /\ frame'[p] = frame[p]
  <2>1. "pushTarget" \in States
    BY DEF States, PushStates
  <2> QED
    BY <1>1, <1>5, <2>1, LocalStep
<1>7. PushKnows(p)'
  BY <1>2, <1>4, <1>6 DEF PushKnows, shared
<1>8. pc[p] \in Holding \ {"pushInit"} /\ "pushTarget" \in Holding \ {"pushInit"}
  BY <1>1 DEF Holding
<1>9. UNCHANGED <<shared, sent, got, lost, stray>> /\ touched' \in BOOLEAN
  BY <1>3, <1>4 DEF TypeOK
<1> QED
  BY <1>1, <1>5, <1>7, <1>8, <1>9, PushGoesOn

LEMMA PushTakesTargetStep ==
  ASSUME TypeOK, NEW l, ListInv(l), NEW p \in Pushers, Pushers = {p}, PushTakesTarget(p)
  PROVE  TypeOK' /\ ListInv(l)'
<1> DEFINE f == [frame[p] EXCEPT !.target = tail.ptr]
<1>1. p \in Threads /\ frame[p] \in Frames /\ pc[p] = "pushTarget" /\ tail.ptr \in Maybe
  BY DEF Threads, TypeOK, PushTakesTarget, Ends, Maybe
<1>2. /\ frame[p].tail = tail /\ frame[p].next.ptr = Null
      /\ frame[p].next.count = node[tail.ptr].next.count
  BY <1>1 DEF ListInv, PushKnows
<1>3. f \in Frames /\ f.tail = tail /\ f.next = frame[p].next /\ f.target = tail.ptr /\ f.new = frame[p].new
  BY <1>1, <1>2, FrameTypes DEF Frames
<1> HIDE DEF f
<1>4. Locally(p, f, "pushLink") /\ UNCHANGED <<shared, sent, got, lost, stray>> /\ touched' \in BOOLEAN
  BY DEF PushTakesTarget, f, history, TypeOK
<1>5. pc'[p] = "pushLink" /\ frame'[p] = f
  <2>1. "pushLink" \in States
    BY DEF States, PushStates
  <2> QED
    BY <1>1, <1>3, <1>4, <2>1, LocalStep
<1>6. PushKnows(p)'
  BY <1>2, <1>3, <1>4, <1>5 DEF PushKnows, shared
<1>7. pc[p] \in Holding \ {"pushInit"} /\ "pushLink" \in Holding \ {"pushInit"}
  BY <1>1 DEF Holding
<1> QED
  BY <1>3, <1>4, <1>6, <1>7, PushGoesOn

\* What a pop knows outlives a change of nodes that it does not look at.
LEMMA PopsKept ==
  ASSUME NEW l, ListInv(l), NEW m, NEW c \in Poppers, pc'[c] = pc[c], frame'[c] = frame[c],
         UNCHANGED <<head, tail>>,
         Len(l) > 1 => Len(m) > 1 /\ m[2] = l[2] /\ node'[l[2]].data = node[l[2]].data
  PROVE  PopKnows(m, c)'
<1>1. PopKnows(l, c)
  BY DEF ListInv
<1>2. NotNewer(frame[c].at, head)' <=> NotNewer(frame[c].at, head)
  BY DEF NotNewer
<1>3. NotNewer(frame[c].tail, tail)' <=> NotNewer(frame[c].tail, tail)
  BY DEF NotNewer
<1>4. Owns(c)' <=> Owns(c)
  BY DEF Owns
<1>5. pc[c] = "popSwap" /\ head = frame[c].at => Len(l) > 1
  BY <1>1 DEF PopKnows
<1> QED
  BY <1>1, <1>2, <1>3, <1>4, <1>5 DEF PopKnows

LEMMA PlacesKept ==
  ASSUME NEW l, Places(l), NEW p \in Pushers, Pushers = {p}, pool' = pool,
         Holds(p)' <=> Holds(p), Holds(p) => frame'[p].new = frame[p].new,
         \A c \in Poppers : pc'[c] = pc[c] /\ frame'[c] = frame[c]
  PROVE  Places(l)'
<1>1. \A c \in Poppers : Owns(c)' <=> Owns(c)
  BY DEF Owns
<1> QED
  BY <1>1 DEF Places

LEMMA PushAllocsStep ==
  ASSUME TypeOK, NEW l, ListInv(l), NEW p \in Pushers, Pushers = {p}, PushAllocs(p)
  PROVE  TypeOK' /\ ListInv(l)'
<1>1. p \in Threads /\ pc[p] = "pushAlloc" /\ sent[p] < MaxPush /\ pool \in Seq(Nodes)
  BY DEF Threads, PushAllocs, TypeOK
<1>2. Filled(p) /\ TailAtEnd(l, p) /\ PushKnows(p) /\ Counts(l, p) /\ Places(l) /\ IsPath(l, head.ptr, node)
  BY DEF ListInv
<1>3. CASE pool = <<>>
  <2>1. Return(p) /\ UNCHANGED shared /\ UNCHANGED <<sent, got, history>>
    BY <1>3 DEF PushAllocs, shared
  <2>2. /\ pc' \in [Threads -> States] /\ frame' \in [Threads -> Frames]
        /\ pc'[p] = "idle" /\ Only(p)
    BY <1>1, <2>1, ReturnStep
  <2>3. TypeOK' /\ \A c \in Poppers : c # p /\ pc'[c] = pc[c] /\ frame'[c] = frame[c]
    <3>1. pc'[p] \in PushStates
      BY <2>2 DEF PushStates
    <3> QED
      BY <2>1, <2>2, <3>1, PushTypes DEF shared, history, TypeOK
  <2>4. ~Holds(p) /\ ~Holds(p)' /\ Filled(p)' /\ PushKnows(p)'
    BY <1>1, <2>2 DEF Holds, Holding, Filled, PushKnows
  <2>5. TailAtEnd(l, p)'
    BY <1>1, <1>2, <2>1, <2>2 DEF TailAtEnd, End, shared
  <2>6. Counts(l, p)'
    <3>1. ToCount' = ToCount
      BY <2>3 DEF ToCount
    <3> QED
      BY <1>1, <1>2, <2>1, <2>2, <3>1 DEF Counts, Linked, Holding, shared
  <2> QED
    BY <2>1, <2>3, <2>4, <2>5, <2>6, PushLocal
<1>4. CASE pool # <<>>
  <2>0. PICK i \in DOMAIN pool :
        /\ Locally(p, [NoFrame EXCEPT !.new = pool[i]], "pushInit")
        /\ pool' = SubSeq(pool, 1, i - 1) \o SubSeq(pool, i + 1, Len(pool))
        /\ node' = IF Recycles THEN node ELSE [node EXCEPT ![pool[i]].next = NullPointer]
    <3>1. 1 \in DOMAIN pool
      BY <1>1, <1>4, EmptySeq, LenProperties
    <3> QED
      BY <1>4, <3>1 DEF PushAllocs
  <2> DEFINE new == pool[i]
             f == [NoFrame EXCEPT !.new = new]
  <2>1. i \in 1..Len(pool) /\ Len(pool) \in Nat /\ new \in Nodes
    BY <1>1, LenProperties, ElementOfSeq
  <2>2. f \in Frames /\ f.new = new
    <3>1. new \in Maybe
      BY <2>1 DEF Maybe
    <3> QED
      BY <3>1, NoFrameType, FrameTypes DEF NoFrame
  <2>3. pool' \in Seq(Nodes)
    <3>1. pool' = Without(pool, i)
      BY <2>0 DEF Without
    <3> QED
      BY <1>1, <2>1, <3>1, Removed
  <2>4. Locally(p, f, "pushInit") /\ UNCHANGED <<head, tail, num, sent, got, history>>
    BY <2>0 DEF PushAllocs
  <2>5. /\ node' \in [Nodes -> [next : Pointers, data : Values \cup {None}]]
        /\ \A x \in Nodes : node'[x].data = node[x].data /\ (x # new => node'[x] = node[x])
    BY <2>0, <2>1, EndsArePointers DEF TypeOK
  <2> HIDE DEF new, f
  <2>6. /\ pc' \in [Threads -> States] /\ frame' \in [Threads -> Frames]
        /\ pc'[p] = "pushInit" /\ frame'[p].new = new /\ Only(p)
    <3>1. "pushInit" \in States
      BY DEF States, PushStates
    <3> QED
      BY <1>1, <2>2, <2>4, <3>1, LocalStep
  <2>7. TypeOK' /\ \A c \in Poppers : c # p /\ pc'[c] = pc[c] /\ frame'[c] = frame[c]
    <3>1. pc'[p] \in PushStates
      BY <2>6 DEF PushStates
    <3>2. head' = head /\ tail' = tail /\ num' = num /\ sent' = sent /\ got' = got /\ UNCHANGED history
      BY <2>4
    <3> QED
      BY <1>1, <2>3, <2>5, <2>6, <3>1, <3>2, PushTypes DEF history, TypeOK
  <2>8. \A j \in 1..Len(l) : l[j] \in Nodes /\ l[j] # new
    <3>1. \A j \in 1..Len(l) : pool[i] # l[j]
      BY <1>2, <2>1 DEF Places
    <3> QED
      BY <1>2, <3>1, PathLength DEF new
  <2>9. IsPath(l, head.ptr, node)'
    <3>1. \A j \in 1..Len(l) : node'[l[j]].next.ptr = node[l[j]].next.ptr
      BY <2>5, <2>8
    <3>2. IsPath(l, head.ptr, node')
      BY <1>2, <3>1, PathKept
    <3> QED
      BY <2>4, <3>2
  <2>10. Holds(p)' /\ \A c \in Poppers : Owns(c)' <=> Owns(c)
    BY <2>6, <2>7 DEF Holds, Holding, Owns
  <2>11. /\ \A k \in 1..Len(pool') : \E j \in 1..Len(pool) : j # i /\ pool'[k] = pool[j]
         /\ \A j \in 1..Len(pool) : j = i \/ \E k \in 1..Len(pool') : pool'[k] = pool[j]
         /\ Distinct(pool')
    <3>1. Distinct(pool)
      BY <1>2 DEF Places, Distinct
    <3>2. pool' = Without(pool, i)
      BY <2>0 DEF Without
    <3> PICK r : r = pool'
      OBVIOUS
    <3>3. r = Without(pool, i)
      BY <3>2
    <3>4. /\ \A k \in 1..Len(r) : \E j \in 1..Len(pool) : j # i /\ r[k] = pool[j]
          /\ \A j \in 1..Len(pool) : j = i \/ \E k \in 1..Len(r) : r[k] = pool[j]
          /\ Distinct(r)
      BY <1>1, <2>1, <3>1, <3>3, RemovedIsIn
    <3> QED
      BY <3>4
  <2>14. Places(l)'
    <3>1. \A k \in 1..Len(pool'), j \in 1..Len(l) : pool'[k] # l[j]
      BY <1>2, <2>11 DEF Places
    <3>2. /\ new \in Nodes
          /\ \A k \in 1..Len(pool') : pool'[k] # new
          /\ \A c \in Poppers : Owns(c) => frame[c].at.ptr # new
      BY <1>2, <2>1, <2>11 DEF Places, new
    <3>3. \A c \in Poppers : Owns(c) =>
            /\ \A k \in 1..Len(pool') : pool'[k] # frame[c].at.ptr
            /\ \A j \in 1..Len(l) : l[j] # frame[c].at.ptr
            /\ \A d \in Poppers : Owns(d) /\ frame[d].at.ptr = frame[c].at.ptr => d = c
      BY <1>2, <2>11 DEF Places
    <3>4. ~Holds(p)
      BY <1>1 DEF Holds, Holding
    <3>5. \A x \in Nodes : \/ x = new
                           \/ \E k \in 1..Len(pool') : pool'[k] = x
                           \/ \E j \in 1..Len(l) : l[j] = x
                           \/ \E c \in Poppers : Owns(c) /\ frame[c].at.ptr = x
      BY <1>2, <2>11, <3>4 DEF Places, new
    <3>6. \A j1, j2 \in 1..Len(pool') : pool'[j1] = pool'[j2] => j1 = j2
      BY <2>11 DEF Distinct
    <3>7. \A q \in Pushers : Holds(q)' =>
            /\ frame'[q].new \in Nodes
            /\ \A k \in 1..Len(pool') : pool'[k] # frame'[q].new
            /\ \A j \in 1..Len(l) : l[j] # frame'[q].new
            /\ \A c \in Poppers : Owns(c)' => frame'[c].at.ptr # frame'[q].new
      BY <2>6, <2>7, <2>8, <2>10, <3>2
    <3>8. \A c \in Poppers : Owns(c)' =>
            /\ \A k \in 1..Len(pool') : pool'[k] # frame'[c].at.ptr
            /\ \A j \in 1..Len(l) : l[j] # frame'[c].at.ptr
            /\ \A d \in Poppers : Owns(d)' /\ frame'[d].at.ptr = frame'[c].at.ptr => d = c
      BY <2>7, <2>10, <3>3
    <3>9. \A x \in Nodes : \/ \E k \in 1..Len(pool') : pool'[k] = x
                           \/ \E j \in 1..Len(l) : l[j] = x
                           \/ \E q \in Pushers : Holds(q)' /\ frame'[q].new = x
                           \/ \E c \in Poppers : Owns(c)' /\ frame'[c].at.ptr = x
      BY <2>6, <2>7, <2>10, <3>5
    <3> QED
      BY <3>1, <3>6, <3>7, <3>8, <3>9 DEF Places
  <2>15. Filled(p)' /\ PushKnows(p)'
    BY <2>6 DEF Filled, PushKnows
  <2>16. TailAtEnd(l, p)'
    BY <1>1, <1>2, <2>4, <2>6 DEF TailAtEnd, End
  <2>17. Counts(l, p)'
    <3>1. ToCount' = ToCount
      BY <2>7 DEF ToCount
    <3> QED
      BY <1>1, <1>2, <2>4, <2>6, <3>1 DEF Counts, Linked, Holding
  <2>18. ASSUME NEW c \in Poppers PROVE PopKnows(l, c)'
    <3>1. pc'[c] = pc[c] /\ frame'[c] = frame[c] /\ UNCHANGED <<head, tail>>
      BY <2>4, <2>7
    <3>2. Len(l) > 1 => Len(l) > 1 /\ l[2] = l[2] /\ node'[l[2]].data = node[l[2]].data
      <4>1. Len(l) > 1 => 2 \in 1..Len(l)
        BY <1>2, PathLength
      <4> QED
        BY <2>5, <2>8, <4>1
    <3> QED
      BY <3>1, <3>2, PopsKept
  <2> QED
    BY <2>7, <2>9, <2>14, <2>15, <2>16, <2>17, <2>18 DEF ListInv
<1> QED
  BY <1>3, <1>4

LEMMA PushInitsStep ==
  ASSUME TypeOK, NEW l, ListInv(l), NEW p \in Pushers, Pushers = {p}, PushInits(p)
  PROVE  TypeOK' /\ ListInv(l)'
<1> DEFINE new == frame[p].new
<1>1. p \in Threads /\ pc[p] = "pushInit" /\ sent[p] < MaxPush /\ frame[p] \in Frames
  BY DEF Threads, PushInits, TypeOK
<1>2. Filled(p) /\ TailAtEnd(l, p) /\ PushKnows(p) /\ Counts(l, p) /\ Places(l) /\ IsPath(l, head.ptr, node)
  BY DEF ListInv
<1>3. Holds(p) /\ new \in Nodes /\ \A j \in 1..Len(l) : l[j] \in Nodes /\ l[j] # new
  <2>1. Holds(p)
    BY <1>1 DEF Holds, Holding
  <2> QED
    BY <1>2, <2>1, PathLength DEF Places
<1>4. Outgoing(p) \in Values
  <2>1. sent[p] \in 0..MaxPush /\ MaxPush \in Nat
    BY ThreadsAssumption DEF TypeOK
  <2>2. sent[p] + 1 \in 1..MaxPush
    BY <1>1, <2>1
  <2> QED
    BY <2>2 DEF Outgoing, Values
<1>5. /\ node' \in [Nodes -> [next : Pointers, data : Values \cup {None}]]
      /\ node'[new].data = Outgoing(p) /\ node'[new].next.ptr = Null
      /\ \A x \in Nodes : x # new => node'[x] = node[x]
  <2>1. node' = [node EXCEPT ![new].data = Outgoing(p), ![new].next.ptr = Null]
    BY DEF PushInits
  <2>2. node \in [Nodes -> [next : Pointers, data : Values \cup {None}]]
    BY DEF TypeOK
  <2> DEFINE rec == [node[new] EXCEPT !.data = Outgoing(p), !.next = [node[new].next EXCEPT !.ptr = Null]]
  <2>3. rec \in [next : Pointers, data : Values \cup {None}] /\ rec.data = Outgoing(p) /\ rec.next.ptr = Null
    BY ZenonT(60), <1>3, <1>4, <2>2 DEF Pointers
  <2>4. node' = [node EXCEPT ![new] = rec]
    BY <1>3, <2>1, <2>2
  <2> HIDE DEF rec, new
  <2> QED
    BY <1>3, <2>2, <2>3, <2>4
<1>6. GoTo(p, "pushTail") /\ UNCHANGED <<head, tail, pool, num, frame, sent, got, history>>
  BY DEF PushInits
<1> HIDE DEF new
<1>7. /\ pc' \in [Threads -> States] /\ frame' \in [Threads -> Frames]
      /\ pc'[p] = "pushTail" /\ frame'[p] = frame[p] /\ Only(p)
  <2>1. "pushTail" \in States /\ UNCHANGED frame
    BY <1>6 DEF States, PushStates
  <2> QED
    BY <1>1, <1>6, <2>1, GoToStep
<1>8. TypeOK' /\ \A c \in Poppers : c # p /\ pc'[c] = pc[c] /\ frame'[c] = frame[c]
  <2>1. pc'[p] \in PushStates
    BY <1>7 DEF PushStates
  <2>2. head' = head /\ tail' = tail /\ num' = num /\ sent' = sent /\ got' = got /\ UNCHANGED history /\ pool' = pool
    BY <1>6
  <2> QED
    BY <1>1, <1>5, <1>7, <2>1, <2>2, PushTypes DEF history, TypeOK
<1>9. IsPath(l, head.ptr, node)'
  <2>1. \A j \in 1..Len(l) : node'[l[j]].next.ptr = node[l[j]].next.ptr
    BY <1>3, <1>5
  <2>2. IsPath(l, head.ptr, node')
    BY <1>2, <2>1, PathKept
  <2> QED
    BY <1>6, <2>2
<1>10. Holds(p)' /\ Places(l)'
  <2>1. Holds(p)' /\ pool' = pool
    BY <1>6, <1>7 DEF Holds, Holding
  <2> QED
    BY <1>2, <1>3, <1>7, <1>8, <2>1, PlacesKept
<1>11. Filled(p)' /\ PushKnows(p)'
  BY <1>5, <1>6, <1>7 DEF Filled, PushKnows, Outgoing, new
<1>12. TailAtEnd(l, p)'
  BY <1>1, <1>2, <1>6, <1>7 DEF TailAtEnd, End
<1>13. Counts(l, p)'
  <2>1. ToCount' = ToCount
    BY <1>8 DEF ToCount
  <2> QED
    BY <1>1, <1>2, <1>6, <1>7, <2>1 DEF Counts, Linked, Holding
<1>14. ASSUME NEW c \in Poppers PROVE PopKnows(l, c)'
  <2>1. pc'[c] = pc[c] /\ frame'[c] = frame[c] /\ UNCHANGED <<head, tail>>
    BY <1>6, <1>8
  <2>2. Len(l) > 1 => Len(l) > 1 /\ l[2] = l[2] /\ node'[l[2]].data = node[l[2]].data
    <3>1. Len(l) > 1 => 2 \in 1..Len(l)
      BY <1>2, PathLength
    <3> QED
      BY <1>3, <1>5, <3>1
  <2> QED
    BY <2>1, <2>2, PopsKept
<1> QED
  BY <1>8, <1>9, <1>10, <1>11, <1>12, <1>13, <1>14 DEF ListInv

\* The swap finds the last node of the list.
LEMMA PushLinksStep ==
  ASSUME TypeOK, NEW l, ListInv(l), NEW p \in Pushers, Pushers = {p}, PushLinks(p)
  PROVE  TypeOK' /\ \E m : m = Append(l, frame[p].new) /\ ListInv(m)'
<1>new. PICK new : new = frame[p].new
  OBVIOUS
<1>m. PICK m : m = Append(l, new)
  OBVIOUS
<1> DEFINE end == End(l)
<1>1. p \in Threads /\ pc[p] = "pushLink" /\ sent[p] < MaxPush /\ frame[p] \in Frames
  BY DEF Threads, PushLinks, TypeOK
<1>2. Filled(p) /\ TailAtEnd(l, p) /\ PushKnows(p) /\ Counts(l, p) /\ Places(l) /\ IsPath(l, head.ptr, node)
  BY DEF ListInv
<1>3. Holds(p) /\ new \in Nodes /\ \A j \in 1..Len(l) : l[j] \in Nodes /\ l[j] # new
  <2>1. Holds(p)
    BY <1>1 DEF Holds, Holding
  <2> QED
    BY <1>2, <1>new, <2>1, PathLength DEF Places
<1>4. Len(l) \in Nat \ {0} /\ l \in Seq(Nodes) /\ Len(l) \in 1..Len(l) /\ end \in Nodes /\ end # new
  <2>1. Len(l) \in Nat \ {0} /\ l \in Seq(Nodes)
    BY <1>2, PathLength DEF IsPath
  <2>2. Len(l) \in 1..Len(l)
    BY <2>1
  <2> QED
    BY <1>3, <2>1, <2>2 DEF End
<1>5. /\ tail.ptr = end /\ frame[p].tail = tail /\ frame[p].target = end
      /\ frame[p].next.ptr = Null /\ frame[p].next.count \in Nat
  BY <1>1, <1>2 DEF TailAtEnd, PushKnows, Frames, Pointers
<1>6. stray' = FALSE /\ stray = FALSE
  <2>1. Last = end
    BY <1>2, ChainIsPath DEF Last, End
  <2> QED
    BY <1>5, <2>1 DEF PushLinks, TypeOK
<1>7. /\ node' \in [Nodes -> [next : Pointers, data : Values \cup {None}]]
      /\ node'[end].next.ptr = new /\ node'[end].data = node[end].data
      /\ \A x \in Nodes : x # end => node'[x] = node[x]
  <2> DEFINE k == frame[p].next.count + 1
             ptr == [ptr |-> new, count |-> k]
  <2>1. node' = [node EXCEPT ![end].next = ptr]
    BY <1>5, <1>new DEF PushLinks
  <2>2. k \in Nat
    BY <1>5
  <2>3. ptr \in Pointers /\ ptr.ptr = new
    <3> HIDE DEF k
    <3> QED
      BY <1>3, <2>2 DEF Pointers
  <2>4. node \in [Nodes -> [next : Pointers, data : Values \cup {None}]]
    BY DEF TypeOK
  <2> HIDE DEF ptr, end
  <2> QED
    BY <1>4, <2>1, <2>3, <2>4
<1>8. GoTo(p, "pushSwing") /\ UNCHANGED <<head, tail, pool, num, frame, sent, got, lost>> /\ touched' \in BOOLEAN
  BY DEF PushLinks, Uses, TypeOK
<1> HIDE DEF end
<1>9. /\ pc' \in [Threads -> States] /\ frame' \in [Threads -> Frames]
      /\ pc'[p] = "pushSwing" /\ frame'[p] = frame[p] /\ Only(p)
  <2>1. "pushSwing" \in States /\ UNCHANGED frame
    BY <1>8 DEF States, PushStates
  <2> QED
    BY <1>1, <1>8, <2>1, GoToStep
<1>10. TypeOK' /\ \A c \in Poppers : c # p /\ pc'[c] = pc[c] /\ frame'[c] = frame[c]
  <2>1. pc'[p] \in PushStates
    BY <1>9 DEF PushStates
  <2>2. head' = head /\ tail' = tail /\ num' = num /\ sent' = sent /\ got' = got /\ lost' = lost /\ pool' = pool
        /\ stray' = stray
    BY <1>6, <1>8
  <2> QED
    BY <1>1, <1>7, <1>8, <1>9, <2>1, <2>2, PushTypes DEF TypeOK
<1>11. /\ Len(m) = Len(l) + 1 /\ m[Len(l) + 1] = new
       /\ \A i \in 1..Len(l) : m[i] = l[i]
  <2>1. l \in Seq(Nodes) /\ new \in Nodes
    BY <1>3, <1>4
  <2> QED
    BY <2>1, <1>m, AppendProperties
<1>12. IsPath(m, head.ptr, node)'
  <2>1. \A i \in 1..(Len(l) - 1) : node'[l[i]].next.ptr = node[l[i]].next.ptr
    <3> TAKE i \in 1..(Len(l) - 1)
    <3>1. i \in 1..Len(l) /\ i # Len(l)
      BY <1>4
    <3>2. l[i] # end
      BY <1>2, <1>4, <3>1 DEF IsPath, End, end
    <3> QED
      BY <1>3, <1>7, <3>1, <3>2
  <2>2. node[new].next.ptr = Null
    BY <1>1, <1>2, <1>new DEF Filled, Holding
  <2>3. node'[new].next.ptr = Null /\ node'[End(l)].next.ptr = new
    BY <1>3, <1>4, <1>7, <2>2 DEF end
  <2>4. IsPath(m, head.ptr, node')
    BY <1>2, <1>3, <1>m, <2>1, <2>3, PathAppend
  <2> QED
    BY <1>8, <2>4
<1>13. ~Holds(p)' /\ \A c \in Poppers : (Owns(c)' <=> Owns(c)) /\ (Owns(c) => frame[c].at.ptr # new)
  <2>1. \A c \in Poppers : Owns(c) => frame[c].at.ptr # new
    BY <1>2, <1>3, <1>new DEF Places
  <2> QED
    BY <1>9, <1>10, <2>1 DEF Holds, Holding, Owns
<1>14. \A j \in 1..Len(m) : j \in 1..Len(l) \/ j = Len(l) + 1
  BY <1>4, <1>11
<1>15. Places(m)'
  <2>1. \A i \in 1..Len(pool), j \in 1..Len(m) : pool[i] # m[j]
    <3>1. \A i \in 1..Len(pool), j \in 1..Len(l) : pool[i] # l[j] /\ pool[i] # new
      BY <1>2, <1>3, <1>new DEF Places
    <3>2. \A i \in 1..Len(pool) : pool[i] # new
      BY <1>2, <1>3, <1>new DEF Places
    <3> QED
      BY <1>11, <1>14, <3>1, <3>2
  <2>2. \A c \in Poppers : Owns(c)' =>
          /\ \A i \in 1..Len(pool) : pool[i] # frame'[c].at.ptr
          /\ \A j \in 1..Len(m) : m[j] # frame'[c].at.ptr
          /\ \A d \in Poppers : Owns(d)' /\ frame'[d].at.ptr = frame'[c].at.ptr => d = c
    <3> SUFFICES ASSUME NEW c \in Poppers, Owns(c)'
                 PROVE  /\ \A i \in 1..Len(pool) : pool[i] # frame'[c].at.ptr
                        /\ \A j \in 1..Len(m) : m[j] # frame'[c].at.ptr
                        /\ \A d \in Poppers : Owns(d)' /\ frame'[d].at.ptr = frame'[c].at.ptr => d = c
      OBVIOUS
    <3>1. Owns(c) /\ frame'[c] = frame[c] /\ frame[c].at.ptr # new
      BY <1>10, <1>13
    <3>2. /\ \A i \in 1..Len(pool) : pool[i] # frame[c].at.ptr
          /\ \A j \in 1..Len(l) : l[j] # frame[c].at.ptr
          /\ \A d \in Poppers : Owns(d) /\ frame[d].at.ptr = frame[c].at.ptr => d = c
      BY <1>2, <3>1 DEF Places
    <3>3. \A j \in 1..Len(m) : m[j] # frame[c].at.ptr
      BY <1>11, <1>14, <3>1, <3>2
    <3> QED
      BY <1>10, <1>13, <3>1, <3>2, <3>3
  <2>3. \A x \in Nodes : \/ \E i \in 1..Len(pool) : pool[i] = x
                         \/ \E j \in 1..Len(m) : m[j] = x
                         \/ \E c \in Poppers : Owns(c)' /\ frame'[c].at.ptr = x
    <3> TAKE x \in Nodes
    <3>1. \/ \E i \in 1..Len(pool) : pool[i] = x
          \/ \E j \in 1..Len(l) : l[j] = x
          \/ x = new
          \/ \E c \in Poppers : Owns(c) /\ frame[c].at.ptr = x
      BY <1>2, <1>new DEF Places
    <3>2. Len(l) + 1 \in 1..Len(m) /\ \A j \in 1..Len(l) : j \in 1..Len(m)
      BY <1>4, <1>11
    <3> QED
      BY <1>10, <1>11, <1>13, <3>1, <3>2
  <2>4. pool' = pool /\ \A i, j \in 1..Len(pool) : pool[i] = pool[j] => i = j
    BY <1>2, <1>8 DEF Places
  <2> QED
    BY <1>13, <2>1, <2>2, <2>3, <2>4 DEF Places
<1>16. Filled(p)' /\ PushKnows(p)'
  BY <1>9 DEF Filled, PushKnows, Holding
<1>17. TailAtEnd(m, p)'
  <2>1. Len(m) > 1 /\ Len(m) - 1 = Len(l) /\ m[Len(m) - 1] = end /\ End(m) = new
    BY <1>4, <1>11 DEF End, end
  <2> QED
    BY <1>5, <1>8, <1>9, <1>new, <2>1 DEF TailAtEnd, End
<1>18. Counts(m, p)'
  <2>1. ToCount' = ToCount
    BY <1>10 DEF ToCount
  <2>2. ToCount \subseteq Threads /\ Cardinality(ToCount) \in Int
    <3>1. ToCount \subseteq Threads
      BY DEF ToCount, Threads
    <3>2. IsFiniteSet(ToCount)
      BY <3>1, ThreadsAssumption, FS_Subset
    <3> QED
      BY <3>1, <3>2, FS_CardinalityType
  <2>3. Len(l) - 1 + Cardinality(ToCount) = num /\ num \in Int
    BY <1>1, <1>2 DEF Counts, Linked, TypeOK
  <2>4. Len(m) - 1 + Cardinality(ToCount) = num + 1
    BY <1>4, <1>11, <2>2, <2>3
  <2> QED
    BY <1>8, <1>9, <2>1, <2>4 DEF Counts, Linked, Holding
<1>19. ASSUME NEW c \in Poppers PROVE PopKnows(m, c)'
  <2>1. pc'[c] = pc[c] /\ frame'[c] = frame[c] /\ UNCHANGED <<head, tail>>
    BY <1>8, <1>10
  <2>2. Len(l) > 1 => Len(m) > 1 /\ m[2] = l[2] /\ node'[l[2]].data = node[l[2]].data
    <3> HAVE Len(l) > 1
    <3>1. 2 \in 1..Len(l) /\ Len(m) > 1
      BY <1>4, <1>11
    <3> QED
      BY <1>3, <1>7, <1>11, <3>1
  <2> QED
    BY <2>1, <2>2, PopsKept
<1>20. ListInv(m)'
  BY <1>12, <1>15, <1>16, <1>17, <1>18, <1>19 DEF ListInv
<1> QED
  BY <1>10, <1>20, <1>m, <1>new

LEMMA PushSwingsStep ==
  ASSUME TypeOK, NEW l, ListInv(l), NEW p \in Pushers, Pushers = {p}, PushSwings(p)
  PROVE  TypeOK' /\ ListInv(l)'
<1>1. p \in Threads /\ pc[p] = "pushSwing" /\ sent[p] < MaxPush /\ frame[p] \in Frames
  BY DEF Threads, PushSwings, TypeOK
<1>2. Filled(p) /\ TailAtEnd(l, p) /\ PushKnows(p) /\ Counts(l, p) /\ Places(l) /\ IsPath(l, head.ptr, node)
  BY DEF ListInv
<1>3. GoTo(p, "pushCounts") /\ UNCHANGED <<head, node, pool, num, frame, sent, got, history>>
  BY DEF PushSwings
<1>4. Len(l) \in Nat \ {0} /\ Len(l) \in 1..Len(l) /\ 1 \in 1..Len(l) /\ End(l) \in Nodes /\ l[1] = head.ptr
  <2>1. Len(l) \in Nat \ {0} /\ l \in [1..Len(l) -> Nodes]
    BY <1>2, PathLength
  <2>2. Len(l) \in 1..Len(l) /\ 1 \in 1..Len(l)
    BY <2>1
  <2> QED
    BY <1>2, <2>1, <2>2 DEF End, IsPath
<1>5. /\ pc' \in [Threads -> States] /\ frame' \in [Threads -> Frames]
      /\ pc'[p] = "pushCounts" /\ frame'[p] = frame[p] /\ Only(p)
  <2>1. "pushCounts" \in States /\ UNCHANGED frame
    BY <1>3 DEF States, PushStates
  <2> QED
    BY <1>1, <1>3, <2>1, GoToStep
<1>6. /\ tail' \in Ends /\ tail'.ptr = End(l)
      /\ tail' = tail \/ (tail'.count > tail.count /\ tail'.ptr # head.ptr)
  <2>1. CASE tail = frame[p].tail
    <3>1. /\ tail' = [ptr |-> frame[p].new, count |-> frame[p].tail.count + 1]
          /\ frame[p].new = End(l) /\ tail.count \in Nat
      BY <1>1, <1>2, <2>1 DEF PushSwings, HelpTail, TailAtEnd, TypeOK, Ends
    <3>2. Len(l) > 1
      BY <1>1, <1>2, <2>1, <3>1 DEF TailAtEnd
    <3>3. End(l) # l[1]
      BY <1>2, <1>4, <3>2 DEF IsPath, End
    <3>4. tail.count + 1 \in Nat /\ tail.count + 1 > tail.count
      BY <3>1
    <3>5. tail'.ptr = End(l) /\ tail'.count = tail.count + 1 /\ tail' \in Ends
      BY <1>4, <2>1, <3>1, <3>4 DEF Ends
    <3> QED
      BY <1>4, <3>3, <3>4, <3>5
  <2>2. CASE tail # frame[p].tail
    BY <1>1, <1>2, <2>2 DEF PushSwings, HelpTail, TailAtEnd, TypeOK
  <2> QED
    BY <2>1, <2>2
<1>7. TypeOK' /\ \A c \in Poppers : c # p /\ pc'[c] = pc[c] /\ frame'[c] = frame[c]
  <2>1. pc'[p] \in PushStates
    BY <1>5 DEF PushStates
  <2>2. head' = head /\ node' = node /\ num' = num /\ sent' = sent /\ got' = got /\ UNCHANGED history /\ pool' = pool
    BY <1>3
  <2> QED
    BY <1>1, <1>5, <1>6, <2>1, <2>2, PushTypes DEF TypeOK, history
<1>8. IsPath(l, head.ptr, node)'
  BY <1>2, <1>3 DEF IsPath
<1>9. Places(l)'
  <2>1. ~Holds(p) /\ ~Holds(p)'
    BY <1>1, <1>5 DEF Holds, Holding
  <2> QED
    BY <1>2, <1>3, <1>7, <2>1, PlacesKept
<1>10. Filled(p)' /\ PushKnows(p)' /\ TailAtEnd(l, p)'
  BY <1>5, <1>6 DEF Filled, PushKnows, Holding, TailAtEnd, End
<1>11. Counts(l, p)'
  <2>1. ToCount' = ToCount
    BY <1>7 DEF ToCount
  <2> QED
    BY <1>1, <1>2, <1>3, <1>5, <2>1 DEF Counts, Linked, Holding
<1>12. ASSUME NEW c \in Poppers PROVE PopKnows(l, c)'
  <2>1. pc'[c] = pc[c] /\ frame'[c] = frame[c] /\ UNCHANGED <<head, node>>
    BY <1>3, <1>7
  <2>2. CASE tail' = tail
    <3>1. UNCHANGED <<head, tail>> /\ (Len(l) > 1 => Len(l) > 1 /\ l[2] = l[2] /\ node'[l[2]].data = node[l[2]].data)
      BY <2>1, <2>2
    <3> QED
      BY <2>1, <3>1, PopsKept
  <2>3. CASE tail'.count > tail.count /\ tail'.ptr # head.ptr
    BY <1>6, <2>1, <2>3, SwungPops
  <2> QED
    BY <1>6, <2>2, <2>3
<1> QED
  BY <1>7, <1>8, <1>9, <1>10, <1>11, <1>12 DEF ListInv

LEMMA PushCountsStep ==
  ASSUME TypeOK, NEW l, ListInv(l), NEW p \in Pushers, Pushers = {p}, PushCounts(p)
  PROVE  TypeOK' /\ ListInv(l)'
<1>1. p \in Threads /\ pc[p] = "pushCounts" /\ sent[p] < MaxPush /\ frame[p] \in Frames /\ sent[p] \in 0..MaxPush
  BY DEF Threads, PushCounts, TypeOK
<1>2. Filled(p) /\ TailAtEnd(l, p) /\ PushKnows(p) /\ Counts(l, p) /\ Places(l) /\ IsPath(l, head.ptr, node)
  BY DEF ListInv
<1>3. Return(p) /\ num' = num + 1 /\ UNCHANGED <<head, tail, node, pool, got, history>>
  BY DEF PushCounts
<1>4. /\ pc' \in [Threads -> States] /\ frame' \in [Threads -> Frames]
      /\ pc'[p] = "idle" /\ Only(p)
  BY <1>1, <1>3, ReturnStep
<1>5. sent' \in [Pushers -> 0..MaxPush]
  <2>1. sent[p] + 1 \in 0..MaxPush
    BY <1>1, ThreadsAssumption
  <2> QED
    BY <2>1 DEF PushCounts, TypeOK
<1>6. TypeOK' /\ \A c \in Poppers : c # p /\ pc'[c] = pc[c] /\ frame'[c] = frame[c]
  <2>1. pc'[p] \in PushStates
    BY <1>4 DEF PushStates
  <2>2. head' = head /\ tail' = tail /\ node' = node /\ got' = got /\ UNCHANGED history /\ pool' = pool
    BY <1>3
  <2>3. num' \in Int
    BY <1>3 DEF TypeOK
  <2> QED
    BY <1>4, <1>5, <2>1, <2>2, <2>3, PushTypes DEF TypeOK, history
<1>7. IsPath(l, head.ptr, node)'
  BY <1>2, <1>3 DEF IsPath
<1>8. Places(l)'
  <2>1. ~Holds(p) /\ ~Holds(p)'
    BY <1>1, <1>4 DEF Holds, Holding
  <2> QED
    BY <1>2, <1>3, <1>6, <2>1, PlacesKept
<1>9. Filled(p)' /\ PushKnows(p)' /\ TailAtEnd(l, p)'
  BY <1>1, <1>2, <1>3, <1>4 DEF Filled, PushKnows, Holding, TailAtEnd, End
<1>10. Counts(l, p)'
  <2>1. ToCount' = ToCount
    BY <1>6 DEF ToCount
  <2> QED
    BY <1>1, <1>2, <1>3, <1>4, <2>1 DEF Counts, Linked, Holding
<1>11. ASSUME NEW c \in Poppers PROVE PopKnows(l, c)'
  <2>1. /\ pc'[c] = pc[c] /\ frame'[c] = frame[c] /\ UNCHANGED <<head, tail>>
        /\ Len(l) > 1 => Len(l) > 1 /\ l[2] = l[2] /\ node'[l[2]].data = node[l[2]].data
    BY <1>3, <1>6
  <2> QED
    BY <2>1, PopsKept
<1> QED
  BY <1>6, <1>7, <1>8, <1>9, <1>10, <1>11 DEF ListInv

\* The swap does not fail: no other thread sets a next pointer.
LEMMA LinkDoesNotFail ==
  ASSUME TypeOK, NEW l, ListInv(l), NEW p \in Pushers, Pushers = {p}
  PROVE  ~PushLinkFails(p)
<1> SUFFICES ASSUME PushLinkFails(p) PROVE FALSE
  OBVIOUS
<1>1. pc[p] = "pushLink" /\ p \in Threads
  BY DEF PushLinkFails, Threads
<1>2. PushKnows(p) /\ TailAtEnd(l, p) /\ IsPath(l, head.ptr, node)
  BY DEF ListInv
<1>3. /\ frame[p].target = tail.ptr /\ node[tail.ptr].next.ptr = Null
      /\ frame[p].next.ptr = Null /\ frame[p].next.count = node[tail.ptr].next.count
  BY <1>1, <1>2 DEF PushKnows, TailAtEnd, IsPath, End
<1>4. frame[p].next \in Pointers /\ node[tail.ptr].next \in Pointers
  BY <1>1 DEF TypeOK, Frames, Ends
<1>5. frame[p].next = node[tail.ptr].next
  BY <1>3, <1>4 DEF Pointers
<1> QED
  BY <1>3, <1>5 DEF PushLinkFails

\* With one pushing thread the swap does not fail, and there is no tail to help along.
LEMMA PushSteps ==
  ASSUME TypeOK, NEW l, ListInv(l), NEW p \in Pushers, Pushers = {p}, PushStep(p)
  PROVE  /\ TypeOK'
         /\ \/ PushLinks(p) /\ \E m : m = Append(l, frame[p].new) /\ ListInv(m)'
            \/ ~PushLinks(p) /\ ListInv(l)'
<1>1. ~PushHelps(p)
  BY DEF PushHelps, TypeOK, PushStates
<1>2. ~PushLinkFails(p)
  BY LinkDoesNotFail
<1>3. CASE PushLinks(p)
  BY <1>3, PushLinksStep
<1>4. CASE ~PushLinks(p)
  BY <1>1, <1>2, <1>4, PushChecksNumStep, PushAllocsStep, PushInitsStep, PushReadsTailStep, PushReadsNextStep,
     PushReadsCountStep, PushChecksTailStep, PushTakesTargetStep, PushSwingsStep, PushCountsStep DEF PushStep
<1> QED
  BY <1>3, <1>4

--------------------------------------------------------------------------------
(* The steps of Pop *)

\* The steps before the swap change the frame and nothing else.
LEMMA PopGoesOn ==
  ASSUME TypeOK, NEW l, ListInv(l), NEW p \in Pushers, Pushers = {p}, NEW c \in Poppers,
         UNCHANGED <<shared, sent, got>>, lost' = lost, stray' = stray, touched' \in BOOLEAN,
         pc' \in [Threads -> States], frame' \in [Threads -> Frames], frame'[c].new = Null, Only(c),
         pc'[c] \in PopStates \ {"popCounts", "popFree"}, ~Owns(c), PopKnows(l, c)'
  PROVE  TypeOK' /\ ListInv(l)'
<1>1. /\ TypeOK'
      /\ pc'[p] = pc[p] /\ frame'[p] = frame[p] /\ p # c
      /\ \A d \in Poppers : d # c => pc'[d] = pc[d] /\ frame'[d] = frame[d]
  BY PopTypes DEF shared, TypeOK
<1>2. ~Owns(c)'
  BY DEF Owns
<1> QED
  BY <1>1, <1>2, PopLocal

LEMMA PopRejoins ==
  ASSUME TypeOK, NEW l, ListInv(l), NEW p \in Pushers, Pushers = {p}, NEW c \in Poppers,
         UNCHANGED <<shared, sent, got, stray, touched>>, ~Owns(c), Rejoins(c, "popHead")
  PROVE  TypeOK' /\ ListInv(l)'
<1>1. /\ pc' \in [Threads -> States] /\ frame' \in [Threads -> Frames]
      /\ pc'[c] \in {"idle", "popHead"} /\ frame'[c].new = Null /\ Only(c) /\ lost' = lost
  BY RejoinStep
<1>2. PopKnows(l, c)'
  BY <1>1 DEF PopKnows, Owns
<1>3. pc'[c] \in PopStates \ {"popCounts", "popFree"}
  BY <1>1 DEF PopStates
<1>4. stray' = stray /\ touched' \in BOOLEAN
  BY DEF TypeOK
<1> QED
  BY <1>1, <1>2, <1>3, <1>4, PopGoesOn

\* A step that changes the frame of c as f says.
LEMMA PopLocally ==
  ASSUME TypeOK, NEW l, ListInv(l), NEW p \in Pushers, Pushers = {p}, NEW c \in Poppers,
         UNCHANGED <<shared, sent, got, lost, stray>>, touched' \in BOOLEAN, ~Owns(c),
         NEW f \in Frames, f.new = Null, NEW where \in PopStates \ {"popCounts", "popFree"},
         Locally(c, f, where),
         pc'[c] = where /\ frame'[c] = f => PopKnows(l, c)'
  PROVE  TypeOK' /\ ListInv(l)'
<1>1. c \in Threads /\ where \in States
  BY DEF Threads, States
<1>2. /\ pc' \in [Threads -> States] /\ frame' \in [Threads -> Frames]
      /\ pc'[c] = where /\ frame'[c] = f /\ Only(c)
  BY <1>1, LocalStep
<1>3. PopKnows(l, c)'
  BY <1>2
<1>4. UNCHANGED <<shared, sent, got>> /\ lost' = lost /\ stray' = stray
  OBVIOUS
<1> QED
  BY <1>2, <1>3, <1>4, PopGoesOn

LEMMA PopReadsHeadStep ==
  ASSUME TypeOK, NEW l, ListInv(l), NEW p \in Pushers, Pushers = {p}, NEW c \in Poppers, PopReadsHead(c)
  PROVE  TypeOK' /\ ListInv(l)'
<1> DEFINE f == [frame[c] EXCEPT !.at = head]
<1>1. c \in Threads /\ frame[c] \in Frames /\ frame[c].new = Null /\ head \in Pointers /\ head \in Ends
  BY EndsArePointers DEF Threads, TypeOK
<1>2. f \in Frames /\ f.at = head /\ f.new = Null
  BY <1>1, FrameTypes DEF Frames
<1> HIDE DEF f
<1>3. Locally(c, f, "popTail") /\ UNCHANGED <<shared, sent, got, lost, stray>> /\ touched' \in BOOLEAN /\ ~Owns(c)
  BY DEF PopReadsHead, f, history, TypeOK, Owns
<1>4. ASSUME pc'[c] = "popTail", frame'[c] = f PROVE PopKnows(l, c)'
  BY <1>1, <1>2, <1>3, <1>4 DEF PopKnows, NotNewer, shared, Owns
<1>5. "popTail" \in PopStates \ {"popCounts", "popFree"}
  BY DEF PopStates
<1> QED
  BY <1>2, <1>3, <1>4, <1>5, PopLocally

LEMMA PopReadsTailStep ==
  ASSUME TypeOK, NEW l, ListInv(l), NEW p \in Pushers, Pushers = {p}, NEW c \in Poppers, PopReadsTail(c)
  PROVE  TypeOK' /\ ListInv(l)'
<1> DEFINE f == [frame[c] EXCEPT !.tail = tail]
<1>1. /\ c \in Threads /\ frame[c] \in Frames /\ frame[c].new = Null /\ tail \in Pointers /\ tail \in Ends
      /\ pc[c] = "popTail"
  BY EndsArePointers DEF Threads, TypeOK, PopReadsTail
<1>2. f \in Frames /\ f.at = frame[c].at /\ f.tail = tail /\ f.new = Null
  BY <1>1, FrameTypes DEF Frames
<1> HIDE DEF f
<1>3. Locally(c, f, "popNext") /\ UNCHANGED <<shared, sent, got, lost, stray>> /\ touched' \in BOOLEAN /\ ~Owns(c)
  BY <1>1 DEF PopReadsTail, f, history, TypeOK, Owns
<1>4. ASSUME pc'[c] = "popNext", frame'[c] = f PROVE PopKnows(l, c)'
  <2>1. NotNewer(frame[c].at, head)
    BY <1>1 DEF ListInv, PopKnows
  <2>2. NotNewer(frame[c].at, head)' /\ NotNewer(frame[c].tail, tail)'
    BY <1>1, <1>2, <1>3, <1>4, <2>1 DEF NotNewer, shared
  <2>3. head = f.at /\ f.tail.ptr # f.at.ptr => tail.ptr # head.ptr
    BY <1>2
  <2> QED
    BY <1>2, <1>3, <1>4, <2>2, <2>3 DEF PopKnows, shared, Owns, NotNewer
<1>5. "popNext" \in PopStates \ {"popCounts", "popFree"}
  BY DEF PopStates
<1> QED
  BY <1>2, <1>3, <1>4, <1>5, PopLocally

LEMMA PopReadsNextStep ==
  ASSUME TypeOK, NEW l, ListInv(l), NEW p \in Pushers, Pushers = {p}, NEW c \in Poppers, PopReadsNext(c)
  PROVE  TypeOK' /\ ListInv(l)'
<1> DEFINE x == node[frame[c].at.ptr].next.ptr
           f == [frame[c] EXCEPT !.next.ptr = x]
<1>1. c \in Threads /\ frame[c] \in Frames /\ frame[c].new = Null /\ pc[c] = "popNext"
  BY DEF Threads, TypeOK, PopReadsNext
<1>2. PopKnows(l, c) /\ IsPath(l, head.ptr, node) /\ Len(l) \in Nat \ {0}
  BY PathLength DEF ListInv
<1>3. x \in Maybe
  <2>1. frame[c].at.ptr \in Nodes
    BY <1>1, <1>2 DEF PopKnows, NotNewer, Ends
  <2> QED
    BY <2>1 DEF TypeOK, Pointers, Maybe
<1>4. head = frame[c].at => x = Null \/ (Len(l) > 1 /\ x = l[2])
  <2> HAVE head = frame[c].at
  <2>1. x = node[l[1]].next.ptr
    BY <1>2 DEF IsPath
  <2>2. CASE Len(l) = 1
    BY <1>2, <2>1, <2>2 DEF IsPath
  <2>3. CASE Len(l) > 1
    <3>1. 1 \in 1..(Len(l) - 1) /\ 1 + 1 = 2
      BY <1>2, <2>3
    <3> QED
      BY <1>2, <2>1, <2>3, <3>1 DEF IsPath
  <2>4. Len(l) = 1 \/ Len(l) > 1
    <3> PICK n : n = Len(l)
      OBVIOUS
    <3>1. n \in Nat \ {0}
      BY <1>2
    <3>2. n = 1 \/ n > 1
      BY <3>1
    <3> QED
      BY <3>2
  <2> QED
    BY <2>2, <2>3, <2>4
<1>5. Locally(c, f, "popCheck") /\ UNCHANGED <<shared, sent, got, lost, stray>> /\ touched' \in BOOLEAN /\ ~Owns(c)
  BY <1>1 DEF PopReadsNext, Uses, TypeOK, Owns
<1> HIDE DEF x
<1>6. f \in Frames /\ f.at = frame[c].at /\ f.tail = frame[c].tail /\ f.next.ptr = x /\ f.new = Null
  <2>1. f \in Frames
    BY <1>1, <1>3, FrameTypes
  <2> QED
    BY <1>1, <2>1 DEF Frames, Pointers
<1> HIDE DEF f
<1>7. ASSUME pc'[c] = "popCheck", frame'[c] = f PROVE PopKnows(l, c)'
  <2>1. /\ NotNewer(frame[c].at, head) /\ NotNewer(frame[c].tail, tail)
        /\ head = frame[c].at /\ frame[c].tail.ptr # frame[c].at.ptr => tail.ptr # head.ptr
    BY <1>1, <1>2 DEF PopKnows
  <2> QED
    BY <1>4, <1>5, <1>6, <1>7, <2>1 DEF PopKnows, shared, Owns, NotNewer
<1>8. "popCheck" \in PopStates \ {"popCounts", "popFree"}
  BY DEF PopStates
<1> QED
  BY <1>5, <1>6, <1>7, <1>8, PopLocally

LEMMA PopChecksHeadStep ==
  ASSUME TypeOK, NEW l, ListInv(l), NEW p \in Pushers, Pushers = {p}, NEW c \in Poppers, PopChecksHead(c)
  PROVE  TypeOK' /\ ListInv(l)'
<1>1. c \in Threads /\ frame[c] \in Frames /\ frame[c].new = Null /\ pc[c] = "popCheck" /\ ~Owns(c)
  BY DEF Threads, TypeOK, PopChecksHead, Owns
<1>2. UNCHANGED <<shared, sent, got, stray, touched>>
  BY DEF PopChecksHead
<1>3. CASE head # frame[c].at
  <2>1. Rejoins(c, "popHead")
    BY <1>3 DEF PopChecksHead
  <2> QED
    BY <1>1, <1>2, <2>1, PopRejoins
<1>4. CASE head = frame[c].at /\ frame[c].next.ptr = Null
  <2>1. Return(c) /\ lost' = lost
    BY <1>4 DEF PopChecksHead
  <2>2. Locally(c, NoFrame, "idle") /\ UNCHANGED <<shared, sent, got, lost, stray>> /\ touched' \in BOOLEAN
    BY <1>2, <2>1 DEF Return, TypeOK
  <2>3. pc'[c] = "idle" /\ frame'[c] = NoFrame => PopKnows(l, c)'
    BY DEF PopKnows, Owns
  <2>4. "idle" \in PopStates \ {"popCounts", "popFree"}
    BY DEF PopStates
  <2> QED
    BY <1>1, <2>2, <2>3, <2>4, NoFrameType, PopLocally
<1>5. CASE head = frame[c].at /\ frame[c].next.ptr # Null
  <2> PICK where : where = IF frame[c].at.ptr = frame[c].tail.ptr THEN "popHelp" ELSE "popData"
    OBVIOUS
  <2>1. GoTo(c, where) /\ UNCHANGED <<frame, lost>>
    BY <1>5 DEF PopChecksHead
  <2>2. Locally(c, frame[c], where) /\ UNCHANGED <<shared, sent, got, lost, stray>> /\ touched' \in BOOLEAN
    BY <1>1, <1>2, <2>1 DEF Locally, TypeOK
  <2>3. ASSUME pc'[c] = where, frame'[c] = frame[c] PROVE PopKnows(l, c)'
    <3>1. /\ NotNewer(frame[c].at, head) /\ NotNewer(frame[c].tail, tail)
          /\ head = frame[c].at /\ frame[c].tail.ptr # frame[c].at.ptr => tail.ptr # head.ptr
          /\ Len(l) > 1 /\ frame[c].next.ptr = l[2]
      BY <1>1, <1>5 DEF PopKnows, ListInv
    <3>2. head' = head /\ tail' = tail
      BY <1>2 DEF shared
    <3> QED
      BY <1>5, <2>3, <3>1, <3>2 DEF PopKnows, Owns, NotNewer
  <2>4. where \in PopStates \ {"popCounts", "popFree"}
    BY DEF PopStates
  <2> QED
    BY <1>1, <2>2, <2>3, <2>4, PopLocally
<1> QED
  BY <1>3, <1>4, <1>5

LEMMA PopReadsDataStep ==
  ASSUME TypeOK, NEW l, ListInv(l), NEW p \in Pushers, Pushers = {p}, NEW c \in Poppers, PopReadsData(c)
  PROVE  TypeOK' /\ ListInv(l)'
<1> DEFINE x == node[frame[c].next.ptr].data
           f == [frame[c] EXCEPT !.data = x]
<1>1. c \in Threads /\ frame[c] \in Frames /\ frame[c].new = Null /\ pc[c] = "popData"
  BY DEF Threads, TypeOK, PopReadsData
<1>2. PopKnows(l, c)
  BY DEF ListInv
<1>3. x \in Values \cup {None}
  <2>1. frame[c].next.ptr \in Nodes
    BY <1>1, <1>2 DEF PopKnows, Frames, Pointers
  <2> QED
    BY <2>1 DEF TypeOK
<1>4. head = frame[c].at => x = node[l[2]].data
  BY <1>1, <1>2 DEF PopKnows
<1>5. Locally(c, f, "popSwap") /\ UNCHANGED <<shared, sent, got, lost, stray>> /\ touched' \in BOOLEAN /\ ~Owns(c)
  BY <1>1 DEF PopReadsData, Uses, TypeOK, Owns
<1> HIDE DEF x
<1>6. f \in Frames /\ f.at = frame[c].at /\ f.tail = frame[c].tail /\ f.next = frame[c].next /\ f.data = x /\ f.new = Null
  BY <1>1, <1>3, FrameTypes DEF Frames
<1> HIDE DEF f
<1>7. ASSUME pc'[c] = "popSwap", frame'[c] = f PROVE PopKnows(l, c)'
  <2>1. /\ NotNewer(frame[c].at, head) /\ NotNewer(frame[c].tail, tail)
        /\ head = frame[c].at /\ frame[c].tail.ptr # frame[c].at.ptr => tail.ptr # head.ptr
        /\ frame[c].next.ptr # Null
        /\ head = frame[c].at => Len(l) > 1 /\ frame[c].next.ptr = l[2]
        /\ frame[c].at.ptr # frame[c].tail.ptr
    BY <1>1, <1>2 DEF PopKnows
  <2>2. head' = head /\ tail' = tail /\ node' = node
    BY <1>5 DEF shared
  <2> QED
    BY <1>4, <1>6, <1>7, <2>1, <2>2 DEF PopKnows, Owns, NotNewer
<1>8. "popSwap" \in PopStates \ {"popCounts", "popFree"}
  BY DEF PopStates
<1> QED
  BY <1>5, <1>6, <1>7, <1>8, PopLocally

LEMMA PopSwapFailsStep ==
  ASSUME TypeOK, NEW l, ListInv(l), NEW p \in Pushers, Pushers = {p}, NEW c \in Poppers, PopSwapFails(c)
  PROVE  TypeOK' /\ ListInv(l)'
BY PopRejoins DEF PopSwapFails, Owns

\* A pop moves m_Tail only where a push has linked the second node and not swung m_Tail to it.
LEMMA PopHelpsStep ==
  ASSUME TypeOK, NEW l, ListInv(l), NEW p \in Pushers, Pushers = {p}, NEW c \in Poppers, PopHelps(c)
  PROVE  TypeOK' /\ ListInv(l)'
<1>1. pc[c] = "popHelp" /\ ~Owns(c) /\ Rejoins(c, "popHead")
  BY DEF PopHelps, Owns
<1>2. UNCHANGED <<head, node, pool, num, sent, got, stray, touched>>
  BY DEF PopHelps
<1>3. CASE tail # frame[c].tail
  <2>1. UNCHANGED <<shared, sent, got, stray, touched>>
    BY <1>2, <1>3 DEF PopHelps, HelpTail, shared
  <2> QED
    BY <1>1, <2>1, PopRejoins
<1>4. CASE tail = frame[c].tail
  <2>1. PopKnows(l, c) /\ Filled(p) /\ TailAtEnd(l, p) /\ PushKnows(p) /\ Counts(l, p) /\ Places(l)
        /\ IsPath(l, head.ptr, node)
    BY DEF ListInv
  <2>2. Len(l) \in Nat \ {0} /\ l \in [1..Len(l) -> Nodes] /\ l[1] = head.ptr
    BY <2>1, PathLength DEF IsPath
  <2>3. /\ head = frame[c].at /\ tail.ptr = head.ptr /\ Len(l) > 1 /\ frame[c].next.ptr = l[2]
    BY <1>1, <1>4, <2>1 DEF PopKnows
  <2>4. /\ 1 \in 1..Len(l) /\ 2 \in 1..Len(l) /\ Len(l) \in 1..Len(l) /\ Len(l) - 1 \in 1..Len(l)
        /\ Len(l) # 1
    BY <2>2, <2>3
  <2>5. tail.ptr # End(l)
    BY <2>1, <2>2, <2>3, <2>4 DEF IsPath, End
  <2>6. /\ pc[p] = "pushSwing" /\ frame[p].new = End(l)
        /\ tail = frame[p].tail /\ tail.ptr = l[Len(l) - 1]
    BY <2>1, <2>5 DEF TailAtEnd
  <2>7. Len(l) = 2 /\ l[2] = End(l) /\ l[2] # l[1] /\ l[2] \in Nodes
    <3>1. Len(l) - 1 = 1
      BY <2>1, <2>2, <2>3, <2>4, <2>6 DEF IsPath
    <3>2. Len(l) = 2
      <4>1. Len(l) \in Nat
        BY <2>2
      <4> QED
        BY <3>1, <4>1
    <3> QED
      BY <2>1, <2>2, <2>4, <3>2 DEF IsPath, End
  <2>8. tail' \in Ends /\ tail'.ptr = l[2] /\ tail'.count > tail.count
    <3>1. tail' = [ptr |-> l[2], count |-> tail.count + 1]
      BY <1>4, <2>3 DEF PopHelps, HelpTail
    <3>2. tail.count \in Nat
      BY DEF TypeOK, Ends
    <3>3. tail.count + 1 \in Nat /\ tail.count + 1 > tail.count
      BY <3>2
    <3>4. tail' \in Ends /\ tail'.ptr = l[2] /\ tail'.count = tail.count + 1
      BY <2>7, <3>1, <3>3 DEF Ends
    <3> QED
      BY <3>3, <3>4
  <2>9. /\ pc' \in [Threads -> States] /\ frame' \in [Threads -> Frames]
        /\ pc'[c] \in {"idle", "popHead"} /\ frame'[c].new = Null /\ Only(c) /\ lost' = lost
    BY <1>1, RejoinStep
  <2>10. /\ TypeOK'
         /\ pc'[p] = pc[p] /\ frame'[p] = frame[p] /\ p # c
         /\ \A d \in Poppers : d # c => pc'[d] = pc[d] /\ frame'[d] = frame[d]
    <3>1. pc'[c] \in PopStates
      BY <2>9 DEF PopStates
    <3> QED
      BY <1>2, <2>8, <2>9, <3>1, PopTypes DEF TypeOK
  <2>11. IsPath(l, head.ptr, node)'
    BY <1>2, <2>1 DEF IsPath
  <2>12. /\ ~Owns(c)' /\ ToCount' = ToCount
         /\ \A d \in Poppers : (Owns(d)' <=> Owns(d)) /\ (Owns(d) => frame'[d] = frame[d])
    BY <1>1, <2>9, <2>10 DEF Owns, ToCount
  <2>13. Places(l)'
    <3>1. (Holds(p)' <=> Holds(p)) /\ pool' = pool
      BY <1>2, <2>10 DEF Holds
    <3> QED
      BY <2>1, <2>10, <2>12, <3>1 DEF Places
  <2>14. Filled(p)' /\ PushKnows(p)'
    BY <2>6, <2>10 DEF Filled, PushKnows, Holding
  <2>15. TailAtEnd(l, p)'
    BY <2>6, <2>7, <2>8, <2>10 DEF TailAtEnd, End
  <2>16. Counts(l, p)'
    BY <1>2, <2>1, <2>10, <2>12 DEF Counts
  <2>17. ASSUME NEW d \in Poppers PROVE PopKnows(l, d)'
    <3>1. CASE d = c
      BY <2>9, <3>1 DEF PopKnows, Owns
    <3>2. CASE d # c
      <4>1. tail'.ptr # head.ptr
        BY <2>2, <2>7, <2>8
      <4>2. pc'[d] = pc[d] /\ frame'[d] = frame[d] /\ UNCHANGED <<head, node>>
        BY <1>2, <2>10, <3>2
      <4> QED
        BY <2>8, <4>1, <4>2, SwungPops
    <3> QED
      BY <3>1, <3>2
  <2> QED
    BY <2>10, <2>11, <2>13, <2>14, <2>15, <2>16, <2>17 DEF ListInv
<1> QED
  BY <1>3, <1>4

LEMMA CountsAreNumbers == IsFiniteSet(ToCount) /\ Cardinality(ToCount) \in Int
<1>1. ToCount \subseteq Threads
  BY DEF ToCount, Threads
<1>2. IsFiniteSet(ToCount)
  BY <1>1, ThreadsAssumption, FS_Subset
<1> QED
  BY <1>2, FS_CardinalityType

\* The swap of m_Head takes the dummy from the list, which m_Tail does not name.
LEMMA PopSwapsStep ==
  ASSUME TypeOK, NEW l, ListInv(l), NEW p \in Pushers, Pushers = {p}, NEW c \in Poppers, PopSwaps(c)
  PROVE  TypeOK' /\ Len(l) > 1 /\ got' = [got EXCEPT ![c] = node[l[2]].data] /\ ListInv(Tail(l))'
<1>m. PICK m : m = Tail(l)
  OBVIOUS
<1>1. c \in Threads /\ frame[c] \in Frames /\ pc[c] = "popSwap" /\ head = frame[c].at /\ frame[c].new = Null
  BY DEF PopSwaps, TypeOK, Threads
<1>2. PopKnows(l, c) /\ Filled(p) /\ TailAtEnd(l, p) /\ PushKnows(p) /\ Counts(l, p) /\ Places(l)
      /\ IsPath(l, head.ptr, node)
  BY DEF ListInv
<1>3. /\ Len(l) > 1 /\ frame[c].next.ptr = l[2] /\ frame[c].data = node[l[2]].data
      /\ tail.ptr # head.ptr
  BY <1>1, <1>2 DEF PopKnows
<1>4. Len(l) \in Nat \ {0} /\ l[1] = head.ptr /\ \A i \in 1..Len(l) : l[i] \in Nodes
  BY <1>2, PathLength DEF IsPath
<1>5. 1 \in 1..Len(l) /\ 2 \in 1..Len(l) /\ Len(l) \in 1..Len(l) /\ Len(l) - 1 \in 1..Len(l)
  BY <1>3, <1>4
<1>6. GoTo(c, "popCounts") /\ UNCHANGED <<tail, node, pool, num, frame, sent, history>>
  BY DEF PopSwaps
<1>7. head' \in Ends /\ head'.ptr = l[2] /\ head'.count > head.count
  <2>1. head' = [ptr |-> l[2], count |-> head.count + 1]
    BY <1>1, <1>3 DEF PopSwaps
  <2>2. head.count \in Nat
    BY DEF TypeOK, Ends
  <2>3. head.count + 1 \in Nat /\ head.count + 1 > head.count
    BY <2>2
  <2>4. l[2] \in Nodes
    BY <1>4, <1>5
  <2>5. head' \in Ends /\ head'.ptr = l[2] /\ head'.count = head.count + 1
    BY <2>1, <2>3, <2>4 DEF Ends
  <2> QED
    BY <2>3, <2>5
<1>8. got' = [got EXCEPT ![c] = node[l[2]].data] /\ got' \in [Poppers -> Values \cup {None}]
  <2>1. got' = [got EXCEPT ![c] = node[l[2]].data]
    BY <1>3 DEF PopSwaps
  <2>2. node[l[2]].data \in Values \cup {None}
    BY <1>4, <1>5 DEF TypeOK
  <2> QED
    BY <2>1, <2>2 DEF TypeOK
<1>9. /\ pc' \in [Threads -> States] /\ frame' \in [Threads -> Frames]
      /\ pc'[c] = "popCounts" /\ frame'[c] = frame[c] /\ Only(c)
  <2>1. "popCounts" \in States /\ UNCHANGED frame
    BY <1>6 DEF States, PopStates
  <2> QED
    BY <1>1, <1>6, <2>1, GoToStep
<1>10. /\ TypeOK'
       /\ pc'[p] = pc[p] /\ frame'[p] = frame[p] /\ p # c
       /\ \A d \in Poppers : d # c => pc'[d] = pc[d] /\ frame'[d] = frame[d]
  <2>1. pc'[c] \in PopStates
    BY <1>9 DEF PopStates
  <2>2. lost' = lost /\ stray' = stray /\ touched' \in BOOLEAN /\ tail' = tail /\ num' = num
        /\ node' = node /\ pool' = pool /\ sent' = sent /\ frame'[c].new = Null
    BY <1>1, <1>6, <1>9 DEF history, TypeOK
  <2> QED
    BY <1>7, <1>8, <1>9, <2>1, <2>2, PopTypes DEF TypeOK
<1>11. IsPath(m, l[2], node) /\ Len(m) = Len(l) - 1 /\ \A i \in 1..(Len(l) - 1) : m[i] = l[i + 1]
  BY <1>2, <1>3, <1>m, PathTail
<1>12. \A j \in 1..Len(m) : j + 1 \in 1..Len(l) /\ m[j] = l[j + 1] /\ m[j] # l[1]
  <2> TAKE j \in 1..Len(m)
  <2>1. j + 1 \in 1..Len(l) /\ j + 1 # 1 /\ j \in 1..(Len(l) - 1)
    BY <1>4, <1>11
  <2> QED
    BY <1>2, <1>5, <1>11, <2>1 DEF IsPath
<1>13. \A j \in 1..Len(l) : j = 1 \/ \E i \in 1..Len(m) : m[i] = l[j]
  <2> SUFFICES ASSUME NEW j \in 1..Len(l), j # 1 PROVE \E i \in 1..Len(m) : m[i] = l[j]
    OBVIOUS
  <2>1. j - 1 \in 1..Len(m) /\ j - 1 \in 1..(Len(l) - 1) /\ (j - 1) + 1 = j
    BY <1>4, <1>11
  <2> QED
    BY <1>11, <2>1
<1>14. IsPath(m, head.ptr, node)'
  <2>1. head'.ptr = l[2] /\ node' = node
    BY <1>6, <1>7
  <2> QED
    BY <1>11, <2>1 DEF IsPath
<1>15. /\ ~Owns(c) /\ Owns(c)' /\ frame'[c].at.ptr = l[1]
       /\ \A d \in Poppers : d # c => (Owns(d)' <=> Owns(d)) /\ frame'[d] = frame[d]
       /\ Holds(p)' <=> Holds(p)
       /\ pool' = pool
  BY <1>1, <1>4, <1>6, <1>9, <1>10 DEF Owns, Holds
<1>16. Places(m)'
  <2>1. \A i \in 1..Len(pool), j \in 1..Len(l) : pool[i] # l[j]
    BY <1>2 DEF Places
  <2>2. \A i \in 1..Len(pool), j \in 1..Len(m) : pool[i] # m[j]
    BY <1>12, <2>1
  <2>3. ASSUME Holds(p)'
        PROVE  /\ frame'[p].new \in Nodes
               /\ \A i \in 1..Len(pool) : pool[i] # frame'[p].new
               /\ \A i \in 1..Len(m) : m[i] # frame'[p].new
               /\ \A d \in Poppers : Owns(d)' => frame'[d].at.ptr # frame'[p].new
    <3>1. /\ frame[p].new \in Nodes
          /\ \A i \in 1..Len(pool) : pool[i] # frame[p].new
          /\ \A i \in 1..Len(l) : l[i] # frame[p].new
          /\ \A d \in Poppers : Owns(d) => frame[d].at.ptr # frame[p].new
      BY <1>2, <1>15, <2>3 DEF Places
    <3> QED
      BY <1>5, <1>10, <1>12, <1>15, <3>1
  <2>4. ASSUME NEW d \in Poppers, Owns(d)'
        PROVE  /\ \A i \in 1..Len(pool) : pool[i] # frame'[d].at.ptr
               /\ \A j \in 1..Len(m) : m[j] # frame'[d].at.ptr
               /\ \A e \in Poppers : Owns(e)' /\ frame'[e].at.ptr = frame'[d].at.ptr => e = d
    <3>1. \A e \in Poppers : Owns(e) => /\ \A i \in 1..Len(pool) : pool[i] # frame[e].at.ptr
                                        /\ \A j \in 1..Len(l) : l[j] # frame[e].at.ptr
                                        /\ \A o \in Poppers : Owns(o) /\ frame[o].at.ptr = frame[e].at.ptr => o = e
      BY <1>2 DEF Places
    <3>2. CASE d = c
      <4>1. \A i \in 1..Len(pool) : pool[i] # l[1]
        BY <1>5, <2>1
      <4>2. \A e \in Poppers : e # c /\ Owns(e)' => frame'[e].at.ptr # l[1]
        BY <1>5, <1>15, <3>1
      <4> QED
        BY <1>12, <1>15, <3>2, <4>1, <4>2
    <3>3. CASE d # c
      <4>1. Owns(d) /\ frame'[d] = frame[d]
        BY <1>15, <2>4, <3>3
      <4>2. \A j \in 1..Len(m) : m[j] # frame[d].at.ptr
        BY <1>12, <3>1, <4>1
      <4>3. frame[d].at.ptr # l[1]
        BY <1>5, <3>1, <4>1
      <4> QED
        BY <1>15, <3>1, <4>1, <4>2, <4>3
    <3> QED
      BY <3>2, <3>3
  <2>5. \A n \in Nodes : \/ \E i \in 1..Len(pool) : pool[i] = n
                         \/ \E i \in 1..Len(m) : m[i] = n
                         \/ Holds(p)' /\ frame'[p].new = n
                         \/ \E d \in Poppers : Owns(d)' /\ frame'[d].at.ptr = n
    <3> TAKE n \in Nodes
    <3>1. \/ \E i \in 1..Len(pool) : pool[i] = n
          \/ \E i \in 1..Len(l) : l[i] = n
          \/ Holds(p) /\ frame[p].new = n
          \/ \E d \in Poppers : Owns(d) /\ frame[d].at.ptr = n
      BY <1>2 DEF Places
    <3>2. (\E i \in 1..Len(l) : l[i] = n) => n = l[1] \/ \E i \in 1..Len(m) : m[i] = n
      BY <1>13
    <3> QED
      BY <1>10, <1>15, <3>1, <3>2
  <2>6. \A i, j \in 1..Len(pool) : pool[i] = pool[j] => i = j
    BY <1>2 DEF Places
  <2> QED
    BY <1>15, <2>2, <2>3, <2>4, <2>5, <2>6 DEF Places
<1>17. Filled(p)' /\ PushKnows(p)'
  BY <1>2, <1>6, <1>10 DEF Filled, PushKnows, Outgoing
<1>18. TailAtEnd(m, p)'
  <2>1. End(m) = End(l)
    <3>1. Len(m) \in 1..(Len(l) - 1) /\ Len(m) + 1 = Len(l)
      BY <1>3, <1>4, <1>11
    <3> QED
      BY <1>11, <3>1 DEF End
  <2>2. tail.ptr = l[Len(l) - 1] => Len(m) > 1 /\ tail.ptr = m[Len(m) - 1]
    <3> HAVE tail.ptr = l[Len(l) - 1]
    <3>1. Len(l) - 1 # 1
      BY <1>3, <1>4
    <3>2. Len(m) > 1 /\ Len(m) - 1 \in 1..(Len(l) - 1) /\ (Len(m) - 1) + 1 = Len(l) - 1
      BY <1>3, <1>4, <1>11, <3>1
    <3> QED
      BY <1>11, <3>2
  <2> QED
    BY <1>2, <1>6, <1>10, <2>1, <2>2 DEF TailAtEnd, End
<1>19. Counts(m, p)'
  <2>1. ToCount' = ToCount \cup {c} /\ c \notin ToCount
    BY <1>1, <1>9, <1>10 DEF ToCount
  <2>2. Cardinality(ToCount') = Cardinality(ToCount) + 1 /\ Cardinality(ToCount) \in Int
    BY <2>1, CountsAreNumbers, FS_AddElement
  <2>3. Len(m) - 1 + Cardinality(ToCount') = Len(l) - 1 + Cardinality(ToCount)
    BY <1>4, <1>11, <2>2
  <2> QED
    BY <1>2, <1>6, <1>10, <2>3 DEF Counts
<1>20. ASSUME NEW d \in Poppers PROVE PopKnows(m, d)'
  <2>1. CASE d = c
    <3>1. Owns(c)' /\ frame'[c].at.ptr \in Nodes
      BY <1>4, <1>5, <1>15
    <3> QED
      BY <1>9, <2>1, <3>1 DEF PopKnows
  <2>2. CASE d # c
    <3>1. PopKnows(l, d) /\ pc'[d] = pc[d] /\ frame'[d] = frame[d] /\ (Owns(d)' <=> Owns(d)) /\ tail' = tail
      BY <1>6, <1>10, <1>15, <2>2 DEF ListInv
    <3>2. NotNewer(frame[d].at, head) => NotNewer(frame[d].at, head') /\ head' # frame[d].at
      <4> HAVE NotNewer(frame[d].at, head)
      <4>1. /\ frame[d].at \in Ends /\ frame[d].at.count \in Nat /\ head.count \in Nat /\ head'.count \in Nat
            /\ frame[d].at.count <= head.count
        BY <1>7 DEF NotNewer, Ends, TypeOK
      <4>2. frame[d].at.count < head'.count
        BY <1>7, <4>1
      <4> QED
        BY <4>1, <4>2 DEF NotNewer
    <3>3. ~(pc[d] = "popHelp" /\ tail = frame[d].tail)
      BY <1>3, <3>1 DEF PopKnows
    <3> QED
      BY <3>1, <3>2, <3>3 DEF PopKnows, NotNewer
  <2> QED
    BY <2>1, <2>2
<1>21. ListInv(m)'
  BY <1>14, <1>16, <1>17, <1>18, <1>19, <1>20 DEF ListInv
<1> QED
  BY <1>3, <1>8, <1>10, <1>21, <1>m

LEMMA PopCountsStep ==
  ASSUME TypeOK, NEW l, ListInv(l), NEW p \in Pushers, Pushers = {p}, NEW c \in Poppers, PopCounts(c)
  PROVE  TypeOK' /\ ListInv(l)'
<1>1. c \in Threads /\ frame[c] \in Frames /\ pc[c] = "popCounts" /\ frame[c].new = Null
  BY DEF PopCounts, TypeOK, Threads
<1>2. Filled(p) /\ TailAtEnd(l, p) /\ PushKnows(p) /\ Counts(l, p) /\ Places(l) /\ IsPath(l, head.ptr, node)
  BY DEF ListInv
<1>3. GoTo(c, "popFree") /\ num' = num - 1 /\ UNCHANGED <<head, tail, node, pool, frame, sent, got, history>>
  BY DEF PopCounts
<1>4. /\ pc' \in [Threads -> States] /\ frame' \in [Threads -> Frames]
      /\ pc'[c] = "popFree" /\ frame'[c] = frame[c] /\ Only(c)
  <2>1. "popFree" \in States /\ UNCHANGED frame
    BY <1>3 DEF States, PopStates
  <2> QED
    BY <1>1, <1>3, <2>1, GoToStep
<1>5. /\ TypeOK'
      /\ pc'[p] = pc[p] /\ frame'[p] = frame[p] /\ p # c
      /\ \A d \in Poppers : d # c => pc'[d] = pc[d] /\ frame'[d] = frame[d]
  <2>1. pc'[c] \in PopStates
    BY <1>4 DEF PopStates
  <2>2. lost' = lost /\ stray' = stray /\ touched' \in BOOLEAN /\ head' = head /\ tail' = tail /\ got' = got
        /\ node' = node /\ pool' = pool /\ sent' = sent /\ frame'[c].new = Null
    BY <1>1, <1>3, <1>4 DEF history, TypeOK
  <2>3. num' \in Int
    BY <1>3 DEF TypeOK
  <2> QED
    BY <1>4, <2>1, <2>2, <2>3, PopTypes DEF TypeOK
<1>6. IsPath(l, head.ptr, node)'
  BY <1>2, <1>3 DEF IsPath
<1>7. Places(l)'
  <2>1. /\ \A d \in Poppers : (Owns(d)' <=> Owns(d)) /\ frame'[d] = frame[d]
        /\ Holds(p)' <=> Holds(p)
        /\ pool' = pool
    BY <1>1, <1>3, <1>4, <1>5 DEF Owns, Holds
  <2> QED
    BY <1>2, <1>5, <2>1 DEF Places
<1>8. Filled(p)' /\ PushKnows(p)' /\ TailAtEnd(l, p)'
  BY <1>2, <1>3, <1>5 DEF Filled, PushKnows, Outgoing, TailAtEnd, End
<1>9. Counts(l, p)'
  <2>1. ToCount' = ToCount \ {c} /\ c \in ToCount
    BY <1>1, <1>4, <1>5 DEF ToCount
  <2>2. Cardinality(ToCount') = Cardinality(ToCount) - 1 /\ Cardinality(ToCount) \in Int
    BY <2>1, CountsAreNumbers, FS_RemoveElement
  <2>3. num \in Int /\ MaxNum \in Int /\ num' = num - 1 /\ Len(l) \in Int
    BY <1>2, <1>3, PoolAssumption, PathLength DEF TypeOK
  <2>4. ASSUME NEW k \in Int, Len(l) - 1 + Cardinality(ToCount) = num + k
        PROVE  Len(l) - 1 + Cardinality(ToCount') = num' + k
    BY <2>2, <2>3, <2>4
  <2>5. num < MaxNum => num' < MaxNum
    BY <2>3
  <2> QED
    BY <1>2, <1>5, <2>4, <2>5 DEF Counts
<1>10. ASSUME NEW d \in Poppers PROVE PopKnows(l, d)'
  <2>1. PopKnows(l, d)
    BY DEF ListInv
  <2>2. CASE d = c
    BY <1>1, <1>4, <2>1, <2>2 DEF PopKnows, Owns
  <2>3. CASE d # c
    <3>1. /\ pc'[d] = pc[d] /\ frame'[d] = frame[d] /\ UNCHANGED <<head, tail>>
          /\ Len(l) > 1 => Len(l) > 1 /\ l[2] = l[2] /\ node'[l[2]].data = node[l[2]].data
      BY <1>3, <1>5, <2>3
    <3> QED
      BY <3>1, PopsKept
  <2> QED
    BY <2>2, <2>3
<1> QED
  BY <1>5, <1>6, <1>7, <1>8, <1>9, <1>10 DEF ListInv

LEMMA PopFreesStep ==
  ASSUME TypeOK, NEW l, ListInv(l), NEW p \in Pushers, Pushers = {p}, NEW c \in Poppers, PopFrees(c)
  PROVE  TypeOK' /\ ListInv(l)'
<1>x. PICK x : x = frame[c].at.ptr
  OBVIOUS
<1>1. c \in Threads /\ frame[c] \in Frames /\ pc[c] = "popFree" /\ Owns(c)
  BY DEF PopFrees, TypeOK, Threads, Owns
<1>2. Filled(p) /\ TailAtEnd(l, p) /\ PushKnows(p) /\ Counts(l, p) /\ Places(l) /\ IsPath(l, head.ptr, node)
      /\ PopKnows(l, c)
  BY DEF ListInv
<1>3. Return(c) /\ UNCHANGED <<head, tail, node, num, sent, got, history>>
  BY DEF PopFrees
<1>4. x \in Nodes /\ pool \in Seq(Nodes) /\ pool' = Append(pool, x)
  BY <1>1, <1>2, <1>x DEF PopFrees, PopKnows, TypeOK
<1>5. /\ pool' \in Seq(Nodes) /\ Len(pool) \in Nat /\ Len(pool') = Len(pool) + 1 /\ pool'[Len(pool) + 1] = x
      /\ \A i \in 1..Len(pool) : pool'[i] = pool[i]
  <2>1. /\ Append(pool, x) \in Seq(Nodes) /\ Len(Append(pool, x)) = Len(pool) + 1
        /\ \A i \in 1..Len(pool) : Append(pool, x)[i] = pool[i]
        /\ Append(pool, x)[Len(pool) + 1] = x
    <3>1. x \in Nodes /\ pool \in Seq(Nodes)
      BY <1>4
    <3> QED
      BY <3>1, AppendProperties
  <2>2. Len(pool) \in Nat
    BY <1>4, LenProperties
  <2> QED
    BY <1>4, <2>1, <2>2
<1>6. /\ pc' \in [Threads -> States] /\ frame' \in [Threads -> Frames]
      /\ pc'[c] = "idle" /\ frame'[c] = NoFrame /\ Only(c)
  BY <1>1, <1>3, ReturnStep
<1>7. /\ TypeOK'
      /\ pc'[p] = pc[p] /\ frame'[p] = frame[p] /\ p # c
      /\ \A d \in Poppers : d # c => pc'[d] = pc[d] /\ frame'[d] = frame[d]
  <2>1. pc'[c] \in PopStates /\ frame'[c].new = Null
    BY <1>6, NoFrameType DEF PopStates
  <2>2. lost' = lost /\ stray' = stray /\ touched' \in BOOLEAN /\ head' = head /\ tail' = tail /\ got' = got
        /\ node' = node /\ num' = num /\ sent' = sent
    BY <1>3 DEF history, TypeOK
  <2> QED
    BY <1>5, <1>6, <2>1, <2>2, PopTypes DEF TypeOK
<1>8. IsPath(l, head.ptr, node)'
  BY <1>2, <1>3 DEF IsPath
<1>9. /\ ~Owns(c)' /\ ToCount' = ToCount
      /\ \A d \in Poppers : d # c => (Owns(d)' <=> Owns(d)) /\ frame'[d] = frame[d]
      /\ Holds(p)' <=> Holds(p)
  BY <1>1, <1>6, <1>7 DEF Owns, Holds, ToCount
<1>10. \A i \in 1..Len(pool') : (i \in 1..Len(pool) /\ pool'[i] = pool[i]) \/ (i = Len(pool) + 1 /\ pool'[i] = x)
  <2> TAKE i \in 1..Len(pool')
  <2>1. i \in 1..Len(pool) \/ i = Len(pool) + 1
    BY <1>5
  <2> QED
    BY <1>5, <2>1
<1>11. Places(l)'
  <2>1. /\ \A i \in 1..Len(pool) : pool[i] # x
        /\ \A i \in 1..Len(l) : l[i] # x
        /\ \A d \in Poppers : d # c /\ Owns(d) => frame[d].at.ptr # x
        /\ Holds(p) => frame[p].new # x
    BY <1>1, <1>2, <1>x DEF Places
  <2>2. \A i, j \in 1..Len(pool') : pool'[i] = pool'[j] => i = j
    <3>1. \A i, j \in 1..Len(pool) : pool[i] = pool[j] => i = j
      BY <1>2 DEF Places
    <3> QED
      BY <1>10, <2>1, <3>1
  <2>3. \A i \in 1..Len(pool'), j \in 1..Len(l) : pool'[i] # l[j]
    <3>1. \A i \in 1..Len(pool), j \in 1..Len(l) : pool[i] # l[j]
      BY <1>2 DEF Places
    <3> QED
      BY <1>10, <2>1, <3>1
  <2>4. ASSUME Holds(p)'
        PROVE  /\ frame'[p].new \in Nodes
               /\ \A i \in 1..Len(pool') : pool'[i] # frame'[p].new
               /\ \A i \in 1..Len(l) : l[i] # frame'[p].new
               /\ \A d \in Poppers : Owns(d)' => frame'[d].at.ptr # frame'[p].new
    <3>1. /\ frame[p].new \in Nodes
          /\ \A i \in 1..Len(pool) : pool[i] # frame[p].new
          /\ \A i \in 1..Len(l) : l[i] # frame[p].new
          /\ \A d \in Poppers : Owns(d) => frame[d].at.ptr # frame[p].new
      BY <1>2, <1>9, <2>4 DEF Places
    <3> QED
      BY <1>7, <1>9, <1>10, <2>1, <2>4, <3>1
  <2>5. ASSUME NEW d \in Poppers, Owns(d)'
        PROVE  /\ \A i \in 1..Len(pool') : pool'[i] # frame'[d].at.ptr
               /\ \A j \in 1..Len(l) : l[j] # frame'[d].at.ptr
               /\ \A e \in Poppers : Owns(e)' /\ frame'[e].at.ptr = frame'[d].at.ptr => e = d
    <3>1. d # c /\ Owns(d) /\ frame'[d] = frame[d]
      BY <1>9, <2>5
    <3>2. /\ \A i \in 1..Len(pool) : pool[i] # frame[d].at.ptr
          /\ \A j \in 1..Len(l) : l[j] # frame[d].at.ptr
          /\ \A o \in Poppers : Owns(o) /\ frame[o].at.ptr = frame[d].at.ptr => o = d
      BY <1>2, <3>1 DEF Places
    <3>3. \A i \in 1..Len(pool') : pool'[i] # frame[d].at.ptr
      BY <1>10, <2>1, <3>1, <3>2
    <3> QED
      BY <1>9, <3>1, <3>2, <3>3
  <2>6. \A n \in Nodes : \/ \E i \in 1..Len(pool') : pool'[i] = n
                         \/ \E i \in 1..Len(l) : l[i] = n
                         \/ Holds(p)' /\ frame'[p].new = n
                         \/ \E d \in Poppers : Owns(d)' /\ frame'[d].at.ptr = n
    <3> TAKE n \in Nodes
    <3>1. \/ \E i \in 1..Len(pool) : pool[i] = n
          \/ \E i \in 1..Len(l) : l[i] = n
          \/ Holds(p) /\ frame[p].new = n
          \/ \E d \in Poppers : Owns(d) /\ frame[d].at.ptr = n
      BY <1>2 DEF Places
    <3>2. (\E i \in 1..Len(pool) : pool[i] = n) \/ n = x => \E i \in 1..Len(pool') : pool'[i] = n
      <4>1. Len(pool) + 1 \in 1..Len(pool') /\ \A i \in 1..Len(pool) : i \in 1..Len(pool')
        BY <1>5
      <4> QED
        BY <1>5, <4>1
    <3> QED
      BY <1>7, <1>9, <1>x, <3>1, <3>2
  <2> QED
    BY <2>2, <2>3, <2>4, <2>5, <2>6 DEF Places
<1>12. Filled(p)' /\ PushKnows(p)' /\ TailAtEnd(l, p)'
  BY <1>2, <1>3, <1>7 DEF Filled, PushKnows, Outgoing, TailAtEnd, End
<1>13. Counts(l, p)'
  BY <1>2, <1>3, <1>7, <1>9 DEF Counts
<1>14. ASSUME NEW d \in Poppers PROVE PopKnows(l, d)'
  <2>1. CASE d = c
    BY <1>6, <1>9, <2>1 DEF PopKnows
  <2>2. CASE d # c
    <3>1. /\ pc'[d] = pc[d] /\ frame'[d] = frame[d] /\ UNCHANGED <<head, tail>>
          /\ Len(l) > 1 => Len(l) > 1 /\ l[2] = l[2] /\ node'[l[2]].data = node[l[2]].data
      BY <1>3, <1>7, <2>2
    <3> QED
      BY <3>1, PopsKept
  <2> QED
    BY <2>1, <2>2
<1> QED
  BY <1>7, <1>8, <1>11, <1>12, <1>13, <1>14 DEF ListInv

LEMMA PopSteps ==
  ASSUME TypeOK, NEW l, ListInv(l), NEW p \in Pushers, Pushers = {p}, NEW c \in Poppers, PopStep(c)
  PROVE  /\ TypeOK'
         /\ \/ PopSwaps(c) /\ Len(l) > 1 /\ got' = [got EXCEPT ![c] = node[l[2]].data] /\ ListInv(Tail(l))'
            \/ ~PopSwaps(c) /\ ListInv(l)'
<1>1. CASE PopSwaps(c)
  BY <1>1, PopSwapsStep
<1>2. CASE ~PopSwaps(c)
  BY <1>2, PopReadsHeadStep, PopReadsTailStep, PopReadsNextStep, PopChecksHeadStep, PopHelpsStep,
     PopReadsDataStep, PopSwapFailsStep, PopCountsStep, PopFreesStep DEF PopStep
<1> QED
  BY <1>1, <1>2

--------------------------------------------------------------------------------
(* The invariant, and what follows from it *)

LEMMA Unchanged == ASSUME IInv, UNCHANGED vars PROVE IInv'
<1>1. UNCHANGED <<head, tail, node, pool, num, pc, frame, sent, got, lost, stray, touched>>
  BY DEF vars, shared, history
<1>2. TypeOK'
  BY <1>1 DEF IInv, TypeOK
<1> PICK l : ListInv(l)
  BY DEF IInv
<1>3. IsPath(l, head.ptr, node)'
  BY <1>1 DEF ListInv, IsPath
<1>4. Places(l)'
  BY <1>1 DEF ListInv, Places, Holds, Owns
<1>5. ASSUME NEW p \in Pushers PROVE (Filled(p) /\ TailAtEnd(l, p) /\ PushKnows(p) /\ Counts(l, p))'
  <2>1. Filled(p) /\ TailAtEnd(l, p) /\ PushKnows(p) /\ Counts(l, p)
    BY DEF ListInv
  <2>2. Filled(p)' /\ PushKnows(p)'
    BY <1>1, <2>1 DEF Filled, PushKnows, Outgoing
  <2>3. TailAtEnd(l, p)'
    BY <1>1, <2>1 DEF TailAtEnd, End
  <2>4. Counts(l, p)'
    BY <1>1, <2>1 DEF Counts, ToCount
  <2> QED
    BY <2>2, <2>3, <2>4
<1>6. ASSUME NEW c \in Poppers PROVE PopKnows(l, c)'
  BY <1>1, PopsKept
<1> QED
  BY <1>2, <1>3, <1>4, <1>5, <1>6 DEF IInv, ListInv

LEMMA Steps == ASSUME OnePusher, IInv, Next PROVE IInv'
<1> PICK p : Pushers = {p}
  BY DEF OnePusher
<1> PICK l : ListInv(l)
  BY DEF IInv
<1>1. p \in Pushers /\ TypeOK
  BY DEF IInv
<1>2. CASE PushStep(p)
  BY <1>1, <1>2, PushSteps DEF IInv
<1>3. ASSUME NEW c \in Poppers, PopStep(c) PROVE IInv'
  <2>1. TypeOK' /\ (ListInv(Tail(l))' \/ ListInv(l)')
    BY <1>1, <1>3, PopSteps
  <2> QED
    BY <2>1 DEF IInv
<1> QED
  BY <1>1, <1>2, <1>3 DEF Next

\* The inductive invariant holds whatever the interleaving: there is always a list that all
\* the threads' copies agree with.
THEOREM Invariance == ASSUME OnePusher PROVE Spec => []IInv
<1>1. Init => IInv
  BY InitTypes, InitList DEF IInv
<1>2. IInv /\ [Next]_vars => IInv'
  BY Steps, Unchanged
<1> QED
  BY <1>1, <1>2, PTL DEF Spec

\* Every variable has its type; no push gives up, and none links its node elsewhere than to
\* the last one.
THEOREM TypeCorrect == ASSUME OnePusher PROVE Spec => []TypeOK
<1>1. IInv => TypeOK
  BY DEF IInv
<1> QED
  BY <1>1, Invariance, PTL

LEMMA IntervalSize == ASSUME NEW n \in Nat PROVE IsFiniteSet(1..n) /\ Cardinality(1..n) = n
BY FS_Interval

LEMMA FreeSize == ASSUME pool \in Seq(Nodes), Distinct(pool) PROVE IsFiniteSet(Free) /\ Cardinality(Free) = Len(pool)
<1> PICK n : n = Len(pool)
  OBVIOUS
<1>1. n \in Nat /\ pool \in [1..n -> Nodes] /\ DOMAIN pool = 1..n
  BY LenProperties
<1>2. pool \in Surjection(1..n, Free)
  BY <1>1 DEF Surjection, Free
<1>3. pool \in Injection(1..n, Free)
  BY <1>1, <1>2 DEF Surjection, Injection, IsInjective, Distinct
<1>4. IsFiniteSet(1..n) /\ Cardinality(1..n) = n
  <2>1. n \in Nat
    BY <1>1
  <2> QED
    BY <2>1, IntervalSize
<1>5. IsFiniteSet(Free) /\ Cardinality(Free) = Cardinality(1..n)
  <2> PICK S : S = 1..n
    OBVIOUS
  <2>1. IsFiniteSet(S) /\ pool \in Surjection(S, Free) /\ pool \in Injection(S, Free)
    BY <1>2, <1>3, <1>4
  <2>2. IsFiniteSet(Free) /\ Cardinality(Free) = Cardinality(S)
    BY <2>1, FS_Surjection
  <2> QED
    BY <2>2
<1> QED
  BY <1>4, <1>5

LEMMA DisjointSize ==
  ASSUME NEW A, NEW B, NEW C, NEW D, IsFiniteSet(A), IsFiniteSet(B), IsFiniteSet(C), IsFiniteSet(D),
         A \cap B = {}, A \cap C = {}, A \cap D = {}, B \cap C = {}, B \cap D = {}, C \cap D = {}
  PROVE  Cardinality(((A \cup B) \cup C) \cup D)
           = Cardinality(A) + Cardinality(B) + Cardinality(C) + Cardinality(D)
<1>1. \A S, T : IsFiniteSet(S) /\ IsFiniteSet(T) /\ S \cap T = {} =>
         IsFiniteSet(S \cup T) /\ Cardinality(S \cup T) = Cardinality(S) + Cardinality(T)
  <2> SUFFICES ASSUME NEW S, NEW T, IsFiniteSet(S), IsFiniteSet(T), S \cap T = {}
               PROVE  IsFiniteSet(S \cup T) /\ Cardinality(S \cup T) = Cardinality(S) + Cardinality(T)
    OBVIOUS
  <2>1. IsFiniteSet(S \cup T) /\ Cardinality(S \cup T) = Cardinality(S) + Cardinality(T) - Cardinality(S \cap T)
    BY FS_Union
  <2>2. Cardinality(S \cap T) = 0 /\ Cardinality(S) \in Nat /\ Cardinality(T) \in Nat
    BY FS_EmptySet, FS_CardinalityType
  <2> QED
    BY <2>1, <2>2
<1> PICK X : X = A \cup B
  OBVIOUS
<1> PICK Y : Y = X \cup C
  OBVIOUS
<1>2. IsFiniteSet(X) /\ Cardinality(X) = Cardinality(A) + Cardinality(B)
  BY <1>1
<1>3. X \cap C = {}
  OBVIOUS
<1>4. IsFiniteSet(Y) /\ Cardinality(Y) = Cardinality(X) + Cardinality(C)
  BY <1>1, <1>2, <1>3
<1>5. Y \cap D = {}
  OBVIOUS
<1>6. Cardinality(Y \cup D) = Cardinality(Y) + Cardinality(D)
  BY <1>1, <1>4, <1>5
<1> QED
  BY <1>2, <1>4, <1>6

LEMMA Accounted == ASSUME OnePusher, IInv PROVE NodesAccountedFor
<1> PICK p : Pushers = {p}
  BY DEF OnePusher
<1> PICK l : ListInv(l)
  BY DEF IInv
<1> DEFINE inChain == {l[i] : i \in 1..Len(l)}
<1>1. TypeOK /\ Places(l) /\ IsPath(l, head.ptr, node) /\ TailAtEnd(l, p)
  BY DEF IInv, ListInv
<1>2. Len(l) \in Nat \ {0} /\ DOMAIN l = 1..Len(l) /\ \A i \in 1..Len(l) : l[i] \in Nodes
  BY <1>1, PathLength
<1>3. Chain = l
  BY <1>1, ChainIsPath
<1>4. {Chain[i] : i \in DOMAIN Chain} = inChain
  BY <1>2, <1>3
<1>5. Held = IF Holds(p) THEN {frame[p].new} ELSE {}
  <2>1. pc[p] \in PushStates
    BY <1>1 DEF TypeOK
  <2> QED
    BY <2>1 DEF Held, Holds, Holding, PushStates
<1>6. Popped = {frame[c].at.ptr : c \in {d \in Poppers : Owns(d)}}
  BY DEF Popped, Owns
<1>7. Free = {pool[i] : i \in 1..Len(pool)} /\ Len(pool) \in Nat /\ \A i \in 1..Len(pool) : pool[i] \in Nodes
  BY <1>1, LenProperties, ElementOfSeq DEF TypeOK, Free
<1>8. \A c \in Poppers : Owns(c) => frame[c].at.ptr \in Nodes
  BY DEF ListInv, PopKnows
<1> HIDE DEF inChain
<1>9. Nodes = ((Free \cup inChain) \cup Held) \cup Popped
  <2>1. Free \subseteq Nodes /\ inChain \subseteq Nodes
    BY <1>2, <1>7 DEF inChain
  <2>2. Held \subseteq Nodes
    BY <1>1, <1>5 DEF Places
  <2>3. Popped \subseteq Nodes
    BY <1>6, <1>8
  <2>4. ASSUME NEW n \in Nodes PROVE n \in Free \/ n \in inChain \/ n \in Held \/ n \in Popped
    <3>1. \/ \E i \in 1..Len(pool) : pool[i] = n
          \/ \E i \in 1..Len(l) : l[i] = n
          \/ Holds(p) /\ frame[p].new = n
          \/ \E c \in Poppers : Owns(c) /\ frame[c].at.ptr = n
      BY <1>1 DEF Places
    <3> QED
      BY <1>5, <1>6, <1>7, <3>1 DEF inChain
  <2> QED
    BY <2>1, <2>2, <2>3, <2>4
<1>10. /\ Free \cap inChain = {} /\ Free \cap Held = {} /\ Free \cap Popped = {}
       /\ inChain \cap Held = {} /\ inChain \cap Popped = {} /\ Held \cap Popped = {}
  <2>1. Free \cap inChain = {}
    BY <1>1, <1>7 DEF Places, inChain
  <2>2. Free \cap Held = {}
    BY <1>1, <1>5, <1>7 DEF Places
  <2>3. Free \cap Popped = {}
    BY <1>1, <1>6, <1>7 DEF Places
  <2>4. inChain \cap Held = {}
    BY <1>1, <1>5 DEF Places, inChain
  <2>5. inChain \cap Popped = {}
    BY <1>1, <1>6 DEF Places, inChain
  <2>6. Held \cap Popped = {}
    BY <1>1, <1>5, <1>6 DEF Places
  <2> QED
    BY <2>1, <2>2, <2>3, <2>4, <2>5, <2>6
<1>11. IsFiniteSet(Free) /\ Cardinality(Free) = Len(pool)
  <2>1. pool \in Seq(Nodes) /\ Distinct(pool)
    BY <1>1 DEF TypeOK, Places, Distinct
  <2> QED
    BY <2>1, FreeSize
<1>12. IsFiniteSet(inChain) /\ IsFiniteSet(Held) /\ IsFiniteSet(Popped)
  <2>1. inChain \in SUBSET Nodes /\ Held \in SUBSET Nodes /\ Popped \in SUBSET Nodes
    BY <1>9
  <2>2. IsFiniteSet(Nodes)
    BY PoolAssumption
  <2> QED
    BY <2>1, <2>2, FS_Subset
<1>13. Cardinality(Nodes) = Len(pool) + Cardinality(inChain) + Cardinality(Held) + Cardinality(Popped)
  <2>1. Cardinality(Nodes) = Cardinality(Free) + Cardinality(inChain) + Cardinality(Held) + Cardinality(Popped)
    <3>1. Cardinality(((Free \cup inChain) \cup Held) \cup Popped)
            = Cardinality(Free) + Cardinality(inChain) + Cardinality(Held) + Cardinality(Popped)
      BY <1>10, <1>11, <1>12, DisjointSize
    <3> QED
      BY <1>9, <3>1
  <2> QED
    BY <1>11, <2>1
<1>14. tail.ptr \in inChain
  <2>1. tail.ptr = l[Len(l)] \/ (Len(l) > 1 /\ tail.ptr = l[Len(l) - 1])
    BY <1>1 DEF TailAtEnd, End
  <2>2. Len(l) \in 1..Len(l) /\ (Len(l) > 1 => Len(l) - 1 \in 1..Len(l))
    BY <1>2
  <2> QED
    BY <2>1, <2>2 DEF inChain
<1>15. lost = {} /\ Cardinality(lost) = 0
  BY <1>1, FS_EmptySet DEF TypeOK
<1>16. Nodes = UNION {Free, inChain, Held, Popped, lost}
  BY <1>9, <1>15
<1>17. Cardinality(Nodes) = Len(pool) + Cardinality(inChain) + Cardinality(Held) + Cardinality(Popped)
                              + Cardinality(lost)
  <2>1. /\ Len(pool) \in Nat /\ Cardinality(inChain) \in Nat /\ Cardinality(Held) \in Nat
        /\ Cardinality(Popped) \in Nat
    BY <1>7, <1>12, FS_CardinalityType
  <2> QED
    BY <1>13, <1>15, <2>1
<1> QED
  BY <1>4, <1>14, <1>16, <1>17 DEF NodesAccountedFor

\* Every node of the pool is free, in the list, with the push that has not linked it or with
\* a pop that has not given it back, never two of these, and m_Tail names a node of the list.
THEOREM NodesCorrect == ASSUME OnePusher PROVE Spec => [](NodesAccountedFor /\ ~stray)
<1>1. IInv => NodesAccountedFor /\ ~stray
  <2>1. IInv => ~stray
    BY Zenon DEF IInv, TypeOK
  <2> QED
    BY <2>1, Accounted
<1> QED
  BY <1>1, Invariance, PTL

--------------------------------------------------------------------------------
(* The list is one first-in-first-out queue. *)

Data == Values \cup {None}
DataOf(l, nd) == [i \in 1..(Len(l) - 1) |-> nd[l[i + 1]].data]

LEMMA DataIsSequence ==
  ASSUME NEW l, NEW h, NEW nd, IsPath(l, h, nd), nd \in [Nodes -> [next : Pointers, data : Data]]
  PROVE  /\ DataOf(l, nd) \in Seq(Data) /\ Len(DataOf(l, nd)) = Len(l) - 1
         /\ \A i \in 1..(Len(l) - 1) : DataOf(l, nd)[i] = nd[l[i + 1]].data
<1> PICK n : n = Len(l) - 1
  OBVIOUS
<1>1. Len(l) \in Nat \ {0} /\ l \in [1..Len(l) -> Nodes]
  BY PathLength
<1>2. n \in Nat /\ Len(l) = n + 1
  BY <1>1
<1>3. \A i \in 1..n : nd[l[i + 1]].data \in Data
  <2> TAKE i \in 1..n
  <2>1. i + 1 \in 1..Len(l)
    BY <1>2
  <2> QED
    BY <1>1, <2>1
<1>4. DataOf(l, nd) = [i \in 1..n |-> nd[l[i + 1]].data]
  BY DEF DataOf
<1>5. DataOf(l, nd) \in [1..n -> Data]
  BY <1>3, <1>4
<1>6. DataOf(l, nd) \in Seq(Data) /\ Len(DataOf(l, nd)) = n
  <2> PICK s : s = DataOf(l, nd)
    OBVIOUS
  <2>1. s \in [1..n -> Data] /\ n \in Nat
    BY <1>2, <1>5
  <2>2. s \in Seq(Data)
    BY <2>1
  <2>3. Len(s) = n
    BY <2>1, <2>2, LenProperties
  <2> QED
    BY <2>2, <2>3
<1> QED
  BY <1>4, <1>6

LEMMA ContentsAre ==
  ASSUME TypeOK, NEW l, IsPath(l, head.ptr, node)
  PROVE  /\ Contents = DataOf(l, node)
         /\ Contents \in Seq(Data) /\ Len(Contents) = Len(l) - 1
         /\ \A i \in 1..(Len(l) - 1) : Contents[i] = node[l[i + 1]].data
<1>1. Contents = DataOf(l, node)
  BY ChainIsPath DEF Contents, DataOf
<1>2. node \in [Nodes -> [next : Pointers, data : Data]]
  BY DEF TypeOK, Data
<1> QED
  BY <1>1, <1>2, DataIsSequence

LEMMA ContentsAreNext ==
  ASSUME TypeOK', NEW l, IsPath(l, head.ptr, node)'
  PROVE  /\ Contents' = DataOf(l, node')
         /\ Contents' \in Seq(Data) /\ Len(Contents') = Len(l) - 1
         /\ \A i \in 1..(Len(l) - 1) : Contents'[i] = node'[l[i + 1]].data
<1>1. IsPath(l, head'.ptr, node')
  OBVIOUS
<1>2. Chain' = l
  BY <1>1, ChainIsPathNext
<1>3. Contents' = DataOf(l, node')
  BY <1>2 DEF Contents, DataOf
<1>4. node' \in [Nodes -> [next : Pointers, data : Data]]
  BY DEF TypeOK, Data
<1>5. /\ DataOf(l, node') \in Seq(Data) /\ Len(DataOf(l, node')) = Len(l) - 1
      /\ \A i \in 1..(Len(l) - 1) : DataOf(l, node')[i] = node'[l[i + 1]].data
  BY <1>1, <1>4, DataIsSequence
<1> QED
  BY <1>3, <1>5

\* The list stays, and so does what its nodes hold.
LEMMA ContentsKept ==
  ASSUME TypeOK, TypeOK', NEW l, ListInv(l), ListInv(l)',
         \A i \in 1..Len(l) : node'[l[i]].data = node[l[i]].data
  PROVE  Contents' = Contents
<1>1. Contents = DataOf(l, node)
  BY ContentsAre DEF ListInv
<1>2. Contents' = DataOf(l, node')
  BY ContentsAreNext DEF ListInv
<1>3. \A i \in 1..(Len(l) - 1) : node'[l[i + 1]].data = node[l[i + 1]].data
  <2> TAKE i \in 1..(Len(l) - 1)
  <2>1. Len(l) \in Nat
    BY PathLength DEF ListInv
  <2>2. i + 1 \in 1..Len(l)
    BY <2>1
  <2> QED
    BY <2>2
<1> QED
  BY <1>1, <1>2, <1>3 DEF DataOf

LEMMA LinkEnqueues ==
  ASSUME TypeOK, NEW l, ListInv(l), NEW p \in Pushers, Pushers = {p}, PushLinks(p)
  PROVE  Abstract!Enqueue(p)
<1> PICK m : m = Append(l, frame[p].new) /\ ListInv(m)'
  BY PushLinksStep
<1> PICK new : new = frame[p].new
  OBVIOUS
<1>1. TypeOK' /\ IsPath(l, head.ptr, node) /\ IsPath(m, head.ptr, node)' /\ Places(l) /\ Counts(l, p)
      /\ Filled(p) /\ TailAtEnd(l, p) /\ PushKnows(p)
  BY PushLinksStep DEF ListInv
<1>2. p \in Threads /\ pc[p] = "pushLink" /\ Holds(p)
  BY DEF Threads, PushLinks, Holds, Holding
<1>3. new \in Nodes /\ node[new].data = Outgoing(p) /\ \A i \in 1..Len(l) : l[i] # new /\ l[i] \in Nodes
  <2>1. new \in Nodes /\ \A i \in 1..Len(l) : l[i] # new
    BY <1>1, <1>2 DEF Places
  <2>2. node[new].data = Outgoing(p)
    BY <1>1, <1>2 DEF Filled, Holding
  <2>3. \A i \in 1..Len(l) : l[i] \in Nodes
    BY <1>1, PathLength
  <2> QED
    BY <2>1, <2>2, <2>3
<1>4. Len(l) \in Nat \ {0} /\ l \in Seq(Nodes)
  BY <1>1, PathLength DEF IsPath
<1>5. frame[p].target \in Nodes /\ \A x \in Nodes : node'[x].data = node[x].data
  <2>1. frame[p].target \in Nodes
    BY <1>1, <1>2 DEF PushKnows, TypeOK, Ends
  <2> QED
    BY <2>1 DEF PushLinks, TypeOK
<1>6. Len(m) = Len(l) + 1 /\ m[Len(l) + 1] = new /\ \A i \in 1..Len(l) : m[i] = l[i]
  <2>1. l \in Seq(Nodes) /\ new \in Nodes
    BY <1>3, <1>4
  <2> QED
    BY <2>1, AppendProperties
<1>7. /\ Contents \in Seq(Data) /\ Len(Contents) = Len(l) - 1
      /\ \A i \in 1..(Len(l) - 1) : Contents[i] = node[l[i + 1]].data
  BY <1>1, ContentsAre
<1>8. /\ Contents' \in Seq(Data) /\ Len(Contents') = Len(m) - 1
      /\ \A i \in 1..(Len(m) - 1) : Contents'[i] = node'[m[i + 1]].data
  BY <1>1, ContentsAreNext
<1>9. Outgoing(p) \in Data /\ Outgoing(p) # None
  <2>1. sent[p] \in 0..MaxPush /\ sent[p] < MaxPush /\ MaxPush \in Nat
    BY <1>2, ThreadsAssumption DEF TypeOK
  <2>2. sent[p] + 1 \in 1..MaxPush
    BY <2>1
  <2>3. Outgoing(p) \in Values
    BY <2>2 DEF Outgoing, Values
  <2> QED
    BY <2>3, NoneAssumption DEF Data
<1>10. Contents' = Append(Contents, Outgoing(p))
  <2> PICK v : v = Outgoing(p)
    OBVIOUS
  <2>0. v \in Data /\ v = Outgoing(p)
    BY <1>9
  <2> PICK s : s = Append(Contents, v)
    OBVIOUS
  <2>1. /\ s \in Seq(Data) /\ Len(s) = Len(Contents) + 1
        /\ \A i \in 1..Len(Contents) : s[i] = Contents[i]
        /\ s[Len(Contents) + 1] = v
    <3>1. Contents \in Seq(Data) /\ v \in Data
      BY <1>7, <2>0
    <3> QED
      BY <3>1, AppendProperties
  <2>2. Len(s) = Len(l) /\ Len(Contents') = Len(l) /\ Len(Contents) = Len(l) - 1
    BY <1>4, <1>6, <1>7, <1>8, <2>1
  <2>3. ASSUME NEW i \in 1..Len(l) PROVE Contents'[i] = s[i]
    <3>1. Contents'[i] = node[m[i + 1]].data
      <4>1. i \in 1..(Len(m) - 1) /\ i + 1 \in 1..(Len(l) + 1)
        BY <1>4, <1>6
      <4>2. m[i + 1] \in Nodes
        <5>1. i + 1 \in 1..Len(l) \/ i + 1 = Len(l) + 1
          BY <1>4
        <5> QED
          BY <1>3, <1>6, <5>1
      <4> QED
        BY <1>5, <1>8, <4>1, <4>2
    <3>2. CASE i = Len(l)
      <4>1. s[i] = v
        BY <1>4, <2>1, <2>2, <3>2
      <4> QED
        BY <1>3, <1>6, <2>0, <3>1, <3>2, <4>1
    <3>3. CASE i # Len(l)
      <4>1. i \in 1..(Len(l) - 1) /\ i + 1 \in 1..Len(l)
        BY <1>4, <3>3
      <4> QED
        BY <1>6, <1>7, <2>1, <2>2, <3>1, <4>1
    <3> QED
      BY <3>2, <3>3
  <2>4. Contents' = s
    <3> PICK t : t = Contents'
      OBVIOUS
    <3>1. t \in Seq(Data) /\ s \in Seq(Data) /\ Len(t) = Len(s) /\ \A i \in 1..Len(t) : t[i] = s[i]
      BY <1>8, <2>1, <2>2, <2>3
    <3>2. t = s
      BY <3>1, SeqEqual
    <3> QED
      BY <3>2
  <2> QED
    BY <2>0, <2>4
<1>11. Len(Contents) < MaxNum - 1 + Cardinality(Pushers)
  <2>1. Cardinality(Pushers) = 1
    BY FS_Singleton
  <2>2. Len(l) - 1 + Cardinality(ToCount) = num /\ num < MaxNum /\ num \in Int /\ MaxNum \in Int
    BY <1>1, <1>2, PoolAssumption DEF Counts, Linked, Holding, TypeOK
  <2>3. Cardinality(ToCount) \in Nat
    BY CountsAreNumbers, FS_CardinalityType
  <2>4. Len(l) - 1 < MaxNum
    BY <1>4, <2>2, <2>3
  <2> QED
    BY <1>4, <1>7, <2>1, <2>2, <2>4
<1>12. pc' = [pc EXCEPT ![p] = "pushSwing"] /\ sent' = sent /\ got' = got
  BY DEF PushLinks, GoTo
<1>13. InCall[p] = Outgoing(p) /\ InCall' = [InCall EXCEPT ![p] = None]
  <2>1. pc'[p] = "pushSwing"
    BY <1>2, <1>12 DEF TypeOK
  <2> QED
    BY <1>2, <1>12, <2>1 DEF InCall, Linked
<1>14. Accepted' = [Accepted EXCEPT ![p] = @ + 1]
  <2>1. pc'[p] = "pushSwing" /\ sent[p] \in Int
    BY <1>2, <1>12 DEF TypeOK
  <2>2. Accepted[p] = sent[p] /\ Accepted'[p] = sent[p] + 1
    BY <1>2, <1>12, <2>1 DEF Accepted, Linked
  <2>3. DOMAIN Accepted = {p} /\ DOMAIN Accepted' = {p} /\ Accepted = [q \in {p} |-> Accepted[q]]
        /\ Accepted' = [q \in {p} |-> Accepted'[q]]
    BY DEF Accepted
  <2> QED
    BY <2>2, <2>3
<1> QED
  BY <1>9, <1>10, <1>11, <1>12, <1>13, <1>14 DEF Abstract!Enqueue

LEMMA SwapDequeues ==
  ASSUME TypeOK, NEW l, ListInv(l), NEW p \in Pushers, Pushers = {p}, NEW c \in Poppers, PopSwaps(c)
  PROVE  Abstract!Dequeue(c)
<1> PICK m : m = Tail(l)
  OBVIOUS
<1>1. TypeOK' /\ Len(l) > 1 /\ got' = [got EXCEPT ![c] = node[l[2]].data] /\ ListInv(m)'
  BY PopSwapsStep
<1>2. IsPath(l, head.ptr, node) /\ IsPath(m, head.ptr, node)'
  BY <1>1 DEF ListInv
<1>3. Len(m) = Len(l) - 1 /\ \A i \in 1..(Len(l) - 1) : m[i] = l[i + 1]
  BY <1>1, <1>2, PathTail
<1>4. Len(l) \in Nat \ {0}
  BY <1>2, PathLength
<1>5. node' = node /\ sent' = sent /\ pc' = [pc EXCEPT ![c] = "popCounts"]
  BY DEF PopSwaps, GoTo
<1>6. /\ Contents \in Seq(Data) /\ Len(Contents) = Len(l) - 1
      /\ \A i \in 1..(Len(l) - 1) : Contents[i] = node[l[i + 1]].data
  BY <1>2, ContentsAre
<1>7. /\ Contents' \in Seq(Data) /\ Len(Contents') = Len(m) - 1
      /\ \A i \in 1..(Len(m) - 1) : Contents'[i] = node'[m[i + 1]].data
  BY <1>1, <1>2, ContentsAreNext
<1>8. Contents # <<>> /\ Head(Contents) = node[l[2]].data
  <2>1. Len(Contents) # 0 /\ 1 \in 1..(Len(l) - 1) /\ 1 + 1 = 2
    BY <1>1, <1>4, <1>6
  <2>2. Contents # <<>>
    BY <2>1
  <2>3. Head(Contents) = Contents[1]
    OBVIOUS
  <2> QED
    BY <1>6, <2>1, <2>2, <2>3
<1>9. Contents' = Tail(Contents)
  <2> PICK q : q = Contents
    OBVIOUS
  <2> PICK s : s = Tail(q)
    OBVIOUS
  <2> PICK t : t = Contents'
    OBVIOUS
  <2>1. s \in Seq(Data) /\ Len(s) = Len(q) - 1 /\ \A i \in 1..Len(s) : s[i] = q[i + 1]
    <3>1. q \in Seq(Data) /\ q # <<>>
      BY <1>6, <1>8
    <3> QED
      BY <3>1, HeadTailProperties
  <2>2. Len(s) = Len(l) - 2 /\ Len(t) = Len(l) - 2
    BY <1>3, <1>4, <1>6, <1>7, <2>1
  <2>3. ASSUME NEW i \in 1..(Len(l) - 2) PROVE t[i] = s[i]
    <3>1. /\ i \in 1..(Len(m) - 1) /\ i + 1 \in 1..(Len(l) - 1) /\ i \in 1..Len(s)
      BY <1>3, <1>4, <2>2
    <3> QED
      BY SMTT(30), <1>3, <1>5, <1>6, <1>7, <2>1, <3>1
  <2>4. t \in Seq(Data) /\ Len(t) = Len(s) /\ \A i \in 1..Len(t) : t[i] = s[i]
    BY <1>7, <2>2, <2>3
  <2>5. t = s
    BY <2>1, <2>4, SeqEqual
  <2> QED
    BY <2>5
<1>10. InCall' = InCall /\ Accepted' = Accepted
  <2>1. p # c
    BY ThreadsAssumption
  <2>2. pc'[p] = pc[p]
    BY <1>5, <2>1
  <2> QED
    BY <1>5, <2>2 DEF InCall, Accepted, Outgoing
<1> QED
  BY <1>1, <1>8, <1>9, <1>10 DEF Abstract!Dequeue

\* The steps of Push before and after the one that links.
LEMMA PushRefines ==
  ASSUME TypeOK, NEW l, ListInv(l), NEW p \in Pushers, Pushers = {p}, PushStep(p)
  PROVE  \/ Abstract!Call(p) \/ Abstract!Fail(p) \/ Abstract!Enqueue(p)
         \/ UNCHANGED <<Contents, InCall, Accepted, got>>
<1>1. CASE PushLinks(p)
  BY <1>1, LinkEnqueues
<1>2. CASE ~PushLinks(p)
  <2>1. TypeOK' /\ ListInv(l)'
    BY <1>2, PushSteps
  <2>2. p \in Threads /\ sent[p] \in Int /\ pc[p] \in PushStates /\ (pc[p] # "idle" => sent[p] < MaxPush)
    BY DEF Threads, TypeOK
  <2>3. IsPath(l, head.ptr, node) /\ Places(l) /\ \A i \in 1..Len(l) : l[i] \in Nodes
    BY PathLength DEF ListInv
  <2>4. Contents' = Contents
    <3>1. \A i \in 1..Len(l) : node'[l[i]].data = node[l[i]].data
      <4>1. CASE PushInits(p)
        <5>1. Holds(p)
          BY <4>1 DEF PushInits, Holds, Holding
        <5>2. \A i \in 1..Len(l) : l[i] # frame[p].new
          BY <2>3, <5>1 DEF Places
        <5> QED
          BY <2>3, <4>1, <5>2 DEF PushInits, TypeOK
      <4>2. CASE PushAllocs(p)
        <5>1. node' = node \/ \E x : node' = [node EXCEPT ![x].next = NullPointer]
          BY <4>2 DEF PushAllocs
        <5> QED
          BY <2>3, <5>1 DEF TypeOK
      <4>3. CASE ~PushInits(p) /\ ~PushAllocs(p)
        <5>1. node' = node
          BY <1>2, <4>3 DEF PushStep, PushChecksNum, PushReadsTail, PushReadsNext, PushReadsCount, PushChecksTail,
             PushTakesTarget, PushLinkFails, PushHelps, PushSwings, PushCounts, shared
        <5> QED
          BY <5>1
      <4> QED
        BY <4>1, <4>2, <4>3
    <3> QED
      BY <2>1, <3>1, ContentsKept
  <2>5. got' = got
    BY <1>2 DEF PushStep, PushChecksNum, PushAllocs, PushInits, PushReadsTail, PushReadsNext, PushReadsCount,
       PushChecksTail, PushTakesTarget, PushLinkFails, PushHelps, PushSwings, PushCounts
  <2>6. /\ InCall = [q \in {p} |-> InCall[p]] /\ InCall' = [q \in {p} |-> InCall'[p]]
        /\ Accepted = [q \in {p} |-> Accepted[p]] /\ Accepted' = [q \in {p} |-> Accepted'[p]]
    BY DEF InCall, Accepted
  <2>7. /\ InCall[p] = IF pc[p] \in {"idle", "pushSwing", "pushCounts"} THEN None ELSE Outgoing(p)
        /\ InCall'[p] = IF pc'[p] \in {"idle", "pushSwing", "pushCounts"} THEN None ELSE Outgoing(p)'
        /\ Accepted[p] = sent[p] + (IF pc[p] \in Linked THEN 1 ELSE 0)
        /\ Accepted'[p] = sent'[p] + (IF pc'[p] \in Linked THEN 1 ELSE 0)
    BY DEF InCall, Accepted, Linked
  <2>8. CASE PushChecksNum(p)
    <3>1. pc[p] = "idle" /\ sent' = sent /\ sent[p] < MaxPush /\ Outgoing(p)' = Outgoing(p)
      BY <2>8 DEF PushChecksNum, Outgoing
    <3>2. CASE num < MaxNum
      <4>1. pc'[p] = "pushAlloc"
        BY <2>2, <2>8, <3>2 DEF PushChecksNum, GoTo, TypeOK
      <4>2. Outgoing(p) \in Values
        <5>1. sent[p] \in 0..MaxPush /\ MaxPush \in Nat
          BY ThreadsAssumption DEF TypeOK
        <5>2. sent[p] + 1 \in 1..MaxPush
          BY <3>1, <5>1
        <5> QED
          BY <5>2 DEF Outgoing, Values
      <4>3. InCall[p] = None /\ InCall'[p] = Outgoing(p)
        BY <2>7, <3>1, <4>1
      <4>4. InCall' = [InCall EXCEPT ![p] = Outgoing(p)]
        BY <2>6, <4>3
      <4>5. Accepted' = Accepted
        BY <2>6, <2>7, <3>1, <4>1 DEF Linked
      <4> QED
        BY <2>4, <2>5, <4>2, <4>3, <4>4, <4>5 DEF Abstract!Call
    <3>3. CASE ~(num < MaxNum)
      <4>1. pc' = pc
        BY <2>8, <3>3 DEF PushChecksNum
      <4>2. InCall' = InCall /\ Accepted' = Accepted
        BY <2>6, <2>7, <3>1, <4>1
      <4> QED
        BY <2>4, <2>5, <4>2
    <3> QED
      BY <3>2, <3>3
  <2>9. CASE PushAllocs(p)
    <3>1. pc[p] = "pushAlloc" /\ sent' = sent /\ Outgoing(p)' = Outgoing(p)
      BY <2>9 DEF PushAllocs, Outgoing
    <3>2. pc'[p] = "idle" \/ pc'[p] = "pushInit"
      BY <2>2, <2>9 DEF PushAllocs, Return, Locally, GoTo, TypeOK
    <3>3. Accepted' = Accepted
      BY <2>6, <2>7, <3>1, <3>2 DEF Linked
    <3>4. CASE pc'[p] = "idle"
      <4>1. Outgoing(p) # None
        <5>1. sent[p] \in 0..MaxPush /\ sent[p] < MaxPush /\ MaxPush \in Nat
          BY <2>2, <3>1, ThreadsAssumption DEF TypeOK
        <5>2. sent[p] + 1 \in 1..MaxPush
          BY <5>1
        <5>3. Outgoing(p) \in Values
          BY <5>2 DEF Outgoing, Values
        <5> QED
          BY <5>3, NoneAssumption
      <4>2. InCall[p] = Outgoing(p) /\ InCall'[p] = None
        BY <2>7, <3>1, <3>4
      <4>3. InCall' = [InCall EXCEPT ![p] = None]
        BY <2>6, <4>2
      <4> QED
        BY <2>4, <2>5, <3>3, <4>1, <4>2, <4>3 DEF Abstract!Fail
    <3>5. CASE pc'[p] = "pushInit"
      <4>1. InCall' = InCall
        BY <2>6, <2>7, <3>1, <3>5
      <4> QED
        BY <2>4, <2>5, <3>3, <4>1
    <3> QED
      BY <3>2, <3>4, <3>5
  <2>10. CASE PushCounts(p)
    <3>1. pc[p] = "pushCounts" /\ pc'[p] = "idle" /\ sent'[p] = sent[p] + 1
      BY <2>2, <2>10 DEF PushCounts, Return, Locally, GoTo, TypeOK
    <3>2. InCall' = InCall
      BY <2>6, <2>7, <3>1
    <3>3. Accepted' = Accepted
      <4>1. Accepted'[p] = Accepted[p]
        BY <2>2, <2>7, <3>1 DEF Linked
      <4> QED
        BY <2>6, <4>1
    <3> QED
      BY <2>4, <2>5, <3>2, <3>3
  <2>11. CASE ~PushChecksNum(p) /\ ~PushAllocs(p) /\ ~PushCounts(p)
    <3>1. sent' = sent /\ Outgoing(p)' = Outgoing(p)
      BY <1>2, <2>11 DEF PushStep, PushInits, PushReadsTail, PushReadsNext, PushReadsCount,
         PushChecksTail, PushTakesTarget, PushLinkFails, PushHelps, PushSwings, Outgoing
    <3>2. \/ pc[p] \in Holding /\ pc'[p] \in Holding
          \/ pc[p] \in Linked /\ pc'[p] \in Linked
      <4>1. ~PushHelps(p)
        BY <2>2 DEF PushHelps, PushStates
      <4>2. CASE PushChecksTail(p)
        <5>1. pc[p] = "pushCheck" /\ tail = frame[p].tail /\ frame[p].next.ptr = Null
          BY <4>2 DEF PushChecksTail, ListInv, PushKnows
        <5>2. pc'[p] = "pushTarget"
          BY <2>2, <4>2, <5>1 DEF PushChecksTail, GoTo, TypeOK
        <5> QED
          BY <5>1, <5>2 DEF Holding
      <4>3. CASE PushSwings(p)
        BY <2>2, <4>3 DEF PushSwings, GoTo, TypeOK, Linked
      <4>4. CASE PushInits(p)
        BY <2>2, <4>4 DEF PushInits, GoTo, TypeOK, Holding
      <4>5. CASE PushReadsTail(p) \/ PushReadsNext(p) \/ PushReadsCount(p) \/ PushTakesTarget(p)
        BY <2>2, <4>5 DEF PushReadsTail, PushReadsNext, PushReadsCount, PushTakesTarget, Locally, GoTo, TypeOK, Holding
      <4> QED
        BY <1>2, <2>11, <4>1, <4>2, <4>3, <4>4, <4>5, LinkDoesNotFail DEF PushStep
    <3>3. InCall'[p] = InCall[p] /\ Accepted'[p] = Accepted[p]
      BY <2>7, <3>1, <3>2 DEF Holding, Linked
    <3>4. InCall' = InCall /\ Accepted' = Accepted
      BY <2>6, <3>3
    <3> QED
      BY <2>4, <2>5, <3>4
  <2> QED
    BY <2>8, <2>9, <2>10, <2>11
<1> QED
  BY <1>1, <1>2

LEMMA PopRefines ==
  ASSUME TypeOK, NEW l, ListInv(l), NEW p \in Pushers, Pushers = {p}, NEW c \in Poppers, PopStep(c)
  PROVE  Abstract!Dequeue(c) \/ UNCHANGED <<Contents, InCall, Accepted, got>>
<1>1. CASE PopSwaps(c)
  BY <1>1, SwapDequeues
<1>2. CASE ~PopSwaps(c)
  <2>1. TypeOK' /\ ListInv(l)'
    BY <1>2, PopSteps
  <2>2. node' = node /\ got' = got /\ sent' = sent
    BY <1>2 DEF PopStep, PopReadsHead, PopReadsTail, PopReadsNext, PopChecksHead, PopHelps, PopReadsData,
       PopSwapFails, PopCounts, PopFrees, shared
  <2>3. Contents' = Contents
    BY <2>1, <2>2, ContentsKept
  <2>4. pc'[p] = pc[p]
    <3>1. p # c /\ p \in Threads /\ c \in Threads
      BY ThreadsAssumption DEF Threads
    <3> QED
      BY <1>2, <3>1 DEF PopStep, PopReadsHead, PopReadsTail, PopReadsNext, PopChecksHead, PopHelps, PopReadsData,
         PopSwapFails, PopCounts, PopFrees, Rejoins, Return, Locally, GoTo, TypeOK
  <2>5. InCall' = InCall /\ Accepted' = Accepted
    BY <2>2, <2>4 DEF InCall, Accepted, Outgoing
  <2> QED
    BY <2>2, <2>3, <2>5
<1> QED
  BY <1>1, <1>2

LEMMA InitRefines == ASSUME OnePusher, Init PROVE Abstract!Init
<1>1. TypeOK /\ ListInv(<<head.ptr>>)
  BY InitTypes, InitList
<1> PICK l : l = <<head.ptr>>
  OBVIOUS
<1>2. Len(l) = 1 /\ IsPath(l, head.ptr, node)
  BY <1>1 DEF ListInv
<1>3. Contents \in Seq(Data) /\ Len(Contents) = 0
  BY <1>1, <1>2, ContentsAre
<1>4. Contents = <<>>
  BY <1>3, EmptySeq
<1>5. Pushers \subseteq Threads
  BY DEF Threads
<1> QED
  BY <1>4, <1>5 DEF Init, Abstract!Init, InCall, Accepted, Linked

\* Push and Pop, each a sequence of loads and swaps that interleave with the others', work on
\* one first-in-first-out queue: what the one thread pushed is popped once and in its order, by
\* any number of threads, also where nodes are given out again, and no more than m_MaxNum
\* values wait.
THEOREM ListIsOneQueue == OnePusher => (Spec => ImplementsFifo)
<1> SUFFICES ASSUME OnePusher PROVE Spec => ImplementsFifo
  OBVIOUS
<1>1. Init => Abstract!Init
  BY InitRefines
<1>2. IInv /\ [Next]_vars => [Abstract!Next]_(Abstract!vars)
  <2> SUFFICES ASSUME IInv, [Next]_vars PROVE [Abstract!Next]_(Abstract!vars)
    OBVIOUS
  <2> PICK p : Pushers = {p}
    BY DEF OnePusher
  <2> PICK l : ListInv(l)
    BY DEF IInv
  <2>1. TypeOK /\ p \in Pushers
    BY DEF IInv
  <2>2. CASE PushStep(p)
    BY <2>1, <2>2, PushRefines DEF Abstract!Next, Abstract!vars
  <2>3. ASSUME NEW c \in Poppers, PopStep(c) PROVE [Abstract!Next]_(Abstract!vars)
    BY <2>1, <2>3, PopRefines DEF Abstract!Next, Abstract!vars
  <2>4. CASE UNCHANGED vars
    BY <2>4 DEF vars, shared, history, Abstract!vars, Contents, Chain, InCall, Accepted, Outgoing
  <2> QED
    BY <2>1, <2>2, <2>3, <2>4 DEF Next
<1>3. Spec => []IInv
  BY Invariance
<1> QED
  BY <1>1, <1>2, <1>3, PTL DEF Spec, ImplementsFifo, Abstract!Spec

--------------------------------------------------------------------------------
(* Nodes that were given back *)

LEMMA UsesNoFreed ==
  ASSUME OnePusher, IInv, NoFreedNodeUsed, Next
  PROVE  NoFreedNodeUsed'
<1> PICK p : Pushers = {p}
  BY DEF OnePusher
<1> PICK l : ListInv(l)
  BY DEF IInv
<1>1. TypeOK /\ p \in Pushers /\ p \notin Poppers
  BY ThreadsAssumption DEF IInv
<1>2. /\ Places(l) /\ IsPath(l, head.ptr, node) /\ PushKnows(p) /\ TailAtEnd(l, p)
      /\ Len(l) \in Nat \ {0}
  BY <1>1, PathLength DEF ListInv
<1>3. \A i \in 1..Len(l) : l[i] \notin Free
  BY <1>2 DEF Places, Free
<1>4. tail.ptr \notin Free
  <2>1. Len(l) \in 1..Len(l) /\ (Len(l) > 1 => Len(l) - 1 \in 1..Len(l))
    BY <1>2
  <2> QED
    BY <1>2, <1>3, <2>1 DEF TailAtEnd, End
<1>5. head.ptr \notin Free
  <2>1. 1 \in 1..Len(l)
    BY <1>2
  <2> QED
    BY <1>2, <1>3, <2>1 DEF IsPath
<1>6. CASE PushReadsNext(p) \/ PushReadsCount(p) \/ PushLinks(p) \/ PushLinkFails(p)
  <2>1. \/ Uses(p, frame[p].tail.ptr) /\ frame[p].tail = tail
        \/ Uses(p, frame[p].target) /\ frame[p].target = tail.ptr
    BY <1>2, <1>6 DEF PushReadsNext, PushReadsCount, PushLinks, PushLinkFails, PushKnows
  <2> QED
    BY <1>4, <2>1 DEF Uses, NoFreedNodeUsed
<1>7. ASSUME NEW c \in Poppers, PopReadsNext(c) PROVE NoFreedNodeUsed'
  BY <1>5, <1>7 DEF PopReadsNext, Uses, Overtaken, NoFreedNodeUsed
<1>8. ASSUME NEW c \in Poppers, PopReadsData(c) PROVE NoFreedNodeUsed'
  <2>1. CASE Overtaken(c)
    BY <1>8, <2>1 DEF PopReadsData, Uses, NoFreedNodeUsed
  <2>2. CASE ~Overtaken(c)
    <3>1. Len(l) > 1 /\ frame[c].next.ptr = l[2]
      <4>1. PopKnows(l, c) /\ head = frame[c].at /\ pc[c] = "popData"
        BY <1>8, <2>2 DEF ListInv, PopReadsData, Overtaken
      <4> QED
        BY <4>1 DEF PopKnows
    <3>2. 2 \in 1..Len(l)
      BY <1>2, <3>1
    <3> QED
      BY <1>3, <1>8, <3>1, <3>2 DEF PopReadsData, Uses, NoFreedNodeUsed
  <2> QED
    BY <2>1, <2>2
<1>9. CASE touched' = touched
  BY <1>9 DEF NoFreedNodeUsed
<1>10. \/ PushReadsNext(p) \/ PushReadsCount(p) \/ PushLinks(p) \/ PushLinkFails(p)
       \/ (\E c \in Poppers : PopReadsNext(c) \/ PopReadsData(c)) \/ touched' = touched
  BY <1>1 DEF Next, PushStep, PopStep, PushChecksNum, PushAllocs, PushInits, PushReadsTail, PushChecksTail,
     PushTakesTarget, PushHelps, PushSwings, PushCounts, PopReadsHead, PopReadsTail, PopChecksHead, PopHelps,
     PopSwaps, PopSwapFails, PopCounts, PopFrees, history
<1> QED
  BY <1>6, <1>7, <1>8, <1>9, <1>10

\* No thread reads or writes a node that was given back to the pool, but for a pop that
\* another pop has overtaken.
THEOREM FreedNodesUnused == ASSUME OnePusher PROVE Spec => []NoFreedNodeUsed
<1>1. Init => NoFreedNodeUsed
  BY Zenon DEF Init, NoFreedNodeUsed
<1>2. IInv /\ NoFreedNodeUsed /\ [Next]_vars => NoFreedNodeUsed'
  <2> SUFFICES ASSUME IInv, NoFreedNodeUsed, [Next]_vars PROVE NoFreedNodeUsed'
    OBVIOUS
  <2>1. CASE Next
    BY <2>1, UsesNoFreed
  <2>2. CASE UNCHANGED vars
    BY <2>2 DEF vars, history, NoFreedNodeUsed
  <2> QED
    BY <2>1, <2>2
<1>3. Spec => []IInv
  BY Invariance
<1> QED
  BY <1>1, <1>2, <1>3, PTL DEF Spec

\* What the push has read of m_Tail is so until its swap.
LonePush ==
  \A p \in Pushers :
    pc[p] \in {"pushNext", "pushCount", "pushCheck", "pushTarget", "pushLink"} => ~Overtaken(p)

\* What a pop has read of m_Head is so until its swap.
LonePop ==
  \A c \in Poppers :
    pc[c] \in {"popTail", "popNext", "popCheck", "popHelp", "popData", "popSwap"} => frame[c].at = head

\* A single pushing thread is never overtaken, whatever the pops do to m_Tail: it never goes
\* round its loop.
THEOREM LonePushNotOvertaken == ASSUME OnePusher PROVE Spec => []LonePush
<1>1. IInv => LonePush
  <2> SUFFICES ASSUME IInv, NEW p \in Pushers,
                      pc[p] \in {"pushNext", "pushCount", "pushCheck", "pushTarget", "pushLink"}
               PROVE  ~Overtaken(p)
    BY DEF LonePush
  <2>1. frame[p].tail = tail
    BY DEF IInv, ListInv, PushKnows
  <2> QED
    BY <2>1, ThreadsAssumption DEF Overtaken
<1>2. Spec => []IInv
  BY Invariance
<1> QED
  BY <1>1, <1>2, PTL

LEMMA LonePopKept ==
  ASSUME OnePusher, OnePopper, IInv, LonePop, Next
  PROVE  LonePop'
<1> PICK p : Pushers = {p}
  BY DEF OnePusher
<1> PICK c : Poppers = {c}
  BY DEF OnePopper
<1>1. TypeOK /\ p \in Pushers /\ c \in Poppers /\ c # p /\ c \in Threads /\ p \in Threads
  BY ThreadsAssumption DEF IInv, Threads
<1>2. frame[c] \in Frames /\ frame \in [Threads -> Frames] /\ pc \in [Threads -> PushStates \cup PopStates]
  BY <1>1 DEF TypeOK
<1>3. CASE PushStep(p)
  <2>1. head' = head
    BY <1>3 DEF PushStep, PushChecksNum, PushAllocs, PushInits, PushReadsTail, PushReadsNext, PushReadsCount,
       PushChecksTail, PushTakesTarget, PushLinks, PushLinkFails, PushHelps, PushSwings, PushCounts, shared
  <2>2. pc'[c] = pc[c] /\ frame'[c] = frame[c]
    <3>1. CASE \/ PushChecksNum(p) \/ PushAllocs(p) \/ PushInits(p) \/ PushReadsTail(p)
               \/ PushReadsNext(p) \/ PushReadsCount(p) \/ PushTakesTarget(p)
      BY <1>1, <1>2, <3>1 DEF PushChecksNum, PushAllocs, PushInits, PushReadsTail, PushReadsNext, PushReadsCount,
         PushTakesTarget, Return, Locally, GoTo
    <3>2. CASE \/ PushChecksTail(p) \/ PushLinkFails(p) \/ PushHelps(p)
               \/ PushLinks(p) \/ PushSwings(p) \/ PushCounts(p)
      BY <1>1, <1>2, <3>2 DEF PushChecksTail, PushLinks, PushLinkFails, PushHelps, PushSwings, PushCounts,
         Rejoins, Return, Locally, GoTo
    <3> QED
      BY <1>3, <3>1, <3>2 DEF PushStep
  <2> QED
    BY <2>1, <2>2 DEF LonePop
<1>4. CASE PopStep(c)
  <2>1. CASE PopReadsHead(c)
    <3>1. frame'[c].at = head /\ head' = head
      BY <1>1, <1>2, <2>1 DEF PopReadsHead, Locally, Frames, shared
    <3> QED
      BY <3>1 DEF LonePop
  <2>2. CASE PopReadsTail(c) \/ PopReadsNext(c) \/ PopReadsData(c)
    <3>1. frame'[c].at = frame[c].at /\ head' = head /\ frame[c].at = head
      BY <1>1, <1>2, <2>2 DEF PopReadsTail, PopReadsNext, PopReadsData, Locally, Frames, shared, LonePop
    <3> QED
      BY <3>1 DEF LonePop
  <2>3. CASE PopChecksHead(c)
    <3>1. frame[c].at = head /\ head' = head
      BY <1>1, <2>3 DEF PopChecksHead, LonePop, shared
    <3>2. CASE frame[c].next.ptr = Null
      <4>1. pc'[c] = "idle"
        BY <1>1, <1>2, <2>3, <3>1, <3>2 DEF PopChecksHead, Return, Locally, GoTo
      <4> QED
        BY <4>1 DEF LonePop
    <3>3. CASE frame[c].next.ptr # Null
      <4>1. frame' = frame
        BY <2>3, <3>1, <3>3 DEF PopChecksHead
      <4> QED
        BY <3>1, <4>1 DEF LonePop
    <3> QED
      BY <3>2, <3>3
  <2>4. CASE PopHelps(c) \/ PopSwapFails(c)
    <3>1. pc'[c] \in {"idle", "popHead"}
      BY <1>1, <2>4, RejoinStep DEF PopHelps, PopSwapFails
    <3> QED
      BY <3>1 DEF LonePop
  <2>5. CASE PopSwaps(c) \/ PopCounts(c) \/ PopFrees(c)
    <3>1. pc'[c] \in {"popCounts", "popFree", "idle"}
      BY <1>1, <1>2, <2>5 DEF PopSwaps, PopCounts, PopFrees, Return, Locally, GoTo
    <3> QED
      BY <3>1 DEF LonePop
  <2> QED
    BY <1>4, <2>1, <2>2, <2>3, <2>4, <2>5 DEF PopStep
<1> QED
  BY <1>1, <1>3, <1>4 DEF Next

\* A single popping thread is never overtaken: with the theorems above, no thread then uses a
\* node that was given back at all, and the pool that deletes may be used.
THEOREM LonePopNotOvertaken == ASSUME OnePusher, OnePopper PROVE Spec => []LonePop
<1>1. Init => LonePop
  <2> SUFFICES ASSUME Init PROVE LonePop
    OBVIOUS
  <2>1. \A c \in Poppers : pc[c] = "idle"
    BY DEF Init, Threads
  <2> QED
    BY <2>1 DEF LonePop
<1>2. IInv /\ LonePop /\ [Next]_vars => LonePop'
  <2> SUFFICES ASSUME IInv, LonePop, [Next]_vars PROVE LonePop'
    OBVIOUS
  <2>1. CASE Next
    BY <2>1, LonePopKept
  <2>2. CASE UNCHANGED vars
    BY <2>2 DEF vars, shared, LonePop
  <2> QED
    BY <2>1, <2>2
<1>3. Spec => []IInv
  BY Invariance
<1> QED
  BY <1>1, <1>2, <1>3, PTL DEF Spec
================================================================================
