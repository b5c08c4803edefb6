---------------------------- MODULE ContainersProofs ----------------------------
(***************************************************************************)
(* Proofs about LockFreeRingedQueueT, for a ring of any size, any number   *)
(* of threads that push and pop, and any interleaving of their loads,      *)
(* swaps and exchanges: it is one first-in-first-out queue, and a call     *)
(* that fails had a cause.                                                 *)
(*                                                                         *)
(* The tag in a compare-and-swap wraps.  A call that reads position and    *)
(* tag and then sleeps while others make exactly TagModulus swaps takes    *)
(* the end of the ring for unmoved, so the theorems are about behaviours   *)
(* in which no call is overtaken that often (2^32 times in the code); lag  *)
(* counts it.                                                              *)
(*                                                                         *)
(* Then, of the containers beside it: the ring of bytes, DequeT and the    *)
(* object pool.                                                            *)
(***************************************************************************)
EXTENDS MCContainers, Integers, FiniteSetTheorems, TLAPS

VARIABLE lag  \* how often others moved the end a call works on, since the call read its tag

\* The call holds a copy of position and tag.
Comparing == {"pushRoom", "pushSlot", "pushCas", "popSome", "popSlot", "popCas"}

CountsSwaps ==
  lag' = [t \in Threads |->
            IF pc'[t] \in Comparing THEN lag[t] + (IF Overtaken(t) THEN 1 ELSE 0) ELSE 0]

CountedSpec ==
  /\ Init /\ lag = [t \in Threads |-> 0]
  /\ [][Next /\ CountsSwaps]_<<vars, lag>>

\* No call is overtaken so often that the tag comes round.
Awake == \A t \in Threads : lag[t] < TagModulus

\* The value that stands for an empty cell is never pushed, and compare_and_swap tells the
\* truth (not so in the 64-bit Windows build).
SoundUse == Invalid \notin Values /\ SwapReports

--------------------------------------------------------------------------------
(* The inductive invariant *)

PushStates == {"idle", "pushPos", "pushTag", "pushRoom", "pushSlot", "pushCas", "pushStore"}
PopStates == {"idle", "popPos", "popTag", "popSome", "popSlot", "popCas", "popTake"}
Pointers == [pos : Slots, tag : 0..(TagModulus - 1)]

TypeOK ==
  /\ head \in Pointers /\ tail \in Pointers
  /\ data \in [Slots -> Values \cup {Invalid}]
  /\ pc \in [Threads -> PushStates \cup PopStates]
  /\ \A p \in Pushers : pc[p] \in PushStates
  /\ \A c \in Poppers : pc[c] \in PopStates
  /\ frame \in [Threads -> [pos : Slots, tag : 0..(TagModulus - 1), tries : Nat]]
  /\ sent \in [Pushers -> 0..MaxPush]
  /\ \A p \in Pushers : pc[p] # "idle" => sent[p] < MaxPush
  /\ got \in [Poppers -> Values \cup {Invalid}]
  /\ excused \in [Threads -> BOOLEAN]
  /\ lag \in [Threads -> Nat]

\* The cells from a on to b, and the cells that are between head and tail.
Ahead(a, b) == IF b >= a THEN b - a ELSE b + Capacity - a
InRing(i) == Ahead(head.pos, i) < Ahead(head.pos, tail.pos)

\* The end that a call works on.
End(t) == IF t \in Pushers THEN tail ELSE head

\* The tag n swaps ago.
TagBefore(tag, n) == IF tag >= n THEN tag - n ELSE tag + TagModulus - n

Stamped ==
  \A t \in Threads :
    /\ pc[t] \notin Comparing => lag[t] = 0
    /\ pc[t] \in Comparing /\ lag[t] < TagModulus => frame[t].tag = TagBefore(End(t).tag, lag[t])

Stores(p, i) == pc[p] = "pushStore" /\ frame[p].pos = i
Takes(c, i) == pc[c] = "popTake" /\ frame[c].pos = i

\* A push that has moved the tail owns an empty cell between head and tail, a pop that has
\* moved the head owns a full one outside; no other cell is empty inside or full outside.
CellsOwned ==
  /\ \A p \in Pushers, i \in Slots : Stores(p, i) =>
       InRing(i) /\ data[i] = Invalid /\ \A q \in Pushers : Stores(q, i) => q = p
  /\ \A c \in Poppers, i \in Slots : Takes(c, i) =>
       ~InRing(i) /\ data[i] # Invalid /\ \A d \in Poppers : Takes(d, i) => d = c
  /\ \A i \in Slots : InRing(i) /\ data[i] = Invalid => \E p \in Pushers : Stores(p, i)
  /\ \A i \in Slots : ~InRing(i) /\ data[i] # Invalid => \E c \in Poppers : Takes(c, i)

\* What a call has checked still holds when its copy is current.
Current(t) == lag[t] = 0 /\ frame[t].pos = End(t).pos
Checked ==
  /\ \A p \in Pushers : Current(p) =>
       /\ pc[p] \in {"pushSlot", "pushCas"} => After(tail.pos) # head.pos
       /\ pc[p] = "pushCas" => data[tail.pos] = Invalid
  /\ \A c \in Poppers : Current(c) =>
       /\ pc[c] \in {"popSlot", "popCas"} => head.pos # tail.pos
       /\ pc[c] = "popCas" => data[head.pos] # Invalid

\* A call whose copy is old was overtaken, and a reason to fail is noted.
Excuses ==
  \A t \in Threads :
    /\ pc[t] \in Comparing \cup {"pushTag", "popTag"} => excused[t] \/ frame[t].pos = End(t).pos
    /\ pc[t] \in Comparing => excused[t] \/ frame[t].tag = End(t).tag
    /\ pc[t] # "idle" /\ Reason(t) => excused[t]

IInv ==
  /\ TypeOK
  /\ Stamped
  /\ CellsOwned
  /\ Checked
  /\ Excuses

Step == Next /\ CountsSwaps

--------------------------------------------------------------------------------
(* Positions *)

LEMMA ModSmall == ASSUME NEW n \in Nat \ {0}, NEW x \in Nat, x < n PROVE x % n = x
BY SMT
LEMMA ModLarge == ASSUME NEW n \in Nat \ {0}, NEW x \in Nat, n <= x, x < 2 * n PROVE x % n = x - n
BY SMT
LEMMA ModOnce == ASSUME NEW n \in Nat \ {0}, NEW x \in Nat, x < 2 * n
                 PROVE  x % n = IF x < n THEN x ELSE x - n
<1>1. CASE x < n
  BY <1>1, ModSmall
<1>2. CASE ~(x < n)
  <2>1. n <= x
    BY <1>2
  <2>2. x % n = x - n
    BY <2>1, ModLarge
  <2> QED
    BY <1>2, <2>2
<1> QED
  BY <1>1, <1>2

LEMMA AfterValue ==
  ASSUME NEW i \in Slots
  PROVE  After(i) = (IF i = Size THEN 0 ELSE i + 1) /\ After(i) \in Slots
<1>1. i \in Nat /\ i <= Size /\ Capacity = Size + 1 /\ Capacity \in Nat \ {0} /\ Size \in Nat
  BY SizeAssumption DEF Slots, Capacity
<1>2. CASE i = Size
  <2>1. (i + 1) % Capacity = (i + 1) - Capacity
    BY <1>1, <1>2, ModLarge
  <2> QED
    BY <1>1, <1>2, <2>1 DEF After, Slots
<1>3. CASE i # Size
  <2>1. (i + 1) % Capacity = i + 1
    BY <1>1, <1>3, ModSmall
  <2> QED
    BY <1>1, <1>3, <2>1 DEF After, Slots
<1> QED
  BY <1>2, <1>3

LEMMA TagStep ==
  ASSUME NEW tag \in 0..(TagModulus - 1)
  PROVE  /\ (tag + 1) % TagModulus = IF tag + 1 = TagModulus THEN 0 ELSE tag + 1
         /\ (tag + 1) % TagModulus \in 0..(TagModulus - 1)
<1>1. tag \in Nat /\ tag + 1 <= TagModulus /\ TagModulus \in Nat \ {0}
  BY SizeAssumption
<1>2. CASE tag + 1 = TagModulus
  <2>1. (tag + 1) % TagModulus = (tag + 1) - TagModulus
    BY <1>1, <1>2, ModLarge
  <2> QED
    BY <1>1, <1>2, <2>1
<1>3. CASE tag + 1 # TagModulus
  <2>1. (tag + 1) % TagModulus = tag + 1
    BY <1>1, <1>3, ModSmall
  <2> QED
    BY <1>1, <1>3, <2>1
<1> QED
  BY <1>2, <1>3

\* The tail moves on, and the head.
LEMMA TailMoves ==
  ASSUME NEW h \in Slots, NEW t \in Slots, After(t) # h
  PROVE  /\ Ahead(h, After(t)) = Ahead(h, t) + 1
         /\ Ahead(h, t) \in Nat /\ Ahead(h, t) < Size
         /\ \A i \in Slots : Ahead(h, i) < Ahead(h, t) + 1 <=> i = t \/ Ahead(h, i) < Ahead(h, t)
BY AfterValue, SizeAssumption DEF Ahead, Slots, Capacity

LEMMA HeadMoves ==
  ASSUME NEW h \in Slots, NEW t \in Slots, h # t
  PROVE  /\ Ahead(After(h), t) = Ahead(h, t) - 1
         /\ Ahead(h, t) \in Nat \ {0} /\ Ahead(h, h) = 0
         /\ \A i \in Slots : Ahead(After(h), i) < Ahead(h, t) - 1 <=> i # h /\ Ahead(h, i) < Ahead(h, t)
BY AfterValue, SizeAssumption DEF Ahead, Slots, Capacity

\* The number of values that wait.
LEMMA WaitingValue ==
  ASSUME head.pos \in Slots, tail.pos \in Slots
  PROVE  Waiting = Ahead(head.pos, tail.pos) /\ Waiting \in 0..Size
<1>1. /\ Capacity \in Nat \ {0} /\ head.pos \in Nat /\ tail.pos \in Nat /\ Capacity = Size + 1
      /\ head.pos < Capacity /\ tail.pos < Capacity /\ Size \in Nat
  BY SizeAssumption DEF Capacity, Slots
<1> PICK x : x = tail.pos + Capacity - head.pos
  OBVIOUS
<1>2. x \in Nat /\ x < 2 * Capacity /\ Waiting = x % Capacity
  BY <1>1 DEF Waiting
<1>3. x % Capacity = IF x < Capacity THEN x ELSE x - Capacity
  BY <1>1, <1>2, ModOnce
<1> QED
  BY <1>1, <1>2, <1>3 DEF Ahead

LEMMA WaitingValueNext ==
  ASSUME head'.pos \in Slots, tail'.pos \in Slots
  PROVE  Waiting' = Ahead(head'.pos, tail'.pos) /\ Waiting' \in 0..Size
<1>1. /\ Capacity \in Nat \ {0} /\ head'.pos \in Nat /\ tail'.pos \in Nat /\ Capacity = Size + 1
      /\ head'.pos < Capacity /\ tail'.pos < Capacity /\ Size \in Nat
  BY SizeAssumption DEF Capacity, Slots
<1> PICK x : x = tail'.pos + Capacity - head'.pos
  OBVIOUS
<1>2. x \in Nat /\ x < 2 * Capacity /\ Waiting' = x % Capacity
  BY <1>1 DEF Waiting
<1>3. x % Capacity = IF x < Capacity THEN x ELSE x - Capacity
  BY <1>1, <1>2, ModOnce
<1> QED
  BY <1>1, <1>2, <1>3 DEF Ahead

LEMMA TagFacts ==
  ASSUME NEW tag \in 0..(TagModulus - 1), NEW n \in Nat
  PROVE  /\ TagBefore(tag, 0) = tag
         /\ n # 0 /\ n < TagModulus => TagBefore(tag, n) # tag
         /\ n + 1 < TagModulus => TagBefore((tag + 1) % TagModulus, n + 1) = TagBefore(tag, n)
BY TagStep, SizeAssumption DEF TagBefore

--------------------------------------------------------------------------------
(* Types *)

\* What a thread does to its own locals.
LEMMA LocalTypes ==
  ASSUME TypeOK, NEW t \in Threads
  PROVE  /\ \A where : GoTo(t, where) =>
              /\ pc'[t] = where /\ \A u \in Threads : u # t => pc'[u] = pc[u]
              /\ where \in PushStates \cup PopStates => pc' \in [Threads -> PushStates \cup PopStates]
         /\ Return(t) =>
              /\ pc'[t] = "idle" /\ \A u \in Threads : u # t => pc'[u] = pc[u] /\ frame'[u] = frame[u]
              /\ pc' \in [Threads -> PushStates \cup PopStates]
              /\ frame' \in [Threads -> [pos : Slots, tag : 0..(TagModulus - 1), tries : Nat]]
         /\ \A where : Retries(t, where) =>
              /\ pc'[t] \in {"idle", where}
              /\ \A u \in Threads : u # t => pc'[u] = pc[u] /\ frame'[u] = frame[u]
              /\ where \in PushStates \cup PopStates => pc' \in [Threads -> PushStates \cup PopStates]
              /\ frame' \in [Threads -> [pos : Slots, tag : 0..(TagModulus - 1), tries : Nat]]
<1>1. NoFrame \in [pos : Slots, tag : 0..(TagModulus - 1), tries : Nat]
  BY SizeAssumption DEF NoFrame, Slots, Capacity
<1>2. Return(t) =>
        /\ pc'[t] = "idle" /\ \A u \in Threads : u # t => pc'[u] = pc[u] /\ frame'[u] = frame[u]
        /\ pc' \in [Threads -> PushStates \cup PopStates]
        /\ frame' \in [Threads -> [pos : Slots, tag : 0..(TagModulus - 1), tries : Nat]]
  BY <1>1 DEF Return, GoTo, TypeOK, PushStates
<1>3. ASSUME NEW where, Retries(t, where)
      PROVE  /\ pc'[t] \in {"idle", where}
             /\ \A u \in Threads : u # t => pc'[u] = pc[u] /\ frame'[u] = frame[u]
             /\ where \in PushStates \cup PopStates => pc' \in [Threads -> PushStates \cup PopStates]
             /\ frame' \in [Threads -> [pos : Slots, tag : 0..(TagModulus - 1), tries : Nat]]
  <2>1. CASE Return(t)
    BY <1>2, <2>1
  <2>2. CASE frame' = [frame EXCEPT ![t].tries = @ + 1] /\ GoTo(t, where)
    BY <2>2 DEF GoTo, TypeOK
  <2> QED
    BY <1>3, <2>1, <2>2 DEF Retries
<1> QED
  BY <1>2, <1>3 DEF GoTo, TypeOK

\* What a step does to the call of another thread, and to the histories.
LEMMA OtherThreads ==
  ASSUME TypeOK, Step
  PROVE  /\ excused' \in [Threads -> BOOLEAN]
         /\ lag' \in [Threads -> Nat]
         /\ \A t \in Threads : /\ pc'[t] \in Comparing => lag'[t] = lag[t] + (IF Overtaken(t) THEN 1 ELSE 0)
                               /\ pc'[t] \notin Comparing => lag'[t] = 0
BY DEF Step, CountsSwaps, Next, NotesReasons, TypeOK

LEMMA PushTypes ==
  ASSUME TypeOK, SwapReports, NEW p \in Pushers, PushStep(p)
  PROVE  /\ head' = head /\ tail' \in Pointers
         /\ data' \in [Slots -> Values \cup {Invalid}]
         /\ pc' \in [Threads -> PushStates \cup PopStates]
         /\ pc'[p] \in PushStates
         /\ \A u \in Threads : u # p => pc'[u] = pc[u] /\ frame'[u] = frame[u]
         /\ frame' \in [Threads -> [pos : Slots, tag : 0..(TagModulus - 1), tries : Nat]]
         /\ sent' \in [Pushers -> 0..MaxPush]
         /\ pc'[p] # "idle" => sent'[p] < MaxPush
         /\ \A q \in Pushers : q # p => sent'[q] = sent[q]
         /\ got' = got
<1> USE DEF TypeOK
<1>1. p \in Threads /\ tail \in Pointers /\ pc[p] \in PushStates
  BY DEF Threads
<1>2. CASE PushCall(p)
  BY <1>1, <1>2, LocalTypes DEF PushCall, GoTo, shared, PushStates
<1>3. CASE PushReadsPos(p)
  <2>1. frame' \in [Threads -> [pos : Slots, tag : 0..(TagModulus - 1), tries : Nat]]
        /\ \A u \in Threads : u # p => frame'[u] = frame[u]
    BY <1>1, <1>3 DEF PushReadsPos, Pointers
  <2> QED
    BY <1>1, <1>3, <2>1, LocalTypes DEF PushReadsPos, GoTo, shared, PushStates
<1>4. CASE PushReadsTag(p)
  <2>1. frame' \in [Threads -> [pos : Slots, tag : 0..(TagModulus - 1), tries : Nat]]
        /\ \A u \in Threads : u # p => frame'[u] = frame[u]
    BY <1>1, <1>4 DEF PushReadsTag, Pointers
  <2> QED
    BY <1>1, <1>4, <2>1, LocalTypes DEF PushReadsTag, GoTo, shared, PushStates
<1>5. CASE PushReadsHead(p) \/ PushReadsSlot(p)
  <2>1. Return(p) \/ (UNCHANGED frame /\ \E where \in {"pushSlot", "pushCas"} : GoTo(p, where))
    BY <1>5 DEF PushReadsHead, PushReadsSlot
  <2>2. UNCHANGED <<shared, sent, got>> /\ sent[p] < MaxPush
    BY <1>5 DEF PushReadsHead, PushReadsSlot
  <2> QED
    BY <1>1, <2>1, <2>2, LocalTypes DEF shared, PushStates
<1>6. CASE PushSwaps(p)
  <2>1. tail' = Advance(frame[p]) /\ GoTo(p, "pushStore") /\ UNCHANGED frame
        /\ UNCHANGED <<head, data, sent, got>> /\ sent[p] < MaxPush
    BY <1>6 DEF PushSwaps
  <2>2. tail' \in Pointers
    BY <1>1, <2>1, AfterValue, TagStep DEF Advance, Pointers
  <2> QED
    BY <1>1, <2>1, <2>2, LocalTypes DEF PushStates
<1>7. CASE PushSwapFails(p)
  BY <1>1, <1>7, LocalTypes DEF PushSwapFails, shared, PushStates
<1>8. CASE PushStores(p)
  <2>1. Return(p) /\ UNCHANGED <<head, tail, got>> /\ pc[p] = "pushStore" /\ sent[p] < MaxPush
        /\ data' = [data EXCEPT ![frame[p].pos] = Outgoing(p)]
        /\ sent' = [sent EXCEPT ![p] = @ + 1]
    BY <1>8 DEF PushStores
  <2>2. sent[p] + 1 \in 1..MaxPush
    BY <2>1, ThreadsAssumption
  <2>3. Outgoing(p) \in Values
    BY <2>2 DEF Outgoing, Values
  <2> QED
    BY <1>1, <2>1, <2>2, <2>3, LocalTypes DEF PushStates
<1> QED
  BY <1>2, <1>3, <1>4, <1>5, <1>6, <1>7, <1>8 DEF PushStep

LEMMA PopTypes ==
  ASSUME TypeOK, SwapReports, NEW c \in Poppers, PopStep(c)
  PROVE  /\ tail' = tail /\ head' \in Pointers
         /\ data' \in [Slots -> Values \cup {Invalid}]
         /\ pc' \in [Threads -> PushStates \cup PopStates]
         /\ pc'[c] \in PopStates
         /\ \A u \in Threads : u # c => pc'[u] = pc[u] /\ frame'[u] = frame[u]
         /\ frame' \in [Threads -> [pos : Slots, tag : 0..(TagModulus - 1), tries : Nat]]
         /\ sent' = sent
         /\ got' \in [Poppers -> Values \cup {Invalid}]
<1> USE DEF TypeOK
<1>1. c \in Threads /\ head \in Pointers /\ pc[c] \in PopStates
  BY DEF Threads
<1>2. CASE PopCall(c)
  BY <1>1, <1>2, LocalTypes DEF PopCall, GoTo, shared, PopStates
<1>3. CASE PopReadsPos(c)
  <2>1. frame' \in [Threads -> [pos : Slots, tag : 0..(TagModulus - 1), tries : Nat]]
        /\ \A u \in Threads : u # c => frame'[u] = frame[u]
    BY <1>1, <1>3 DEF PopReadsPos, Pointers
  <2> QED
    BY <1>1, <1>3, <2>1, LocalTypes DEF PopReadsPos, GoTo, shared, PopStates
<1>4. CASE PopReadsTag(c)
  <2>1. frame' \in [Threads -> [pos : Slots, tag : 0..(TagModulus - 1), tries : Nat]]
        /\ \A u \in Threads : u # c => frame'[u] = frame[u]
    BY <1>1, <1>4 DEF PopReadsTag, Pointers
  <2> QED
    BY <1>1, <1>4, <2>1, LocalTypes DEF PopReadsTag, GoTo, shared, PopStates
<1>5. CASE PopReadsTail(c) \/ PopReadsSlot(c)
  <2>1. Return(c) \/ (UNCHANGED frame /\ \E where \in {"popSlot", "popCas"} : GoTo(c, where))
    BY <1>5 DEF PopReadsTail, PopReadsSlot
  <2>2. UNCHANGED <<shared, sent, got>>
    BY <1>5 DEF PopReadsTail, PopReadsSlot
  <2> QED
    BY <1>1, <2>1, <2>2, LocalTypes DEF shared, PopStates
<1>6. CASE PopSwaps(c)
  <2>1. head' = Advance(frame[c]) /\ GoTo(c, "popTake") /\ UNCHANGED frame
        /\ UNCHANGED <<tail, data, sent, got>>
    BY <1>6 DEF PopSwaps
  <2>2. head' \in Pointers
    BY <1>1, <2>1, AfterValue, TagStep DEF Advance, Pointers
  <2> QED
    BY <1>1, <2>1, <2>2, LocalTypes DEF PopStates
<1>7. CASE PopSwapFails(c)
  BY <1>1, <1>7, LocalTypes DEF PopSwapFails, shared, PopStates
<1>8. CASE PopTakes(c)
  <2>1. Return(c) /\ UNCHANGED <<head, tail, sent>>
        /\ got' = [got EXCEPT ![c] = data[frame[c].pos]]
        /\ data' = [data EXCEPT ![frame[c].pos] = Invalid]
    BY <1>8 DEF PopTakes
  <2> QED
    BY <1>1, <2>1, LocalTypes DEF PopStates
<1> QED
  BY <1>2, <1>3, <1>4, <1>5, <1>6, <1>7, <1>8 DEF PopStep

LEMMA TypeStep ==
  ASSUME TypeOK, SwapReports, Step
  PROVE  TypeOK'
<1>1. ASSUME NEW p \in Pushers, PushStep(p) PROVE TypeOK'
  <2>1. \A q \in Pushers : q # p => pc'[q] = pc[q] /\ sent'[q] = sent[q]
    BY <1>1, PushTypes DEF Threads
  <2>2. \A c \in Poppers : pc'[c] = pc[c]
    BY <1>1, PushTypes, ThreadsAssumption DEF Threads
  <2> QED
    BY <1>1, <2>1, <2>2, PushTypes, OtherThreads DEF TypeOK
<1>2. ASSUME NEW c \in Poppers, PopStep(c) PROVE TypeOK'
  <2>1. \A q \in Pushers : pc'[q] = pc[q] /\ sent'[q] = sent[q]
    BY <1>2, PopTypes, ThreadsAssumption DEF Threads
  <2>2. \A d \in Poppers : d # c => pc'[d] = pc[d]
    BY <1>2, PopTypes DEF Threads
  <2> QED
    BY <1>2, <2>1, <2>2, PopTypes, OtherThreads DEF TypeOK
<1> QED
  BY <1>1, <1>2 DEF Step, Next

--------------------------------------------------------------------------------
(* Who owns which cell *)

\* A copy that compare_and_swap finds current is current, and so is what was checked.
LEMMA PushSwapIsCurrent ==
  ASSUME IInv, Awake, NEW p \in Pushers, pc[p] = "pushCas", IsAt(tail, frame[p])
  PROVE  /\ frame[p].pos = tail.pos /\ frame[p].tag = tail.tag
         /\ After(tail.pos) # head.pos /\ data[tail.pos] = Invalid
         /\ tail.pos \in Slots /\ head.pos \in Slots /\ tail.tag \in 0..(TagModulus - 1)
<1>1. /\ p \in Threads /\ End(p) = tail /\ lag[p] < TagModulus /\ lag[p] \in Nat
      /\ tail \in Pointers /\ head \in Pointers
  BY DEF Threads, End, Awake, IInv, TypeOK
<1>2. frame[p].tag = TagBefore(tail.tag, lag[p]) /\ frame[p].tag = tail.tag /\ frame[p].pos = tail.pos
  BY <1>1 DEF IInv, Stamped, Comparing, IsAt
<1>3. tail.tag \in 0..(TagModulus - 1) /\ tail.pos \in Slots /\ head.pos \in Slots
  BY <1>1 DEF Pointers
<1>4. lag[p] = 0
  BY <1>1, <1>2, <1>3, TagFacts
<1> QED
  BY <1>1, <1>2, <1>3, <1>4 DEF IInv, Checked, Current

LEMMA PopSwapIsCurrent ==
  ASSUME IInv, Awake, NEW c \in Poppers, pc[c] = "popCas", IsAt(head, frame[c])
  PROVE  /\ frame[c].pos = head.pos /\ frame[c].tag = head.tag
         /\ head.pos # tail.pos /\ data[head.pos] # Invalid
         /\ tail.pos \in Slots /\ head.pos \in Slots /\ head.tag \in 0..(TagModulus - 1)
<1>1. /\ c \in Threads /\ End(c) = head /\ lag[c] < TagModulus /\ lag[c] \in Nat
      /\ tail \in Pointers /\ head \in Pointers
  BY ThreadsAssumption DEF Threads, End, Awake, IInv, TypeOK
<1>2. frame[c].tag = TagBefore(head.tag, lag[c]) /\ frame[c].tag = head.tag /\ frame[c].pos = head.pos
  BY <1>1 DEF IInv, Stamped, Comparing, IsAt
<1>3. head.tag \in 0..(TagModulus - 1) /\ tail.pos \in Slots /\ head.pos \in Slots
  BY <1>1 DEF Pointers
<1>4. lag[c] = 0
  BY <1>1, <1>2, <1>3, TagFacts
<1> QED
  BY <1>1, <1>2, <1>3, <1>4 DEF IInv, Checked, Current

\* The steps that only concern the call itself.
PushLocally(p) ==
  \/ PushCall(p) \/ PushReadsPos(p) \/ PushReadsTag(p) \/ PushReadsHead(p) \/ PushReadsSlot(p)
  \/ PushSwapFails(p)
PopLocally(c) ==
  \/ PopCall(c) \/ PopReadsPos(c) \/ PopReadsTag(c) \/ PopReadsTail(c) \/ PopReadsSlot(c)
  \/ PopSwapFails(c)

LEMMA LocalSteps ==
  ASSUME TypeOK
  PROVE  /\ \A p \in Pushers : PushLocally(p) =>
              /\ UNCHANGED shared /\ UNCHANGED sent /\ UNCHANGED got
              /\ pc[p] # "pushStore" /\ pc'[p] # "pushStore"
         /\ \A c \in Poppers : PopLocally(c) =>
              /\ UNCHANGED shared /\ UNCHANGED sent /\ UNCHANGED got
              /\ pc[c] # "popTake" /\ pc'[c] # "popTake"
<1>1. ASSUME NEW p \in Pushers, PushLocally(p)
      PROVE  /\ UNCHANGED shared /\ UNCHANGED sent /\ UNCHANGED got
             /\ pc[p] # "pushStore" /\ pc'[p] # "pushStore"
  BY <1>1 DEF PushLocally, PushCall, PushReadsPos, PushReadsTag, PushReadsHead, PushReadsSlot,
              PushSwapFails, shared, GoTo, Return, Retries, TypeOK, Threads
<1>2. ASSUME NEW c \in Poppers, PopLocally(c)
      PROVE  /\ UNCHANGED shared /\ UNCHANGED sent /\ UNCHANGED got
             /\ pc[c] # "popTake" /\ pc'[c] # "popTake"
  BY <1>2 DEF PopLocally, PopCall, PopReadsPos, PopReadsTag, PopReadsTail, PopReadsSlot,
              PopSwapFails, shared, GoTo, Return, Retries, TypeOK, Threads
<1> QED
  BY <1>1, <1>2

\* What a step of a push does to the cells and to who owns them.
LEMMA PushOwns ==
  ASSUME TypeOK, SwapReports, NEW p \in Pushers, PushStep(p)
  PROVE  /\ \A c \in Poppers, i \in Slots : Takes(c, i)' <=> Takes(c, i)
         /\ \A q \in Pushers \ {p}, i \in Slots : Stores(q, i)' <=> Stores(q, i)
BY PushTypes, ThreadsAssumption DEF Takes, Stores, Threads

LEMMA PopOwns ==
  ASSUME TypeOK, SwapReports, NEW c \in Poppers, PopStep(c)
  PROVE  /\ \A p \in Pushers, i \in Slots : Stores(p, i)' <=> Stores(p, i)
         /\ \A d \in Poppers \ {c}, i \in Slots : Takes(d, i)' <=> Takes(d, i)
BY PopTypes, ThreadsAssumption DEF Takes, Stores, Threads

LEMMA CellsStay ==
  ASSUME CellsOwned, UNCHANGED shared,
         \A p \in Pushers, i \in Slots : Stores(p, i)' <=> Stores(p, i),
         \A c \in Poppers, i \in Slots : Takes(c, i)' <=> Takes(c, i)
  PROVE  CellsOwned'
BY DEF CellsOwned, InRing, shared

LEMMA TailSwapped ==
  ASSUME IInv, Awake, SwapReports, NEW p \in Pushers, PushSwaps(p)
  PROVE  /\ \A i \in Slots : InRing(i)' <=> InRing(i) \/ i = tail.pos
         /\ ~InRing(tail.pos) /\ tail.pos \in Slots /\ frame[p].pos = tail.pos
         /\ data[tail.pos] = Invalid /\ data' = data
         /\ \A q \in Pushers, i \in Slots : Stores(q, i)' <=> Stores(q, i) \/ (q = p /\ i = tail.pos)
         /\ Waiting' = Waiting + 1 /\ Waiting = Ahead(head.pos, tail.pos) /\ Waiting < Size
<1> USE DEF IInv
<1>1. pc[p] = "pushCas" /\ IsAt(tail, frame[p]) /\ UNCHANGED <<head, data, frame>>
      /\ tail'.pos = After(frame[p].pos) /\ pc' = [pc EXCEPT ![p] = "pushStore"]
  BY DEF PushSwaps, Advance, GoTo
<1>2. /\ frame[p].pos = tail.pos
      /\ After(tail.pos) # head.pos /\ data[tail.pos] = Invalid
      /\ tail.pos \in Slots /\ head.pos \in Slots
  BY <1>1, PushSwapIsCurrent
<1>3. \A i \in Slots : InRing(i)' <=> InRing(i) \/ i = tail.pos
  BY <1>1, <1>2, TailMoves DEF InRing
<1>4. ~InRing(tail.pos)
  BY <1>2, TailMoves DEF InRing
<1>5. \A q \in Pushers, i \in Slots : Stores(q, i)' <=> Stores(q, i) \/ (q = p /\ i = tail.pos)
  BY <1>1, <1>2 DEF Stores, TypeOK, Threads
<1>6. Waiting' = Waiting + 1 /\ Waiting = Ahead(head.pos, tail.pos) /\ Waiting < Size
  <2>1. Waiting = Ahead(head.pos, tail.pos)
    BY <1>2, WaitingValue
  <2>2. Waiting' = Ahead(head.pos, After(tail.pos))
    BY <1>1, <1>2, AfterValue, WaitingValueNext
  <2> QED
    BY <1>2, <2>1, <2>2, TailMoves
<1> QED
  BY <1>1, <1>2, <1>3, <1>4, <1>5, <1>6

LEMMA HeadSwapped ==
  ASSUME IInv, Awake, SwapReports, NEW c \in Poppers, PopSwaps(c)
  PROVE  /\ \A i \in Slots : InRing(i)' <=> InRing(i) /\ i # head.pos
         /\ InRing(head.pos) /\ head.pos \in Slots /\ frame[c].pos = head.pos
         /\ data[head.pos] # Invalid /\ data' = data
         /\ \A d \in Poppers, i \in Slots : Takes(d, i)' <=> Takes(d, i) \/ (d = c /\ i = head.pos)
         /\ Waiting' = Waiting - 1 /\ Waiting = Ahead(head.pos, tail.pos) /\ Waiting \in Nat \ {0}
<1> USE DEF IInv
<1>1. pc[c] = "popCas" /\ IsAt(head, frame[c]) /\ UNCHANGED <<tail, data, frame>>
      /\ head'.pos = After(frame[c].pos) /\ pc' = [pc EXCEPT ![c] = "popTake"]
  BY DEF PopSwaps, Advance, GoTo
<1>2. /\ frame[c].pos = head.pos
      /\ head.pos # tail.pos /\ data[head.pos] # Invalid
      /\ tail.pos \in Slots /\ head.pos \in Slots
  BY <1>1, PopSwapIsCurrent
<1>6. Waiting' = Waiting - 1 /\ Waiting = Ahead(head.pos, tail.pos) /\ Waiting \in Nat \ {0}
  <2>1. Waiting = Ahead(head.pos, tail.pos)
    BY <1>2, WaitingValue
  <2>2. Waiting' = Ahead(After(head.pos), tail.pos)
    BY <1>1, <1>2, AfterValue, WaitingValueNext
  <2> QED
    BY <1>2, <2>1, <2>2, HeadMoves
<1>3. \A i \in Slots : InRing(i)' <=> InRing(i) /\ i # head.pos
  BY <1>1, <1>2, HeadMoves DEF InRing
<1>4. InRing(head.pos)
  BY <1>2, HeadMoves DEF InRing
<1>5. \A d \in Poppers, i \in Slots : Takes(d, i)' <=> Takes(d, i) \/ (d = c /\ i = head.pos)
  BY <1>1, <1>2 DEF Takes, TypeOK, Threads
<1> QED
  BY <1>1, <1>2, <1>3, <1>4, <1>5, <1>6

LEMMA CellsStep ==
  ASSUME IInv, Awake, SoundUse, Step
  PROVE  CellsOwned'
<1> USE DEF IInv
<1>1. SwapReports
  BY DEF SoundUse
<1>2. ASSUME NEW p \in Pushers, PushStep(p)
      PROVE  CellsOwned'
  <2>1. /\ \A c \in Poppers, i \in Slots : Takes(c, i)' <=> Takes(c, i)
        /\ \A q \in Pushers \ {p}, i \in Slots : Stores(q, i)' <=> Stores(q, i)
    BY <1>1, <1>2, PushOwns
  <2>2. CASE PushLocally(p)
    <3>1. UNCHANGED shared /\ \A i \in Slots : Stores(p, i)' <=> Stores(p, i)
      BY <2>2, LocalSteps DEF Stores
    <3> QED
      BY <2>1, <3>1, CellsStay
  <2>3. CASE PushSwaps(p)
    BY <1>1, <2>1, <2>3, TailSwapped DEF CellsOwned
  <2>4. CASE PushStores(p)
    <3> PICK k : k = frame[p].pos
      OBVIOUS
    <3>1. Stores(p, k) /\ k \in Slots /\ UNCHANGED <<head, tail>>
          /\ data' = [data EXCEPT ![k] = Outgoing(p)] /\ \A i \in Slots : ~Stores(p, i)'
      BY <2>4 DEF PushStores, Stores, TypeOK, Threads, Return, GoTo
    <3>2. Outgoing(p) # Invalid
      <4>1. sent[p] < MaxPush /\ sent[p] \in Nat
        BY <3>1 DEF Stores, TypeOK
      <4> QED
        BY <4>1, ThreadsAssumption DEF Outgoing, Values, SoundUse
    <3>3. \A i \in Slots : /\ i # k => data'[i] = data[i]
                           /\ data'[k] # Invalid
                           /\ InRing(i)' <=> InRing(i)
      BY <3>1, <3>2 DEF InRing, TypeOK
    <3>4. \A q \in Pushers, i \in Slots : Stores(q, i)' <=> Stores(q, i) /\ i # k
      <4>1. \A i \in Slots : Stores(p, i) <=> i = k
        BY <3>1 DEF Stores
      <4>2. \A q \in Pushers : Stores(q, k) => q = p
        BY <3>1 DEF CellsOwned
      <4> QED
        BY <2>1, <3>1, <4>1, <4>2
    <3>5. InRing(k) /\ \A c \in Poppers : ~Takes(c, k)
      BY <3>1 DEF CellsOwned
    <3> HIDE DEF IInv
    <3> USE DEF CellsOwned
    <3>6. CellsOwned
      BY DEF IInv
    <3>7. \A q \in Pushers, i \in Slots : Stores(q, i)' =>
            InRing(i)' /\ data'[i] = Invalid /\ \A r \in Pushers : Stores(r, i)' => r = q
      BY <3>3, <3>4, <3>6
    <3>8. \A c \in Poppers, i \in Slots : Takes(c, i)' =>
            ~InRing(i)' /\ data'[i] # Invalid /\ \A d \in Poppers : Takes(d, i)' => d = c
      BY <2>1, <3>3, <3>5, <3>6
    <3>9. \A i \in Slots : InRing(i)' /\ data'[i] = Invalid => \E q \in Pushers : Stores(q, i)'
      BY <3>3, <3>4, <3>6
    <3>10. \A i \in Slots : ~InRing(i)' /\ data'[i] # Invalid => \E c \in Poppers : Takes(c, i)'
      BY <2>1, <3>3, <3>5, <3>6
    <3> QED
      BY <3>7, <3>8, <3>9, <3>10
  <2> QED
    BY <1>2, <2>2, <2>3, <2>4 DEF PushStep, PushLocally
<1>3. ASSUME NEW c \in Poppers, PopStep(c)
      PROVE  CellsOwned'
  <2>1. /\ \A p \in Pushers, i \in Slots : Stores(p, i)' <=> Stores(p, i)
        /\ \A d \in Poppers \ {c}, i \in Slots : Takes(d, i)' <=> Takes(d, i)
    BY <1>1, <1>3, PopOwns
  <2>2. CASE PopLocally(c)
    <3>1. UNCHANGED shared /\ \A i \in Slots : Takes(c, i)' <=> Takes(c, i)
      BY <2>2, LocalSteps DEF Takes
    <3> QED
      BY <2>1, <3>1, CellsStay
  <2>3. CASE PopSwaps(c)
    BY <1>1, <2>1, <2>3, HeadSwapped DEF CellsOwned
  <2>4. CASE PopTakes(c)
    <3> PICK k : k = frame[c].pos
      OBVIOUS
    <3>1. Takes(c, k) /\ k \in Slots /\ UNCHANGED <<head, tail>>
          /\ data' = [data EXCEPT ![k] = Invalid] /\ \A i \in Slots : ~Takes(c, i)'
      BY <2>4 DEF PopTakes, Takes, TypeOK, Threads, Return, GoTo
    <3>2. \A i \in Slots : /\ i # k => data'[i] = data[i]
                           /\ data'[k] = Invalid
                           /\ InRing(i)' <=> InRing(i)
      BY <3>1 DEF InRing, TypeOK
    <3>4. \A d \in Poppers, i \in Slots : Takes(d, i)' <=> Takes(d, i) /\ i # k
      <4>1. \A i \in Slots : Takes(c, i) <=> i = k
        BY <3>1 DEF Takes
      <4>2. \A d \in Poppers : Takes(d, k) => d = c
        BY <3>1 DEF CellsOwned
      <4> QED
        BY <2>1, <3>1, <4>1, <4>2
    <3>5. ~InRing(k) /\ \A p \in Pushers : ~Stores(p, k)
      BY <3>1 DEF CellsOwned
    <3> HIDE DEF IInv
    <3> USE DEF CellsOwned
    <3>6. CellsOwned
      BY DEF IInv
    <3>7. \A p \in Pushers, i \in Slots : Stores(p, i)' =>
            InRing(i)' /\ data'[i] = Invalid /\ \A q \in Pushers : Stores(q, i)' => q = p
      BY <2>1, <3>2, <3>5, <3>6
    <3>8. \A d \in Poppers, i \in Slots : Takes(d, i)' =>
            ~InRing(i)' /\ data'[i] # Invalid /\ \A e \in Poppers : Takes(e, i)' => e = d
      BY <3>2, <3>4, <3>6
    <3>9. \A i \in Slots : InRing(i)' /\ data'[i] = Invalid => \E p \in Pushers : Stores(p, i)'
      BY <2>1, <3>2, <3>5, <3>6
    <3>10. \A i \in Slots : ~InRing(i)' /\ data'[i] # Invalid => \E d \in Poppers : Takes(d, i)'
      BY <3>2, <3>4, <3>6
    <3> QED
      BY <3>7, <3>8, <3>9, <3>10
  <2> QED
    BY <1>3, <2>2, <2>3, <2>4 DEF PopStep, PopLocally
<1> QED
  BY <1>2, <1>3 DEF Step, Next

--------------------------------------------------------------------------------
(* What a step does to the shared words, and to the copies *)

LEMMA SharedStep ==
  ASSUME IInv, Awake, SoundUse, Step
  PROVE  \/ UNCHANGED shared
         \/ /\ UNCHANGED <<head, data>> /\ After(tail.pos) # head.pos
            /\ tail' = [pos |-> After(tail.pos), tag |-> (tail.tag + 1) % TagModulus]
         \/ /\ UNCHANGED <<tail, data>> /\ head.pos # tail.pos
            /\ head' = [pos |-> After(head.pos), tag |-> (head.tag + 1) % TagModulus]
         \/ /\ UNCHANGED <<head, tail>>
            /\ \E k \in Slots, v \in Values : InRing(k) /\ data' = [data EXCEPT ![k] = v]
         \/ /\ UNCHANGED <<head, tail>>
            /\ \E k \in Slots : ~InRing(k) /\ data' = [data EXCEPT ![k] = Invalid]
<1>1. SwapReports /\ TypeOK /\ CellsOwned
  BY DEF SoundUse, IInv
<1>2. ASSUME NEW p \in Pushers, PushSwaps(p)
      PROVE  /\ UNCHANGED <<head, data>> /\ After(tail.pos) # head.pos
             /\ tail' = [pos |-> After(tail.pos), tag |-> (tail.tag + 1) % TagModulus]
  BY <1>2, PushSwapIsCurrent DEF PushSwaps, Advance
<1>3. ASSUME NEW c \in Poppers, PopSwaps(c)
      PROVE  /\ UNCHANGED <<tail, data>> /\ head.pos # tail.pos
             /\ head' = [pos |-> After(head.pos), tag |-> (head.tag + 1) % TagModulus]
  BY <1>3, PopSwapIsCurrent DEF PopSwaps, Advance
<1>4. ASSUME NEW p \in Pushers, PushStores(p)
      PROVE  /\ UNCHANGED <<head, tail>>
             /\ \E k \in Slots, v \in Values : InRing(k) /\ data' = [data EXCEPT ![k] = v]
  <2> PICK k : k = frame[p].pos
    OBVIOUS
  <2>1. Stores(p, k) /\ k \in Slots /\ sent[p] < MaxPush /\ sent[p] \in 0..MaxPush
        /\ UNCHANGED <<head, tail>> /\ data' = [data EXCEPT ![k] = Outgoing(p)]
    BY <1>1, <1>4 DEF PushStores, Stores, TypeOK, Threads
  <2>2. Outgoing(p) \in Values
    BY <2>1, ThreadsAssumption DEF Outgoing, Values
  <2> QED
    BY <1>1, <2>1, <2>2 DEF CellsOwned
<1>5. ASSUME NEW c \in Poppers, PopTakes(c)
      PROVE  /\ UNCHANGED <<head, tail>>
             /\ \E k \in Slots : ~InRing(k) /\ data' = [data EXCEPT ![k] = Invalid]
  <2> PICK k : k = frame[c].pos
    OBVIOUS
  <2>1. Takes(c, k) /\ k \in Slots
        /\ UNCHANGED <<head, tail>> /\ data' = [data EXCEPT ![k] = Invalid]
    BY <1>1, <1>5 DEF PopTakes, Takes, TypeOK, Threads
  <2> QED
    BY <1>1, <2>1 DEF CellsOwned
<1>6. \/ \E p \in Pushers : PushLocally(p) \/ PushSwaps(p) \/ PushStores(p)
      \/ \E c \in Poppers : PopLocally(c) \/ PopSwaps(c) \/ PopTakes(c)
  BY DEF Step, Next, PushStep, PopStep, PushLocally, PopLocally
<1> QED
  BY <1>1, <1>2, <1>3, <1>4, <1>5, <1>6, LocalSteps

\* A call's own step that fills in its copy or checks it; no other step touches them.
LEMMA PushCopies ==
  ASSUME TypeOK, SwapReports, NEW p \in Pushers, PushStep(p)
  PROVE  \/ pc'[p] \notin Comparing \cup {"pushTag", "popTag"}
         \/ /\ UNCHANGED shared /\ pc[p] = "pushPos" /\ pc'[p] = "pushTag" /\ frame'[p].pos = tail.pos
         \/ /\ UNCHANGED shared /\ pc[p] = "pushTag" /\ pc'[p] = "pushRoom"
            /\ frame'[p].pos = frame[p].pos /\ frame'[p].tag = tail.tag
         \/ /\ UNCHANGED <<shared, frame>> /\ pc[p] = "pushRoom" /\ pc'[p] = "pushSlot"
            /\ After(frame[p].pos) # head.pos
         \/ /\ UNCHANGED <<shared, frame>> /\ pc[p] = "pushSlot" /\ pc'[p] = "pushCas"
            /\ data[frame[p].pos] = Invalid
BY DEF PushStep, PushCall, PushReadsPos, PushReadsTag, PushReadsHead, PushReadsSlot, PushSwaps,
       PushSwapFails, PushStores, Retries, Return, GoTo, TypeOK, Threads, Comparing, shared

LEMMA PopCopies ==
  ASSUME TypeOK, SwapReports, NEW c \in Poppers, PopStep(c)
  PROVE  \/ pc'[c] \notin Comparing \cup {"pushTag", "popTag"}
         \/ /\ UNCHANGED shared /\ pc[c] = "popPos" /\ pc'[c] = "popTag" /\ frame'[c].pos = head.pos
         \/ /\ UNCHANGED shared /\ pc[c] = "popTag" /\ pc'[c] = "popSome"
            /\ frame'[c].pos = frame[c].pos /\ frame'[c].tag = head.tag
         \/ /\ UNCHANGED <<shared, frame>> /\ pc[c] = "popSome" /\ pc'[c] = "popSlot"
            /\ frame[c].pos # tail.pos
         \/ /\ UNCHANGED <<shared, frame>> /\ pc[c] = "popSlot" /\ pc'[c] = "popCas"
            /\ data[frame[c].pos] # Invalid
BY DEF PopStep, PopCall, PopReadsPos, PopReadsTag, PopReadsTail, PopReadsSlot, PopSwaps,
       PopSwapFails, PopTakes, Retries, Return, GoTo, TypeOK, Threads, Comparing, shared

LEMMA Copies ==
  ASSUME TypeOK, SwapReports, Step, NEW t \in Threads
  PROVE  \/ pc'[t] \notin Comparing \cup {"pushTag", "popTag"}
         \/ pc'[t] = pc[t] /\ frame'[t] = frame[t]
         \/ t \in Pushers /\ PushStep(t)
         \/ t \in Poppers /\ PopStep(t)
<1>1. ASSUME NEW p \in Pushers, PushStep(p), p # t PROVE pc'[t] = pc[t] /\ frame'[t] = frame[t]
  BY <1>1, PushTypes
<1>2. ASSUME NEW c \in Poppers, PopStep(c), c # t PROVE pc'[t] = pc[t] /\ frame'[t] = frame[t]
  BY <1>2, PopTypes
<1> QED
  BY <1>1, <1>2 DEF Step, Next

\* How the copy of a call comes about and stays.
LEMMA CopyStep ==
  ASSUME TypeOK, SwapReports, Step, NEW t \in Threads
  PROVE  /\ pc'[t] \in Comparing \cup {"pushTag", "popTag"} =>
              \/ pc[t] \in Comparing \cup {"pushTag", "popTag"} /\ frame'[t].pos = frame[t].pos
              \/ End(t)' = End(t) /\ frame'[t].pos = End(t).pos
         /\ pc'[t] \in Comparing =>
              \/ pc[t] \in Comparing /\ frame'[t].tag = frame[t].tag
              \/ pc[t] \notin Comparing /\ End(t)' = End(t) /\ frame'[t].tag = End(t).tag
<1>1. CASE t \in Pushers /\ PushStep(t)
  BY <1>1, PushCopies DEF Comparing, End, shared
<1>2. CASE t \in Poppers /\ PopStep(t)
  BY <1>2, PopCopies, ThreadsAssumption DEF Comparing, End, shared
<1> QED
  BY <1>1, <1>2, Copies DEF Comparing

LEMMA EndStep ==
  ASSUME IInv, Awake, SoundUse, Step, NEW t \in Threads
  PROVE  /\ End(t).tag \in 0..(TagModulus - 1)
         /\ Overtaken(t) <=> End(t)' # End(t)
         /\ Overtaken(t) => End(t)'.tag = (End(t).tag + 1) % TagModulus
<1>1. /\ head' # head => head'.tag = (head.tag + 1) % TagModulus
      /\ tail' # tail => tail'.tag = (tail.tag + 1) % TagModulus
  BY SharedStep DEF shared
<1>2. head.tag \in 0..(TagModulus - 1) /\ tail.tag \in 0..(TagModulus - 1)
  BY DEF IInv, TypeOK, Pointers
<1> QED
  BY <1>1, <1>2 DEF End, Overtaken

LEMMA StampedStep ==
  ASSUME IInv, Awake, SoundUse, Step
  PROVE  Stamped'
<1> SUFFICES ASSUME NEW t \in Threads
             PROVE  /\ pc'[t] \notin Comparing => lag'[t] = 0
                    /\ pc'[t] \in Comparing /\ lag'[t] < TagModulus =>
                         frame'[t].tag = TagBefore(End(t)'.tag, lag'[t])
  BY DEF Stamped, TagBefore
<1>1. TypeOK /\ SwapReports /\ lag[t] \in Nat /\ lag[t] < TagModulus
  BY DEF IInv, TypeOK, SoundUse, Awake
<1>2. /\ pc'[t] \in Comparing => lag'[t] = lag[t] + (IF Overtaken(t) THEN 1 ELSE 0)
      /\ pc'[t] \notin Comparing => lag'[t] = 0
  BY <1>1, OtherThreads
<1>3. /\ pc[t] \notin Comparing => lag[t] = 0
      /\ pc[t] \in Comparing => frame[t].tag = TagBefore(End(t).tag, lag[t])
  BY <1>1 DEF IInv, Stamped
<1>4. CASE pc'[t] \in Comparing /\ pc[t] \in Comparing /\ frame'[t].tag = frame[t].tag
  <2>1. CASE Overtaken(t)
    <3> PICK n : n = lag[t]
      OBVIOUS
    <3>1. lag'[t] = n + 1 /\ End(t)'.tag = (End(t).tag + 1) % TagModulus
      BY <1>2, <1>4, <2>1, EndStep
    <3>2. n + 1 < TagModulus => TagBefore((End(t).tag + 1) % TagModulus, n + 1) = TagBefore(End(t).tag, n)
      BY <1>1, EndStep, TagFacts
    <3> QED
      BY <1>3, <1>4, <3>1, <3>2
  <2>2. CASE ~Overtaken(t)
    BY <1>1, <1>2, <1>3, <1>4, <2>2, EndStep
  <2> QED
    BY <2>1, <2>2
<1>5. CASE pc'[t] \in Comparing /\ pc[t] \notin Comparing
           /\ End(t)' = End(t) /\ frame'[t].tag = End(t).tag
  BY <1>1, <1>2, <1>3, <1>5, EndStep, TagFacts
<1> QED
  BY <1>1, <1>2, <1>4, <1>5, CopyStep

LEMMA ExcusesStep ==
  ASSUME IInv, Awake, SoundUse, Step
  PROVE  Excuses'
<1> SUFFICES ASSUME NEW t \in Threads
             PROVE  /\ pc'[t] \in Comparing \cup {"pushTag", "popTag"} =>
                         excused'[t] \/ frame'[t].pos = End(t)'.pos
                    /\ pc'[t] \in Comparing => excused'[t] \/ frame'[t].tag = End(t)'.tag
                    /\ pc'[t] # "idle" /\ Reason(t)' => excused'[t]
  BY DEF Excuses
<1>1. excused'[t] = (pc'[t] # "idle" /\ (excused[t] \/ Reason(t)' \/ Overtaken(t)))
  BY DEF Step, Next, NotesReasons
<1>2. TypeOK /\ SwapReports /\ (Overtaken(t) <=> End(t)' # End(t))
  BY EndStep DEF IInv, SoundUse
<1>3. /\ pc[t] \in Comparing \cup {"pushTag", "popTag"} => excused[t] \/ frame[t].pos = End(t).pos
      /\ pc[t] \in Comparing => excused[t] \/ frame[t].tag = End(t).tag
  BY DEF IInv, Excuses
<1>4. pc'[t] \in Comparing \cup {"pushTag", "popTag"} => pc'[t] # "idle"
  BY DEF Comparing
<1> QED
  BY <1>1, <1>2, <1>3, <1>4, CopyStep

LEMMA EndsMove ==
  ASSUME NEW h \in Slots, NEW t \in Slots
  PROVE  /\ After(t) # t
         /\ After(t) = After(h) => t = h
         /\ ~(Ahead(h, t) < Ahead(h, t)) /\ (h # t => Ahead(h, h) < Ahead(h, t))
BY AfterValue, SizeAssumption DEF Ahead, Slots, Capacity

LEMMA CheckedStep ==
  ASSUME IInv, Awake, SoundUse, Step
  PROVE  Checked'
<1>1. /\ TypeOK /\ SwapReports /\ Invalid \notin Values
      /\ head.pos \in Slots /\ tail.pos \in Slots /\ data \in [Slots -> Values \cup {Invalid}]
  BY DEF IInv, TypeOK, SoundUse, Pointers
\* A current copy was current before the step.
<1>2. ASSUME NEW t \in Threads, Current(t)', pc'[t] \in Comparing
      PROVE  /\ End(t)' = End(t) /\ frame'[t].pos = End(t).pos
             /\ pc[t] \in Comparing /\ frame'[t] = frame[t] => Current(t)
  <2>1. lag'[t] = lag[t] + (IF Overtaken(t) THEN 1 ELSE 0) /\ lag[t] \in Nat
    BY <1>1, <1>2, OtherThreads DEF TypeOK
  <2>2. lag'[t] = 0 /\ frame'[t].pos = End(t)'.pos
    BY <1>2 DEF Current, End
  <2> QED
    BY <2>1, <2>2, EndStep DEF Current
<1>3. ASSUME NEW p \in Pushers, Current(p)', pc'[p] \in {"pushSlot", "pushCas"}
      PROVE  /\ After(tail'.pos) # head'.pos
             /\ pc'[p] = "pushCas" => data'[tail'.pos] = Invalid
  <2>1. p \in Threads /\ End(p) = tail /\ End(p)' = tail'
    BY DEF Threads, End
  <2>2. /\ tail' = tail /\ frame'[p].pos = tail.pos
        /\ pc[p] \in Comparing /\ frame'[p] = frame[p] => Current(p)
    BY <1>2, <1>3, <2>1 DEF Comparing
  <2>3. CASE UNCHANGED shared /\ frame'[p] = frame[p] /\ pc[p] = "pushRoom" /\ pc'[p] = "pushSlot"
             /\ After(frame[p].pos) # head.pos
    BY <2>2, <2>3 DEF shared
  <2>4. CASE UNCHANGED shared /\ frame'[p] = frame[p] /\ pc[p] = "pushSlot" /\ pc'[p] = "pushCas"
             /\ data[frame[p].pos] = Invalid
    BY <2>2, <2>4 DEF shared, IInv, Checked, Comparing
  <2>5. CASE pc'[p] = pc[p] /\ frame'[p] = frame[p]
    <3>1. After(tail.pos) # head.pos /\ (pc[p] = "pushCas" => data[tail.pos] = Invalid)
      BY <1>3, <2>2, <2>5 DEF IInv, Checked, Comparing
    <3>2. head' = head \/ (head'.pos = After(head.pos) /\ head.pos # tail.pos)
      BY SharedStep DEF shared
    <3>3. After(tail.pos) # head'.pos
      BY <1>1, <3>1, <3>2, EndsMove
    <3>4. ~InRing(tail.pos)
      BY <1>1, EndsMove DEF InRing
    <3>5. data'[tail.pos] = data[tail.pos] \/ data'[tail.pos] = Invalid
      <4>1. \A k \in Slots, v \in Values :
              InRing(k) /\ data' = [data EXCEPT ![k] = v] => data'[tail.pos] = data[tail.pos]
        BY <1>1, <3>4
      <4>2. \A k \in Slots : data' = [data EXCEPT ![k] = Invalid] =>
              data'[tail.pos] = data[tail.pos] \/ data'[tail.pos] = Invalid
        BY <1>1
      <4> QED
        BY <4>1, <4>2, SharedStep DEF shared
    <3> QED
      BY <2>2, <2>5, <3>1, <3>3, <3>5
  <2>7. \/ pc'[p] = pc[p] /\ frame'[p] = frame[p]
        \/ PushStep(p)
    BY <1>1, <1>3, <2>1, Copies, ThreadsAssumption DEF Comparing
  <2> QED
    BY <1>1, <1>3, <2>3, <2>4, <2>5, <2>7, PushCopies DEF Comparing
<1>4. ASSUME NEW c \in Poppers, Current(c)', pc'[c] \in {"popSlot", "popCas"}
      PROVE  /\ head'.pos # tail'.pos
             /\ pc'[c] = "popCas" => data'[head'.pos] # Invalid
  <2>1. c \in Threads /\ c \notin Pushers /\ End(c) = head /\ End(c)' = head'
    BY ThreadsAssumption DEF Threads, End
  <2>2. /\ head' = head /\ frame'[c].pos = head.pos
        /\ pc[c] \in Comparing /\ frame'[c] = frame[c] => Current(c)
    BY <1>2, <1>4, <2>1 DEF Comparing
  <2>3. CASE UNCHANGED shared /\ frame'[c] = frame[c] /\ pc[c] = "popSome" /\ pc'[c] = "popSlot"
             /\ frame[c].pos # tail.pos
    BY <2>2, <2>3 DEF shared
  <2>4. CASE UNCHANGED shared /\ frame'[c] = frame[c] /\ pc[c] = "popSlot" /\ pc'[c] = "popCas"
             /\ data[frame[c].pos] # Invalid
    BY <2>2, <2>4 DEF shared, IInv, Checked, Comparing
  <2>5. CASE pc'[c] = pc[c] /\ frame'[c] = frame[c]
    <3>1. head.pos # tail.pos /\ (pc[c] = "popCas" => data[head.pos] # Invalid)
      BY <1>4, <2>2, <2>5 DEF IInv, Checked, Comparing
    <3>2. tail' = tail \/ (tail'.pos = After(tail.pos) /\ After(tail.pos) # head.pos)
      BY SharedStep DEF shared
    <3>3. head.pos # tail'.pos
      BY <3>1, <3>2
    <3>4. InRing(head.pos)
      BY <1>1, <3>1, EndsMove DEF InRing
    <3>5. data'[head.pos] = data[head.pos] \/ data'[head.pos] # Invalid
      <4>1. \A k \in Slots : ~InRing(k) /\ data' = [data EXCEPT ![k] = Invalid] =>
              data'[head.pos] = data[head.pos]
        BY <1>1, <3>4
      <4>2. \A k \in Slots, v \in Values : data' = [data EXCEPT ![k] = v] =>
              data'[head.pos] = data[head.pos] \/ data'[head.pos] # Invalid
        BY <1>1
      <4> QED
        BY <4>1, <4>2, SharedStep DEF shared
    <3> QED
      BY <2>2, <2>5, <3>1, <3>3, <3>5
  <2>7. \/ pc'[c] = pc[c] /\ frame'[c] = frame[c]
        \/ PopStep(c)
    BY <1>1, <1>4, <2>1, Copies, ThreadsAssumption DEF Comparing
  <2> QED
    BY <1>1, <1>4, <2>3, <2>4, <2>5, <2>7, PopCopies DEF Comparing
<1> QED
  BY <1>3, <1>4 DEF Checked

--------------------------------------------------------------------------------
(* The invariant *)

LEMMA InitIInv ==
  ASSUME Init, lag = [t \in Threads |-> 0]
  PROVE  IInv
<1>1. 0 \in Slots /\ 0 \in 0..(TagModulus - 1) /\ 0 \in 0..MaxPush
  BY SizeAssumption, ThreadsAssumption DEF Slots, Capacity
<1>2. \A t \in Threads : pc[t] = "idle" /\ lag[t] = 0
  BY DEF Init
<1>3. TypeOK
  BY <1>1 DEF Init, TypeOK, Pointers, Start, NoFrame, PushStates, PopStates, Threads
<1>4. Stamped /\ Checked /\ Excuses
  BY <1>2 DEF Stamped, Checked, Excuses, Comparing, Threads
<1>5. \A i \in Slots : data[i] = Invalid /\ ~InRing(i)
  <2>1. Ahead(0, 0) = 0 /\ \A i \in Slots : Ahead(0, i) = i
    BY <1>1 DEF Ahead, Slots
  <2> QED
    BY <2>1 DEF Init, InRing, Start, Slots
<1>6. CellsOwned
  BY <1>2, <1>5 DEF CellsOwned, Stores, Takes, Threads
<1> QED
  BY <1>3, <1>4, <1>6 DEF IInv

LEMMA StepIInv ==
  ASSUME IInv, Awake, SoundUse, [Step]_<<vars, lag>>
  PROVE  IInv'
<1>1. CASE Step
  BY <1>1, TypeStep, StampedStep, CellsStep, CheckedStep, ExcusesStep DEF IInv, SoundUse
<1>2. CASE UNCHANGED <<vars, lag>>
  <2> USE <1>2 DEF vars
  <2>1. TypeOK'
    BY DEF IInv, TypeOK
  <2>2. Stamped'
    BY DEF IInv, Stamped, End
  <2>3. CellsOwned'
    BY DEF IInv, CellsOwned, InRing, Stores, Takes
  <2>4. Checked'
    BY DEF IInv, Checked, Current, End
  <2>5. Excuses'
    BY DEF IInv, Excuses, End, Reason, Full, Empty, PopUnfinished, PushUnfinished
  <2> QED
    BY <2>1, <2>2, <2>3, <2>4, <2>5 DEF IInv
<1> QED
  BY <1>1, <1>2

THEOREM Invariance == SoundUse => (CountedSpec /\ []Awake => []IInv)
<1> SUFFICES ASSUME SoundUse
             PROVE  CountedSpec /\ []Awake => []IInv
  OBVIOUS
<1>1. Init /\ lag = [t \in Threads |-> 0] => IInv
  BY InitIInv
<1>2. IInv /\ Awake /\ [Next /\ CountsSwaps]_<<vars, lag>> => IInv'
  BY StepIInv DEF Step
<1> QED
  BY <1>1, <1>2, PTL DEF CountedSpec

--------------------------------------------------------------------------------
(* A call that fails had a cause *)

LEMMA FailureHasCause ==
  ASSUME IInv, SoundUse, Step, NEW t \in Threads, Fails(t)
  PROVE  excused[t]
<1>1. /\ TypeOK /\ SwapReports /\ CellsOwned
      /\ head.pos \in Slots /\ tail.pos \in Slots
  BY DEF IInv, TypeOK, SoundUse, Pointers
<1>2. Reason(t) => excused[t]
  BY DEF IInv, Excuses, Fails
<1>3. /\ pc[t] \in Comparing => excused[t] \/ frame[t].pos = End(t).pos
      /\ pc[t] \in Comparing => excused[t] \/ frame[t].tag = End(t).tag
  BY DEF IInv, Excuses
<1>4. ASSUME t \in Pushers, PushStep(t)
      PROVE  excused[t]
  <2>1. \/ pc[t] = "pushRoom" /\ After(frame[t].pos) = head.pos
        \/ pc[t] = "pushSlot" /\ data[frame[t].pos] # Invalid
        \/ pc[t] = "pushCas" /\ ~IsAt(tail, frame[t])
    BY <1>1, <1>4 DEF PushStep, PushCall, PushReadsPos, PushReadsTag, PushReadsHead, PushReadsSlot,
         PushSwaps, PushSwapFails, PushStores, GoTo, Fails, TypeOK, Threads
  <2>2. End(t) = tail /\ (Full \/ PopUnfinished => excused[t])
    BY <1>2, <1>4 DEF End, Reason
  <2>3. data[tail.pos] # Invalid => PopUnfinished
    BY <1>1, EndsMove DEF CellsOwned, InRing, Takes, PopUnfinished
  <2> QED
    BY <1>3, <2>1, <2>2, <2>3 DEF Comparing, IsAt, Full
<1>5. ASSUME t \in Poppers, PopStep(t)
      PROVE  excused[t]
  <2>1. \/ pc[t] = "popSome" /\ frame[t].pos = tail.pos
        \/ pc[t] = "popSlot" /\ data[frame[t].pos] = Invalid
        \/ pc[t] = "popCas" /\ ~IsAt(head, frame[t])
    BY <1>1, <1>5 DEF PopStep, PopCall, PopReadsPos, PopReadsTag, PopReadsTail, PopReadsSlot,
         PopSwaps, PopSwapFails, PopTakes, GoTo, Fails, TypeOK, Threads
  <2>2. End(t) = head /\ (Empty \/ PushUnfinished => excused[t])
    BY <1>2, <1>5, ThreadsAssumption DEF End, Reason
  <2>3. data[head.pos] = Invalid => Empty \/ PushUnfinished
    BY <1>1, EndsMove DEF CellsOwned, InRing, Stores, PushUnfinished, Empty
  <2> QED
    BY <1>3, <2>1, <2>2, <2>3 DEF Comparing, IsAt, Empty
<1>6. pc'[t] # pc[t]
  BY DEF Fails
<1>7. \A p \in Pushers : PushStep(p) => t = p
  BY <1>1, <1>6, PushTypes
<1>8. \A c \in Poppers : PopStep(c) => t = c
  BY <1>1, <1>6, PopTypes
<1> QED
  BY <1>4, <1>5, <1>7, <1>8 DEF Step, Next

\* A Push that returns false met a full queue or an unfinished Pop, a Pop that returns false
\* met an empty queue or an unfinished Push, or another call succeeded in the meantime: with
\* any number of threads, and after MaxRetry swaps too.
THEOREM FailuresHaveCauses == SoundUse => (CountedSpec /\ []Awake => FailsForCause)
<1> SUFFICES ASSUME SoundUse
             PROVE  CountedSpec /\ []Awake => FailsForCause
  OBVIOUS
<1>1. IInv /\ [Next /\ CountsSwaps]_<<vars, lag>> => [\A t \in Threads : Fails(t) => excused[t]]_vars
  BY FailureHasCause DEF Step, vars
<1>2. CountedSpec /\ []Awake => []IInv
  BY Invariance
<1> QED
  BY <1>1, <1>2, PTL DEF CountedSpec, FailsForCause

--------------------------------------------------------------------------------
(* The queue that the ring stands for *)

LEMMA FunctionIsSeq == ASSUME NEW S, NEW n \in Nat, NEW f \in [1..n -> S]
                       PROVE  f \in Seq(S) /\ Len(f) = n
OBVIOUS

LEMMA AppendedSeq ==
  ASSUME NEW S, NEW n \in Nat, NEW f \in [1..n -> S], NEW g \in [1..(n + 1) -> S],
         \A k \in 1..n : g[k] = f[k]
  PROVE  g = Append(f, g[n + 1])
<1>1. f \in Seq(S) /\ Len(f) = n /\ g \in Seq(S) /\ Len(g) = n + 1 /\ g[n + 1] \in S
  BY FunctionIsSeq
<1>2. /\ Append(f, g[n + 1]) \in Seq(S) /\ Len(Append(f, g[n + 1])) = n + 1
      /\ \A k \in 1..n : Append(f, g[n + 1])[k] = f[k]
      /\ Append(f, g[n + 1])[n + 1] = g[n + 1]
  BY <1>1
<1>3. \A k \in 1..(n + 1) : g[k] = Append(f, g[n + 1])[k]
  BY <1>2
<1> QED
  BY <1>1, <1>2, <1>3

LEMMA ShiftedSeq ==
  ASSUME NEW S, NEW n \in Nat \ {0}, NEW f \in [1..n -> S], NEW g \in [1..(n - 1) -> S],
         \A k \in 1..(n - 1) : g[k] = f[k + 1]
  PROVE  f # <<>> /\ Head(f) = f[1] /\ g = Tail(f)
<1>1. f \in Seq(S) /\ Len(f) = n /\ g \in Seq(S) /\ Len(g) = n - 1
  BY FunctionIsSeq
<1>2. f # <<>> /\ Head(f) = f[1] /\ Tail(f) \in Seq(S) /\ Len(Tail(f)) = n - 1
      /\ \A k \in 1..(n - 1) : Tail(f)[k] = f[k + 1]
  BY <1>1
<1>3. \A k \in 1..(n - 1) : g[k] = Tail(f)[k]
  BY <1>2
<1> QED
  BY <1>1, <1>2, <1>3

\* The cell of the k-th value that waits.
Cell(h, k) == (h + k - 1) % Capacity

LEMMA CellValue ==
  ASSUME NEW h \in Slots, NEW k \in 1..Capacity
  PROVE  /\ Cell(h, k) \in Slots /\ Ahead(h, Cell(h, k)) = k - 1
         /\ \A i \in Slots : Ahead(h, i) = k - 1 => i = Cell(h, k)
<1>1. Capacity \in Nat \ {0} /\ h \in Nat /\ h < Capacity /\ k \in Nat /\ k >= 1 /\ k <= Capacity
  BY SizeAssumption DEF Slots, Capacity
<1> PICK x : x = h + k - 1
  OBVIOUS
<1>2. x \in Nat /\ x < 2 * Capacity /\ Cell(h, k) = x % Capacity
  BY <1>1 DEF Cell
<1>3. x % Capacity = IF x < Capacity THEN x ELSE x - Capacity
  BY <1>1, <1>2, ModOnce
<1> QED
  BY <1>1, <1>2, <1>3 DEF Slots, Ahead

LEMMA NextCell ==
  ASSUME NEW h \in Slots, NEW k \in 1..Size
  PROVE  Cell(After(h), k) = Cell(h, k + 1)
<1>1. k \in 1..Capacity /\ k + 1 \in 1..Capacity /\ After(h) \in Slots /\ k \in Nat \ {0}
  BY SizeAssumption, AfterValue DEF Capacity
<1>2. Ahead(h, Cell(h, k + 1)) = k /\ Cell(h, k + 1) \in Slots
  BY <1>1, CellValue
<1>3. \A i \in Slots : Ahead(h, i) = k => Ahead(After(h), i) = k - 1
  BY <1>1, AfterValue, SizeAssumption DEF Ahead, Slots, Capacity
<1> QED
  BY <1>1, <1>2, <1>3, CellValue

LEMMA ContentValue ==
  ASSUME CellsOwned, NEW i \in Slots
  PROVE  /\ \A p \in Pushers : Stores(p, i) => Content(i) = Outgoing(p)
         /\ (\A p \in Pushers : ~Stores(p, i)) => Content(i) = data[i]
<1>1. ASSUME NEW p \in Pushers, Stores(p, i)
      PROVE  Content(i) = Outgoing(p)
  <2> DEFINE Owner == CHOOSE q \in Pushers : pc[q] = "pushStore" /\ frame[q].pos = i
  <2>1. Content(i) = Outgoing(Owner) /\ Owner \in Pushers /\ Stores(Owner, i)
    BY <1>1 DEF Content, Stores
  <2> HIDE DEF Owner
  <2> QED
    BY <1>1, <2>1 DEF CellsOwned
<1>2. (\A p \in Pushers : ~Stores(p, i)) => Content(i) = data[i]
  BY DEF Content, Stores
<1> QED
  BY <1>1, <1>2

LEMMA ContentValueNext ==
  ASSUME CellsOwned', NEW i \in Slots
  PROVE  /\ \A p \in Pushers : Stores(p, i)' => Content(i)' = Outgoing(p)'
         /\ (\A p \in Pushers : ~Stores(p, i)') => Content(i)' = data'[i]
<1>1. ASSUME NEW p \in Pushers, Stores(p, i)'
      PROVE  Content(i)' = Outgoing(p)'
  <2> DEFINE Owner == CHOOSE q \in Pushers : pc[q] = "pushStore" /\ frame[q].pos = i
  <2> PICK o : o = Owner'
    OBVIOUS
  <2>1. o \in Pushers /\ Stores(o, i)'
    BY <1>1 DEF Stores
  <2>2. Content(i)' = Outgoing(o)'
    BY <1>1 DEF Content, Stores, Outgoing
  <2>3. o = p
    BY <1>1, <2>1 DEF CellsOwned
  <2> QED
    BY <2>2, <2>3
<1>2. (\A p \in Pushers : ~Stores(p, i)') => Content(i)' = data'[i]
  BY DEF Content, Stores
<1> QED
  BY <1>1, <1>2

LEMMA ContentsValue ==
  ASSUME TypeOK
  PROVE  /\ \A k \in 1..Waiting : Contents[k] = Content(Cell(head.pos, k)) /\ InRing(Cell(head.pos, k))
                                  /\ Cell(head.pos, k) \in Slots
         /\ Contents \in [1..Waiting -> Values \cup {Invalid}]
         /\ Waiting \in 0..Size
<1>1. head.pos \in Slots /\ tail.pos \in Slots
  BY DEF TypeOK, Pointers
<1>2. Waiting = Ahead(head.pos, tail.pos) /\ Waiting \in 0..Size
  BY <1>1, WaitingValue
<1>3. \A k \in 1..Waiting : InRing(Cell(head.pos, k)) /\ Cell(head.pos, k) \in Slots
  BY <1>1, <1>2, CellValue, SizeAssumption DEF InRing, Capacity
<1>4. \A i \in Slots : Content(i) \in Values \cup {Invalid}
  <2> SUFFICES ASSUME NEW i \in Slots PROVE Content(i) \in Values \cup {Invalid}
    OBVIOUS
  <2>1. ASSUME NEW p \in Pushers, pc[p] = "pushStore" PROVE Outgoing(p) \in Values
    <3>1. sent[p] \in 0..MaxPush /\ sent[p] < MaxPush
      BY <2>1 DEF TypeOK
    <3> QED
      BY <3>1, ThreadsAssumption DEF Outgoing, Values
  <2> QED
    BY <2>1 DEF Content, TypeOK
<1>5. Contents = [k \in 1..Waiting |-> Content(Cell(head.pos, k))]
  BY DEF Contents, Cell
<1> QED
  BY <1>2, <1>3, <1>4, <1>5

LEMMA ContentsValueNext ==
  ASSUME TypeOK'
  PROVE  /\ \A k \in 1..Waiting', i \in Slots : i = Cell(head'.pos, k) => Contents'[k] = Content(i)'
         /\ Contents' \in [1..Waiting' -> Values \cup {Invalid}]
         /\ Waiting' \in 0..Size
<1>1. head'.pos \in Slots /\ tail'.pos \in Slots
  BY DEF TypeOK, Pointers
<1>2. Waiting' = Ahead(head'.pos, tail'.pos) /\ Waiting' \in 0..Size
  BY <1>1, WaitingValueNext
<1>3. \A k \in 1..Waiting' : Cell(head'.pos, k) \in Slots
  BY <1>1, <1>2, CellValue, SizeAssumption DEF Capacity
<1>4. \A i \in Slots : Content(i)' \in Values \cup {Invalid}
  <2> SUFFICES ASSUME NEW i \in Slots PROVE Content(i)' \in Values \cup {Invalid}
    OBVIOUS
  <2>1. ASSUME NEW p \in Pushers, pc'[p] = "pushStore" PROVE Outgoing(p)' \in Values
    <3>1. sent'[p] \in 0..MaxPush /\ sent'[p] < MaxPush
      BY <2>1 DEF TypeOK
    <3> QED
      BY <3>1, ThreadsAssumption DEF Outgoing, Values
  <2> QED
    BY <2>1 DEF Content, TypeOK
<1>5. /\ Contents' = [k \in 1..Waiting' |-> Content(Cell(head.pos, k))']
      /\ \A k \in 1..Waiting', i \in Slots :
           i = Cell(head'.pos, k) => Content(Cell(head.pos, k))' = Content(i)'
  BY DEF Contents, Content, Cell
<1>6. \A k \in 1..Waiting', i \in Slots : i = Cell(head'.pos, k) => Contents'[k] = Content(i)'
  BY <1>5
<1>7. Contents' \in [1..Waiting' -> Values \cup {Invalid}]
  BY <1>3, <1>4, <1>5
<1> QED
  BY <1>2, <1>6, <1>7

LEMMA ContentsStay ==
  ASSUME TypeOK, TypeOK', UNCHANGED <<head, tail>>,
         \A i \in Slots : InRing(i) => Content(i)' = Content(i)
  PROVE  Contents' = Contents
<1>1. Waiting' = Waiting /\ head'.pos = head.pos
  BY DEF Waiting
<1>2. \A k \in 1..Waiting : Contents'[k] = Contents[k]
  BY <1>1, ContentsValue, ContentsValueNext
<1> QED
  BY <1>1, <1>2, ContentsValue, ContentsValueNext

\* What the abstract queue sees of a pusher, when only that pusher moves.
LEMMA PusherMoves ==
  ASSUME TypeOK, TypeOK', NEW p \in Pushers,
         \A q \in Pushers : q # p => pc'[q] = pc[q] /\ sent'[q] = sent[q]
  PROVE  /\ InCall' = [InCall EXCEPT ![p] = IF pc'[p] \in {"idle", "pushStore"}
                                              THEN Invalid ELSE <<p, sent'[p] + 1>>]
         /\ InCall[p] = IF pc[p] \in {"idle", "pushStore"} THEN Invalid ELSE <<p, sent[p] + 1>>
         /\ Accepted' = [Accepted EXCEPT ![p] = sent'[p] + (IF pc'[p] = "pushStore" THEN 1 ELSE 0)]
         /\ Accepted[p] = sent[p] + (IF pc[p] = "pushStore" THEN 1 ELSE 0)
         /\ pc[p] # "idle" => <<p, sent[p] + 1>> \in Values
<1>1. pc[p] # "idle" => <<p, sent[p] + 1>> \in Values
  <2>1. sent[p] \in 0..MaxPush /\ (pc[p] # "idle" => sent[p] < MaxPush)
    BY DEF TypeOK
  <2> QED
    BY <2>1, ThreadsAssumption DEF Values
<1>2. InCall' = [InCall EXCEPT ![p] = IF pc'[p] \in {"idle", "pushStore"}
                                        THEN Invalid ELSE <<p, sent'[p] + 1>>]
  BY DEF InCall, Outgoing
<1>3. Accepted' = [Accepted EXCEPT ![p] = sent'[p] + (IF pc'[p] = "pushStore" THEN 1 ELSE 0)]
  BY DEF Accepted
<1> QED
  BY <1>1, <1>2, <1>3 DEF InCall, Accepted, Outgoing

LEMMA PushersStay ==
  ASSUME \A q \in Pushers : pc'[q] = pc[q], sent' = sent
  PROVE  InCall' = InCall /\ Accepted' = Accepted
BY DEF InCall, Accepted, Outgoing

\* The abstract step of a step of Push.
LEMMA PushRefines ==
  ASSUME IInv, IInv', Awake, SoundUse, NEW p \in Pushers, PushStep(p)
  PROVE  \/ Abstract!Call(p) \/ Abstract!Fail(p) \/ Abstract!Enqueue(p)
         \/ UNCHANGED <<Contents, InCall, Accepted, InHand>>
<1>1. /\ TypeOK /\ TypeOK' /\ SwapReports /\ CellsOwned /\ CellsOwned' /\ Invalid \notin Values
      /\ p \in Threads
  BY DEF IInv, SoundUse, Threads
<1>2. /\ head' = head /\ got' = got
      /\ \A q \in Pushers : q # p => pc'[q] = pc[q] /\ sent'[q] = sent[q]
      /\ \A c \in Poppers : pc'[c] = pc[c] /\ frame'[c] = frame[c]
      /\ \A c \in Poppers, i \in Slots : Takes(c, i)' <=> Takes(c, i)
      /\ \A q \in Pushers \ {p}, i \in Slots : Stores(q, i)' <=> Stores(q, i)
  BY <1>1, PushTypes, PushOwns, ThreadsAssumption DEF Threads
<1>3. \A c \in Poppers : frame[c].pos \in Slots
  BY <1>1 DEF TypeOK, Threads
<1>4. ASSUME \A i \in Slots : ~InRing(i) => data'[i] = data[i]
      PROVE  InHand' = InHand
  <2>1. \A c \in Poppers : pc[c] = "popTake" => data'[frame[c].pos] = data[frame[c].pos]
    BY <1>1, <1>3, <1>4 DEF CellsOwned, Takes
  <2> QED
    BY <1>2, <2>1 DEF InHand
<1>5. ASSUME PushLocally(p)
      PROVE  \/ Abstract!Call(p) \/ Abstract!Fail(p)
             \/ UNCHANGED <<Contents, InCall, Accepted, InHand>>
  <2>1. UNCHANGED shared /\ sent' = sent /\ pc[p] # "pushStore" /\ pc'[p] # "pushStore"
    BY <1>1, <1>5, LocalSteps
  <2>2. InHand' = InHand
    BY <1>4, <2>1 DEF shared
  <2>3. \A q \in Pushers, i \in Slots : Stores(q, i)' <=> Stores(q, i)
    BY <1>2, <2>1 DEF Stores
  <2>4. \A i \in Slots : Content(i)' = Content(i)
    BY <1>1, <2>1, <2>3, ContentValue, ContentValueNext DEF Outgoing, shared
  <2>5. Contents' = Contents
    BY <1>1, <2>1, <2>4, ContentsStay DEF shared
  <2>6. /\ InCall' = [InCall EXCEPT ![p] = IF pc'[p] = "idle" THEN Invalid ELSE <<p, sent[p] + 1>>]
        /\ InCall[p] = IF pc[p] = "idle" THEN Invalid ELSE <<p, sent[p] + 1>>
        /\ Accepted' = [Accepted EXCEPT ![p] = Accepted[p]]
        /\ pc[p] # "idle" => <<p, sent[p] + 1>> \in Values
    BY <1>1, <1>2, <2>1, PusherMoves
  <2>7. Accepted' = Accepted
    BY <2>6 DEF Accepted
  <2>8. CASE pc[p] = "idle"
    <3>1. pc'[p] = "pushPos" /\ sent[p] < MaxPush /\ sent[p] \in 0..MaxPush
      BY <1>1, <1>5, <2>8 DEF PushLocally, PushCall, PushReadsPos, PushReadsTag, PushReadsHead,
                              PushReadsSlot, PushSwapFails, GoTo, TypeOK
    <3>2. <<p, sent[p] + 1>> \in Values
      BY <3>1, ThreadsAssumption DEF Values
    <3> QED
      BY <2>2, <2>5, <2>6, <2>7, <2>8, <3>1, <3>2 DEF Abstract!Call
  <2>9. CASE pc[p] # "idle" /\ pc'[p] = "idle"
    BY <1>1, <2>2, <2>5, <2>6, <2>7, <2>9 DEF Abstract!Fail
  <2>10. CASE pc[p] # "idle" /\ pc'[p] # "idle"
    <3>1. InCall' = InCall
      BY <2>6, <2>10 DEF InCall
    <3> QED
      BY <2>2, <2>5, <2>7, <3>1
  <2> QED
    BY <2>8, <2>9, <2>10
<1>6. ASSUME PushSwaps(p)
      PROVE  Abstract!Enqueue(p)
  <2>1. /\ tail.pos \in Slots /\ ~InRing(tail.pos) /\ data' = data /\ head.pos \in Slots
        /\ \A q \in Pushers, i \in Slots : Stores(q, i)' <=> Stores(q, i) \/ (q = p /\ i = tail.pos)
        /\ Waiting' = Waiting + 1 /\ Waiting = Ahead(head.pos, tail.pos) /\ Waiting < Size
    BY <1>1, <1>6, TailSwapped DEF TypeOK, Pointers
  <2>2. pc[p] = "pushCas" /\ pc'[p] = "pushStore" /\ sent' = sent
    BY <1>1, <1>6 DEF PushSwaps, GoTo, TypeOK
  <2>3. InHand' = InHand
    BY <1>4, <2>1
  <2>4. \A i \in Slots : i # tail.pos => Content(i)' = Content(i)
    BY <1>1, <2>1, <2>2, ContentValue, ContentValueNext DEF Outgoing
  <2>5. \A i \in Slots : i = tail.pos => Content(i)' = Outgoing(p)
    BY <1>1, <2>1, <2>2, ContentValueNext DEF Outgoing
  <2>6. Contents' = Append(Contents, Outgoing(p)) /\ Len(Contents) < Size
    <3> PICK n : n = Waiting
      OBVIOUS
    <3>1. n \in Nat /\ n < Size /\ Waiting' = n + 1 /\ n = Waiting
      BY <1>1, <2>1, ContentsValue
    <3>2. \A k \in 1..n : Contents'[k] = Contents[k]
      <4> SUFFICES ASSUME NEW k \in 1..n PROVE Contents'[k] = Contents[k]
        OBVIOUS
      <4> PICK i : i = Cell(head.pos, k)
        OBVIOUS
      <4>1. Contents[k] = Content(i) /\ InRing(i) /\ i \in Slots
        BY <1>1, <3>1, ContentsValue
      <4>2. Contents'[k] = Content(i)'
        BY <1>1, <1>2, <3>1, <4>1, ContentsValueNext
      <4> QED
        BY <2>1, <2>4, <4>1, <4>2
    <3>3. Contents'[n + 1] = Outgoing(p)
      <4>1. tail.pos = Cell(head.pos, n + 1)
        <5>1. n + 1 \in 1..Capacity /\ (n + 1) - 1 = n
          BY <3>1, SizeAssumption DEF Capacity
        <5> QED
          BY <2>1, <3>1, <5>1, CellValue
      <4>2. \A i \in Slots : i = tail.pos => Contents'[n + 1] = Content(i)'
        BY <1>1, <1>2, <3>1, <4>1, ContentsValueNext
      <4> QED
        BY <2>1, <2>5, <4>2
    <3>4. /\ Contents \in [1..n -> Values \cup {Invalid}]
          /\ Contents' \in [1..(n + 1) -> Values \cup {Invalid}]
      BY <1>1, <3>1, ContentsValue, ContentsValueNext
    <3>5. Len(Contents) = n
      BY <3>1, <3>4, FunctionIsSeq
    <3>6. Contents' = Append(Contents, Contents'[n + 1])
      BY <3>1, <3>2, <3>4, AppendedSeq
    <3> QED
      BY <3>1, <3>3, <3>5, <3>6
  <2>7. /\ InCall' = [InCall EXCEPT ![p] = Invalid]
        /\ InCall[p] = Outgoing(p) /\ InCall[p] # Invalid
        /\ Accepted' = [Accepted EXCEPT ![p] = sent[p] + 1]
        /\ Accepted[p] = sent[p]
    <3>1. sent[p] \in Nat
      BY <1>1 DEF TypeOK
    <3>2. /\ InCall' = [InCall EXCEPT ![p] = Invalid]
          /\ InCall[p] = <<p, sent[p] + 1>> /\ <<p, sent[p] + 1>> \in Values
          /\ Accepted' = [Accepted EXCEPT ![p] = sent'[p] + 1]
          /\ Accepted[p] = sent[p] + 0
      BY <1>1, <1>2, <2>2, PusherMoves
    <3> QED
      BY <1>1, <2>2, <3>1, <3>2 DEF Outgoing
  <2> QED
    BY <2>3, <2>6, <2>7 DEF Abstract!Enqueue
<1>7. ASSUME PushStores(p)
      PROVE  UNCHANGED <<Contents, InCall, Accepted, InHand>>
  <2> PICK k : k = frame[p].pos
    OBVIOUS
  <2>1. /\ Stores(p, k) /\ k \in Slots /\ UNCHANGED <<head, tail>> /\ pc[p] = "pushStore"
        /\ data' = [data EXCEPT ![k] = Outgoing(p)] /\ pc'[p] = "idle" /\ sent'[p] = sent[p] + 1
        /\ sent[p] \in Nat
    BY <1>1, <1>7 DEF PushStores, Stores, TypeOK, Return, GoTo
  <2>2. InRing(k) /\ \A q \in Pushers : Stores(q, k) => q = p
    BY <1>1, <2>1 DEF CellsOwned
  <2>3. InHand' = InHand
    <3>1. \A i \in Slots : ~InRing(i) => data'[i] = data[i]
      BY <1>1, <2>1, <2>2 DEF TypeOK
    <3> QED
      BY <1>4, <3>1
  <2>4. \A i \in Slots : Content(i)' = Content(i)
    <3> SUFFICES ASSUME NEW i \in Slots PROVE Content(i)' = Content(i)
      OBVIOUS
    <3>1. CASE i = k
      <4>1. Content(i) = Outgoing(p)
        BY <1>1, <2>1, <3>1, ContentValue
      <4>2. \A q \in Pushers : ~Stores(q, i)'
        BY <1>2, <2>1, <2>2, <3>1 DEF Stores
      <4>3. data'[i] = Outgoing(p)
        BY <1>1, <2>1, <3>1 DEF TypeOK
      <4> QED
        BY <1>1, <4>1, <4>2, <4>3, ContentValueNext
    <3>2. CASE i # k
      <4>1. ~Stores(p, i) /\ ~Stores(p, i)' /\ data'[i] = data[i]
        BY <1>1, <2>1, <3>2 DEF Stores, TypeOK
      <4>2. \A q \in Pushers \ {p} : Outgoing(q)' = Outgoing(q) /\ (Stores(q, i)' <=> Stores(q, i))
        BY <1>2 DEF Outgoing
      <4> QED
        BY <1>1, <4>1, <4>2, ContentValue, ContentValueNext
    <3> QED
      BY <3>1, <3>2
  <2>5. Contents' = Contents
    BY <1>1, <2>1, <2>4, ContentsStay
  <2>6. /\ InCall' = [InCall EXCEPT ![p] = InCall[p]]
        /\ Accepted' = [Accepted EXCEPT ![p] = Accepted[p]]
    <3>1. /\ InCall' = [InCall EXCEPT ![p] = Invalid] /\ InCall[p] = Invalid
          /\ Accepted' = [Accepted EXCEPT ![p] = sent'[p] + 0] /\ Accepted[p] = sent[p] + 1
      BY <1>1, <1>2, <2>1, PusherMoves
    <3>2. sent'[p] + 0 = sent[p] + 1
      BY <2>1
    <3> QED
      BY <3>1, <3>2
  <2> QED
    BY <2>3, <2>5, <2>6 DEF InCall, Accepted
<1> QED
  BY <1>5, <1>6, <1>7 DEF PushStep, PushLocally

\* The abstract step of a step of Pop.
LEMMA PopRefines ==
  ASSUME IInv, IInv', Awake, SoundUse, NEW c \in Poppers, PopStep(c)
  PROVE  Abstract!Dequeue(c) \/ UNCHANGED <<Contents, InCall, Accepted, InHand>>
<1>1. /\ TypeOK /\ TypeOK' /\ SwapReports /\ CellsOwned /\ CellsOwned'
      /\ c \in Threads
  BY DEF IInv, SoundUse, Threads
<1>2. /\ tail' = tail /\ sent' = sent
      /\ \A q \in Pushers : pc'[q] = pc[q]
      /\ \A d \in Poppers : d # c => pc'[d] = pc[d] /\ frame'[d] = frame[d]
      /\ \A p \in Pushers, i \in Slots : Stores(p, i)' <=> Stores(p, i)
  BY <1>1, PopTypes, PopOwns, ThreadsAssumption DEF Threads
<1>3. \A d \in Poppers : frame[d].pos \in Slots
  BY <1>1 DEF TypeOK, Threads
<1>4. InCall' = InCall /\ Accepted' = Accepted
  BY <1>2, PushersStay
<1>5. \A i \in Slots : data'[i] = data[i] => Content(i)' = Content(i)
  BY <1>1, <1>2, ContentValue, ContentValueNext DEF Outgoing
<1>6. ASSUME PopLocally(c)
      PROVE  UNCHANGED <<Contents, InCall, Accepted, InHand>>
  <2>1. UNCHANGED shared /\ got' = got /\ pc[c] # "popTake" /\ pc'[c] # "popTake"
    BY <1>1, <1>6, LocalSteps
  <2>2. InHand' = InHand
    BY <1>2, <2>1 DEF shared, InHand
  <2>3. Contents' = Contents
    BY <1>1, <1>5, <2>1, ContentsStay DEF shared
  <2> QED
    BY <1>4, <2>2, <2>3
<1>7. ASSUME PopSwaps(c)
      PROVE  Abstract!Dequeue(c)
  <2>1. /\ head.pos \in Slots /\ InRing(head.pos) /\ data' = data /\ tail.pos \in Slots
        /\ frame[c].pos = head.pos /\ data[head.pos] # Invalid
        /\ Waiting' = Waiting - 1 /\ Waiting \in Nat \ {0}
    BY <1>1, <1>7, HeadSwapped DEF TypeOK, Pointers
  <2>2. pc[c] = "popCas" /\ pc'[c] = "popTake" /\ got' = got /\ frame' = frame
        /\ head'.pos = After(head.pos)
    BY <1>1, <1>7, <2>1 DEF PopSwaps, GoTo, TypeOK, Advance
  <2>3. InHand' = [InHand EXCEPT ![c] = data[head.pos]]
    BY <1>2, <2>1, <2>2 DEF InHand
  <2>4. Content(head.pos) = data[head.pos]
    <3>1. \A p \in Pushers : ~Stores(p, head.pos)
      BY <1>1, <2>1 DEF CellsOwned
    <3> QED
      BY <1>1, <2>1, <3>1, ContentValue
  <2>5. Contents # <<>> /\ Head(Contents) = data[head.pos] /\ Contents' = Tail(Contents)
    <3> PICK n : n = Waiting
      OBVIOUS
    <3>1. n \in Nat \ {0} /\ n <= Size /\ Waiting' = n - 1 /\ n = Waiting
      BY <1>1, <2>1, ContentsValue, SizeAssumption
    <3>2. \A k \in 1..(n - 1) : Contents'[k] = Contents[k + 1]
      <4> SUFFICES ASSUME NEW k \in 1..(n - 1) PROVE Contents'[k] = Contents[k + 1]
        OBVIOUS
      <4> PICK i : i = Cell(head.pos, k + 1)
        OBVIOUS
      <4>1. Contents[k + 1] = Content(i) /\ i \in Slots
        BY <1>1, <3>1, ContentsValue
      <4>2. i = Cell(head'.pos, k)
        BY <2>1, <2>2, <3>1, NextCell, SizeAssumption
      <4>3. Contents'[k] = Content(i)'
        BY <1>1, <3>1, <4>1, <4>2, ContentsValueNext
      <4> QED
        BY <1>5, <2>1, <4>1, <4>3
    <3>3. Contents[1] = data[head.pos]
      <4>1. head.pos = Cell(head.pos, 1)
        <5>1. Ahead(head.pos, head.pos) = 0
          BY <2>1 DEF Ahead, Slots
        <5> QED
          BY <2>1, <5>1, CellValue, SizeAssumption DEF Capacity
      <4> QED
        BY <1>1, <2>4, <3>1, <4>1, ContentsValue
    <3>4. /\ Contents \in [1..n -> Values \cup {Invalid}]
          /\ Contents' \in [1..(n - 1) -> Values \cup {Invalid}]
      BY <1>1, <3>1, ContentsValue, ContentsValueNext
    <3> QED
      BY <3>1, <3>2, <3>3, <3>4, ShiftedSeq
  <2> QED
    BY <1>4, <2>3, <2>5 DEF Abstract!Dequeue
<1>8. ASSUME PopTakes(c)
      PROVE  UNCHANGED <<Contents, InCall, Accepted, InHand>>
  <2> PICK k : k = frame[c].pos
    OBVIOUS
  <2>1. /\ Takes(c, k) /\ k \in Slots /\ UNCHANGED <<head, tail>> /\ pc[c] = "popTake"
        /\ data' = [data EXCEPT ![k] = Invalid] /\ pc'[c] = "idle"
        /\ got' = [got EXCEPT ![c] = data[k]] /\ k = frame[c].pos
    BY <1>1, <1>8 DEF PopTakes, Takes, TypeOK, Return, GoTo
  <2>2. ~InRing(k) /\ \A d \in Poppers : Takes(d, k) => d = c
    BY <1>1, <2>1 DEF CellsOwned
  <2>3. \A i \in Slots : i # k => data'[i] = data[i]
    BY <1>1, <2>1 DEF TypeOK
  <2>4. InHand' = InHand
    <3>1. \A d \in Poppers : d # c /\ pc[d] = "popTake" => data'[frame[d].pos] = data[frame[d].pos]
      BY <1>3, <2>2, <2>3 DEF Takes
    <3>2. \A d \in Poppers : got'[d] = IF d = c THEN data[k] ELSE got[d]
      BY <1>1, <2>1 DEF TypeOK
    <3> QED
      BY <1>2, <2>1, <3>1, <3>2 DEF InHand
  <2>5. Contents' = Contents
    BY <1>1, <1>5, <2>1, <2>2, <2>3, ContentsStay
  <2> QED
    BY <1>4, <2>4, <2>5
<1> QED
  BY <1>6, <1>7, <1>8 DEF PopStep, PopLocally

LEMMA InitRefines ==
  ASSUME Init
  PROVE  Abstract!Init
<1>1. \A t \in Threads : pc[t] = "idle"
  BY DEF Init
<1>2. Contents = <<>>
  <2>1. Waiting = 0
    <3>1. Capacity \in Nat \ {0} /\ 0 + Capacity - 0 = Capacity
      BY SizeAssumption DEF Capacity
    <3>2. Capacity % Capacity = 0
      BY <3>1
    <3> QED
      BY <3>1, <3>2 DEF Init, Start, Waiting
  <2> QED
    BY <2>1 DEF Contents
<1> QED
  BY <1>1, <1>2 DEF Init, Abstract!Init, InCall, Accepted, InHand, Threads

\* Push and Pop of any number of threads, each a sequence of loads, a compare-and-swap and an
\* exchange that interleave with the others', work on one first-in-first-out queue: a value
\* that was pushed is popped once and in the order of the swaps, for a ring of any size.
THEOREM RingIsOneQueue == SoundUse => (CountedSpec /\ []Awake => ImplementsFifo)
<1> SUFFICES ASSUME SoundUse
             PROVE  CountedSpec /\ []Awake => ImplementsFifo
  OBVIOUS
<1>1. Init => Abstract!Init
  BY InitRefines
<1>2. IInv /\ IInv' /\ Awake /\ [Next /\ CountsSwaps]_<<vars, lag>> => [Abstract!Next]_(Abstract!vars)
  <2> SUFFICES ASSUME IInv, IInv', Awake, [Next /\ CountsSwaps]_<<vars, lag>>
               PROVE  [Abstract!Next]_(Abstract!vars)
    OBVIOUS
  <2>1. CASE Next /\ CountsSwaps
    BY <2>1, PushRefines, PopRefines DEF Next, Abstract!Next, Abstract!vars
  <2>2. CASE UNCHANGED <<vars, lag>>
    BY <2>2 DEF vars, Abstract!vars, Contents, Waiting, Content, Outgoing, InCall, Accepted, InHand
  <2> QED
    BY <2>1, <2>2
<1>3. CountedSpec /\ []Awake => []IInv
  BY Invariance
<1> QED
  BY <1>1, <1>2, <1>3, PTL DEF CountedSpec, ImplementsFifo, Abstract!Spec

--------------------------------------------------------------------------------
(***************************************************************************)
(* LockFreeRingedBuffer (Buffer in MCContainers), for a ring of any size,  *)
(* messages of any length, any number of threads that push and pop, and    *)
(* any interleaving of their loads, swaps and copies: messages lie end to  *)
(* end, no record is taken twice, and Pop hands over one whole message.    *)
(*                                                                         *)
(* Again a call is not overtaken so often that the tag comes round; bLag   *)
(* counts it.  The other history, bStart, is where the bytes of a record   *)
(* begin, which the code stores in m_StartPos and never reads.             *)
(***************************************************************************)

VARIABLES bLag,   \* how often others moved the end a call works on, since the call read its tag
          bStart  \* where the bytes of each record begin

\* The call holds a copy of position and tag.
HasCopy == {"pushTail", "pushRoom", "pushNum", "pushInfo", "pushCas",
              "popSome", "popInfo", "popEnd", "popTold", "popCas"}

\* The end that a call works on.
EndOf(t) == IF t \in Pushers THEN bTail ELSE bHead

BufferHistories ==
  /\ bLag' = [t \in Buffer!Threads |->
                IF bPc'[t] \in HasCopy THEN bLag[t] + (IF EndOf(t)' # EndOf(t) THEN 1 ELSE 0) ELSE 0]
  /\ bStart' = [bStart EXCEPT ![bTail'.pos] = bTail'.buf]

BufferStep == Buffer!Next /\ BufferHistories

BufferCountedSpec ==
  /\ Buffer!Init /\ bLag = [t \in Buffer!Threads |-> 0] /\ bStart = [i \in Buffer!Positions |-> 0]
  /\ [][BufferStep]_<<Buffer!vars, bLag, bStart>>

\* No call is overtaken so often that the tag comes round.
BufferAwake == \A t \in Buffer!Threads : bLag[t] < TagModulus

\* A ring of at least one byte; Push refuses lengths that are not positive.
BufferParameters ==
  /\ BufferSize \in Nat \ {0} /\ TagModulus \in Nat \ {0}
  /\ MaxRetry \in Nat /\ MaxPush \in Nat
  /\ Lengths \subseteq Nat \ {0}
  /\ Pushers \cap LonePoppers = {}

--------------------------------------------------------------------------------
(* The inductive invariant *)

PushPlaces == {"idle", "pushBuf", "pushPos", "pushTail", "pushRoom", "pushNum", "pushInfo", "pushCas",
               "pushCopy", "pushSet"}
PopPlaces == {"idle", "popBuf", "popPos", "popSome", "popInfo", "popEnd", "popTold", "popCas",
              "popCopy", "popClear"}
Ends == [buf : Buffer!Positions, pos : Buffer!Positions, tag : 0..(TagModulus - 1)]
Calls == [at : Ends, end : Buffer!Positions, size : Int, told : Buffer!Positions, tries : Nat]
ByteValues == {None} \cup (Buffer!Messages \X (Nat \ {0}))

BufferTypeOK ==
  /\ bHead \in Ends /\ bTail \in Ends
  /\ bBytes \in [Buffer!Positions -> ByteValues]
  /\ bInfo \in [Buffer!Positions -> [end : Buffer!Positions, flag : BOOLEAN]]
  /\ bPc \in [Buffer!Threads -> PushPlaces \cup PopPlaces]
  /\ \A p \in Pushers : bPc[p] \in PushPlaces
  /\ \A c \in LonePoppers : bPc[c] \in PopPlaces
  /\ bFrame \in [Buffer!Threads -> Calls]
  /\ \A p \in Pushers : bPc[p] # "idle" => bFrame[p].size \in Lengths
  /\ bSent \in [Pushers -> 0..MaxPush]
  /\ \A p \in Pushers : bPc[p] # "idle" => bSent[p] < MaxPush
  /\ bGot \in [LonePoppers -> Seq(ByteValues)]
  /\ bClaim \in [Buffer!Positions -> Buffer!Messages \cup {None}]
  /\ bOverrun \in [LonePoppers -> BOOLEAN]

BufferHistoriesOK == bLag \in [Buffer!Threads -> Nat] /\ bStart \in [Buffer!Positions -> Buffer!Positions]

\* How far it is from a on to b, the record after i, and the records between head and tail.
Gap(a, b) == IF b >= a THEN b - a ELSE b + BufferSize - a
Beyond(i) == IF i + 1 = BufferSize THEN 0 ELSE i + 1
Held(i) == Gap(bHead.pos, i) < Gap(bHead.pos, bTail.pos)

\* The records between head and tail have messages, whose bytes lie end to end.
Laid ==
  /\ bStart[bHead.pos] = bHead.buf /\ bStart[bTail.pos] = bTail.buf
  /\ \A i \in Buffer!Positions : Held(i) =>
       /\ bClaim[i] \in Buffer!Messages /\ bClaim[i].size < BufferSize
       /\ Gap(bStart[i], bStart[Beyond(i)]) = bClaim[i].size
  /\ \A i, j \in Buffer!Positions :
       /\ Gap(bHead.pos, i) < Gap(bHead.pos, j)
       /\ Gap(bHead.pos, j) <= Gap(bHead.pos, bTail.pos)
       => Gap(bHead.buf, bStart[i]) + bClaim[i].size <= Gap(bHead.buf, bStart[j])

\* The tag n swaps ago.
TagAgo(tag, n) == IF tag >= n THEN tag - n ELSE tag + TagModulus - n
TagsKept ==
  \A t \in Buffer!Threads :
    /\ bPc[t] \notin HasCopy => bLag[t] = 0
    /\ bPc[t] \in HasCopy /\ bLag[t] < TagModulus => bFrame[t].at.tag = TagAgo(EndOf(t).tag, bLag[t])

Puts(p, i) == bPc[p] \in {"pushCopy", "pushSet"} /\ bFrame[p].at.pos = i
Gets(c, i) == bPc[c] \in {"popCopy", "popClear"} /\ bFrame[c].at.pos = i
Written(from, msg) ==
  \A x \in Buffer!Positions : Gap(from, x) < msg.size => bBytes[x] = <<msg, Gap(from, x) + 1>>

\* A push that has moved the tail owns a record between head and tail that is not marked
\* yet, and in the end has written its bytes.
PushesOwn ==
  \A p \in Pushers, i \in Buffer!Positions : Puts(p, i) =>
    /\ Held(i) /\ ~bInfo[i].flag
    /\ bClaim[i] = Buffer!Outgoing(p) /\ bFrame[p].at.buf = bStart[i] /\ bFrame[p].end = bStart[Beyond(i)]
    /\ \A q \in Pushers : Puts(q, i) => q = p
SetsWritten == \A p \in Pushers : bPc[p] = "pushSet" => Written(bFrame[p].at.buf, Buffer!Outgoing(p))

\* A marked record between head and tail has its bytes.
MarksWritten ==
  \A i \in Buffer!Positions : Held(i) /\ bInfo[i].flag => bInfo[i].end = bStart[Beyond(i)] /\ Written(bStart[i], bClaim[i])

\* A pop that has moved the head owns a marked record outside; its bytes, and what it has
\* copied, are there unless they were overrun.
PopsOwn ==
  \A c \in LonePoppers, i \in Buffer!Positions : Gets(c, i) =>
    /\ ~Held(i) /\ bInfo[i].flag
    /\ bClaim[i] \in Buffer!Messages /\ Gap(bFrame[c].at.buf, bFrame[c].end) = bClaim[i].size
    /\ \A d \in LonePoppers : Gets(d, i) => d = c
CopiesHold == \A c \in LonePoppers : bPc[c] = "popCopy" => bOverrun[c] \/ Written(bFrame[c].at.buf, Buffer!ClaimOf(c))

RecordsOwned == PushesOwn /\ SetsWritten /\ MarksWritten /\ PopsOwn /\ CopiesHold /\ Buffer!PoppedWhole

\* What a call has checked still holds when its copy is current.
UpToDate(t) == bLag[t] = 0 /\ bFrame[t].at = EndOf(t)
ChecksHold ==
  /\ \A p \in Pushers : bPc[p] \in {"pushNum", "pushInfo", "pushCas"} =>
       bFrame[p].size < BufferSize /\ Gap(bFrame[p].at.buf, bFrame[p].end) = bFrame[p].size
  /\ \A p \in Pushers : UpToDate(p) =>
       /\ bPc[p] = "pushRoom" => bFrame[p].end = bTail.buf
       /\ bPc[p] \in {"pushNum", "pushInfo", "pushCas"} =>
             bFrame[p].size + Gap(bHead.buf, bTail.buf) < BufferSize
       /\ bPc[p] \in {"pushInfo", "pushCas"} => Beyond(bTail.pos) # bHead.pos
       /\ bPc[p] = "pushCas" => ~bInfo[bTail.pos].flag
  /\ \A c \in LonePoppers : UpToDate(c) =>
       /\ bPc[c] \in {"popInfo", "popEnd", "popCas"} => bHead.pos # bTail.pos
       /\ bPc[c] \in {"popEnd", "popCas"} => bInfo[bHead.pos].flag
       /\ bPc[c] = "popCas" => bFrame[c].end = bInfo[bHead.pos].end

BufferIInv == BufferTypeOK /\ BufferHistoriesOK /\ Laid /\ TagsKept /\ RecordsOwned /\ ChecksHold

--------------------------------------------------------------------------------
(* Positions *)

LEMMA BufferMod == ASSUME NEW n \in Nat \ {0}, NEW x \in Nat, x < 2 * n
                   PROVE  x % n = IF x < n THEN x ELSE x - n
<1>1. CASE x < n
  <2>1. x % n = x
    BY <1>1, SMT
  <2> QED
    BY <1>1, <2>1
<1>2. CASE ~(x < n)
  <2>1. x % n = x - n
    BY <1>2, SMT
  <2> QED
    BY <1>2, <2>1
<1> QED
  BY <1>1, <1>2

LEMMA SumValue ==
  ASSUME BufferParameters, NEW a \in Buffer!Positions, NEW k \in Nat, k <= BufferSize
  PROVE  /\ (a + k) % BufferSize = IF a + k < BufferSize THEN a + k ELSE a + k - BufferSize
         /\ (a + k) % BufferSize \in Buffer!Positions
<1> PICK x : x = a + k
  OBVIOUS
<1>1. x \in Nat /\ x < 2 * BufferSize /\ BufferSize \in Nat \ {0}
  BY DEF BufferParameters, Buffer!Positions
<1>2. x % BufferSize = IF x < BufferSize THEN x ELSE x - BufferSize
  BY <1>1, BufferMod
<1> QED
  BY <1>1, <1>2 DEF Buffer!Positions

LEMMA BeyondValue ==
  ASSUME BufferParameters, NEW i \in Buffer!Positions
  PROVE  (i + 1) % BufferSize = Beyond(i) /\ Beyond(i) \in Buffer!Positions
<1>1. BufferSize \in Nat \ {0} /\ 1 <= BufferSize /\ i < BufferSize /\ i \in Nat
  BY DEF BufferParameters, Buffer!Positions
<1>2. (i + 1) % BufferSize = IF i + 1 < BufferSize THEN i + 1 ELSE i + 1 - BufferSize
  BY <1>1, SumValue
<1> QED
  BY <1>1, <1>2 DEF Beyond, Buffer!Positions

LEMMA DistanceValue ==
  ASSUME BufferParameters, NEW a \in Buffer!Positions, NEW b \in Buffer!Positions
  PROVE  Buffer!Distance(a, b) = Gap(a, b) /\ Gap(a, b) \in Buffer!Positions
<1>1. BufferSize \in Nat \ {0} /\ a \in Nat /\ b \in Nat /\ a < BufferSize /\ b < BufferSize
  BY DEF BufferParameters, Buffer!Positions
<1> PICK x : x = b + BufferSize - a
  OBVIOUS
<1>2. x \in Nat /\ x < 2 * BufferSize /\ Buffer!Distance(a, b) = x % BufferSize
  BY <1>1 DEF Buffer!Distance
<1>3. x % BufferSize = IF x < BufferSize THEN x ELSE x - BufferSize
  BY <1>1, <1>2, BufferMod
<1> QED
  BY <1>1, <1>2, <1>3 DEF Gap, Buffer!Positions

LEMMA GapZero ==
  ASSUME BufferParameters, NEW a \in Buffer!Positions, NEW b \in Buffer!Positions
  PROVE  Gap(a, b) \in Buffer!Positions /\ (Gap(a, b) = 0 <=> a = b)
BY DEF Gap, Buffer!Positions, BufferParameters

LEMMA GapNat ==
  ASSUME BufferParameters
  PROVE  \A a, b \in Buffer!Positions :
           /\ Gap(a, b) \in Nat /\ Gap(a, b) < BufferSize /\ (Gap(a, b) = 0 <=> a = b)
           /\ \A c \in Buffer!Positions : Gap(a, b) = Gap(a, c) => b = c
BY DEF Gap, Buffer!Positions, BufferParameters

LEMMA CellsValue ==
  ASSUME BufferParameters, NEW from \in Buffer!Positions, NEW len \in Nat, len <= BufferSize
  PROVE  Buffer!Cells(from, len) = {x \in Buffer!Positions : Gap(from, x) < len}
<1>1. ASSUME NEW k \in 0..(len - 1)
      PROVE  (from + k) % BufferSize \in Buffer!Positions /\ Gap(from, (from + k) % BufferSize) < len
  <2>1. /\ k \in Nat /\ k <= BufferSize /\ k < len /\ BufferSize \in Nat \ {0} /\ from \in Nat
        /\ from < BufferSize
    BY DEF BufferParameters, Buffer!Positions
  <2> PICK y : y = (from + k) % BufferSize
    OBVIOUS
  <2>2. y \in Buffer!Positions /\ y = IF from + k < BufferSize THEN from + k ELSE from + k - BufferSize
    BY <2>1, SumValue
  <2>3. Gap(from, y) < len
    BY <2>1, <2>2 DEF Gap
  <2> QED
    BY <2>2, <2>3
<1>2. ASSUME NEW x \in Buffer!Positions, Gap(from, x) < len
      PROVE  \E k \in 0..(len - 1) : x = (from + k) % BufferSize
  <2> PICK k : k = Gap(from, x)
    OBVIOUS
  <2>1. k \in Buffer!Positions /\ k < len
    BY <1>2, GapZero
  <2>2. k \in 0..(len - 1) /\ k \in Nat /\ k <= BufferSize
    BY <2>1 DEF Buffer!Positions, BufferParameters
  <2>3. (from + k) % BufferSize = IF from + k < BufferSize THEN from + k ELSE from + k - BufferSize
    BY <2>2, SumValue
  <2>4. x = IF from + k < BufferSize THEN from + k ELSE from + k - BufferSize
    BY DEF Gap, Buffer!Positions, BufferParameters
  <2> QED
    BY <2>2, <2>3, <2>4
<1> QED
  BY <1>1, <1>2 DEF Buffer!Cells

\* The record at the tail is taken, and that at the head given up.
LEMMA BufferTailMoves ==
  ASSUME BufferParameters, NEW h \in Buffer!Positions, NEW t \in Buffer!Positions, Beyond(t) # h
  PROVE  /\ Gap(h, Beyond(t)) = Gap(h, t) + 1
         /\ \A i \in Buffer!Positions : /\ Gap(h, i) < Gap(h, t) + 1 <=> i = t \/ Gap(h, i) < Gap(h, t)
                                        /\ Gap(h, i) = Gap(h, t) => i = t
BY DEF Gap, Beyond, Buffer!Positions, BufferParameters

LEMMA BufferHeadMoves ==
  ASSUME BufferParameters, NEW h \in Buffer!Positions
  PROVE  \A i \in Buffer!Positions : /\ i # h => Gap(Beyond(h), i) = Gap(h, i) - 1 /\ Gap(h, i) > 0
                                     /\ Gap(Beyond(h), h) = BufferSize - 1
                                     /\ Gap(h, h) = 0
BY DEF Gap, Beyond, Buffer!Positions, BufferParameters

\* The first and the last of the bytes move.
LEMMA FromLater ==
  ASSUME BufferParameters, NEW h \in Buffer!Positions, NEW g \in Buffer!Positions,
         NEW b \in Buffer!Positions, Gap(h, g) <= Gap(h, b)
  PROVE  Gap(g, b) = Gap(h, b) - Gap(h, g)
BY DEF Gap, Buffer!Positions, BufferParameters

LEMMA ToLater ==
  ASSUME BufferParameters, NEW h \in Buffer!Positions, NEW t \in Buffer!Positions, NEW e \in Buffer!Positions,
         Gap(h, t) + Gap(t, e) < BufferSize
  PROVE  Gap(h, e) = Gap(h, t) + Gap(t, e)
BY DEF Gap, Buffer!Positions, BufferParameters

LEMMA EndOfSum ==
  ASSUME BufferParameters, NEW a \in Buffer!Positions, NEW len \in Nat, len < BufferSize
  PROVE  (a + len) % BufferSize \in Buffer!Positions /\ Gap(a, (a + len) % BufferSize) = len
<1> PICK y : y = (a + len) % BufferSize
  OBVIOUS
<1>1. len <= BufferSize /\ BufferSize \in Nat \ {0}
  BY DEF BufferParameters
<1>2. y \in Buffer!Positions /\ y = IF a + len < BufferSize THEN a + len ELSE a + len - BufferSize
  BY <1>1, SumValue
<1>3. Gap(a, y) = len
  BY <1>1, <1>2 DEF Gap, Buffer!Positions
<1> QED
  BY <1>2, <1>3

\* Two runs of bytes, one of which begins after the other ends, have no byte in common.
LEMMA RunsApart ==
  ASSUME BufferParameters, NEW h \in Buffer!Positions, NEW a \in Buffer!Positions, NEW b \in Buffer!Positions,
         NEW m \in Nat, NEW n \in Nat,
         Gap(h, a) + m <= Gap(h, b), Gap(h, b) + n <= BufferSize, NEW x \in Buffer!Positions
  PROVE  ~(Gap(a, x) < m /\ Gap(b, x) < n)
BY DEF Gap, Buffer!Positions, BufferParameters

LEMMA TagAgoStep ==
  ASSUME BufferParameters, NEW tag \in 0..(TagModulus - 1)
  PROVE  /\ (tag + 1) % TagModulus = IF tag + 1 = TagModulus THEN 0 ELSE tag + 1
         /\ (tag + 1) % TagModulus \in 0..(TagModulus - 1)
<1> PICK x : x = tag + 1
  OBVIOUS
<1>1. x \in Nat /\ x < 2 * TagModulus /\ TagModulus \in Nat \ {0} /\ x <= TagModulus
  BY DEF BufferParameters
<1>2. x % TagModulus = IF x < TagModulus THEN x ELSE x - TagModulus
  BY <1>1, BufferMod
<1> QED
  BY <1>1, <1>2

LEMMA TagAgoFacts ==
  ASSUME BufferParameters, NEW tag \in 0..(TagModulus - 1), NEW n \in Nat
  PROVE  /\ TagAgo(tag, 0) = tag
         /\ n # 0 /\ n < TagModulus => TagAgo(tag, n) # tag
         /\ n + 1 < TagModulus => TagAgo((tag + 1) % TagModulus, n + 1) = TagAgo(tag, n)
<1> PICK y : y = (tag + 1) % TagModulus
  OBVIOUS
<1>1. y = IF tag + 1 = TagModulus THEN 0 ELSE tag + 1
  BY TagAgoStep
<1>2. TagModulus \in Nat \ {0}
  BY DEF BufferParameters
<1> QED
  BY <1>1, <1>2 DEF TagAgo

--------------------------------------------------------------------------------
(* Types *)

Places == PushPlaces \cup PopPlaces

\* Nothing happens to the call of another thread.
OnlyOwn(t) ==
  /\ bPc' \in [Buffer!Threads -> Places] /\ bFrame' \in [Buffer!Threads -> Calls]
  /\ \A u \in Buffer!Threads : u # t => bPc'[u] = bPc[u] /\ bFrame'[u] = bFrame[u]

LEMMA NoFrameType == BufferParameters => Buffer!NoFrame \in Calls /\ Buffer!EmptyInfo \in [end : Buffer!Positions, flag : BOOLEAN]
BY DEF BufferParameters, Buffer!NoFrame, Buffer!EmptyInfo, Calls, Ends, Buffer!Positions, Buffer!Start

LEMMA BufferLocalTypes ==
  ASSUME BufferParameters, BufferTypeOK, NEW t \in Buffer!Threads
  PROVE  /\ \A where \in Places : Buffer!GoTo(t, where) /\ UNCHANGED bFrame =>
              OnlyOwn(t) /\ bPc'[t] = where /\ bFrame'[t] = bFrame[t]
         /\ \A where \in Places, f \in Calls : Buffer!Locally(t, f, where) =>
              OnlyOwn(t) /\ bPc'[t] = where /\ bFrame'[t] = f
         /\ Buffer!Return(t) => OnlyOwn(t) /\ bPc'[t] = "idle"
         /\ \A where \in Places : Buffer!Rejoins(t, where) =>
              OnlyOwn(t) /\ (bPc'[t] = "idle" \/ (bPc'[t] = where /\ bFrame'[t].size = bFrame[t].size))
<1>1. \A where \in Places : Buffer!GoTo(t, where) => bPc' \in [Buffer!Threads -> Places] /\ bPc'[t] = where
                                                     /\ \A u \in Buffer!Threads : u # t => bPc'[u] = bPc[u]
  BY DEF Buffer!GoTo, BufferTypeOK, Places
<1>2. \A where \in Places, f \in Calls : Buffer!Locally(t, f, where) =>
        OnlyOwn(t) /\ bPc'[t] = where /\ bFrame'[t] = f
  BY <1>1 DEF Buffer!Locally, OnlyOwn, BufferTypeOK
<1>3. "idle" \in Places
  BY DEF Places, PushPlaces
<1>4. Buffer!Return(t) => OnlyOwn(t) /\ bPc'[t] = "idle"
  BY <1>2, <1>3, NoFrameType DEF Buffer!Return
<1>5. ASSUME NEW where \in Places, Buffer!Rejoins(t, where)
      PROVE  OnlyOwn(t) /\ (bPc'[t] = "idle" \/ (bPc'[t] = where /\ bFrame'[t].size = bFrame[t].size))
  <2> DEFINE f == [bFrame[t] EXCEPT !.tries = @ + 1]
  <2>1. bFrame[t] \in Calls
    BY DEF BufferTypeOK
  <2>2. f \in Calls /\ f.size = bFrame[t].size
    BY <2>1 DEF Calls
  <2>3. Buffer!Locally(t, f, where) \/ Buffer!Return(t)
    BY <1>5 DEF Buffer!Rejoins
  <2> HIDE DEF f
  <2>4. CASE Buffer!Locally(t, f, where)
    <3>1. OnlyOwn(t) /\ bPc'[t] = where /\ bFrame'[t] = f
      BY <1>2, <2>2, <2>4
    <3> QED
      BY <2>2, <3>1
  <2>5. CASE Buffer!Return(t)
    BY <1>4, <2>5
  <2> QED
    BY <2>3, <2>4, <2>5
<1>6. \A where \in Places : Buffer!GoTo(t, where) /\ UNCHANGED bFrame =>
        OnlyOwn(t) /\ bPc'[t] = where /\ bFrame'[t] = bFrame[t]
  BY <1>1 DEF OnlyOwn, BufferTypeOK
<1> QED
  BY <1>2, <1>4, <1>5, <1>6

\* The steps of a call that only read shared words, and what they leave behind.
PushReads(p) ==
  \/ Buffer!PushCall(p)       \/ Buffer!PushReadsBuf(p)  \/ Buffer!PushReadsPos(p)   \/ Buffer!PushReadsTail(p)
  \/ Buffer!PushChecksRoom(p) \/ Buffer!PushChecksNum(p) \/ Buffer!PushChecksInfo(p) \/ Buffer!PushSwapFails(p)
PopReads(c) ==
  \/ Buffer!PopCall(c)        \/ Buffer!PopReadsBuf(c)   \/ Buffer!PopReadsPos(c)    \/ Buffer!PopReadsTail(c)
  \/ Buffer!PopChecksInfo(c)  \/ Buffer!PopReadsEnd(c)   \/ Buffer!PopTold(c)        \/ Buffer!PopSwapFails(c)

LEMMA PushReadsEffect ==
  ASSUME BufferParameters, BufferTypeOK, NEW p \in Pushers, PushReads(p)
  PROVE  /\ Buffer!NothingElse /\ OnlyOwn(p)
         /\ bPc[p] \in PushPlaces \ {"pushCopy", "pushSet"}
         /\ bPc'[p] \in PushPlaces \ {"pushCopy", "pushSet"}
         /\ bPc'[p] # "idle" => bSent[p] < MaxPush /\ bFrame'[p].size \in Lengths
         /\ bPc'[p] = "pushTail" => /\ bPc[p] = "pushPos"
                                    /\ bFrame'[p].at.pos = bTail.pos /\ bFrame'[p].at.tag = bTail.tag
         /\ bPc'[p] \in {"pushRoom", "pushNum", "pushInfo", "pushCas"} =>
               bFrame'[p].at = bFrame[p].at /\ bFrame'[p].size = bFrame[p].size
         /\ bPc'[p] = "pushRoom" => bPc[p] = "pushTail" /\ bFrame'[p].end = bTail.buf
         /\ bPc'[p] = "pushNum" => /\ bPc[p] = "pushRoom"
                                   /\ bFrame[p].size <= Buffer!GetFreeSize(bFrame[p].end, bHead.buf)
                                   /\ bFrame'[p].end = (bFrame[p].at.buf + bFrame[p].size) % BufferSize
         /\ bPc'[p] = "pushInfo" => /\ bPc[p] = "pushNum" /\ (bFrame[p].at.pos + 1) % BufferSize # bHead.pos
                                    /\ bFrame'[p] = bFrame[p]
         /\ bPc'[p] = "pushCas" => /\ bPc[p] = "pushInfo" /\ ~bInfo[bFrame[p].at.pos].flag
                                   /\ bFrame'[p] = bFrame[p]
<1>1. p \in Buffer!Threads /\ bPc[p] \in PushPlaces /\ bFrame[p] \in Calls /\ bTail \in Ends /\ bHead \in Ends
  BY DEF BufferTypeOK, Buffer!Threads
<1>2. /\ bTail.buf \in Buffer!Positions /\ bTail.pos \in Buffer!Positions /\ bTail.tag \in 0..(TagModulus - 1)
      /\ bHead.buf \in Buffer!Positions /\ bFrame[p].at.buf \in Buffer!Positions
      /\ bFrame[p].end \in Buffer!Positions
  BY <1>1 DEF Ends, Calls
<1>3. PushPlaces \subseteq Places
  BY DEF Places
<1>4. CASE Buffer!PushCall(p)
  <2> PICK len \in Lengths : Buffer!Locally(p, [Buffer!NoFrame EXCEPT !.size = len], "pushBuf")
    BY <1>4 DEF Buffer!PushCall
  <2>1. [Buffer!NoFrame EXCEPT !.size = len] \in Calls /\ [Buffer!NoFrame EXCEPT !.size = len].size = len
    BY NoFrameType DEF Calls, BufferParameters
  <2>2. "pushBuf" \in Places
    BY DEF Places, PushPlaces
  <2>3. OnlyOwn(p) /\ bPc'[p] = "pushBuf" /\ bFrame'[p].size = len
    BY <1>1, <2>1, <2>2, BufferLocalTypes
  <2> QED
    BY <1>4, <2>3 DEF Buffer!PushCall, PushPlaces
<1>5. CASE Buffer!PushReadsBuf(p)
  <2> DEFINE f == [bFrame[p] EXCEPT !.at.buf = bTail.buf]
  <2>1. f \in Calls /\ f.size = bFrame[p].size
    BY <1>1, <1>2 DEF Calls, Ends
  <2>2. "pushPos" \in Places /\ Buffer!Locally(p, f, "pushPos")
    BY <1>5 DEF Buffer!PushReadsBuf, Places, PushPlaces
  <2> HIDE DEF f
  <2>3. OnlyOwn(p) /\ bPc'[p] = "pushPos" /\ bFrame'[p] = f
    BY <1>1, <2>1, <2>2, BufferLocalTypes
  <2> QED
    BY <1>5, <2>1, <2>3 DEF Buffer!PushReadsBuf, PushPlaces, BufferTypeOK
<1>6. CASE Buffer!PushReadsPos(p)
  <2> DEFINE f == [bFrame[p] EXCEPT !.at.pos = bTail.pos, !.at.tag = bTail.tag]
  <2>1. f \in Calls /\ f.size = bFrame[p].size /\ f.at.pos = bTail.pos /\ f.at.tag = bTail.tag
    BY <1>1, <1>2 DEF Calls, Ends
  <2>2. "pushTail" \in Places /\ Buffer!Locally(p, f, "pushTail")
    BY <1>6 DEF Buffer!PushReadsPos, Places, PushPlaces
  <2> HIDE DEF f
  <2>3. OnlyOwn(p) /\ bPc'[p] = "pushTail" /\ bFrame'[p] = f
    BY <1>1, <2>1, <2>2, BufferLocalTypes
  <2> QED
    BY <1>6, <2>1, <2>3 DEF Buffer!PushReadsPos, PushPlaces, BufferTypeOK
<1>7. CASE Buffer!PushReadsTail(p)
  <2> DEFINE f == [bFrame[p] EXCEPT !.end = bTail.buf]
  <2>1. f \in Calls /\ f.size = bFrame[p].size /\ f.at = bFrame[p].at /\ f.end = bTail.buf
    BY <1>1, <1>2 DEF Calls, Ends
  <2>2. "pushRoom" \in Places /\ Buffer!Locally(p, f, "pushRoom")
    BY <1>7 DEF Buffer!PushReadsTail, Places, PushPlaces
  <2> HIDE DEF f
  <2>3. OnlyOwn(p) /\ bPc'[p] = "pushRoom" /\ bFrame'[p] = f
    BY <1>1, <2>1, <2>2, BufferLocalTypes
  <2> QED
    BY <1>7, <2>1, <2>3 DEF Buffer!PushReadsTail, PushPlaces, BufferTypeOK
<1>8. CASE Buffer!PushChecksRoom(p)
  <2> DEFINE e == (bFrame[p].at.buf + bFrame[p].size) % BufferSize
             f == [bFrame[p] EXCEPT !.end = e]
  <2>1. CASE bFrame[p].size > Buffer!GetFreeSize(bFrame[p].end, bHead.buf)
    <3>1. Buffer!Return(p)
      BY <1>8, <2>1 DEF Buffer!PushChecksRoom
    <3> QED
      BY <1>1, <1>8, <3>1, BufferLocalTypes DEF Buffer!PushChecksRoom, PushPlaces
  <2>2. CASE ~(bFrame[p].size > Buffer!GetFreeSize(bFrame[p].end, bHead.buf))
    <3>1. bFrame[p].size \in Nat /\ bFrame[p].size \in Lengths
      BY <1>8 DEF Buffer!PushChecksRoom, BufferTypeOK, BufferParameters
    <3>2. /\ Buffer!GetFreeSize(bFrame[p].end, bHead.buf) \in Int
          /\ Buffer!GetFreeSize(bFrame[p].end, bHead.buf) < BufferSize
      <4>1. Buffer!Distance(bHead.buf, bFrame[p].end) \in Buffer!Positions
        BY <1>2, DistanceValue
      <4> QED
        BY <4>1 DEF Buffer!GetFreeSize, Buffer!Positions, BufferParameters
    <3>3. bFrame[p].size <= Buffer!GetFreeSize(bFrame[p].end, bHead.buf) /\ bFrame[p].size < BufferSize
      <4> PICK x : x = Buffer!GetFreeSize(bFrame[p].end, bHead.buf)
        OBVIOUS
      <4> QED
        BY <2>2, <3>1, <3>2 DEF BufferParameters
    <3>4. e \in Buffer!Positions
      BY <1>2, <3>1, <3>3, EndOfSum
    <3> HIDE DEF e
    <3>5. f \in Calls /\ f.size = bFrame[p].size /\ f.at = bFrame[p].at /\ f.end = e
      BY <1>1, <3>4 DEF Calls
    <3>6. "pushNum" \in Places /\ Buffer!Locally(p, f, "pushNum")
      BY <1>8, <2>2 DEF Buffer!PushChecksRoom, Places, PushPlaces, e
    <3> HIDE DEF f
    <3>7. OnlyOwn(p) /\ bPc'[p] = "pushNum" /\ bFrame'[p] = f
      BY <1>1, <3>5, <3>6, BufferLocalTypes
    <3>8. Buffer!NothingElse /\ bPc[p] = "pushRoom"
      BY <1>8 DEF Buffer!PushChecksRoom
    <3>9. bSent[p] < MaxPush
      BY <3>8 DEF BufferTypeOK
    <3> QED
      BY <3>1, <3>3, <3>5, <3>7, <3>8, <3>9 DEF PushPlaces, e
  <2> QED
    BY <2>1, <2>2
<1>9. CASE Buffer!PushChecksNum(p)
  <2>1. "pushInfo" \in Places
    BY DEF Places, PushPlaces
  <2>2. OnlyOwn(p) /\ (bPc'[p] = "idle" \/ /\ bPc'[p] = "pushInfo" /\ bFrame'[p] = bFrame[p]
                                           /\ (bFrame[p].at.pos + 1) % BufferSize # bHead.pos)
    BY <1>1, <1>9, <2>1, BufferLocalTypes DEF Buffer!PushChecksNum
  <2> QED
    BY <1>9, <2>2 DEF Buffer!PushChecksNum, PushPlaces, BufferTypeOK
<1>10. CASE Buffer!PushChecksInfo(p)
  <2>1. "pushCas" \in Places /\ "pushBuf" \in Places
    BY DEF Places, PushPlaces
  <2>2. OnlyOwn(p) /\ \/ bPc'[p] = "idle"
                      \/ bPc'[p] = "pushBuf" /\ bFrame'[p].size = bFrame[p].size
                      \/ bPc'[p] = "pushCas" /\ bFrame'[p] = bFrame[p] /\ ~bInfo[bFrame[p].at.pos].flag
    BY <1>1, <1>10, <2>1, BufferLocalTypes DEF Buffer!PushChecksInfo
  <2> QED
    BY <1>10, <2>2 DEF Buffer!PushChecksInfo, PushPlaces, BufferTypeOK
<1>11. CASE Buffer!PushSwapFails(p)
  <2>1. "pushBuf" \in Places
    BY DEF Places, PushPlaces
  <2>2. OnlyOwn(p) /\ (bPc'[p] = "idle" \/ (bPc'[p] = "pushBuf" /\ bFrame'[p].size = bFrame[p].size))
    BY <1>1, <1>11, <2>1, BufferLocalTypes DEF Buffer!PushSwapFails
  <2> QED
    BY <1>11, <2>2 DEF Buffer!PushSwapFails, PushPlaces, BufferTypeOK
<1> QED
  BY <1>4, <1>5, <1>6, <1>7, <1>8, <1>9, <1>10, <1>11 DEF PushReads

LEMMA PopReadsEffect ==
  ASSUME BufferParameters, BufferTypeOK, NEW c \in LonePoppers, PopReads(c)
  PROVE  /\ Buffer!NothingElse /\ OnlyOwn(c)
         /\ bPc[c] \in PopPlaces \ {"popCopy", "popClear"} /\ bPc'[c] \in PopPlaces \ {"popCopy", "popClear"}
         /\ bPc'[c] = "popPos" => bFrame'[c].at.buf = bHead.buf
         /\ bPc'[c] = "popSome" => /\ bPc[c] = "popPos" /\ bFrame'[c].at.buf = bFrame[c].at.buf
                                   /\ bFrame'[c].at.pos = bHead.pos /\ bFrame'[c].at.tag = bHead.tag
         /\ bPc'[c] \in {"popInfo", "popEnd", "popTold", "popCas"} =>
               bFrame'[c].at = bFrame[c].at /\ bFrame'[c].size = bFrame[c].size
         /\ bPc'[c] = "popInfo" => bPc[c] = "popSome" /\ bFrame[c].at.pos # bTail.pos
         /\ bPc'[c] = "popEnd" => bPc[c] = "popInfo" /\ bInfo[bFrame[c].at.pos].flag
         /\ bPc'[c] = "popTold" => /\ bPc[c] = "popEnd" /\ bFrame'[c].told > bFrame'[c].size
                                   /\ bFrame'[c].told = Buffer!Distance(bFrame[c].at.buf, bInfo[bFrame[c].at.pos].end)
         /\ bPc'[c] = "popCas" => bPc[c] = "popEnd" /\ bFrame'[c].end = bInfo[bFrame[c].at.pos].end
<1>1. c \in Buffer!Threads /\ bPc[c] \in PopPlaces /\ bFrame[c] \in Calls /\ bHead \in Ends
  BY DEF BufferTypeOK, Buffer!Threads
<1>2. /\ bHead.buf \in Buffer!Positions /\ bHead.pos \in Buffer!Positions /\ bHead.tag \in 0..(TagModulus - 1)
      /\ bFrame[c].at.buf \in Buffer!Positions /\ bFrame[c].at.pos \in Buffer!Positions
      /\ bFrame[c].size \in Int
  BY <1>1 DEF Ends, Calls
<1>3. bInfo[bFrame[c].at.pos].end \in Buffer!Positions
  BY <1>2 DEF BufferTypeOK
<1>4. CASE Buffer!PopCall(c)
  <2> PICK len \in Lengths : Buffer!Locally(c, [Buffer!NoFrame EXCEPT !.size = len], "popBuf")
    BY <1>4 DEF Buffer!PopCall
  <2>1. [Buffer!NoFrame EXCEPT !.size = len] \in Calls
    BY NoFrameType DEF Calls, BufferParameters
  <2>2. "popBuf" \in Places
    BY DEF Places, PopPlaces
  <2>3. OnlyOwn(c) /\ bPc'[c] = "popBuf"
    BY <1>1, <2>1, <2>2, BufferLocalTypes
  <2> QED
    BY <1>4, <2>3 DEF Buffer!PopCall, PopPlaces
<1>5. CASE Buffer!PopReadsBuf(c)
  <2> DEFINE f == [bFrame[c] EXCEPT !.at.buf = bHead.buf]
  <2>1. f \in Calls /\ f.at.buf = bHead.buf
    BY <1>1, <1>2 DEF Calls, Ends
  <2>2. "popPos" \in Places /\ Buffer!Locally(c, f, "popPos")
    BY <1>5 DEF Buffer!PopReadsBuf, Places, PopPlaces
  <2> HIDE DEF f
  <2>3. OnlyOwn(c) /\ bPc'[c] = "popPos" /\ bFrame'[c] = f
    BY <1>1, <2>1, <2>2, BufferLocalTypes
  <2> QED
    BY <1>5, <2>1, <2>3 DEF Buffer!PopReadsBuf, PopPlaces
<1>6. CASE Buffer!PopReadsPos(c)
  <2> DEFINE f == [bFrame[c] EXCEPT !.at.pos = bHead.pos, !.at.tag = bHead.tag]
  <2>1. f \in Calls /\ f.at.buf = bFrame[c].at.buf /\ f.at.pos = bHead.pos /\ f.at.tag = bHead.tag
    BY <1>1, <1>2 DEF Calls, Ends
  <2>2. "popSome" \in Places /\ Buffer!Locally(c, f, "popSome")
    BY <1>6 DEF Buffer!PopReadsPos, Places, PopPlaces
  <2> HIDE DEF f
  <2>3. OnlyOwn(c) /\ bPc'[c] = "popSome" /\ bFrame'[c] = f
    BY <1>1, <2>1, <2>2, BufferLocalTypes
  <2> QED
    BY <1>6, <2>1, <2>3 DEF Buffer!PopReadsPos, PopPlaces
<1>7. CASE Buffer!PopReadsTail(c)
  <2>1. "popInfo" \in Places
    BY DEF Places, PopPlaces
  <2>2. Buffer!Return(c) \/ (Buffer!GoTo(c, "popInfo") /\ UNCHANGED bFrame /\ bFrame[c].at.pos # bTail.pos)
    BY <1>7 DEF Buffer!PopReadsTail
  <2>3. OnlyOwn(c) /\ (bPc'[c] = "idle" \/ (bPc'[c] = "popInfo" /\ bFrame'[c] = bFrame[c] /\ bFrame[c].at.pos # bTail.pos))
    BY <1>1, <2>1, <2>2, BufferLocalTypes
  <2> QED
    BY <1>7, <2>3 DEF Buffer!PopReadsTail, PopPlaces
<1>8. CASE Buffer!PopChecksInfo(c)
  <2>1. "popEnd" \in Places
    BY DEF Places, PopPlaces
  <2>2. Buffer!Return(c) \/ (Buffer!GoTo(c, "popEnd") /\ UNCHANGED bFrame /\ bInfo[bFrame[c].at.pos].flag)
    BY <1>8 DEF Buffer!PopChecksInfo
  <2>3. OnlyOwn(c) /\ (bPc'[c] = "idle" \/ (bPc'[c] = "popEnd" /\ bFrame'[c] = bFrame[c] /\ bInfo[bFrame[c].at.pos].flag))
    BY <1>1, <2>1, <2>2, BufferLocalTypes
  <2> QED
    BY <1>8, <2>3 DEF Buffer!PopChecksInfo, PopPlaces
<1>9. CASE Buffer!PopReadsEnd(c)
  <2> DEFINE e == bInfo[bFrame[c].at.pos].end
             d == Buffer!Distance(bFrame[c].at.buf, e)
             f == [bFrame[c] EXCEPT !.told = d]
             g == [bFrame[c] EXCEPT !.end = e]
  <2>1. d \in Buffer!Positions /\ d \in Int
    BY <1>2, <1>3, DistanceValue DEF Buffer!Positions
  <2>2. Buffer!NothingElse /\ bPc[c] = "popEnd" /\ \/ bFrame[c].size < d /\ Buffer!Locally(c, f, "popTold")
                                                   \/ Buffer!Locally(c, g, "popCas")
    BY <1>9 DEF Buffer!PopReadsEnd
  <2> HIDE DEF d, e
  <2>3. f \in Calls /\ f.at = bFrame[c].at /\ f.size = bFrame[c].size /\ f.told = d
    BY <1>1, <2>1 DEF Calls
  <2>4. g \in Calls /\ g.at = bFrame[c].at /\ g.size = bFrame[c].size /\ g.end = e
    BY <1>1, <1>3 DEF Calls, e
  <2>5. "popTold" \in Places /\ "popCas" \in Places
    BY DEF Places, PopPlaces
  <2> HIDE DEF f, g
  <2>6. OnlyOwn(c) /\ \/ bPc'[c] = "popTold" /\ bFrame'[c] = f /\ bFrame[c].size < d
                      \/ bPc'[c] = "popCas" /\ bFrame'[c] = g
    BY <1>1, <2>2, <2>3, <2>4, <2>5, BufferLocalTypes
  <2>7. bFrame[c].size < d => d > bFrame[c].size
    BY <1>2, <2>1
  <2> QED
    BY <2>2, <2>3, <2>4, <2>6, <2>7 DEF PopPlaces, d, e
<1>10. CASE Buffer!PopTold(c)
  BY <1>1, <1>10, BufferLocalTypes DEF Buffer!PopTold, PopPlaces
<1>11. CASE Buffer!PopSwapFails(c)
  <2>1. "popBuf" \in Places
    BY DEF Places, PopPlaces
  <2>2. OnlyOwn(c) /\ (bPc'[c] = "idle" \/ bPc'[c] = "popBuf")
    BY <1>1, <1>11, <2>1, BufferLocalTypes DEF Buffer!PopSwapFails
  <2> QED
    BY <1>11, <2>2 DEF Buffer!PopSwapFails, PopPlaces
<1> QED
  BY <1>4, <1>5, <1>6, <1>7, <1>8, <1>9, <1>10, <1>11 DEF PopReads

LEMMA PushSwapsEffect ==
  ASSUME BufferParameters, BufferTypeOK, NEW p \in Pushers, Buffer!PushSwaps(p)
  PROVE  /\ OnlyOwn(p) /\ bPc'[p] = "pushCopy" /\ bFrame' = bFrame /\ bSent[p] < MaxPush
         /\ bFrame[p].size \in Lengths
         /\ Buffer!Outgoing(p) \in Buffer!Messages /\ Buffer!Outgoing(p).size = bFrame[p].size
         /\ bTail = bFrame[p].at /\ bTail' \in Ends
         /\ bTail'.buf = bFrame[p].end /\ bTail'.pos = Beyond(bTail.pos)
         /\ bTail'.tag = (bTail.tag + 1) % TagModulus
         /\ bClaim' = [bClaim EXCEPT ![bTail.pos] = Buffer!Outgoing(p)]
         /\ UNCHANGED <<bHead, bBytes, bInfo, bSent, bGot, bOverrun>>
<1>1. p \in Buffer!Threads /\ bFrame[p] \in Calls /\ bPc[p] = "pushCas" /\ bTail = bFrame[p].at
  BY DEF Buffer!PushSwaps, BufferTypeOK, Buffer!Threads
<1>2. bFrame[p].at \in Ends /\ bFrame[p].end \in Buffer!Positions
  BY <1>1 DEF Calls
<1>3. OnlyOwn(p) /\ bPc'[p] = "pushCopy" /\ bFrame' = bFrame
  <2>1. "pushCopy" \in Places /\ Buffer!GoTo(p, "pushCopy") /\ UNCHANGED bFrame
    BY DEF Buffer!PushSwaps, Places, PushPlaces
  <2> QED
    BY <1>1, <2>1, BufferLocalTypes
<1>4. bSent[p] \in 0..MaxPush /\ bSent[p] < MaxPush /\ bFrame[p].size \in Lengths
  BY <1>1 DEF BufferTypeOK
<1>5. Buffer!Outgoing(p) \in Buffer!Messages /\ Buffer!Outgoing(p).size = bFrame[p].size
  BY <1>4 DEF Buffer!Outgoing, Buffer!Messages, BufferParameters
<1>6. /\ bTail'.buf = bFrame[p].end /\ bTail'.pos = Beyond(bTail.pos)
      /\ bTail'.tag = (bTail.tag + 1) % TagModulus
      /\ bTail' \in Ends
  <2>1. bTail.pos \in Buffer!Positions /\ bTail.tag \in 0..(TagModulus - 1)
    BY <1>1, <1>2 DEF Ends
  <2>2. (bTail.pos + 1) % BufferSize = Beyond(bTail.pos) /\ Beyond(bTail.pos) \in Buffer!Positions
    BY <2>1, BeyondValue
  <2>3. (bTail.tag + 1) % TagModulus \in 0..(TagModulus - 1)
    BY <2>1, TagAgoStep
  <2>4. bTail' = [buf |-> bFrame[p].end, pos |-> (bTail.pos + 1) % BufferSize, tag |-> (bTail.tag + 1) % TagModulus]
    BY <1>1 DEF Buffer!PushSwaps, Buffer!Advance
  <2> QED
    BY <1>2, <2>2, <2>3, <2>4 DEF Ends
<1> QED
  BY <1>1, <1>3, <1>4, <1>5, <1>6 DEF Buffer!PushSwaps

LEMMA PushCopiesEffect ==
  ASSUME BufferParameters, BufferTypeOK, NEW p \in Pushers, Buffer!PushCopies(p)
  PROVE  /\ OnlyOwn(p) /\ bPc[p] = "pushCopy" /\ bPc'[p] = "pushSet" /\ bFrame' = bFrame
         /\ bSent[p] < MaxPush /\ bFrame[p].size \in Lengths
         /\ bBytes' \in [Buffer!Positions -> ByteValues] /\ bOverrun' \in [LonePoppers -> BOOLEAN]
         /\ \A i \in Buffer!Positions :
              bBytes'[i] = IF i \in Buffer!Cells(bFrame[p].at.buf, bFrame[p].size)
                             THEN <<Buffer!Outgoing(p), Gap(bFrame[p].at.buf, i) + 1>> ELSE bBytes[i]
         /\ \A c \in LonePoppers :
              bPc[c] = "popCopy" =>
                 \/ bOverrun'[c]
                 \/ ~bOverrun[c] /\ \A i \in Buffer!Cells(bFrame[p].at.buf, bFrame[p].size) :
                      i \notin Buffer!Cells(bFrame[c].at.buf, Buffer!Distance(bFrame[c].at.buf, bFrame[c].end))
         /\ \A c \in LonePoppers : bOverrun[c] => bOverrun'[c]
         /\ UNCHANGED <<bHead, bTail, bInfo, bSent, bGot, bClaim>>
<1>1. p \in Buffer!Threads /\ bFrame[p] \in Calls /\ bPc[p] = "pushCopy"
  BY DEF Buffer!PushCopies, BufferTypeOK, Buffer!Threads
<1>2. OnlyOwn(p) /\ bPc'[p] = "pushSet" /\ bFrame' = bFrame
  <2>1. "pushSet" \in Places /\ Buffer!GoTo(p, "pushSet") /\ UNCHANGED bFrame
    BY DEF Buffer!PushCopies, Places, PushPlaces
  <2> QED
    BY <1>1, <2>1, BufferLocalTypes
<1>3. /\ bSent[p] \in 0..MaxPush /\ bSent[p] < MaxPush /\ bFrame[p].size \in Lengths
      /\ bFrame[p].at.buf \in Buffer!Positions
  BY <1>1 DEF BufferTypeOK, Calls, Ends
<1>4. Buffer!Outgoing(p) \in Buffer!Messages
  BY <1>3 DEF Buffer!Outgoing, Buffer!Messages, BufferParameters
<1> DEFINE run == Buffer!Cells(bFrame[p].at.buf, bFrame[p].size)
<1>5. \A i \in Buffer!Positions : /\ bBytes'[i] = IF i \in run THEN <<Buffer!Outgoing(p), Gap(bFrame[p].at.buf, i) + 1>> ELSE bBytes[i]
                                  /\ <<Buffer!Outgoing(p), Gap(bFrame[p].at.buf, i) + 1>> \in ByteValues
  <2> TAKE i \in Buffer!Positions
  <2>1. /\ Buffer!Distance(bFrame[p].at.buf, i) = Gap(bFrame[p].at.buf, i)
        /\ Gap(bFrame[p].at.buf, i) \in Buffer!Positions
    BY <1>3, DistanceValue
  <2>2. Gap(bFrame[p].at.buf, i) + 1 \in Nat \ {0}
    BY <2>1 DEF Buffer!Positions
  <2>3. bBytes'[i] = IF i \in run THEN <<Buffer!Outgoing(p), Buffer!Distance(bFrame[p].at.buf, i) + 1>> ELSE bBytes[i]
    <3> HIDE DEF run
    <3> QED
      BY DEF Buffer!PushCopies, run
  <2> QED
    BY <1>4, <2>1, <2>2, <2>3 DEF ByteValues
<1>6. bBytes' \in [Buffer!Positions -> ByteValues]
  <2>1. bBytes' = [i \in Buffer!Positions |-> bBytes'[i]]
    BY DEF Buffer!PushCopies
  <2>2. \A i \in Buffer!Positions : bBytes'[i] \in ByteValues
    <3> HIDE DEF run
    <3> QED
      BY <1>5 DEF BufferTypeOK
  <2> QED
    BY <2>1, <2>2
<1> HIDE DEF run
<1>7. \A c \in LonePoppers : bOverrun'[c] = (\/ bOverrun[c]
                                             \/ /\ bPc[c] = "popCopy"
                                                /\ run \cap Buffer!Cells(bFrame[c].at.buf, Buffer!Distance(bFrame[c].at.buf, bFrame[c].end)) # {})
  BY DEF Buffer!PushCopies, run
<1>8. bOverrun' \in [LonePoppers -> BOOLEAN]
  BY DEF Buffer!PushCopies, BufferTypeOK
<1>9. UNCHANGED <<bHead, bTail, bInfo, bSent, bGot, bClaim>>
  BY DEF Buffer!PushCopies
<1> QED
  BY <1>1, <1>2, <1>3, <1>5, <1>6, <1>7, <1>8, <1>9 DEF run, BufferTypeOK

LEMMA PushSetsEffect ==
  ASSUME BufferParameters, BufferTypeOK, NEW p \in Pushers, Buffer!PushSetsInfo(p)
  PROVE  /\ OnlyOwn(p) /\ bPc[p] = "pushSet" /\ bPc'[p] = "idle"
         /\ bInfo' = [bInfo EXCEPT ![bFrame[p].at.pos] = [end |-> bFrame[p].end, flag |-> TRUE]]
         /\ bFrame[p].at.pos \in Buffer!Positions
         /\ bInfo' \in [Buffer!Positions -> [end : Buffer!Positions, flag : BOOLEAN]]
         /\ bSent' \in [Pushers -> 0..MaxPush] /\ \A q \in Pushers : q # p => bSent'[q] = bSent[q]
         /\ UNCHANGED <<bHead, bTail, bBytes, bGot, bClaim, bOverrun>>
<1>1. p \in Buffer!Threads /\ bFrame[p] \in Calls /\ bPc[p] = "pushSet"
  BY DEF Buffer!PushSetsInfo, BufferTypeOK, Buffer!Threads
<1>2. OnlyOwn(p) /\ bPc'[p] = "idle"
  BY <1>1, BufferLocalTypes DEF Buffer!PushSetsInfo
<1>3. bFrame[p].at.pos \in Buffer!Positions /\ bFrame[p].end \in Buffer!Positions
  BY <1>1 DEF Calls, Ends
<1>4. bSent[p] \in 0..MaxPush /\ bSent[p] < MaxPush /\ bSent[p] + 1 \in 0..MaxPush
  BY <1>1 DEF BufferTypeOK, BufferParameters
<1> QED
  BY <1>1, <1>2, <1>3, <1>4 DEF Buffer!PushSetsInfo, BufferTypeOK

LEMMA PopSwapsEffect ==
  ASSUME BufferParameters, BufferTypeOK, NEW c \in LonePoppers, Buffer!PopSwaps(c)
  PROVE  /\ OnlyOwn(c) /\ bPc[c] = "popCas" /\ bPc'[c] = "popCopy" /\ bFrame' = bFrame
         /\ bHead = bFrame[c].at /\ bHead' \in Ends
         /\ bHead'.buf = bFrame[c].end /\ bHead'.pos = Beyond(bHead.pos)
         /\ bHead'.tag = (bHead.tag + 1) % TagModulus
         /\ bOverrun' = [bOverrun EXCEPT ![c] = FALSE]
         /\ UNCHANGED <<bTail, bBytes, bInfo, bSent, bGot, bClaim>>
<1>1. c \in Buffer!Threads /\ bFrame[c] \in Calls /\ bPc[c] = "popCas" /\ bHead = bFrame[c].at
  BY DEF Buffer!PopSwaps, BufferTypeOK, Buffer!Threads
<1>2. bFrame[c].at \in Ends /\ bFrame[c].end \in Buffer!Positions
  BY <1>1 DEF Calls
<1>3. OnlyOwn(c) /\ bPc'[c] = "popCopy" /\ bFrame' = bFrame
  <2>1. "popCopy" \in Places /\ Buffer!GoTo(c, "popCopy") /\ UNCHANGED bFrame
    BY DEF Buffer!PopSwaps, Places, PopPlaces
  <2> QED
    BY <1>1, <2>1, BufferLocalTypes
<1>4. /\ bHead'.buf = bFrame[c].end /\ bHead'.pos = Beyond(bHead.pos)
      /\ bHead'.tag = (bHead.tag + 1) % TagModulus
      /\ bHead' \in Ends
  <2>1. bHead.pos \in Buffer!Positions /\ bHead.tag \in 0..(TagModulus - 1)
    BY <1>1, <1>2 DEF Ends
  <2>2. (bHead.pos + 1) % BufferSize = Beyond(bHead.pos) /\ Beyond(bHead.pos) \in Buffer!Positions
    BY <2>1, BeyondValue
  <2>3. (bHead.tag + 1) % TagModulus \in 0..(TagModulus - 1)
    BY <2>1, TagAgoStep
  <2>4. bHead' = [buf |-> bFrame[c].end, pos |-> (bHead.pos + 1) % BufferSize, tag |-> (bHead.tag + 1) % TagModulus]
    BY <1>1 DEF Buffer!PopSwaps, Buffer!Advance
  <2> QED
    BY <1>2, <2>2, <2>3, <2>4 DEF Ends
<1> QED
  BY <1>1, <1>3, <1>4 DEF Buffer!PopSwaps

LEMMA PopCopiesEffect ==
  ASSUME BufferParameters, BufferTypeOK, NEW c \in LonePoppers, Buffer!PopCopies(c)
  PROVE  /\ OnlyOwn(c) /\ bPc[c] = "popCopy" /\ bPc'[c] = "popClear" /\ bFrame' = bFrame
         /\ bGot' \in [LonePoppers -> Seq(ByteValues)] /\ \A d \in LonePoppers : d # c => bGot'[d] = bGot[d]
         /\ bGot'[c] = [k \in 1..Gap(bFrame[c].at.buf, bFrame[c].end) |-> bBytes[(bFrame[c].at.buf + k - 1) % BufferSize]]
         /\ UNCHANGED <<Buffer!shared, bSent, bClaim, bOverrun>>
<1>1. c \in Buffer!Threads /\ bFrame[c] \in Calls /\ bPc[c] = "popCopy"
  BY DEF Buffer!PopCopies, BufferTypeOK, Buffer!Threads
<1>2. OnlyOwn(c) /\ bPc'[c] = "popClear" /\ bFrame' = bFrame
  <2>1. "popClear" \in Places /\ Buffer!GoTo(c, "popClear") /\ UNCHANGED bFrame
    BY DEF Buffer!PopCopies, Places, PopPlaces
  <2> QED
    BY <1>1, <2>1, BufferLocalTypes
<1> DEFINE n == Gap(bFrame[c].at.buf, bFrame[c].end)
           s == [k \in 1..n |-> bBytes[(bFrame[c].at.buf + k - 1) % BufferSize]]
<1>3. /\ n \in Buffer!Positions /\ n = Buffer!Distance(bFrame[c].at.buf, bFrame[c].end)
      /\ bFrame[c].at.buf \in Buffer!Positions
  BY <1>1, DistanceValue DEF Calls, Ends
<1>4. bGot' = [bGot EXCEPT ![c] = s]
  BY <1>3 DEF Buffer!PopCopies
<1> HIDE DEF n
<1>5. ASSUME NEW k \in 1..n PROVE bBytes[(bFrame[c].at.buf + k - 1) % BufferSize] \in ByteValues
  <2> PICK j : j = k - 1
    OBVIOUS
  <2>1. j \in Nat /\ j <= BufferSize /\ bFrame[c].at.buf + k - 1 = bFrame[c].at.buf + j
    BY <1>3 DEF Buffer!Positions, BufferParameters
  <2>2. (bFrame[c].at.buf + j) % BufferSize \in Buffer!Positions
    BY <1>3, <2>1, SumValue
  <2> QED
    BY <2>1, <2>2 DEF BufferTypeOK
<1>6. s \in Seq(ByteValues)
  <2>1. n \in Nat
    BY <1>3 DEF Buffer!Positions
  <2>2. s \in [1..n -> ByteValues]
    BY <1>5
  <2> HIDE DEF s
  <2> QED
    BY <2>1, <2>2
<1> HIDE DEF s
<1>7. bGot' \in [LonePoppers -> Seq(ByteValues)] /\ bGot'[c] = s /\ \A d \in LonePoppers : d # c => bGot'[d] = bGot[d]
  BY <1>4, <1>6 DEF BufferTypeOK
<1> QED
  BY <1>1, <1>2, <1>7 DEF Buffer!PopCopies, s, n

LEMMA PopClearsEffect ==
  ASSUME BufferParameters, BufferTypeOK, NEW c \in LonePoppers, Buffer!PopClearsInfo(c)
  PROVE  /\ OnlyOwn(c) /\ bPc[c] = "popClear" /\ bPc'[c] = "idle"
         /\ bInfo' = [bInfo EXCEPT ![bFrame[c].at.pos] = Buffer!EmptyInfo]
         /\ bFrame[c].at.pos \in Buffer!Positions
         /\ bInfo' \in [Buffer!Positions -> [end : Buffer!Positions, flag : BOOLEAN]]
         /\ bGot' \in [LonePoppers -> Seq(ByteValues)] /\ \A d \in LonePoppers : d # c => bGot'[d] = bGot[d]
         /\ bOverrun' = [bOverrun EXCEPT ![c] = FALSE]
         /\ UNCHANGED <<bHead, bTail, bBytes, bSent, bClaim>>
<1>1. c \in Buffer!Threads /\ bFrame[c] \in Calls /\ bPc[c] = "popClear"
  BY DEF Buffer!PopClearsInfo, BufferTypeOK, Buffer!Threads
<1>2. OnlyOwn(c) /\ bPc'[c] = "idle"
  BY <1>1, BufferLocalTypes DEF Buffer!PopClearsInfo
<1>3. bFrame[c].at.pos \in Buffer!Positions
  BY <1>1 DEF Calls, Ends
<1>4. <<>> \in Seq(ByteValues)
  OBVIOUS
<1> QED
  BY <1>1, <1>2, <1>3, <1>4, NoFrameType DEF Buffer!PopClearsInfo, BufferTypeOK

\* Every step is one of these.
LEMMA BufferSteps ==
  ASSUME Buffer!Next
  PROVE  \/ \E p \in Pushers : PushReads(p) \/ Buffer!PushSwaps(p) \/ Buffer!PushCopies(p) \/ Buffer!PushSetsInfo(p)
         \/ \E c \in LonePoppers : PopReads(c) \/ Buffer!PopSwaps(c) \/ Buffer!PopCopies(c) \/ Buffer!PopClearsInfo(c)
BY DEF Buffer!Next, Buffer!PushStep, Buffer!PopStep, PushReads, PopReads

LEMMA BufferTypeStep == ASSUME BufferParameters, BufferTypeOK, Buffer!Next PROVE BufferTypeOK'
<1> USE DEF Places
<1>1. Pushers \cap LonePoppers = {} /\ \A t : t \in Buffer!Threads <=> t \in Pushers \/ t \in LonePoppers
  BY DEF BufferParameters, Buffer!Threads
<1>2. ASSUME NEW p \in Pushers, PushReads(p) PROVE BufferTypeOK'
  <2>1. /\ OnlyOwn(p) /\ bPc'[p] \in PushPlaces /\ (bPc'[p] # "idle" => bSent[p] < MaxPush /\ bFrame'[p].size \in Lengths)
        /\ UNCHANGED <<bHead, bTail, bBytes, bInfo, bSent, bGot, bClaim, bOverrun>>
    BY <1>2, PushReadsEffect DEF Buffer!NothingElse, Buffer!shared
  <2> QED
    BY <1>1, <2>1 DEF BufferTypeOK, OnlyOwn
<1>3. ASSUME NEW p \in Pushers, Buffer!PushSwaps(p) PROVE BufferTypeOK'
  <2>1. "pushCopy" \in PushPlaces
    BY DEF PushPlaces
  <2>2. bTail.pos \in Buffer!Positions
    BY DEF BufferTypeOK, Ends
  <2> QED
    <3>1. /\ OnlyOwn(p) /\ bPc'[p] = "pushCopy" /\ bFrame' = bFrame /\ bSent[p] < MaxPush
          /\ bFrame[p].size \in Lengths /\ Buffer!Outgoing(p) \in Buffer!Messages /\ bTail' \in Ends
          /\ bClaim' = [bClaim EXCEPT ![bTail.pos] = Buffer!Outgoing(p)]
          /\ UNCHANGED <<bHead, bBytes, bInfo, bSent, bGot, bOverrun>>
      BY <1>3, PushSwapsEffect
    <3> QED
      BY <1>1, <2>1, <2>2, <3>1 DEF BufferTypeOK, OnlyOwn
<1>4. ASSUME NEW p \in Pushers, Buffer!PushCopies(p) PROVE BufferTypeOK'
  <2>1. "pushSet" \in PushPlaces
    BY DEF PushPlaces
  <2> QED
    BY <1>1, <1>4, <2>1, PushCopiesEffect DEF BufferTypeOK, OnlyOwn
<1>5. ASSUME NEW p \in Pushers, Buffer!PushSetsInfo(p) PROVE BufferTypeOK'
  <2>1. "idle" \in PushPlaces
    BY DEF PushPlaces
  <2> QED
    BY <1>1, <1>5, <2>1, PushSetsEffect DEF BufferTypeOK, OnlyOwn
<1>6. ASSUME NEW c \in LonePoppers, PopReads(c) PROVE BufferTypeOK'
  <2>1. /\ OnlyOwn(c) /\ bPc'[c] \in PopPlaces
        /\ UNCHANGED <<bHead, bTail, bBytes, bInfo, bSent, bGot, bClaim, bOverrun>>
    BY <1>6, PopReadsEffect DEF Buffer!NothingElse, Buffer!shared
  <2> QED
    BY <1>1, <2>1 DEF BufferTypeOK, OnlyOwn
<1>7. ASSUME NEW c \in LonePoppers, Buffer!PopSwaps(c) PROVE BufferTypeOK'
  <2>1. "popCopy" \in PopPlaces
    BY DEF PopPlaces
  <2> QED
    BY ZenonT(60), <1>1, <1>7, <2>1, PopSwapsEffect DEF BufferTypeOK, OnlyOwn
<1>8. ASSUME NEW c \in LonePoppers, Buffer!PopCopies(c) PROVE BufferTypeOK'
  <2>1. "popClear" \in PopPlaces
    BY DEF PopPlaces
  <2> QED
    BY <1>1, <1>8, <2>1, PopCopiesEffect DEF BufferTypeOK, OnlyOwn, Buffer!shared
<1>9. ASSUME NEW c \in LonePoppers, Buffer!PopClearsInfo(c) PROVE BufferTypeOK'
  <2>1. "idle" \in PopPlaces
    BY DEF PopPlaces
  <2> QED
    BY ZenonT(60), <1>1, <1>9, <2>1, PopClearsEffect DEF BufferTypeOK, OnlyOwn
<1> QED
  BY <1>2, <1>3, <1>4, <1>5, <1>6, <1>7, <1>8, <1>9, BufferSteps

LEMMA BufferHistoriesStep == ASSUME BufferParameters, BufferTypeOK, BufferHistoriesOK, BufferStep
                             PROVE  BufferHistoriesOK'
<1>1. BufferTypeOK'
  BY BufferTypeStep DEF BufferStep
<1>2. bTail'.buf \in Buffer!Positions /\ bTail'.pos \in Buffer!Positions
  BY <1>1 DEF BufferTypeOK, Ends
<1> QED
  BY <1>2 DEF BufferHistoriesOK, BufferStep, BufferHistories

--------------------------------------------------------------------------------
(* The two swaps *)

LEMMA EqualIsCurrent ==
  ASSUME BufferParameters, BufferIInv, BufferAwake, NEW t \in Buffer!Threads, bPc[t] \in HasCopy,
         EndOf(t) = bFrame[t].at
  PROVE  UpToDate(t)
<1>1. EndOf(t).tag \in 0..(TagModulus - 1) /\ bLag[t] \in Nat /\ bLag[t] < TagModulus
  BY DEF BufferIInv, BufferTypeOK, BufferHistoriesOK, Ends, EndOf, BufferAwake
<1>2. bFrame[t].at.tag = TagAgo(EndOf(t).tag, bLag[t])
  BY <1>1 DEF BufferIInv, TagsKept
<1>3. bLag[t] = 0
  BY <1>1, <1>2, TagAgoFacts
<1> QED
  BY <1>3 DEF UpToDate

LEMMA NextRecord ==
  ASSUME BufferParameters, NEW h \in Buffer!Positions, NEW t \in Buffer!Positions, NEW i \in Buffer!Positions,
         Gap(h, i) < Gap(h, t)
  PROVE  Beyond(i) \in Buffer!Positions /\ Gap(h, Beyond(i)) = Gap(h, i) + 1
BY DEF Gap, Beyond, Buffer!Positions, BufferParameters

LEMMA PushSwapFacts ==
  ASSUME BufferParameters, BufferIInv, BufferAwake, BufferHistories, NEW p \in Pushers, Buffer!PushSwaps(p)
  PROVE  /\ bFrame[p].size \in Nat \ {0} /\ Gap(bTail.buf, bTail'.buf) = bFrame[p].size
         /\ bFrame[p].size + Gap(bHead.buf, bTail.buf) < BufferSize
         /\ Beyond(bTail.pos) # bHead.pos /\ ~bInfo[bTail.pos].flag /\ ~Held(bTail.pos)
         /\ Gap(bHead.pos, bTail'.pos) = Gap(bHead.pos, bTail.pos) + 1
         /\ \A i \in Buffer!Positions : Held(i)' <=> Held(i) \/ i = bTail.pos
         /\ bStart' = [bStart EXCEPT ![Beyond(bTail.pos)] = bTail'.buf]
<1>1. /\ bTail = bFrame[p].at /\ bTail'.buf = bFrame[p].end /\ bTail'.pos = Beyond(bTail.pos)
      /\ bHead' = bHead
      /\ bFrame[p].size \in Lengths
  BY PushSwapsEffect DEF BufferIInv
<1>2. bPc[p] = "pushCas" /\ p \in Buffer!Threads /\ p \in Pushers
  BY DEF Buffer!PushSwaps, Buffer!Threads
<1>3. UpToDate(p)
  BY <1>1, <1>2, EqualIsCurrent DEF EndOf, HasCopy
<1>4. /\ bFrame[p].size < BufferSize /\ Gap(bTail.buf, bTail'.buf) = bFrame[p].size
      /\ bFrame[p].size + Gap(bHead.buf, bTail.buf) < BufferSize
      /\ Beyond(bTail.pos) # bHead.pos /\ ~bInfo[bTail.pos].flag
  BY <1>1, <1>2, <1>3 DEF BufferIInv, ChecksHold
<1>5. bTail.pos \in Buffer!Positions /\ bHead.pos \in Buffer!Positions
  BY DEF BufferIInv, BufferTypeOK, Ends
<1>6. /\ Gap(bHead.pos, Beyond(bTail.pos)) = Gap(bHead.pos, bTail.pos) + 1
      /\ \A i \in Buffer!Positions : Gap(bHead.pos, i) < Gap(bHead.pos, bTail.pos) + 1
                                       <=> i = bTail.pos \/ Gap(bHead.pos, i) < Gap(bHead.pos, bTail.pos)
  BY <1>4, <1>5, BufferTailMoves
<1>7. ~Held(bTail.pos)
  BY <1>5, GapNat DEF Held, BufferParameters
<1> QED
  BY <1>1, <1>4, <1>6, <1>7 DEF BufferHistories, BufferParameters, Held

LEMMA PopSwapFacts ==
  ASSUME BufferParameters, BufferIInv, BufferAwake, BufferHistories, NEW c \in LonePoppers, Buffer!PopSwaps(c)
  PROVE  /\ bHead.pos # bTail.pos /\ Held(bHead.pos) /\ bInfo[bHead.pos].flag
         /\ bHead'.buf = bStart[Beyond(bHead.pos)] /\ bStart' = bStart
         /\ Gap(bHead.buf, bHead'.buf) = bClaim[bHead.pos].size
         /\ \A i \in Buffer!Positions : /\ Held(i)' <=> Held(i) /\ i # bHead.pos
                                        /\ i # bHead.pos => Gap(bHead'.pos, i) = Gap(bHead.pos, i) - 1
<1>1. /\ bHead = bFrame[c].at /\ bHead'.buf = bFrame[c].end /\ bHead'.pos = Beyond(bHead.pos)
      /\ bTail' = bTail
  BY PopSwapsEffect DEF BufferIInv
<1>2. bPc[c] = "popCas" /\ c \in Buffer!Threads /\ c \notin Pushers
  BY DEF Buffer!PopSwaps, Buffer!Threads, BufferParameters
<1>3. UpToDate(c)
  BY <1>1, <1>2, EqualIsCurrent DEF EndOf, HasCopy
<1>4. bHead.pos # bTail.pos /\ bInfo[bHead.pos].flag /\ bHead'.buf = bInfo[bHead.pos].end
  BY <1>1, <1>2, <1>3 DEF BufferIInv, ChecksHold
<1>5. bTail.pos \in Buffer!Positions /\ bHead.pos \in Buffer!Positions
  BY DEF BufferIInv, BufferTypeOK, Ends
<1>6. Held(bHead.pos)
  BY <1>4, <1>5, GapNat DEF Held, BufferParameters
<1>7. /\ bHead'.buf = bStart[Beyond(bHead.pos)] /\ bStart[bHead.pos] = bHead.buf
      /\ bStart[bTail.pos] = bTail.buf
      /\ Gap(bStart[bHead.pos], bStart[Beyond(bHead.pos)]) = bClaim[bHead.pos].size
  BY <1>4, <1>5, <1>6 DEF BufferIInv, RecordsOwned, MarksWritten, Laid
<1>8. bStart' = bStart
  BY <1>1, <1>7 DEF BufferHistories, BufferIInv, BufferHistoriesOK
<1>9. ASSUME NEW i \in Buffer!Positions
      PROVE  /\ Held(i)' <=> Held(i) /\ i # bHead.pos
             /\ i # bHead.pos => Gap(bHead'.pos, i) = Gap(bHead.pos, i) - 1
  <2>1. /\ Gap(bHead'.pos, bTail.pos) = Gap(bHead.pos, bTail.pos) - 1
        /\ i # bHead.pos => Gap(bHead'.pos, i) = Gap(bHead.pos, i) - 1
        /\ Gap(bHead'.pos, bHead.pos) = BufferSize - 1 /\ Gap(bHead.pos, bHead.pos) = 0
    BY <1>1, <1>4, <1>5, BufferHeadMoves
  <2>2. /\ Gap(bHead.pos, i) \in Nat /\ Gap(bHead.pos, bTail.pos) \in Nat
        /\ Gap(bHead.pos, bTail.pos) < BufferSize
        /\ BufferSize \in Nat
    BY <1>5, GapNat DEF BufferParameters
  <2> QED
    BY <1>1, <2>1, <2>2 DEF Held
<1> QED
  BY <1>4, <1>6, <1>7, <1>8, <1>9

\* A step that moves neither end.
LEMMA StartStays ==
  ASSUME BufferParameters, BufferIInv, BufferHistories, UNCHANGED <<bHead, bTail>>
  PROVE  bStart' = bStart /\ \A i \in Buffer!Positions : Held(i)' <=> Held(i)
BY DEF BufferIInv, Laid, BufferHistoriesOK, BufferHistories, Held

LEMMA LaidPush ==
  ASSUME BufferParameters, BufferIInv, BufferAwake, BufferHistories, NEW p \in Pushers, Buffer!PushSwaps(p)
  PROVE  Laid'
<1> DEFINE h == bHead.pos
           t == bTail.pos
           n == bFrame[p].size
<1>1. /\ h \in Buffer!Positions /\ t \in Buffer!Positions /\ bHead.buf \in Buffer!Positions
      /\ bTail.buf \in Buffer!Positions
      /\ Beyond(t) \in Buffer!Positions /\ bTail'.buf \in Buffer!Positions
      /\ bStart \in [Buffer!Positions -> Buffer!Positions]
  <2>1. /\ h \in Buffer!Positions /\ t \in Buffer!Positions /\ bHead.buf \in Buffer!Positions
        /\ bTail.buf \in Buffer!Positions
    BY DEF BufferIInv, BufferTypeOK, Ends
  <2>2. bTail'.buf \in Buffer!Positions
    BY PushSwapsEffect DEF BufferIInv, Ends
  <2> QED
    BY <2>1, <2>2, BeyondValue DEF BufferIInv, BufferHistoriesOK
<1>2. /\ n \in Nat \ {0} /\ Gap(bTail.buf, bTail'.buf) = n /\ n + Gap(bHead.buf, bTail.buf) < BufferSize
      /\ Beyond(t) # h /\ Gap(h, Beyond(t)) = Gap(h, t) + 1
      /\ bStart' = [bStart EXCEPT ![Beyond(t)] = bTail'.buf]
      /\ \A i \in Buffer!Positions : Held(i)' <=> Held(i) \/ i = t
      /\ ~Held(t)
  <2>1. bTail'.pos = Beyond(t)
    BY PushSwapsEffect DEF BufferIInv
  <2> QED
    BY <2>1, PushSwapFacts
<1>3. /\ bHead' = bHead /\ bTail'.pos = Beyond(t) /\ bClaim' = [bClaim EXCEPT ![t] = Buffer!Outgoing(p)]
      /\ Buffer!Outgoing(p) \in Buffer!Messages /\ Buffer!Outgoing(p).size = n
  BY PushSwapsEffect DEF BufferIInv
<1>4. Beyond(t) # t
  BY <1>1, <1>2 DEF Beyond, Buffer!Positions, BufferParameters
<1>5. /\ bStart[h] = bHead.buf /\ bStart[t] = bTail.buf
      /\ \A i \in Buffer!Positions : Held(i) => /\ bClaim[i] \in Buffer!Messages /\ bClaim[i].size < BufferSize
                                                /\ Gap(bStart[i], bStart[Beyond(i)]) = bClaim[i].size
      /\ \A i, j \in Buffer!Positions : Gap(h, i) < Gap(h, j) /\ Gap(h, j) <= Gap(h, t)
           => Gap(bHead.buf, bStart[i]) + bClaim[i].size <= Gap(bHead.buf, bStart[j])
  BY DEF BufferIInv, Laid
<1>6. /\ \A i \in Buffer!Positions : i # Beyond(t) => bStart'[i] = bStart[i]
      /\ bStart'[Beyond(t)] = bTail'.buf
      /\ \A i \in Buffer!Positions : i # t => bClaim'[i] = bClaim[i]
      /\ bClaim'[t] = Buffer!Outgoing(p)
  BY <1>1, <1>2, <1>3 DEF BufferIInv, BufferTypeOK
<1>7. \A i \in Buffer!Positions : Gap(h, i) \in Nat
  BY <1>1, GapNat
<1>8. Gap(bHead.buf, bTail'.buf) = Gap(bHead.buf, bTail.buf) + n
  <2>1. Gap(bHead.buf, bTail.buf) \in Nat
    BY <1>1, GapNat
  <2>2. Gap(bHead.buf, bTail.buf) + Gap(bTail.buf, bTail'.buf) < BufferSize
    BY <1>2, <2>1 DEF BufferParameters
  <2> QED
    BY <1>1, <1>2, <2>2, ToLater
<1>9. bStart'[h] = bHead.buf
  BY <1>1, <1>2, <1>5, <1>6
<1>10. ASSUME NEW i \in Buffer!Positions, Held(i)'
       PROVE  /\ bClaim'[i] \in Buffer!Messages /\ bClaim'[i].size < BufferSize
              /\ Gap(bStart'[i], bStart'[Beyond(i)]) = bClaim'[i].size
  <2>1. CASE i = t
    <3>1. n < BufferSize
      <4>1. Gap(bHead.buf, bTail.buf) \in Nat
        BY <1>1, GapNat
      <4> QED
        BY <1>2, <4>1 DEF BufferParameters
    <3> QED
      BY <1>1, <1>2, <1>3, <1>4, <1>5, <1>6, <2>1, <3>1
  <2>2. CASE i # t
    <3>1. Held(i)
      BY <1>2, <1>10, <2>2
    <3>2. Gap(h, i) < Gap(h, t)
      BY <3>1 DEF Held
    <3>3. Beyond(i) \in Buffer!Positions /\ Gap(h, Beyond(i)) = Gap(h, i) + 1
      BY <1>1, <3>2, NextRecord
    <3>4. i # Beyond(t) /\ Beyond(i) # Beyond(t)
      BY <1>1, <1>2, <1>7, <3>2, <3>3
    <3> QED
      BY <1>5, <1>6, <2>2, <3>1, <3>3, <3>4
  <2> QED
    BY <2>1, <2>2
<1>11. ASSUME NEW i \in Buffer!Positions, NEW j \in Buffer!Positions, Gap(h, i) < Gap(h, j),
              Gap(h, j) <= Gap(h, Beyond(t))
       PROVE  Gap(bHead.buf, bStart'[i]) + bClaim'[i].size <= Gap(bHead.buf, bStart'[j])
  <2>1. i # Beyond(t)
    BY <1>1, <1>7, <1>11
  <2>2. CASE j = Beyond(t)
    <3>1. i = t \/ Gap(h, i) < Gap(h, t)
      <4>1. Gap(h, i) < Gap(h, t) + 1
        BY <1>2, <1>11, <2>2
      <4> QED
        BY <1>1, <1>2, <4>1, BufferTailMoves
    <3>2. CASE i = t
      <4>1. Gap(bHead.buf, bTail.buf) \in Nat
        BY <1>1, GapNat
      <4>2. bStart'[i] = bTail.buf /\ bClaim'[i].size = n /\ bStart'[j] = bTail'.buf
        BY <1>3, <1>5, <1>6, <2>1, <2>2, <3>2
      <4> QED
        BY <1>2, <1>8, <4>1, <4>2
    <3>3. CASE i # t
      <4>1. Gap(bHead.buf, bStart[i]) + bClaim[i].size <= Gap(bHead.buf, bTail.buf)
        BY <1>1, <1>5, <1>7, <3>1, <3>3
      <4>2. Held(i)
        BY <3>1, <3>3 DEF Held
      <4>3. bClaim[i].size \in Nat
        BY <1>5, <4>2 DEF Buffer!Messages, BufferParameters
      <4>4. Gap(bHead.buf, bStart[i]) \in Nat /\ Gap(bHead.buf, bTail.buf) \in Nat
        BY <1>1, GapNat
      <4> QED
        BY <1>2, <1>6, <1>8, <2>1, <2>2, <3>3, <4>1, <4>3, <4>4
    <3> QED
      BY <3>2, <3>3
  <2>3. CASE j # Beyond(t)
    <3>1. Gap(h, j) <= Gap(h, t)
      <4>1. Gap(h, j) # Gap(h, Beyond(t))
        BY <1>1, <2>3, GapNat
      <4>2. Gap(h, j) \in Nat /\ Gap(h, t) \in Nat
        BY <1>1, <1>7
      <4> QED
        BY <1>2, <1>11, <4>1, <4>2
    <3>2. i # t
      BY <1>1, <1>7, <1>11, <3>1
    <3> QED
      BY <1>5, <1>6, <1>11, <2>1, <2>3, <3>1, <3>2
  <2> QED
    BY <2>2, <2>3
<1> QED
  BY <1>3, <1>6, <1>9, <1>10, <1>11 DEF Laid

LEMMA LaidPop ==
  ASSUME BufferParameters, BufferIInv, BufferAwake, BufferHistories, NEW c \in LonePoppers, Buffer!PopSwaps(c)
  PROVE  Laid'
<1> DEFINE h == bHead.pos
           t == bTail.pos
<1>1. /\ h \in Buffer!Positions /\ t \in Buffer!Positions /\ bHead.buf \in Buffer!Positions
      /\ bHead'.buf \in Buffer!Positions
      /\ bStart \in [Buffer!Positions -> Buffer!Positions] /\ Beyond(h) \in Buffer!Positions
  <2>1. h \in Buffer!Positions /\ t \in Buffer!Positions /\ bHead.buf \in Buffer!Positions
    BY DEF BufferIInv, BufferTypeOK, Ends
  <2>2. bHead'.buf \in Buffer!Positions
    BY PopSwapsEffect DEF BufferIInv, Ends
  <2> QED
    BY <2>1, <2>2, BeyondValue DEF BufferIInv, BufferHistoriesOK
<1>2. /\ h # t /\ Held(h) /\ bHead'.buf = bStart[Beyond(h)] /\ bStart' = bStart
      /\ Gap(bHead.buf, bHead'.buf) = bClaim[h].size
      /\ \A i \in Buffer!Positions : /\ Held(i)' <=> Held(i) /\ i # h
                                     /\ i # h => Gap(bHead'.pos, i) = Gap(h, i) - 1
  BY PopSwapFacts
<1>3. bHead'.pos = Beyond(h) /\ bTail' = bTail /\ bClaim' = bClaim
  BY PopSwapsEffect DEF BufferIInv
<1>4. /\ bStart[h] = bHead.buf /\ bStart[t] = bTail.buf
      /\ \A i \in Buffer!Positions : Held(i) => /\ bClaim[i] \in Buffer!Messages /\ bClaim[i].size < BufferSize
                                                /\ Gap(bStart[i], bStart[Beyond(i)]) = bClaim[i].size
      /\ \A i, j \in Buffer!Positions : Gap(h, i) < Gap(h, j) /\ Gap(h, j) <= Gap(h, t)
           => Gap(bHead.buf, bStart[i]) + bClaim[i].size <= Gap(bHead.buf, bStart[j])
  BY DEF BufferIInv, Laid
<1>5. /\ \A i \in Buffer!Positions : /\ Gap(h, i) \in Nat /\ Gap(h, i) < BufferSize
                                     /\ i # h => Gap(h, i) > 0
      /\ Gap(h, h) = 0 /\ Gap(bHead'.pos, h) = BufferSize - 1
  BY <1>1, <1>3, GapNat, BufferHeadMoves DEF BufferParameters
<1>6. \A i, j \in Buffer!Positions : Gap(bHead.buf, bStart[i]) \in Nat /\ Gap(bHead'.buf, bStart[i]) \in Nat
  BY <1>1, GapNat
<1>7. Gap(bHead.buf, bStart[h]) = 0
  BY <1>1, <1>4, GapZero
<1>8. \A i \in Buffer!Positions : i # h /\ Gap(h, i) <= Gap(h, t) => bClaim[h].size <= Gap(bHead.buf, bStart[i])
  <2> SUFFICES ASSUME NEW i \in Buffer!Positions, i # h, Gap(h, i) <= Gap(h, t)
               PROVE  bClaim[h].size <= Gap(bHead.buf, bStart[i])
    OBVIOUS
  <2>1. Gap(bHead.buf, bStart[h]) + bClaim[h].size <= Gap(bHead.buf, bStart[i])
    BY <1>1, <1>4, <1>5
  <2>2. bClaim[h].size \in Nat
    BY <1>1, <1>2, <1>4 DEF Buffer!Messages, BufferParameters
  <2> QED
    BY <1>6, <1>7, <2>1, <2>2
<1>9. ASSUME NEW i \in Buffer!Positions, NEW j \in Buffer!Positions, Gap(bHead'.pos, i) < Gap(bHead'.pos, j),
             Gap(bHead'.pos, j) <= Gap(bHead'.pos, t)
      PROVE  Gap(bHead'.buf, bStart[i]) + bClaim[i].size <= Gap(bHead'.buf, bStart[j])
  <2>1. Gap(bHead'.pos, t) = Gap(h, t) - 1 /\ Gap(h, t) < BufferSize
    BY <1>1, <1>2, <1>5
  <2>2. i # h /\ j # h
    BY <1>1, <1>2, <1>5, <1>9, <2>1 DEF BufferParameters
  <2>3. Gap(h, i) < Gap(h, j) /\ Gap(h, j) <= Gap(h, t) /\ Gap(h, i) <= Gap(h, t)
    BY <1>1, <1>2, <1>5, <1>9, <2>1, <2>2
  <2>4. Gap(bHead.buf, bStart[i]) + bClaim[i].size <= Gap(bHead.buf, bStart[j])
    BY <1>4, <2>3
  <2>5. /\ Gap(bHead.buf, bHead'.buf) <= Gap(bHead.buf, bStart[i])
        /\ Gap(bHead.buf, bHead'.buf) <= Gap(bHead.buf, bStart[j])
    BY <1>2, <1>8, <2>2, <2>3
  <2>6. Gap(bHead'.buf, bStart[i]) = Gap(bHead.buf, bStart[i]) - Gap(bHead.buf, bHead'.buf)
    BY <1>1, <2>5, FromLater
  <2>7. Gap(bHead'.buf, bStart[j]) = Gap(bHead.buf, bStart[j]) - Gap(bHead.buf, bHead'.buf)
    BY <1>1, <2>5, FromLater
  <2>8. bClaim[i].size \in Nat
    <3>1. Held(i)
      BY <1>1, <1>5, <2>3 DEF Held
    <3> QED
      BY <1>4, <3>1 DEF Buffer!Messages, BufferParameters
  <2>9. Gap(bHead.buf, bHead'.buf) \in Nat
    BY <1>1, GapNat
  <2> QED
    BY <1>6, <2>4, <2>6, <2>7, <2>8, <2>9
<1> QED
  BY <1>1, <1>2, <1>3, <1>4, <1>9 DEF Laid

LEMMA LaidStep == ASSUME BufferParameters, BufferIInv, BufferAwake, BufferStep PROVE Laid'
<1>1. ASSUME UNCHANGED <<bHead, bTail, bClaim>> PROVE Laid'
  <2>1. bStart' = bStart /\ \A i \in Buffer!Positions : Held(i)' <=> Held(i)
    BY <1>1, StartStays DEF BufferStep
  <2> QED
    BY <1>1, <2>1 DEF BufferIInv, Laid
<1>2. BufferTypeOK /\ BufferHistories
  BY DEF BufferIInv, BufferStep
<1>3. ASSUME NEW p \in Pushers, PushReads(p) \/ Buffer!PushCopies(p) \/ Buffer!PushSetsInfo(p)
      PROVE  UNCHANGED <<bHead, bTail, bClaim>>
  BY <1>2, <1>3, PushReadsEffect, PushCopiesEffect, PushSetsEffect DEF Buffer!NothingElse, Buffer!shared
<1>4. ASSUME NEW c \in LonePoppers, PopReads(c) \/ Buffer!PopCopies(c) \/ Buffer!PopClearsInfo(c)
      PROVE  UNCHANGED <<bHead, bTail, bClaim>>
  BY <1>2, <1>4, PopReadsEffect, PopCopiesEffect, PopClearsEffect DEF Buffer!NothingElse, Buffer!shared
<1> QED
  BY <1>1, <1>2, <1>3, <1>4, LaidPush, LaidPop, BufferSteps DEF BufferStep

--------------------------------------------------------------------------------
(* Who owns which record *)

Owning == {"pushCopy", "pushSet", "popCopy", "popClear"}

\* Messages between head and tail have no byte in common.
LEMMA MessagesApart ==
  ASSUME BufferParameters, BufferIInv, NEW i \in Buffer!Positions, NEW j \in Buffer!Positions, Held(i),
         Held(j), i # j, NEW x \in Buffer!Positions
  PROVE  ~(Gap(bStart[i], x) < bClaim[i].size /\ Gap(bStart[j], x) < bClaim[j].size)
<1>1. /\ bHead.pos \in Buffer!Positions /\ bTail.pos \in Buffer!Positions /\ bHead.buf \in Buffer!Positions
      /\ bStart \in [Buffer!Positions -> Buffer!Positions]
  BY DEF BufferIInv, BufferTypeOK, BufferHistoriesOK, Ends
<1>2. ASSUME NEW a \in Buffer!Positions, NEW b \in Buffer!Positions, Held(a), Held(b),
             Gap(bHead.pos, a) < Gap(bHead.pos, b)
      PROVE  ~(Gap(bStart[a], x) < bClaim[a].size /\ Gap(bStart[b], x) < bClaim[b].size)
  <2>1. bClaim[a].size \in Nat /\ bClaim[b].size \in Nat
    BY <1>2 DEF BufferIInv, Laid, Buffer!Messages, BufferParameters
  <2>2. Gap(bHead.pos, b) < Gap(bHead.pos, bTail.pos)
    BY <1>2 DEF Held
  <2>3. Beyond(b) \in Buffer!Positions /\ Gap(bHead.pos, Beyond(b)) = Gap(bHead.pos, b) + 1
    BY <1>1, <2>2, NextRecord
  <2>4. /\ Gap(bHead.pos, b) \in Nat /\ Gap(bHead.pos, bTail.pos) \in Nat
        /\ Gap(bHead.buf, bStart[b]) \in Nat
        /\ Gap(bHead.buf, bStart[Beyond(b)]) \in Nat /\ Gap(bHead.buf, bStart[Beyond(b)]) < BufferSize
    BY <1>1, <2>3, GapNat
  <2>5. Gap(bHead.pos, b) <= Gap(bHead.pos, bTail.pos) /\ Gap(bHead.pos, b) < Gap(bHead.pos, Beyond(b))
        /\ Gap(bHead.pos, Beyond(b)) <= Gap(bHead.pos, bTail.pos)
    BY <2>2, <2>3, <2>4
  <2>6. Gap(bHead.buf, bStart[a]) + bClaim[a].size <= Gap(bHead.buf, bStart[b])
    BY <1>2, <2>5 DEF BufferIInv, Laid
  <2>7. Gap(bHead.buf, bStart[b]) + bClaim[b].size <= Gap(bHead.buf, bStart[Beyond(b)])
    BY <2>3, <2>5 DEF BufferIInv, Laid
  <2>8. Gap(bHead.buf, bStart[b]) + bClaim[b].size <= BufferSize
    BY <2>1, <2>4, <2>7 DEF BufferParameters
  <2> QED
    BY <1>1, <2>1, <2>6, <2>8, RunsApart
<1>3. Gap(bHead.pos, i) < Gap(bHead.pos, j) \/ Gap(bHead.pos, j) < Gap(bHead.pos, i)
  BY <1>1, GapNat
<1> QED
  BY <1>2, <1>3

LEMMA OwnedReads ==
  ASSUME BufferParameters, BufferIInv, BufferHistories, Buffer!NothingElse, NEW t \in Buffer!Threads,
         OnlyOwn(t),
         bPc[t] \notin Owning, bPc'[t] \notin Owning
  PROVE  RecordsOwned'
<1>1. UNCHANGED <<bHead, bTail, bBytes, bInfo, bSent, bGot, bClaim, bOverrun>>
  BY DEF Buffer!NothingElse, Buffer!shared
<1>2. bStart' = bStart /\ \A i \in Buffer!Positions : Held(i)' <=> Held(i)
  BY <1>1, StartStays
<1>3. \A u \in Buffer!Threads : bPc[u] \in Owning \/ bPc'[u] \in Owning => bPc'[u] = bPc[u] /\ bFrame'[u] = bFrame[u]
  BY DEF OnlyOwn
<1>4. \A p \in Pushers : p \in Buffer!Threads
  BY DEF Buffer!Threads
<1>5. \A c \in LonePoppers : c \in Buffer!Threads
  BY DEF Buffer!Threads
<1>6. \A from, msg : Written(from, msg)' <=> Written(from, msg)
  BY <1>1 DEF Written
<1>7. /\ \A p \in Pushers, i \in Buffer!Positions : Puts(p, i)' <=> Puts(p, i)
      /\ \A c \in LonePoppers, i \in Buffer!Positions : Gets(c, i)' <=> Gets(c, i)
  BY <1>3, <1>4, <1>5 DEF Puts, Gets, Owning
<1>8. \A p \in Pushers : bPc'[p] \in Owning => Buffer!Outgoing(p)' = Buffer!Outgoing(p)
  BY <1>1, <1>3, <1>4 DEF Buffer!Outgoing
<1>9. \A c \in LonePoppers : bPc'[c] \in Owning => Buffer!ClaimOf(c)' = Buffer!ClaimOf(c)
  BY <1>1, <1>3, <1>5 DEF Buffer!ClaimOf
<1>10. PushesOwn'
  <2> SUFFICES ASSUME NEW p \in Pushers, NEW i \in Buffer!Positions, Puts(p, i)'
               PROVE  /\ Held(i)' /\ ~bInfo'[i].flag
                      /\ bClaim'[i] = Buffer!Outgoing(p)' /\ bFrame'[p].at.buf = bStart'[i]
                      /\ bFrame'[p].end = bStart'[Beyond(i)]
                      /\ \A q \in Pushers : Puts(q, i)' => q = p
    BY DEF PushesOwn
  <2>1. Puts(p, i) /\ bPc'[p] \in Owning
    BY <1>7 DEF Puts, Owning
  <2> QED
    BY <1>1, <1>2, <1>3, <1>4, <1>7, <1>8, <2>1 DEF BufferIInv, RecordsOwned, PushesOwn
<1>11. SetsWritten'
  BY <1>3, <1>4, <1>6, <1>8 DEF BufferIInv, RecordsOwned, SetsWritten, Owning
<1>12. MarksWritten'
  BY <1>1, <1>2, <1>6 DEF BufferIInv, RecordsOwned, MarksWritten
<1>13. PopsOwn'
  <2> SUFFICES ASSUME NEW c \in LonePoppers, NEW i \in Buffer!Positions, Gets(c, i)'
               PROVE  /\ ~Held(i)' /\ bInfo'[i].flag
                      /\ bClaim'[i] \in Buffer!Messages
                      /\ Gap(bFrame'[c].at.buf, bFrame'[c].end) = bClaim'[i].size
                      /\ \A d \in LonePoppers : Gets(d, i)' => d = c
    BY DEF PopsOwn
  <2>1. Gets(c, i) /\ bPc'[c] \in Owning
    BY <1>7 DEF Gets, Owning
  <2> QED
    BY <1>1, <1>2, <1>3, <1>5, <1>7, <2>1 DEF BufferIInv, RecordsOwned, PopsOwn
<1>14. CopiesHold'
  BY <1>1, <1>3, <1>5, <1>6, <1>9 DEF BufferIInv, RecordsOwned, CopiesHold, Owning
<1>15. Buffer!PoppedWhole'
  BY <1>1, <1>3, <1>5, <1>9 DEF BufferIInv, RecordsOwned, Buffer!PoppedWhole, Owning
<1> QED
  BY <1>10, <1>11, <1>12, <1>13, <1>14, <1>15 DEF RecordsOwned

LEMMA OwnedPushSwaps ==
  ASSUME BufferParameters, BufferIInv, BufferAwake, BufferHistories, NEW p \in Pushers, Buffer!PushSwaps(p)
  PROVE  RecordsOwned'
<1> DEFINE t == bTail.pos
<1>1. /\ OnlyOwn(p) /\ bPc[p] = "pushCas" /\ bPc'[p] = "pushCopy" /\ bFrame' = bFrame
      /\ bTail = bFrame[p].at /\ bTail'.buf = bFrame[p].end /\ bTail'.pos = Beyond(t)
      /\ bClaim' = [bClaim EXCEPT ![t] = Buffer!Outgoing(p)]
      /\ UNCHANGED <<bHead, bBytes, bInfo, bSent, bGot, bOverrun>>
  BY PushSwapsEffect DEF BufferIInv, Buffer!PushSwaps
<1>2. /\ Beyond(t) # bHead.pos /\ ~bInfo[t].flag /\ ~Held(t)
      /\ Gap(bHead.pos, Beyond(t)) = Gap(bHead.pos, t) + 1
      /\ \A i \in Buffer!Positions : Held(i)' <=> Held(i) \/ i = t
      /\ bStart' = [bStart EXCEPT ![Beyond(t)] = bTail'.buf]
  BY <1>1, PushSwapFacts
<1>3. /\ t \in Buffer!Positions /\ bHead.pos \in Buffer!Positions /\ Beyond(t) \in Buffer!Positions
      /\ bStart \in [Buffer!Positions -> Buffer!Positions]
      /\ bClaim \in [Buffer!Positions -> Buffer!Messages \cup {None}]
      /\ bStart[t] = bTail.buf
  BY BeyondValue DEF BufferIInv, BufferTypeOK, BufferHistoriesOK, Laid, Ends
<1>4. bStart'[t] = bTail.buf /\ bStart'[Beyond(t)] = bFrame[p].end /\ bClaim'[t] = Buffer!Outgoing(p)
  <2>1. Beyond(t) # t
    BY <1>2, <1>3, GapNat
  <2> QED
    BY <1>1, <1>2, <1>3, <2>1
<1>5. \A i \in Buffer!Positions : Held(i) =>
        i # t /\ bStart'[i] = bStart[i] /\ bStart'[Beyond(i)] = bStart[Beyond(i)] /\ bClaim'[i] = bClaim[i]
  <2> SUFFICES ASSUME NEW i \in Buffer!Positions, Held(i)
               PROVE  /\ i # t /\ bStart'[i] = bStart[i] /\ bStart'[Beyond(i)] = bStart[Beyond(i)]
                      /\ bClaim'[i] = bClaim[i]
    OBVIOUS
  <2>1. Gap(bHead.pos, i) < Gap(bHead.pos, t)
    BY DEF Held
  <2>2. Beyond(i) \in Buffer!Positions /\ Gap(bHead.pos, Beyond(i)) = Gap(bHead.pos, i) + 1
    BY <1>3, <2>1, NextRecord
  <2>3. Gap(bHead.pos, i) \in Nat /\ Gap(bHead.pos, t) \in Nat
    BY <1>3, GapNat
  <2>4. i # Beyond(t) /\ Beyond(i) # Beyond(t) /\ i # t
    BY <1>2, <2>1, <2>2, <2>3
  <2> QED
    BY <1>1, <1>2, <1>3, <2>2, <2>4
<1>6. \A i \in Buffer!Positions : bInfo[i].flag => i # t /\ bClaim'[i] = bClaim[i]
  BY <1>1, <1>2, <1>3
<1>7. p \in Buffer!Threads /\ \A u \in Pushers \cup LonePoppers : u \in Buffer!Threads
  BY DEF Buffer!Threads
<1>8. \A u \in Pushers \cup LonePoppers : u # p => bPc'[u] = bPc[u]
  BY <1>1, <1>7 DEF OnlyOwn
<1>9. p \notin LonePoppers
  BY DEF BufferParameters
<1>10. \A from, msg : Written(from, msg)' <=> Written(from, msg)
  BY <1>1 DEF Written
<1>11. \A q \in Pushers : Buffer!Outgoing(q)' = Buffer!Outgoing(q)
  BY <1>1 DEF Buffer!Outgoing
<1>12. /\ \A q \in Pushers, i \in Buffer!Positions : Puts(q, i)' <=> Puts(q, i) \/ (q = p /\ i = t)
       /\ \A i \in Buffer!Positions : ~Puts(p, i)
       /\ \A c \in LonePoppers, i \in Buffer!Positions : Gets(c, i)' <=> Gets(c, i)
  BY <1>1, <1>8, <1>9 DEF Puts, Gets
<1>13. PushesOwn'
  <2> SUFFICES ASSUME NEW q \in Pushers, NEW i \in Buffer!Positions, Puts(q, i)'
               PROVE  /\ Held(i)' /\ ~bInfo'[i].flag
                      /\ bClaim'[i] = Buffer!Outgoing(q)' /\ bFrame'[q].at.buf = bStart'[i]
                      /\ bFrame'[q].end = bStart'[Beyond(i)]
                      /\ \A r \in Pushers : Puts(r, i)' => r = q
    BY DEF PushesOwn
  <2>1. CASE Puts(q, i)
    <3>1. q # p
      BY <1>12, <2>1
    <3>2. /\ Held(i) /\ ~bInfo[i].flag
          /\ bClaim[i] = Buffer!Outgoing(q) /\ bFrame[q].at.buf = bStart[i]
          /\ bFrame[q].end = bStart[Beyond(i)]
          /\ \A r \in Pushers : Puts(r, i) => r = q
      BY <2>1 DEF BufferIInv, RecordsOwned, PushesOwn
    <3>3. i # t /\ bStart'[i] = bStart[i] /\ bStart'[Beyond(i)] = bStart[Beyond(i)] /\ bClaim'[i] = bClaim[i]
      BY <1>5, <3>2
    <3> QED
      BY <1>1, <1>2, <1>11, <1>12, <3>2, <3>3
  <2>2. CASE ~Puts(q, i)
    <3>1. q = p /\ i = t
      BY <1>12, <2>2
    <3>2. \A r \in Pushers : ~Puts(r, t)
      BY <1>2, <1>3 DEF BufferIInv, RecordsOwned, PushesOwn
    <3> QED
      BY <1>1, <1>2, <1>4, <1>11, <1>12, <3>1, <3>2
  <2> QED
    BY <2>1, <2>2
<1>14. SetsWritten'
  BY <1>1, <1>8, <1>10, <1>11 DEF BufferIInv, RecordsOwned, SetsWritten
<1>15. MarksWritten'
  BY <1>1, <1>2, <1>5, <1>6, <1>10 DEF BufferIInv, RecordsOwned, MarksWritten
<1>16. PopsOwn'
  BY <1>1, <1>2, <1>6, <1>12 DEF BufferIInv, RecordsOwned, PopsOwn
<1>17. \A c \in LonePoppers : bPc[c] \in {"popCopy", "popClear"} => Buffer!ClaimOf(c)' = Buffer!ClaimOf(c)
  <2> SUFFICES ASSUME NEW c \in LonePoppers, bPc[c] \in {"popCopy", "popClear"}
               PROVE  Buffer!ClaimOf(c)' = Buffer!ClaimOf(c)
    OBVIOUS
  <2>1. bFrame[c].at.pos \in Buffer!Positions
    BY <1>7 DEF BufferIInv, BufferTypeOK, Calls, Ends
  <2>2. bInfo[bFrame[c].at.pos].flag
    BY <2>1 DEF BufferIInv, RecordsOwned, PopsOwn, Gets
  <2> QED
    BY <1>1, <1>6, <2>1, <2>2 DEF Buffer!ClaimOf
<1>18. CopiesHold'
  BY <1>1, <1>8, <1>9, <1>10, <1>17 DEF BufferIInv, RecordsOwned, CopiesHold
<1>19. Buffer!PoppedWhole'
  BY <1>1, <1>8, <1>9, <1>17 DEF BufferIInv, RecordsOwned, Buffer!PoppedWhole
<1> QED
  BY <1>13, <1>14, <1>15, <1>16, <1>18, <1>19 DEF RecordsOwned

LEMMA OwnedPushCopies ==
  ASSUME BufferParameters, BufferIInv, BufferHistories, NEW p \in Pushers, Buffer!PushCopies(p)
  PROVE  RecordsOwned'
<1> DEFINE k == bFrame[p].at.pos
           run == Buffer!Cells(bFrame[p].at.buf, bFrame[p].size)
<1>1. /\ OnlyOwn(p) /\ bPc[p] = "pushCopy" /\ bPc'[p] = "pushSet" /\ bFrame' = bFrame
      /\ bFrame[p].size \in Lengths
      /\ \A i \in Buffer!Positions : bBytes'[i] = IF i \in run THEN <<Buffer!Outgoing(p), Gap(bFrame[p].at.buf, i) + 1>> ELSE bBytes[i]
      /\ \A c \in LonePoppers :
           bPc[c] = "popCopy" =>
              \/ bOverrun'[c]
              \/ ~bOverrun[c] /\ \A i \in run : i \notin Buffer!Cells(bFrame[c].at.buf, Buffer!Distance(bFrame[c].at.buf, bFrame[c].end))
      /\ \A c \in LonePoppers : bOverrun[c] => bOverrun'[c]
      /\ UNCHANGED <<bHead, bTail, bInfo, bSent, bGot, bClaim>>
  BY PushCopiesEffect DEF BufferIInv
<1>2. bStart' = bStart /\ \A i \in Buffer!Positions : Held(i)' <=> Held(i)
  BY <1>1, StartStays
<1>3. p \in Buffer!Threads /\ \A u \in Pushers \cup LonePoppers : u \in Buffer!Threads
  BY DEF Buffer!Threads
<1>4. k \in Buffer!Positions /\ bFrame[p].at.buf \in Buffer!Positions
  BY <1>3 DEF BufferIInv, BufferTypeOK, Calls, Ends
<1>5. /\ Puts(p, k) /\ Held(k) /\ ~bInfo[k].flag /\ bClaim[k] = Buffer!Outgoing(p)
      /\ bFrame[p].at.buf = bStart[k]
      /\ \A q \in Pushers : Puts(q, k) => q = p
  BY <1>1, <1>4 DEF BufferIInv, RecordsOwned, PushesOwn, Puts
<1>6. /\ bClaim[k].size = bFrame[p].size /\ bClaim[k].size < BufferSize /\ bClaim[k].size \in Nat
      /\ bClaim[k].size <= BufferSize
  BY <1>1, <1>4, <1>5 DEF Buffer!Outgoing, BufferIInv, Laid, BufferParameters
<1>7. run = {x \in Buffer!Positions : Gap(bStart[k], x) < bClaim[k].size}
  BY <1>4, <1>5, <1>6, CellsValue
<1> HIDE DEF run
<1>8. \A u \in Pushers \cup LonePoppers : u # p => bPc'[u] = bPc[u]
  BY <1>1, <1>3 DEF OnlyOwn
<1>9. p \notin LonePoppers
  BY DEF BufferParameters
<1>10. \A q \in Pushers : Buffer!Outgoing(q)' = Buffer!Outgoing(q)
  BY <1>1 DEF Buffer!Outgoing
<1>11. /\ \A q \in Pushers, i \in Buffer!Positions : Puts(q, i)' <=> Puts(q, i)
       /\ \A c \in LonePoppers, i \in Buffer!Positions : Gets(c, i)' <=> Gets(c, i)
  BY <1>1, <1>8, <1>9 DEF Puts, Gets
<1>12. ASSUME NEW j \in Buffer!Positions, Held(j), j # k, Written(bStart[j], bClaim[j])
       PROVE  Written(bStart[j], bClaim[j])'
  <2> SUFFICES ASSUME NEW x \in Buffer!Positions, Gap(bStart[j], x) < bClaim[j].size
               PROVE  bBytes'[x] = <<bClaim[j], Gap(bStart[j], x) + 1>>
    BY <1>1, <1>2 DEF Written
  <2>1. x \notin run
    BY <1>4, <1>5, <1>7, <1>12, MessagesApart
  <2> QED
    BY <1>1, <1>12, <2>1 DEF Written
<1>13. PushesOwn'
  BY <1>1, <1>2, <1>10, <1>11 DEF BufferIInv, RecordsOwned, PushesOwn
<1>14. SetsWritten'
  <2> SUFFICES ASSUME NEW q \in Pushers, bPc'[q] = "pushSet"
               PROVE  Written(bFrame[q].at.buf, Buffer!Outgoing(q))'
    BY DEF SetsWritten
  <2>1. CASE q = p
    <3> SUFFICES ASSUME NEW x \in Buffer!Positions, Gap(bFrame[p].at.buf, x) < Buffer!Outgoing(p).size
                 PROVE  bBytes'[x] = <<Buffer!Outgoing(p), Gap(bFrame[p].at.buf, x) + 1>>
      BY <1>1, <1>10, <2>1 DEF Written
    <3>1. x \in run
      BY <1>5, <1>7
    <3> QED
      BY <1>1, <3>1
  <2>2. CASE q # p
    <3> PICK j : j = bFrame[q].at.pos
      OBVIOUS
    <3>1. bPc[q] = "pushSet" /\ j \in Buffer!Positions /\ Puts(q, j)
      BY <1>3, <1>8, <2>2 DEF BufferIInv, BufferTypeOK, Calls, Ends, Puts
    <3>2. j # k /\ Held(j) /\ bClaim[j] = Buffer!Outgoing(q) /\ bFrame[q].at.buf = bStart[j]
      BY <1>5, <2>2, <3>1 DEF BufferIInv, RecordsOwned, PushesOwn
    <3>3. Written(bStart[j], bClaim[j])
      BY <3>1, <3>2 DEF BufferIInv, RecordsOwned, SetsWritten
    <3>4. Written(bStart[j], bClaim[j])'
      BY <1>12, <3>1, <3>2, <3>3
    <3> QED
      BY <1>1, <1>2, <1>10, <3>2, <3>4 DEF Written
  <2> QED
    BY <2>1, <2>2
<1>15. MarksWritten'
  <2> SUFFICES ASSUME NEW i \in Buffer!Positions, Held(i)', bInfo'[i].flag
               PROVE  bInfo'[i].end = bStart'[Beyond(i)] /\ Written(bStart[i], bClaim[i])'
    BY DEF MarksWritten
  <2>1. Held(i) /\ bInfo[i].flag /\ i # k
    BY <1>1, <1>2, <1>5
  <2>2. bInfo[i].end = bStart[Beyond(i)] /\ Written(bStart[i], bClaim[i])
    BY <2>1 DEF BufferIInv, RecordsOwned, MarksWritten
  <2> QED
    BY <1>1, <1>2, <1>12, <2>1, <2>2
<1>16. PopsOwn'
  BY <1>1, <1>2, <1>11 DEF BufferIInv, RecordsOwned, PopsOwn
<1>17. CopiesHold'
  <2> SUFFICES ASSUME NEW c \in LonePoppers, bPc'[c] = "popCopy", ~bOverrun'[c]
               PROVE  Written(bFrame[c].at.buf, Buffer!ClaimOf(c))'
    BY <1>1 DEF CopiesHold
  <2> PICK j : j = bFrame[c].at.pos
    OBVIOUS
  <2>1. bPc[c] = "popCopy" /\ c \in Buffer!Threads
    BY <1>3, <1>8, <1>9
  <2>2. j \in Buffer!Positions /\ bFrame[c].at.buf \in Buffer!Positions /\ bFrame[c].end \in Buffer!Positions
    BY <2>1 DEF BufferIInv, BufferTypeOK, Calls, Ends
  <2>3. bClaim[j] \in Buffer!Messages /\ Gap(bFrame[c].at.buf, bFrame[c].end) = bClaim[j].size
    BY <2>1, <2>2 DEF BufferIInv, RecordsOwned, PopsOwn, Gets
  <2>4. bClaim[j].size \in Nat /\ bClaim[j].size <= BufferSize
    <3>1. Gap(bFrame[c].at.buf, bFrame[c].end) \in Nat /\ Gap(bFrame[c].at.buf, bFrame[c].end) < BufferSize
      BY <2>2, GapNat
    <3> QED
      BY <2>3, <3>1 DEF BufferParameters
  <2>5. ~bOverrun[c] /\ \A x \in run : x \notin Buffer!Cells(bFrame[c].at.buf, bClaim[j].size)
    BY <1>1, <2>1, <2>2, <2>3, DistanceValue
  <2>6. Buffer!Cells(bFrame[c].at.buf, bClaim[j].size) = {x \in Buffer!Positions : Gap(bFrame[c].at.buf, x) < bClaim[j].size}
    BY <2>2, <2>4, CellsValue
  <2>7. Written(bFrame[c].at.buf, bClaim[j])
    BY <2>1, <2>5 DEF BufferIInv, RecordsOwned, CopiesHold, Buffer!ClaimOf
  <2>8. \A x \in Buffer!Positions : Gap(bFrame[c].at.buf, x) < bClaim[j].size => bBytes'[x] = bBytes[x]
    BY <1>1, <2>5, <2>6
  <2>9. Buffer!ClaimOf(c)' = bClaim[j]
    BY <1>1 DEF Buffer!ClaimOf
  <2> QED
    BY <1>1, <2>7, <2>8, <2>9 DEF Written
<1>18. Buffer!PoppedWhole'
  <2> SUFFICES ASSUME NEW c \in LonePoppers, bPc'[c] = "popClear"
               PROVE  bOverrun'[c] \/ bGot'[c] = Buffer!BytesOf(Buffer!ClaimOf(c)')
    BY DEF Buffer!PoppedWhole
  <2>1. bPc[c] = "popClear" /\ Buffer!ClaimOf(c)' = Buffer!ClaimOf(c) /\ bGot'[c] = bGot[c]
    BY <1>1, <1>8, <1>9 DEF Buffer!ClaimOf
  <2> QED
    BY <1>1, <2>1 DEF BufferIInv, RecordsOwned, Buffer!PoppedWhole
<1> QED
  BY <1>13, <1>14, <1>15, <1>16, <1>17, <1>18 DEF RecordsOwned

LEMMA OwnedPushSets ==
  ASSUME BufferParameters, BufferIInv, BufferHistories, NEW p \in Pushers, Buffer!PushSetsInfo(p)
  PROVE  RecordsOwned'
<1> DEFINE k == bFrame[p].at.pos
<1>1. /\ OnlyOwn(p) /\ bPc[p] = "pushSet" /\ bPc'[p] = "idle"
      /\ bInfo' = [bInfo EXCEPT ![k] = [end |-> bFrame[p].end, flag |-> TRUE]]
      /\ k \in Buffer!Positions
      /\ \A q \in Pushers : q # p => bSent'[q] = bSent[q]
      /\ UNCHANGED <<bHead, bTail, bBytes, bGot, bClaim, bOverrun>>
  BY PushSetsEffect DEF BufferIInv
<1>2. bStart' = bStart /\ \A i \in Buffer!Positions : Held(i)' <=> Held(i)
  BY <1>1, StartStays
<1>3. p \in Buffer!Threads /\ p \notin LonePoppers /\ \A u \in Pushers \cup LonePoppers : u \in Buffer!Threads
  BY DEF Buffer!Threads, BufferParameters
<1>4. /\ Puts(p, k) /\ Held(k) /\ ~bInfo[k].flag /\ bClaim[k] = Buffer!Outgoing(p)
      /\ bFrame[p].at.buf = bStart[k]
      /\ bFrame[p].end = bStart[Beyond(k)]
      /\ \A q \in Pushers : Puts(q, k) => q = p
  BY <1>1 DEF BufferIInv, RecordsOwned, PushesOwn, Puts
<1>5. /\ \A i \in Buffer!Positions : i # k => bInfo'[i] = bInfo[i]
      /\ bInfo'[k].flag /\ bInfo'[k].end = bFrame[p].end
  BY <1>1 DEF BufferIInv, BufferTypeOK
<1>6. \A u \in Pushers \cup LonePoppers : u # p => bPc'[u] = bPc[u] /\ bFrame'[u] = bFrame[u]
  BY <1>1, <1>3 DEF OnlyOwn
<1>7. \A from, msg : Written(from, msg)' <=> Written(from, msg)
  BY <1>1 DEF Written
<1>8. \A q \in Pushers : q # p => Buffer!Outgoing(q)' = Buffer!Outgoing(q)
  BY <1>1, <1>6 DEF Buffer!Outgoing
<1>9. /\ \A q \in Pushers, i \in Buffer!Positions : Puts(q, i)' <=> Puts(q, i) /\ q # p
      /\ \A c \in LonePoppers, i \in Buffer!Positions : Gets(c, i)' <=> Gets(c, i)
  BY <1>1, <1>3, <1>6 DEF Puts, Gets
<1>10. PushesOwn'
  <2> SUFFICES ASSUME NEW q \in Pushers, NEW i \in Buffer!Positions, Puts(q, i)'
               PROVE  /\ Held(i)' /\ ~bInfo'[i].flag
                      /\ bClaim'[i] = Buffer!Outgoing(q)' /\ bFrame'[q].at.buf = bStart'[i]
                      /\ bFrame'[q].end = bStart'[Beyond(i)]
                      /\ \A r \in Pushers : Puts(r, i)' => r = q
    BY DEF PushesOwn
  <2>1. q # p /\ Puts(q, i)
    BY <1>9
  <2>2. i # k
    BY <1>4, <2>1
  <2>3. /\ Held(i) /\ ~bInfo[i].flag
        /\ bClaim[i] = Buffer!Outgoing(q) /\ bFrame[q].at.buf = bStart[i] /\ bFrame[q].end = bStart[Beyond(i)]
        /\ \A r \in Pushers : Puts(r, i) => r = q
    BY <2>1 DEF BufferIInv, RecordsOwned, PushesOwn
  <2> QED
    BY <1>1, <1>2, <1>5, <1>6, <1>8, <1>9, <2>1, <2>2, <2>3
<1>11. SetsWritten'
  BY <1>1, <1>6, <1>7, <1>8 DEF BufferIInv, RecordsOwned, SetsWritten
<1>12. MarksWritten'
  <2> SUFFICES ASSUME NEW i \in Buffer!Positions, Held(i)', bInfo'[i].flag
               PROVE  bInfo'[i].end = bStart'[Beyond(i)] /\ Written(bStart[i], bClaim[i])'
    BY DEF MarksWritten
  <2>1. CASE i = k
    <3>1. Written(bStart[k], bClaim[k])
      BY <1>1, <1>4 DEF BufferIInv, RecordsOwned, SetsWritten
    <3> QED
      BY <1>1, <1>2, <1>4, <1>5, <1>7, <2>1, <3>1
  <2>2. CASE i # k
    <3>1. Held(i) /\ bInfo[i].flag
      BY <1>2, <1>5, <2>2
    <3>2. bInfo[i].end = bStart[Beyond(i)] /\ Written(bStart[i], bClaim[i])
      BY <3>1 DEF BufferIInv, RecordsOwned, MarksWritten
    <3> QED
      BY <1>1, <1>2, <1>5, <1>7, <2>2, <3>2
  <2> QED
    BY <2>1, <2>2
<1>13. PopsOwn'
  <2> SUFFICES ASSUME NEW c \in LonePoppers, NEW i \in Buffer!Positions, Gets(c, i)'
               PROVE  /\ ~Held(i)' /\ bInfo'[i].flag
                      /\ bClaim'[i] \in Buffer!Messages
                      /\ Gap(bFrame'[c].at.buf, bFrame'[c].end) = bClaim'[i].size
                      /\ \A d \in LonePoppers : Gets(d, i)' => d = c
    BY DEF PopsOwn
  <2>1. Gets(c, i)
    BY <1>9
  <2>2. /\ ~Held(i) /\ bInfo[i].flag
        /\ bClaim[i] \in Buffer!Messages /\ Gap(bFrame[c].at.buf, bFrame[c].end) = bClaim[i].size
        /\ \A d \in LonePoppers : Gets(d, i) => d = c
    BY <2>1 DEF BufferIInv, RecordsOwned, PopsOwn
  <2>3. i # k /\ bFrame'[c] = bFrame[c]
    BY <1>3, <1>4, <1>6, <2>2
  <2> QED
    BY <1>1, <1>2, <1>5, <1>9, <2>2, <2>3
<1>14. \A c \in LonePoppers : Buffer!ClaimOf(c)' = Buffer!ClaimOf(c) /\ bPc'[c] = bPc[c] /\ bFrame'[c] = bFrame[c]
  BY <1>1, <1>3, <1>6 DEF Buffer!ClaimOf
<1>15. CopiesHold'
  BY <1>1, <1>7, <1>14 DEF BufferIInv, RecordsOwned, CopiesHold
<1>16. Buffer!PoppedWhole'
  BY <1>1, <1>14 DEF BufferIInv, RecordsOwned, Buffer!PoppedWhole
<1> QED
  BY <1>10, <1>11, <1>12, <1>13, <1>15, <1>16 DEF RecordsOwned

LEMMA OwnedPopSwaps ==
  ASSUME BufferParameters, BufferIInv, BufferAwake, BufferHistories, NEW c \in LonePoppers, Buffer!PopSwaps(c)
  PROVE  RecordsOwned'
<1> DEFINE h == bHead.pos
<1>1. /\ OnlyOwn(c) /\ bPc[c] = "popCas" /\ bPc'[c] = "popCopy" /\ bFrame' = bFrame
      /\ bHead = bFrame[c].at /\ bHead'.buf = bFrame[c].end
      /\ bOverrun' = [bOverrun EXCEPT ![c] = FALSE]
      /\ UNCHANGED <<bTail, bBytes, bInfo, bSent, bGot, bClaim>>
  BY PopSwapsEffect DEF BufferIInv
<1>2. /\ Held(h) /\ bInfo[h].flag /\ bStart' = bStart
      /\ Gap(bHead.buf, bHead'.buf) = bClaim[h].size
      /\ \A i \in Buffer!Positions : Held(i)' <=> Held(i) /\ i # h
  BY PopSwapFacts
<1>3. c \in Buffer!Threads /\ c \notin Pushers /\ \A u \in Pushers \cup LonePoppers : u \in Buffer!Threads
  BY DEF Buffer!Threads, BufferParameters
<1>4. h \in Buffer!Positions /\ bClaim[h] \in Buffer!Messages /\ bStart[h] = bHead.buf
  BY <1>2 DEF BufferIInv, BufferTypeOK, Ends, Laid
<1>5. \A u \in Pushers \cup LonePoppers : u # c => bPc'[u] = bPc[u]
  BY <1>1, <1>3 DEF OnlyOwn
<1>6. \A from, msg : Written(from, msg)' <=> Written(from, msg)
  BY <1>1 DEF Written
<1>7. \A q \in Pushers : Buffer!Outgoing(q)' = Buffer!Outgoing(q)
  BY <1>1 DEF Buffer!Outgoing
<1>8. \A d \in LonePoppers : Buffer!ClaimOf(d)' = Buffer!ClaimOf(d)
  BY <1>1 DEF Buffer!ClaimOf
<1>9. /\ \A q \in Pushers, i \in Buffer!Positions : Puts(q, i)' <=> Puts(q, i)
      /\ \A d \in LonePoppers, i \in Buffer!Positions : Gets(d, i)' <=> Gets(d, i) \/ (d = c /\ i = h)
      /\ \A i \in Buffer!Positions : ~Gets(c, i)
  BY <1>1, <1>3, <1>5 DEF Puts, Gets
<1>10. bOverrun'[c] = FALSE /\ \A d \in LonePoppers : d # c => bOverrun'[d] = bOverrun[d]
  BY <1>1 DEF BufferIInv, BufferTypeOK
<1>11. PushesOwn'
  BY <1>1, <1>2, <1>7, <1>9 DEF BufferIInv, RecordsOwned, PushesOwn
<1>12. SetsWritten'
  BY <1>1, <1>3, <1>5, <1>6, <1>7 DEF BufferIInv, RecordsOwned, SetsWritten
<1>13. MarksWritten'
  BY <1>1, <1>2, <1>6 DEF BufferIInv, RecordsOwned, MarksWritten
<1>14. PopsOwn'
  <2> SUFFICES ASSUME NEW d \in LonePoppers, NEW i \in Buffer!Positions, Gets(d, i)'
               PROVE  /\ ~Held(i)' /\ bInfo'[i].flag
                      /\ bClaim'[i] \in Buffer!Messages
                      /\ Gap(bFrame'[d].at.buf, bFrame'[d].end) = bClaim'[i].size
                      /\ \A e \in LonePoppers : Gets(e, i)' => e = d
    BY DEF PopsOwn
  <2>1. CASE Gets(d, i)
    <3>1. /\ ~Held(i) /\ bInfo[i].flag
          /\ bClaim[i] \in Buffer!Messages /\ Gap(bFrame[d].at.buf, bFrame[d].end) = bClaim[i].size
          /\ \A e \in LonePoppers : Gets(e, i) => e = d
      BY <2>1 DEF BufferIInv, RecordsOwned, PopsOwn
    <3>2. i # h
      BY <1>2, <3>1
    <3> QED
      BY <1>1, <1>2, <1>9, <3>1, <3>2
  <2>2. CASE ~Gets(d, i)
    <3>1. d = c /\ i = h
      BY <1>9, <2>2
    <3>2. \A e \in LonePoppers : ~Gets(e, h)
      BY <1>2, <1>4 DEF BufferIInv, RecordsOwned, PopsOwn
    <3> QED
      BY <1>1, <1>2, <1>4, <1>9, <3>1, <3>2
  <2> QED
    BY <2>1, <2>2
<1>15. CopiesHold'
  <2> SUFFICES ASSUME NEW d \in LonePoppers, bPc'[d] = "popCopy"
               PROVE  bOverrun'[d] \/ Written(bFrame[d].at.buf, Buffer!ClaimOf(d))'
    BY DEF CopiesHold
  <2>1. CASE d = c
    <3>1. Written(bStart[h], bClaim[h])
      BY <1>2, <1>4 DEF BufferIInv, RecordsOwned, MarksWritten
    <3>2. bFrame[c].at.buf = bStart[h] /\ Buffer!ClaimOf(c) = bClaim[h]
      BY <1>1, <1>4 DEF Buffer!ClaimOf
    <3> QED
      BY <1>1, <1>6, <1>8, <2>1, <3>1, <3>2
  <2>2. CASE d # c
    BY <1>1, <1>5, <1>6, <1>8, <1>10, <2>2 DEF BufferIInv, RecordsOwned, CopiesHold
  <2> QED
    BY <2>1, <2>2
<1>16. Buffer!PoppedWhole'
  <2> SUFFICES ASSUME NEW d \in LonePoppers, bPc'[d] = "popClear"
               PROVE  bOverrun'[d] \/ bGot'[d] = Buffer!BytesOf(Buffer!ClaimOf(d)')
    BY DEF Buffer!PoppedWhole
  <2>1. /\ d # c /\ bPc[d] = "popClear" /\ bOverrun'[d] = bOverrun[d] /\ bGot'[d] = bGot[d]
        /\ Buffer!ClaimOf(d)' = Buffer!ClaimOf(d)
    BY <1>1, <1>5, <1>8, <1>10
  <2> QED
    BY <2>1 DEF BufferIInv, RecordsOwned, Buffer!PoppedWhole
<1> QED
  BY <1>11, <1>12, <1>13, <1>14, <1>15, <1>16 DEF RecordsOwned

LEMMA OwnedPopCopies ==
  ASSUME BufferParameters, BufferIInv, BufferHistories, NEW c \in LonePoppers, Buffer!PopCopies(c)
  PROVE  RecordsOwned'
<1> DEFINE k == bFrame[c].at.pos
           from == bFrame[c].at.buf
           len == Gap(from, bFrame[c].end)
<1>1. /\ OnlyOwn(c) /\ bPc[c] = "popCopy" /\ bPc'[c] = "popClear" /\ bFrame' = bFrame
      /\ \A d \in LonePoppers : d # c => bGot'[d] = bGot[d]
      /\ bGot'[c] = [n \in 1..len |-> bBytes[(from + n - 1) % BufferSize]]
      /\ UNCHANGED <<bHead, bTail, bBytes, bInfo, bSent, bClaim, bOverrun>>
  BY PopCopiesEffect DEF BufferIInv, Buffer!shared
<1>2. bStart' = bStart /\ \A i \in Buffer!Positions : Held(i)' <=> Held(i)
  BY <1>1, StartStays
<1>3. c \in Buffer!Threads /\ c \notin Pushers /\ \A u \in Pushers \cup LonePoppers : u \in Buffer!Threads
  BY DEF Buffer!Threads, BufferParameters
<1>4. k \in Buffer!Positions /\ from \in Buffer!Positions /\ bFrame[c].end \in Buffer!Positions
  BY <1>3 DEF BufferIInv, BufferTypeOK, Calls, Ends
<1>5. \A u \in Pushers \cup LonePoppers : u # c => bPc'[u] = bPc[u]
  BY <1>1, <1>3 DEF OnlyOwn
<1>6. \A a, msg : Written(a, msg)' <=> Written(a, msg)
  BY <1>1 DEF Written
<1>7. \A q \in Pushers : Buffer!Outgoing(q)' = Buffer!Outgoing(q)
  BY <1>1 DEF Buffer!Outgoing
<1>8. \A d \in LonePoppers : Buffer!ClaimOf(d)' = Buffer!ClaimOf(d)
  BY <1>1 DEF Buffer!ClaimOf
<1>9. /\ \A q \in Pushers, i \in Buffer!Positions : Puts(q, i)' <=> Puts(q, i)
      /\ \A d \in LonePoppers, i \in Buffer!Positions : Gets(d, i)' <=> Gets(d, i)
  BY <1>1, <1>3, <1>5 DEF Puts, Gets
<1>10. PushesOwn'
  BY <1>1, <1>2, <1>7, <1>9 DEF BufferIInv, RecordsOwned, PushesOwn
<1>11. SetsWritten'
  BY <1>1, <1>3, <1>5, <1>6, <1>7 DEF BufferIInv, RecordsOwned, SetsWritten
<1>12. MarksWritten'
  BY <1>1, <1>2, <1>6 DEF BufferIInv, RecordsOwned, MarksWritten
<1>13. PopsOwn'
  BY <1>1, <1>2, <1>9 DEF BufferIInv, RecordsOwned, PopsOwn
<1>14. CopiesHold'
  BY <1>1, <1>5, <1>6, <1>8 DEF BufferIInv, RecordsOwned, CopiesHold
<1>15. bOverrun[c] \/ bGot'[c] = Buffer!BytesOf(bClaim[k])
  <2> SUFFICES ASSUME ~bOverrun[c] PROVE bGot'[c] = Buffer!BytesOf(bClaim[k])
    OBVIOUS
  <2>1. Written(from, bClaim[k])
    BY <1>1 DEF BufferIInv, RecordsOwned, CopiesHold, Buffer!ClaimOf
  <2>2. bClaim[k].size = len
    BY <1>1, <1>4 DEF BufferIInv, RecordsOwned, PopsOwn, Gets
  <2>3. len \in Nat /\ len < BufferSize
    BY <1>4, GapNat
  <2> HIDE DEF len, k
  <2>4. ASSUME NEW n \in 1..len PROVE bBytes[(from + n - 1) % BufferSize] = <<bClaim[k], n>>
    <3> PICK m : m = n - 1
      OBVIOUS
    <3>1. m \in Nat /\ m < BufferSize /\ m < len /\ m + 1 = n /\ from + n - 1 = from + m
      BY <1>4, <2>3 DEF Buffer!Positions, BufferParameters
    <3>2. (from + m) % BufferSize \in Buffer!Positions /\ Gap(from, (from + m) % BufferSize) = m
      BY <1>4, <3>1, EndOfSum
    <3> QED
      BY <2>1, <2>2, <3>1, <3>2 DEF Written
  <2> QED
    BY <1>1, <2>2, <2>4 DEF Buffer!BytesOf, len
<1>16. Buffer!PoppedWhole'
  <2> SUFFICES ASSUME NEW d \in LonePoppers, bPc'[d] = "popClear"
               PROVE  bOverrun'[d] \/ bGot'[d] = Buffer!BytesOf(Buffer!ClaimOf(d)')
    BY DEF Buffer!PoppedWhole
  <2>1. CASE d = c
    BY <1>1, <1>8, <1>15, <2>1 DEF Buffer!ClaimOf
  <2>2. CASE d # c
    BY <1>1, <1>5, <1>8, <2>2 DEF BufferIInv, RecordsOwned, Buffer!PoppedWhole
  <2> QED
    BY <2>1, <2>2
<1> QED
  BY <1>10, <1>11, <1>12, <1>13, <1>14, <1>16 DEF RecordsOwned

LEMMA OwnedPopClears ==
  ASSUME BufferParameters, BufferIInv, BufferHistories, NEW c \in LonePoppers, Buffer!PopClearsInfo(c)
  PROVE  RecordsOwned'
<1> DEFINE k == bFrame[c].at.pos
<1>1. /\ OnlyOwn(c) /\ bPc[c] = "popClear" /\ bPc'[c] = "idle"
      /\ bInfo' = [bInfo EXCEPT ![k] = Buffer!EmptyInfo] /\ k \in Buffer!Positions
      /\ \A d \in LonePoppers : d # c => bGot'[d] = bGot[d]
      /\ bOverrun' = [bOverrun EXCEPT ![c] = FALSE]
      /\ UNCHANGED <<bHead, bTail, bBytes, bSent, bClaim>>
  BY PopClearsEffect DEF BufferIInv
<1>2. bStart' = bStart /\ \A i \in Buffer!Positions : Held(i)' <=> Held(i)
  BY <1>1, StartStays
<1>3. c \in Buffer!Threads /\ c \notin Pushers /\ \A u \in Pushers \cup LonePoppers : u \in Buffer!Threads
  BY DEF Buffer!Threads, BufferParameters
<1>4. Gets(c, k) /\ ~Held(k) /\ \A d \in LonePoppers : Gets(d, k) => d = c
  BY <1>1 DEF BufferIInv, RecordsOwned, PopsOwn, Gets
<1>5. /\ \A i \in Buffer!Positions : i # k => bInfo'[i] = bInfo[i]
      /\ ~bInfo'[k].flag
  BY <1>1 DEF BufferIInv, BufferTypeOK, Buffer!EmptyInfo
<1>6. \A u \in Pushers \cup LonePoppers : u # c => bPc'[u] = bPc[u] /\ bFrame'[u] = bFrame[u]
  BY <1>1, <1>3 DEF OnlyOwn
<1>7. \A from, msg : Written(from, msg)' <=> Written(from, msg)
  BY <1>1 DEF Written
<1>8. \A q \in Pushers : Buffer!Outgoing(q)' = Buffer!Outgoing(q) /\ bPc'[q] = bPc[q] /\ bFrame'[q] = bFrame[q]
  BY <1>1, <1>3, <1>6 DEF Buffer!Outgoing
<1>9. /\ \A q \in Pushers, i \in Buffer!Positions : Puts(q, i)' <=> Puts(q, i)
      /\ \A d \in LonePoppers, i \in Buffer!Positions : Gets(d, i)' <=> Gets(d, i) /\ d # c
  BY <1>1, <1>6, <1>8 DEF Puts, Gets
<1>10. \A d \in LonePoppers : d # c => /\ bOverrun'[d] = bOverrun[d] /\ bGot'[d] = bGot[d]
                                       /\ Buffer!ClaimOf(d)' = Buffer!ClaimOf(d) /\ bPc'[d] = bPc[d]
                                       /\ bFrame'[d] = bFrame[d]
  BY <1>1, <1>6 DEF BufferIInv, BufferTypeOK, Buffer!ClaimOf
<1>11. PushesOwn'
  <2> SUFFICES ASSUME NEW q \in Pushers, NEW i \in Buffer!Positions, Puts(q, i)'
               PROVE  /\ Held(i)' /\ ~bInfo'[i].flag
                      /\ bClaim'[i] = Buffer!Outgoing(q)' /\ bFrame'[q].at.buf = bStart'[i]
                      /\ bFrame'[q].end = bStart'[Beyond(i)]
                      /\ \A r \in Pushers : Puts(r, i)' => r = q
    BY DEF PushesOwn
  <2>1. Puts(q, i)
    BY <1>9
  <2>2. /\ Held(i) /\ ~bInfo[i].flag
        /\ bClaim[i] = Buffer!Outgoing(q) /\ bFrame[q].at.buf = bStart[i] /\ bFrame[q].end = bStart[Beyond(i)]
        /\ \A r \in Pushers : Puts(r, i) => r = q
    BY <2>1 DEF BufferIInv, RecordsOwned, PushesOwn
  <2> QED
    BY <1>1, <1>2, <1>5, <1>8, <1>9, <2>2
<1>12. SetsWritten'
  BY <1>7, <1>8 DEF BufferIInv, RecordsOwned, SetsWritten
<1>13. MarksWritten'
  <2> SUFFICES ASSUME NEW i \in Buffer!Positions, Held(i)', bInfo'[i].flag
               PROVE  bInfo'[i].end = bStart'[Beyond(i)] /\ Written(bStart[i], bClaim[i])'
    BY DEF MarksWritten
  <2>1. i # k /\ Held(i) /\ bInfo[i].flag
    BY <1>2, <1>5
  <2>2. bInfo[i].end = bStart[Beyond(i)] /\ Written(bStart[i], bClaim[i])
    BY <2>1 DEF BufferIInv, RecordsOwned, MarksWritten
  <2> QED
    BY <1>1, <1>2, <1>5, <1>7, <2>1, <2>2
<1>14. PopsOwn'
  <2> SUFFICES ASSUME NEW d \in LonePoppers, NEW i \in Buffer!Positions, Gets(d, i)'
               PROVE  /\ ~Held(i)' /\ bInfo'[i].flag
                      /\ bClaim'[i] \in Buffer!Messages
                      /\ Gap(bFrame'[d].at.buf, bFrame'[d].end) = bClaim'[i].size
                      /\ \A e \in LonePoppers : Gets(e, i)' => e = d
    BY DEF PopsOwn
  <2>1. Gets(d, i) /\ d # c /\ i # k
    BY <1>4, <1>9
  <2>2. /\ ~Held(i) /\ bInfo[i].flag
        /\ bClaim[i] \in Buffer!Messages /\ Gap(bFrame[d].at.buf, bFrame[d].end) = bClaim[i].size
        /\ \A e \in LonePoppers : Gets(e, i) => e = d
    BY <2>1 DEF BufferIInv, RecordsOwned, PopsOwn
  <2> QED
    BY <1>1, <1>2, <1>5, <1>9, <1>10, <2>1, <2>2
<1>15. CopiesHold'
  BY <1>1, <1>7, <1>10 DEF BufferIInv, RecordsOwned, CopiesHold
<1>16. Buffer!PoppedWhole'
  BY <1>1, <1>10 DEF BufferIInv, RecordsOwned, Buffer!PoppedWhole
<1> QED
  BY <1>11, <1>12, <1>13, <1>14, <1>15, <1>16 DEF RecordsOwned

LEMMA OwnedStep == ASSUME BufferParameters, BufferIInv, BufferAwake, BufferStep PROVE RecordsOwned'
<1>1. BufferTypeOK /\ BufferHistories /\ Buffer!Next
  BY DEF BufferIInv, BufferStep
<1>2. \A u \in Pushers \cup LonePoppers : u \in Buffer!Threads
  BY DEF Buffer!Threads
<1>3. ASSUME NEW p \in Pushers, PushReads(p) PROVE RecordsOwned'
  <2>1. Buffer!NothingElse /\ OnlyOwn(p) /\ bPc[p] \notin Owning /\ bPc'[p] \notin Owning
    BY <1>1, <1>3, PushReadsEffect DEF PushPlaces, Owning
  <2> QED
    BY <1>1, <1>2, <2>1, OwnedReads
<1>4. ASSUME NEW c \in LonePoppers, PopReads(c) PROVE RecordsOwned'
  <2>1. Buffer!NothingElse /\ OnlyOwn(c) /\ bPc[c] \notin Owning /\ bPc'[c] \notin Owning
    BY <1>1, <1>4, PopReadsEffect DEF PopPlaces, Owning
  <2> QED
    BY <1>1, <1>2, <2>1, OwnedReads
<1> QED
  BY <1>1, <1>3, <1>4, OwnedPushSwaps, OwnedPushCopies, OwnedPushSets, OwnedPopSwaps, OwnedPopCopies,
     OwnedPopClears, BufferSteps

--------------------------------------------------------------------------------
(* Tags *)

\* Each step moves at most one end, by one, and each copy of a tag is kept or read anew.
LEMMA CopiesOfTags ==
  ASSUME BufferParameters, BufferIInv, BufferStep, NEW t \in Buffer!Threads
  PROVE  /\ EndOf(t)' = EndOf(t) \/ EndOf(t)'.tag = (EndOf(t).tag + 1) % TagModulus
         /\ bPc'[t] \in HasCopy =>
               \/ bPc[t] \in HasCopy /\ bFrame'[t].at = bFrame[t].at
               \/ bPc[t] \notin HasCopy /\ bFrame'[t].at.tag = EndOf(t).tag /\ EndOf(t)' = EndOf(t)
<1> USE DEF EndOf, HasCopy
<1>1. BufferTypeOK /\ Buffer!Next
  BY DEF BufferIInv, BufferStep
<1>2. /\ \A u \in Pushers : u \in Buffer!Threads /\ u \notin LonePoppers
      /\ \A u \in LonePoppers : u \in Buffer!Threads /\ u \notin Pushers
  BY DEF Buffer!Threads, BufferParameters
<1>3. ASSUME NEW p \in Pushers, PushReads(p) PROVE UNCHANGED <<bHead, bTail>>
  BY <1>1, <1>3, PushReadsEffect DEF Buffer!NothingElse, Buffer!shared
<1>4. ASSUME NEW c \in LonePoppers, PopReads(c) PROVE UNCHANGED <<bHead, bTail>>
  BY <1>1, <1>4, PopReadsEffect DEF Buffer!NothingElse, Buffer!shared
<1>5. EndOf(t)' = EndOf(t) \/ EndOf(t)'.tag = (EndOf(t).tag + 1) % TagModulus
  <2>1. ASSUME NEW p \in Pushers, Buffer!PushSwaps(p)
        PROVE  bHead' = bHead /\ bTail'.tag = (bTail.tag + 1) % TagModulus
    BY <1>1, <2>1, PushSwapsEffect
  <2>2. ASSUME NEW c \in LonePoppers, Buffer!PopSwaps(c)
        PROVE  bTail' = bTail /\ bHead'.tag = (bHead.tag + 1) % TagModulus
    BY <1>1, <2>2, PopSwapsEffect
  <2>3. ASSUME NEW p \in Pushers, Buffer!PushCopies(p) \/ Buffer!PushSetsInfo(p)
        PROVE  UNCHANGED <<bHead, bTail>>
    BY <1>1, <2>3, PushCopiesEffect, PushSetsEffect
  <2>4. ASSUME NEW c \in LonePoppers, Buffer!PopCopies(c) \/ Buffer!PopClearsInfo(c)
        PROVE  UNCHANGED <<bHead, bTail>>
    BY <1>1, <2>4, PopCopiesEffect, PopClearsEffect DEF Buffer!shared
  <2> QED
    BY <1>1, <1>3, <1>4, <2>1, <2>2, <2>3, <2>4, BufferSteps
<1>6. ASSUME NEW u \in Buffer!Threads, OnlyOwn(u), u # t
      PROVE  bPc'[t] = bPc[t] /\ bFrame'[t].at = bFrame[t].at
  BY <1>6 DEF OnlyOwn
<1>7. ASSUME bPc'[t] \in HasCopy
      PROVE  \/ bPc[t] \in HasCopy /\ bFrame'[t].at = bFrame[t].at
             \/ bPc[t] \notin HasCopy /\ bFrame'[t].at.tag = EndOf(t).tag /\ EndOf(t)' = EndOf(t)
  <2>1. ASSUME NEW p \in Pushers, PushReads(p), p = t
        PROVE  \/ bPc[t] \in HasCopy /\ bFrame'[t].at = bFrame[t].at
               \/ bPc[t] \notin HasCopy /\ bFrame'[t].at.tag = EndOf(t).tag /\ EndOf(t)' = EndOf(t)
    <3>1. CASE bPc'[p] = "pushTail"
      <4>1. bPc[p] = "pushPos" /\ bFrame'[p].at.tag = bTail.tag
        BY <1>1, <2>1, <3>1, PushReadsEffect
      <4> QED
        BY <1>3, <2>1, <4>1
    <3>2. CASE bPc'[p] # "pushTail"
      <4>1. bPc'[p] \in {"pushRoom", "pushNum", "pushInfo", "pushCas"}
        BY <1>1, <1>7, <2>1, <3>2, PushReadsEffect DEF PushPlaces
      <4>2. bFrame'[p].at = bFrame[p].at /\ bPc[p] \in HasCopy
        <5>1. bPc[p] \in {"pushTail", "pushRoom", "pushNum", "pushInfo"}
          BY <1>1, <2>1, <4>1, PushReadsEffect
        <5> QED
          BY <1>1, <2>1, <4>1, <5>1, PushReadsEffect
      <4> QED
        BY <2>1, <4>2
    <3> QED
      BY <3>1, <3>2
  <2>2. ASSUME NEW c \in LonePoppers, PopReads(c), c = t
        PROVE  \/ bPc[t] \in HasCopy /\ bFrame'[t].at = bFrame[t].at
               \/ bPc[t] \notin HasCopy /\ bFrame'[t].at.tag = EndOf(t).tag /\ EndOf(t)' = EndOf(t)
    <3>1. CASE bPc'[c] = "popSome"
      <4>1. bPc[c] = "popPos" /\ bFrame'[c].at.tag = bHead.tag
        BY <1>1, <2>2, <3>1, PopReadsEffect
      <4> QED
        BY <1>2, <1>4, <2>2, <4>1
    <3>2. CASE bPc'[c] # "popSome"
      <4>1. bPc'[c] \in {"popInfo", "popEnd", "popTold", "popCas"}
        BY <1>1, <1>7, <2>2, <3>2, PopReadsEffect DEF PopPlaces
      <4>2. bFrame'[c].at = bFrame[c].at /\ bPc[c] \in HasCopy
        <5>1. bPc[c] \in {"popSome", "popInfo", "popEnd"}
          BY <1>1, <2>2, <4>1, PopReadsEffect
        <5> QED
          BY <1>1, <2>2, <4>1, <5>1, PopReadsEffect
      <4> QED
        BY <2>2, <4>2
    <3> QED
      BY <3>1, <3>2
  <2>3. ASSUME NEW p \in Pushers,
               PushReads(p) \/ Buffer!PushSwaps(p) \/ Buffer!PushCopies(p) \/ Buffer!PushSetsInfo(p)
        PROVE  OnlyOwn(p) /\ (~PushReads(p) => p # t)
    BY ZenonT(60), <1>1, <1>7, <2>3, PushReadsEffect, PushSwapsEffect, PushCopiesEffect, PushSetsEffect
  <2>4. ASSUME NEW c \in LonePoppers,
               PopReads(c) \/ Buffer!PopSwaps(c) \/ Buffer!PopCopies(c) \/ Buffer!PopClearsInfo(c)
        PROVE  OnlyOwn(c) /\ (~PopReads(c) => c # t)
    BY ZenonT(60), <1>1, <1>7, <2>4, PopReadsEffect, PopSwapsEffect, PopCopiesEffect, PopClearsEffect
  <2> QED
    BY <1>1, <1>2, <1>6, <1>7, <2>1, <2>2, <2>3, <2>4, BufferSteps
<1> QED
  BY <1>5, <1>7

LEMMA TagsKeptStep == ASSUME BufferParameters, BufferIInv, BufferAwake, BufferStep PROVE TagsKept'
<1> SUFFICES ASSUME NEW t \in Buffer!Threads
             PROVE  /\ bPc'[t] \notin HasCopy => bLag'[t] = 0
                    /\ bPc'[t] \in HasCopy /\ bLag'[t] < TagModulus
                          => bFrame'[t].at.tag = TagAgo(EndOf(t)'.tag, bLag'[t])
  BY DEF TagsKept, TagAgo
<1>1. /\ bLag'[t] = IF bPc'[t] \in HasCopy THEN bLag[t] + (IF EndOf(t)' # EndOf(t) THEN 1 ELSE 0) ELSE 0
      /\ bLag[t] \in Nat /\ bLag[t] < TagModulus
      /\ EndOf(t).tag \in 0..(TagModulus - 1)
  BY DEF BufferStep, BufferHistories, BufferIInv, BufferHistoriesOK, BufferAwake, BufferTypeOK, Ends, EndOf
<1>2. /\ bPc[t] \notin HasCopy => bLag[t] = 0
      /\ bPc[t] \in HasCopy => bFrame[t].at.tag = TagAgo(EndOf(t).tag, bLag[t])
  BY <1>1 DEF BufferIInv, TagsKept
<1>3. ASSUME bPc'[t] \in HasCopy, bLag'[t] < TagModulus
      PROVE  bFrame'[t].at.tag = TagAgo(EndOf(t)'.tag, bLag'[t])
  <2>1. CASE bPc[t] \notin HasCopy
    <3>1. bFrame'[t].at.tag = EndOf(t).tag /\ EndOf(t)' = EndOf(t)
      BY <1>3, <2>1, CopiesOfTags
    <3> QED
      BY <1>1, <1>2, <1>3, <2>1, <3>1, TagAgoFacts
  <2>2. CASE bPc[t] \in HasCopy
    <3>1. bFrame'[t].at = bFrame[t].at
      BY <1>3, <2>2, CopiesOfTags
    <3>2. CASE EndOf(t)' = EndOf(t)
      BY <1>1, <1>2, <1>3, <2>2, <3>1, <3>2
    <3>3. CASE EndOf(t)' # EndOf(t)
      <4>1. EndOf(t)'.tag = (EndOf(t).tag + 1) % TagModulus /\ bLag'[t] = bLag[t] + 1
        BY <1>1, <1>3, <3>3, CopiesOfTags
      <4>2. TagAgo((EndOf(t).tag + 1) % TagModulus, bLag[t] + 1) = TagAgo(EndOf(t).tag, bLag[t])
        BY <1>1, <1>3, <4>1, TagAgoFacts
      <4> QED
        BY <1>2, <2>2, <3>1, <4>1, <4>2
    <3> QED
      BY <3>2, <3>3
  <2> QED
    BY <2>1, <2>2
<1> QED
  BY <1>1, <1>3

--------------------------------------------------------------------------------
(* What has been checked stays true while the copy is current *)

LEMMA StaysCurrent ==
  ASSUME BufferParameters, BufferIInv, BufferStep, NEW t \in Buffer!Threads, UpToDate(t)',
         bPc[t] \in HasCopy, bPc'[t] \in HasCopy
  PROVE  UpToDate(t) /\ EndOf(t)' = EndOf(t)
<1>1. bLag'[t] = bLag[t] + (IF EndOf(t)' # EndOf(t) THEN 1 ELSE 0) /\ bLag[t] \in Nat
  BY DEF BufferStep, BufferHistories, BufferIInv, BufferHistoriesOK
<1>2. bLag'[t] = 0 /\ bFrame'[t].at = EndOf(t)'
  BY DEF UpToDate
<1>3. bLag[t] = 0 /\ EndOf(t)' = EndOf(t)
  BY <1>1, <1>2
<1>4. bFrame'[t].at = bFrame[t].at
  BY CopiesOfTags
<1> QED
  BY <1>2, <1>3, <1>4 DEF UpToDate

\* Where the thread of a step may have come from.
LEMMA OwnOrOthers ==
  ASSUME BufferParameters, BufferIInv, BufferStep, NEW t \in Buffer!Threads, bPc'[t] \in HasCopy
  PROVE  \/ t \in Pushers /\ PushReads(t)
         \/ t \in LonePoppers /\ PopReads(t)
         \/ bPc'[t] = bPc[t] /\ bFrame'[t] = bFrame[t]
<1>1. BufferTypeOK /\ Buffer!Next
  BY DEF BufferIInv, BufferStep
<1>2. ASSUME NEW p \in Pushers,
             PushReads(p) \/ Buffer!PushSwaps(p) \/ Buffer!PushCopies(p) \/ Buffer!PushSetsInfo(p)
      PROVE  OnlyOwn(p) /\ (~PushReads(p) => p # t)
  BY ZenonT(60), <1>1, <1>2, PushReadsEffect, PushSwapsEffect, PushCopiesEffect, PushSetsEffect DEF HasCopy
<1>3. ASSUME NEW c \in LonePoppers,
             PopReads(c) \/ Buffer!PopSwaps(c) \/ Buffer!PopCopies(c) \/ Buffer!PopClearsInfo(c)
      PROVE  OnlyOwn(c) /\ (~PopReads(c) => c # t)
  BY ZenonT(60), <1>1, <1>3, PopReadsEffect, PopSwapsEffect, PopCopiesEffect, PopClearsEffect DEF HasCopy
<1> QED
  BY <1>1, <1>2, <1>3, BufferSteps DEF OnlyOwn

LEMMA OthersKeep ==
  ASSUME BufferParameters, BufferIInv, BufferAwake, BufferStep
  PROVE  /\ bTail' = bTail =>
              /\ Gap(bHead'.buf, bTail.buf) <= Gap(bHead.buf, bTail.buf)
              /\ Beyond(bTail.pos) # bHead.pos => Beyond(bTail.pos) # bHead'.pos
              /\ ~bInfo[bTail.pos].flag => ~bInfo'[bTail.pos].flag
         /\ bHead' = bHead /\ bHead.pos # bTail.pos =>
              /\ bHead.pos # bTail'.pos
              /\ bInfo[bHead.pos].flag => bInfo'[bHead.pos].flag /\ bInfo'[bHead.pos].end = bInfo[bHead.pos].end
<1> DEFINE Kept ==
             /\ bTail' = bTail =>
                  /\ Gap(bHead'.buf, bTail.buf) <= Gap(bHead.buf, bTail.buf)
                  /\ Beyond(bTail.pos) # bHead.pos => Beyond(bTail.pos) # bHead'.pos
                  /\ ~bInfo[bTail.pos].flag => ~bInfo'[bTail.pos].flag
             /\ bHead' = bHead /\ bHead.pos # bTail.pos =>
                  /\ bHead.pos # bTail'.pos
                  /\ bInfo[bHead.pos].flag => bInfo'[bHead.pos].flag /\ bInfo'[bHead.pos].end = bInfo[bHead.pos].end
<1>1. BufferTypeOK /\ Buffer!Next /\ BufferHistories
  BY DEF BufferIInv, BufferStep
<1>2. /\ bHead.pos \in Buffer!Positions /\ bTail.pos \in Buffer!Positions /\ bHead.buf \in Buffer!Positions
      /\ bTail.buf \in Buffer!Positions
      /\ Gap(bHead.buf, bTail.buf) \in Nat
  <2>1. /\ bHead.pos \in Buffer!Positions /\ bTail.pos \in Buffer!Positions /\ bHead.buf \in Buffer!Positions
        /\ bTail.buf \in Buffer!Positions
    BY <1>1 DEF BufferTypeOK, Ends
  <2> QED
    BY <2>1, GapNat
<1>3. ASSUME UNCHANGED <<bHead, bTail, bInfo>> PROVE Kept
  BY <1>2, <1>3
<1>4. ASSUME NEW p \in Pushers, PushReads(p) PROVE Kept
  BY <1>1, <1>3, <1>4, PushReadsEffect DEF Buffer!NothingElse, Buffer!shared
<1>5. ASSUME NEW c \in LonePoppers, PopReads(c) PROVE Kept
  BY <1>1, <1>3, <1>5, PopReadsEffect DEF Buffer!NothingElse, Buffer!shared
<1>6. ASSUME NEW p \in Pushers, Buffer!PushCopies(p) PROVE Kept
  BY <1>1, <1>3, <1>6, PushCopiesEffect
<1>7. ASSUME NEW c \in LonePoppers, Buffer!PopCopies(c) PROVE Kept
  BY <1>1, <1>3, <1>7, PopCopiesEffect DEF Buffer!shared
<1>8. ASSUME NEW p \in Pushers, Buffer!PushSwaps(p) PROVE Kept
  <2>1. UNCHANGED <<bHead, bInfo>> /\ bTail'.pos = Beyond(bTail.pos)
    BY <1>1, <1>8, PushSwapsEffect
  <2>2. Beyond(bTail.pos) # bHead.pos
    BY <1>1, <1>8, PushSwapFacts
  <2> QED
    BY <1>2, <2>1, <2>2
<1>9. ASSUME NEW c \in LonePoppers, Buffer!PopSwaps(c) PROVE Kept
  <2>1. UNCHANGED <<bTail, bInfo>> /\ bHead'.pos = Beyond(bHead.pos) /\ bHead'.buf \in Buffer!Positions
    BY <1>1, <1>9, PopSwapsEffect DEF Ends
  <2>2. bHead.pos # bTail.pos /\ Held(bHead.pos) /\ Gap(bHead.buf, bHead'.buf) = bClaim[bHead.pos].size
    BY <1>1, <1>9, PopSwapFacts
  <2>3. Beyond(bHead.pos) # Beyond(bTail.pos)
    BY <1>2, <2>2 DEF Beyond, Buffer!Positions, BufferParameters
  <2>4. Gap(bHead.buf, bHead'.buf) <= Gap(bHead.buf, bTail.buf)
    <3>1. Gap(bHead.pos, bHead.pos) < Gap(bHead.pos, bTail.pos) /\ Gap(bHead.pos, bTail.pos) \in Nat
      BY <1>2, <2>2, GapNat DEF Held
    <3>2. Gap(bHead.buf, bStart[bHead.pos]) + bClaim[bHead.pos].size <= Gap(bHead.buf, bStart[bTail.pos])
      BY <1>2, <3>1 DEF BufferIInv, Laid
    <3>3. bStart[bHead.pos] = bHead.buf /\ bStart[bTail.pos] = bTail.buf
      BY DEF BufferIInv, Laid
    <3>4. Gap(bHead.buf, bHead.buf) = 0 /\ Gap(bHead.buf, bHead'.buf) \in Nat
      BY <1>2, <2>1, GapNat
    <3> QED
      BY <2>2, <3>2, <3>3, <3>4
  <2>5. Gap(bHead'.buf, bTail.buf) = Gap(bHead.buf, bTail.buf) - Gap(bHead.buf, bHead'.buf)
    BY <1>2, <2>1, <2>4, FromLater
  <2>6. Gap(bHead.buf, bHead'.buf) \in Nat
    BY <1>2, <2>1, GapNat
  <2> QED
    BY <1>2, <2>1, <2>2, <2>3, <2>5, <2>6
<1>10. ASSUME NEW p \in Pushers, Buffer!PushSetsInfo(p) PROVE Kept
  <2> DEFINE i == bFrame[p].at.pos
  <2>1. /\ UNCHANGED <<bHead, bTail>> /\ bPc[p] = "pushSet" /\ i \in Buffer!Positions
        /\ bInfo' = [bInfo EXCEPT ![i] = [end |-> bFrame[p].end, flag |-> TRUE]]
    BY <1>1, <1>10, PushSetsEffect
  <2>2. Held(i) /\ ~bInfo[i].flag
    BY <2>1 DEF BufferIInv, RecordsOwned, PushesOwn, Puts
  <2>3. i # bTail.pos
    BY <1>2, <2>2, GapNat DEF Held
  <2>4. \A j \in Buffer!Positions : j # i => bInfo'[j] = bInfo[j]
    BY <1>1, <2>1 DEF BufferTypeOK
  <2> HIDE DEF i
  <2> QED
    BY <1>2, <2>1, <2>2, <2>3, <2>4
<1>11. ASSUME NEW c \in LonePoppers, Buffer!PopClearsInfo(c) PROVE Kept
  <2> DEFINE i == bFrame[c].at.pos
  <2>1. /\ UNCHANGED <<bHead, bTail>> /\ bPc[c] = "popClear" /\ i \in Buffer!Positions
        /\ bInfo' = [bInfo EXCEPT ![i] = Buffer!EmptyInfo]
    BY <1>1, <1>11, PopClearsEffect
  <2>2. ~Held(i)
    BY <2>1 DEF BufferIInv, RecordsOwned, PopsOwn, Gets
  <2>3. bHead.pos # bTail.pos => i # bHead.pos
    BY <1>2, <2>2, GapNat DEF Held
  <2>4. /\ \A j \in Buffer!Positions : j # i => bInfo'[j] = bInfo[j]
        /\ ~bInfo'[i].flag
    BY <1>1, <2>1 DEF BufferTypeOK, Buffer!EmptyInfo
  <2> HIDE DEF i
  <2> QED
    BY <1>2, <2>1, <2>3, <2>4
<1>12. Kept
  <2> HIDE DEF Kept
  <2> QED
    BY <1>1, <1>4, <1>5, <1>6, <1>7, <1>8, <1>9, <1>10, <1>11, BufferSteps
<1> QED
  BY <1>12

LEMMA CheckedPush ==
  ASSUME BufferParameters, BufferIInv, BufferAwake, BufferStep, BufferTypeOK', NEW p \in Pushers
  PROVE  /\ bPc'[p] \in {"pushNum", "pushInfo", "pushCas"} =>
               bFrame'[p].size < BufferSize /\ Gap(bFrame'[p].at.buf, bFrame'[p].end) = bFrame'[p].size
         /\ UpToDate(p)' =>
              /\ bPc'[p] = "pushRoom" => bFrame'[p].end = bTail'.buf
              /\ bPc'[p] \in {"pushNum", "pushInfo", "pushCas"} =>
                    bFrame'[p].size + Gap(bHead'.buf, bTail'.buf) < BufferSize
              /\ bPc'[p] \in {"pushInfo", "pushCas"} => Beyond(bTail'.pos) # bHead'.pos
              /\ bPc'[p] = "pushCas" => ~bInfo'[bTail'.pos].flag
<1>1. p \in Buffer!Threads /\ EndOf(p) = bTail /\ EndOf(p)' = bTail'
  BY DEF Buffer!Threads, EndOf
<1>2. /\ bTail.buf \in Buffer!Positions /\ bTail.pos \in Buffer!Positions /\ bHead.buf \in Buffer!Positions
      /\ bHead'.buf \in Buffer!Positions
      /\ bFrame[p].at.buf \in Buffer!Positions /\ bFrame[p].at.pos \in Buffer!Positions
      /\ bFrame[p].end \in Buffer!Positions
      /\ BufferSize \in Nat \ {0}
  BY <1>1 DEF BufferIInv, BufferTypeOK, Calls, Ends, BufferParameters
<1>3. /\ bPc[p] \in {"pushNum", "pushInfo", "pushCas"} =>
            bFrame[p].size < BufferSize /\ Gap(bFrame[p].at.buf, bFrame[p].end) = bFrame[p].size
      /\ UpToDate(p) =>
           /\ bPc[p] = "pushRoom" => bFrame[p].end = bTail.buf
           /\ bPc[p] \in {"pushNum", "pushInfo", "pushCas"} =>
                 bFrame[p].size + Gap(bHead.buf, bTail.buf) < BufferSize
           /\ bPc[p] \in {"pushInfo", "pushCas"} => Beyond(bTail.pos) # bHead.pos
           /\ bPc[p] = "pushCas" => ~bInfo[bTail.pos].flag
  BY DEF BufferIInv, ChecksHold
<1>4. UpToDate(p) => bFrame[p].at = bTail
  BY <1>1 DEF UpToDate
<1>5. ASSUME UpToDate(p)', bPc[p] \in HasCopy, bPc'[p] \in HasCopy PROVE UpToDate(p) /\ bTail' = bTail
  BY <1>1, <1>5, StaysCurrent
<1>6. CASE bPc'[p] = bPc[p] /\ bFrame'[p] = bFrame[p]
  <2>1. bFrame[p].size \in Nat \/ bPc[p] = "idle"
    BY DEF BufferIInv, BufferTypeOK, BufferParameters
  <2>2. Gap(bHead.buf, bTail.buf) \in Nat /\ Gap(bHead'.buf, bTail.buf) \in Nat
    BY <1>2, GapNat
  <2> QED
    BY <1>2, <1>3, <1>5, <1>6, <2>1, <2>2, OthersKeep DEF HasCopy
<1>7. CASE PushReads(p)
  <2>1. UNCHANGED <<bHead, bTail, bInfo>>
    BY <1>7, PushReadsEffect DEF Buffer!NothingElse, Buffer!shared, BufferIInv
  <2>2. CASE bPc'[p] = "pushRoom"
    BY <1>7, <2>1, <2>2, PushReadsEffect DEF BufferIInv
  <2>3. CASE bPc'[p] = "pushNum"
    <3>1. /\ bPc[p] = "pushRoom" /\ bFrame[p].size <= Buffer!GetFreeSize(bFrame[p].end, bHead.buf)
          /\ bFrame'[p].end = (bFrame[p].at.buf + bFrame[p].size) % BufferSize
          /\ bFrame'[p].at = bFrame[p].at /\ bFrame'[p].size = bFrame[p].size
      BY <1>7, <2>3, PushReadsEffect DEF BufferIInv
    <3>2. bFrame[p].size \in Nat
      BY <3>1 DEF BufferIInv, BufferTypeOK, BufferParameters
    <3>3. Buffer!GetFreeSize(bFrame[p].end, bHead.buf) = BufferSize - Gap(bHead.buf, bFrame[p].end) - 1
      BY <1>2, DistanceValue DEF Buffer!GetFreeSize
    <3>4. Gap(bHead.buf, bFrame[p].end) \in Nat
      BY <1>2, GapNat
    <3>5. bFrame[p].size < BufferSize /\ bFrame[p].size + Gap(bHead.buf, bFrame[p].end) < BufferSize
      BY <1>2, <3>1, <3>2, <3>3, <3>4
    <3>6. Gap(bFrame'[p].at.buf, bFrame'[p].end) = bFrame'[p].size
      BY <1>2, <3>1, <3>2, <3>5, EndOfSum
    <3> QED
      BY <1>3, <1>5, <2>1, <2>3, <3>1, <3>5, <3>6 DEF HasCopy
  <2>4. CASE bPc'[p] = "pushInfo"
    <3>1. bPc[p] = "pushNum" /\ bFrame'[p] = bFrame[p] /\ (bFrame[p].at.pos + 1) % BufferSize # bHead.pos
      BY <1>7, <2>4, PushReadsEffect DEF BufferIInv
    <3>2. Beyond(bFrame[p].at.pos) # bHead.pos
      BY <1>2, <3>1, BeyondValue
    <3> QED
      BY <1>3, <1>4, <1>5, <2>1, <2>4, <3>1, <3>2 DEF HasCopy
  <2>5. CASE bPc'[p] = "pushCas"
    <3>1. bPc[p] = "pushInfo" /\ bFrame'[p] = bFrame[p] /\ ~bInfo[bFrame[p].at.pos].flag
      BY <1>7, <2>5, PushReadsEffect DEF BufferIInv
    <3> QED
      BY <1>3, <1>4, <1>5, <2>1, <2>5, <3>1 DEF HasCopy
  <2> QED
    BY <2>2, <2>3, <2>4, <2>5
<1>8. p \notin LonePoppers
  BY DEF BufferParameters
<1>9. bPc'[p] \in {"pushRoom", "pushNum", "pushInfo", "pushCas"} => bPc'[p] \in HasCopy
  BY DEF HasCopy
<1> QED
  BY <1>1, <1>6, <1>7, <1>8, <1>9, OwnOrOthers

LEMMA CheckedPop ==
  ASSUME BufferParameters, BufferIInv, BufferAwake, BufferStep, NEW c \in LonePoppers, UpToDate(c)'
  PROVE  /\ bPc'[c] \in {"popInfo", "popEnd", "popCas"} => bHead'.pos # bTail'.pos
         /\ bPc'[c] \in {"popEnd", "popCas"} => bInfo'[bHead'.pos].flag
         /\ bPc'[c] = "popCas" => bFrame'[c].end = bInfo'[bHead'.pos].end
<1>1. c \in Buffer!Threads /\ c \notin Pushers /\ EndOf(c) = bHead /\ EndOf(c)' = bHead'
  BY DEF Buffer!Threads, EndOf, BufferParameters
<1>2. UpToDate(c) =>
        /\ bFrame[c].at = bHead
        /\ bPc[c] \in {"popInfo", "popEnd", "popCas"} => bHead.pos # bTail.pos
        /\ bPc[c] \in {"popEnd", "popCas"} => bInfo[bHead.pos].flag
        /\ bPc[c] = "popCas" => bFrame[c].end = bInfo[bHead.pos].end
  BY <1>1 DEF BufferIInv, ChecksHold, UpToDate
<1>3. ASSUME bPc[c] \in HasCopy, bPc'[c] \in HasCopy PROVE UpToDate(c) /\ bHead' = bHead
  BY <1>1, <1>3, StaysCurrent
<1>4. CASE bPc'[c] = bPc[c] /\ bFrame'[c] = bFrame[c]
  BY <1>2, <1>3, <1>4, OthersKeep DEF HasCopy
<1>5. CASE PopReads(c)
  <2>1. UNCHANGED <<bHead, bTail, bInfo>>
    BY <1>5, PopReadsEffect DEF Buffer!NothingElse, Buffer!shared, BufferIInv
  <2>2. CASE bPc'[c] = "popInfo"
    <3>1. bPc[c] = "popSome" /\ bFrame[c].at.pos # bTail.pos
      BY <1>5, <2>2, PopReadsEffect DEF BufferIInv
    <3> QED
      BY <1>2, <1>3, <2>1, <2>2, <3>1 DEF HasCopy
  <2>3. CASE bPc'[c] = "popEnd"
    <3>1. bPc[c] = "popInfo" /\ bInfo[bFrame[c].at.pos].flag
      BY <1>5, <2>3, PopReadsEffect DEF BufferIInv
    <3> QED
      BY <1>2, <1>3, <2>1, <2>3, <3>1 DEF HasCopy
  <2>4. CASE bPc'[c] = "popCas"
    <3>1. bPc[c] = "popEnd" /\ bFrame'[c].end = bInfo[bFrame[c].at.pos].end
      BY <1>5, <2>4, PopReadsEffect DEF BufferIInv
    <3> QED
      BY <1>2, <1>3, <2>1, <2>4, <3>1 DEF HasCopy
  <2> QED
    BY <2>2, <2>3, <2>4
<1>6. bPc'[c] \in {"popInfo", "popEnd", "popCas"} => bPc'[c] \in HasCopy
  BY DEF HasCopy
<1> QED
  BY <1>1, <1>4, <1>5, <1>6, OwnOrOthers

LEMMA ChecksHoldStep == ASSUME BufferParameters, BufferIInv, BufferAwake, BufferStep, BufferTypeOK'
                        PROVE  ChecksHold'
BY CheckedPush, CheckedPop DEF ChecksHold

--------------------------------------------------------------------------------
(* The messages between head and tail, added up *)

\* A set of numbers that has 0, and with each number below n the next one, has n: it would
\* otherwise be as large as what is left of it without 0.
LEMMA Climb ==
  ASSUME NEW n \in Nat, NEW P, 0 \in P, \A k \in 0..(n - 1) : k \in P => k + 1 \in P
  PROVE  n \in P
<1> SUFFICES ASSUME n \notin P PROVE FALSE
  OBVIOUS
<1> DEFINE S == P \cap (0..n)
           f == [k \in S |-> k + 1]
<1>1. IsFiniteSet(0..n)
  BY FS_Interval
<1>2. IsFiniteSet(S) /\ IsFiniteSet(S \ {0}) /\ Cardinality(S \ {0}) = Cardinality(S) - 1
  <2>1. S \in SUBSET (0..n) /\ 0 \in S
    OBVIOUS
  <2> HIDE DEF S
  <2> QED
    BY <1>1, <2>1, FS_Subset, FS_RemoveElement
<1>3. Cardinality(S) \in Nat
  BY <1>2, FS_CardinalityType
<1>4. \A k \in S : k \in Nat /\ k + 1 \in S \ {0}
  OBVIOUS
<1>5. f \in [S -> S \ {0}]
  BY <1>4
<1>6. \E x, y \in S : x # y /\ f[x] = f[y]
  <2> HIDE DEF S, f
  <2> QED
    BY <1>2, <1>3, <1>5, FS_PigeonHole
<1> QED
  BY <1>4, <1>6

LEMMA MessagesAddUp == ASSUME BufferParameters, BufferIInv PROVE Buffer!BytesFollowRecords
<1> DEFINE n == Buffer!Distance(bHead.pos, bTail.pos)
           at(i) == (bHead.pos + i) % BufferSize
           w == [i \in 0..n |-> Gap(bHead.buf, bStart[at(i)])]
           total[i \in 0..n] == IF i = 0 THEN 0 ELSE total[i - 1] + Buffer!Contents[i].size
<1>1. /\ bHead.pos \in Buffer!Positions /\ bTail.pos \in Buffer!Positions /\ bHead.buf \in Buffer!Positions
      /\ bTail.buf \in Buffer!Positions
      /\ bStart \in [Buffer!Positions -> Buffer!Positions] /\ BufferSize \in Nat \ {0}
  BY DEF BufferIInv, BufferTypeOK, BufferHistoriesOK, Ends, BufferParameters
<1>2. n = Gap(bHead.pos, bTail.pos) /\ n \in Nat /\ n < BufferSize
  <2>1. Buffer!Distance(bHead.pos, bTail.pos) = Gap(bHead.pos, bTail.pos)
    BY <1>1, DistanceValue
  <2> QED
    BY <1>1, <2>1, GapNat
<1>3. \A i \in 0..n : at(i) \in Buffer!Positions /\ Gap(bHead.pos, at(i)) = i
  <2> TAKE i \in 0..n
  <2>1. i \in Nat /\ i < BufferSize
    BY <1>1, <1>2
  <2> QED
    BY <1>1, <2>1, EndOfSum
<1> HIDE DEF at, n
<1>4. at(0) = bHead.pos /\ at(n) = bTail.pos
  <2>1. 0 \in 0..n /\ n \in 0..n
    BY <1>2
  <2>2. Gap(bHead.pos, bHead.pos) = 0
    BY <1>1, GapNat
  <2> QED
    BY <1>1, <1>2, <1>3, <2>1, <2>2, GapNat
<1>5. ASSUME NEW i \in 0..n, i # 0
      PROVE  /\ i - 1 \in 0..n
             /\ Gap(bHead.buf, bStart[at(i)]) = Gap(bHead.buf, bStart[at(i - 1)]) + Buffer!Contents[i].size
  <2> DEFINE j == at(i - 1)
  <2>1. i - 1 \in 0..n /\ i \in 1..n /\ i \in Nat /\ i <= n
    BY <1>2, <1>5
  <2>2. /\ j \in Buffer!Positions /\ Gap(bHead.pos, j) = i - 1 /\ at(i) \in Buffer!Positions
        /\ Gap(bHead.pos, at(i)) = i
    BY <1>3, <2>1
  <2>3. Buffer!Contents[i] = bClaim[j]
    <3>1. bHead.pos + i - 1 = bHead.pos + (i - 1)
      BY <1>1, <2>1 DEF Buffer!Positions
    <3> QED
      BY <2>1, <3>1 DEF Buffer!Contents, at, n
  <2> HIDE DEF j
  <2>4. Gap(bHead.pos, j) < Gap(bHead.pos, bTail.pos)
    BY <1>2, <2>1, <2>2
  <2>5. Beyond(j) = at(i)
    <3>1. Beyond(j) \in Buffer!Positions /\ Gap(bHead.pos, Beyond(j)) = Gap(bHead.pos, j) + 1
      BY <1>1, <2>2, <2>4, NextRecord
    <3>2. Gap(bHead.pos, Beyond(j)) = Gap(bHead.pos, at(i))
      BY <2>1, <2>2, <3>1
    <3> QED
      BY <1>1, <2>2, <3>1, <3>2, GapNat
  <2>6. bClaim[j].size \in Nat /\ Gap(bStart[j], bStart[at(i)]) = bClaim[j].size
    BY <2>2, <2>4, <2>5 DEF Held, BufferIInv, Laid, Buffer!Messages, BufferParameters
  <2>7. Gap(bHead.buf, bStart[j]) + bClaim[j].size <= Gap(bHead.buf, bStart[at(i)])
    <3>1. Gap(bHead.pos, j) < Gap(bHead.pos, at(i)) /\ Gap(bHead.pos, at(i)) <= Gap(bHead.pos, bTail.pos)
      BY <1>2, <2>1, <2>2
    <3> QED
      BY <2>2, <3>1 DEF BufferIInv, Laid
  <2>8. bStart[j] \in Buffer!Positions /\ bStart[at(i)] \in Buffer!Positions
    BY <1>1, <2>2
  <2>9. Gap(bHead.buf, bStart[at(i)]) < BufferSize /\ Gap(bHead.buf, bStart[at(i)]) \in Nat
        /\ Gap(bHead.buf, bStart[j]) \in Nat
    BY <1>1, <2>8, GapNat
  <2>10. Gap(bHead.buf, bStart[j]) + Gap(bStart[j], bStart[at(i)]) < BufferSize
    BY <1>1, <2>6, <2>7, <2>9
  <2>11. Gap(bHead.buf, bStart[at(i)]) = Gap(bHead.buf, bStart[j]) + Gap(bStart[j], bStart[at(i)])
    BY <1>1, <2>8, <2>10, ToLater
  <2> QED
    BY <2>1, <2>3, <2>6, <2>11 DEF j
<1>6. Gap(bHead.buf, bStart[at(0)]) = 0
  <2>1. bStart[bHead.pos] = bHead.buf
    BY DEF BufferIInv, Laid
  <2> QED
    BY <1>1, <1>4, <2>1, GapNat
<1>7. \A i \in 0..n : w[i] = IF i = 0 THEN 0 ELSE w[i - 1] + Buffer!Contents[i].size
  BY <1>5, <1>6
<1>8. w = [i \in 0..n |-> IF i = 0 THEN 0 ELSE w[i - 1] + Buffer!Contents[i].size]
  <2>1. w = [i \in 0..n |-> w[i]]
    OBVIOUS
  <2> HIDE DEF w
  <2> QED
    BY <1>7, <2>1
<1>9. total = [i \in 0..n |-> IF i = 0 THEN 0 ELSE total[i - 1] + Buffer!Contents[i].size]
  <2> HIDE DEF w
  <2> QED
    BY <1>8
<1>10. \A i \in 0..n : total[i] = IF i = 0 THEN 0 ELSE total[i - 1] + Buffer!Contents[i].size
  <2> HIDE DEF total
  <2> QED
    BY <1>9
<1>11. total[n] = w[n]
  <2> DEFINE P == {k \in 0..n : total[k] = w[k]}
  <2> HIDE DEF total, w
  <2>1. 0 \in P
    BY <1>2, <1>7, <1>10
  <2>2. ASSUME NEW k \in 0..(n - 1), k \in P PROVE k + 1 \in P
    <3>1. k + 1 \in 0..n /\ k + 1 # 0 /\ (k + 1) - 1 = k
      BY <1>2
    <3>2. total[k] = w[k]
      BY <2>2
    <3> QED
      BY <1>7, <1>10, <3>1, <3>2
  <2>3. n \in P
    <3> HIDE DEF P
    <3> QED
      BY <1>2, <2>1, <2>2, Climb
  <2> QED
    BY <2>3
<1>12. w[n] = Buffer!Distance(bHead.buf, bTail.buf)
  <2>1. bStart[bTail.pos] = bTail.buf /\ n \in 0..n
    BY <1>2 DEF BufferIInv, Laid
  <2>2. Buffer!Distance(bHead.buf, bTail.buf) = Gap(bHead.buf, bTail.buf)
    BY <1>1, DistanceValue
  <2> QED
    BY <1>4, <2>1, <2>2
<1> QED
  <2>1. Buffer!TotalSize = total[n]
    BY DEF Buffer!TotalSize, n
  <2> QED
    BY <1>11, <1>12, <2>1 DEF Buffer!BytesFollowRecords

LEMMA FlagsMeet == ASSUME BufferParameters, BufferIInv PROVE Buffer!FlagMeetsItsRecord
<1>1. \A t \in Pushers \cup LonePoppers : bFrame[t].at.pos \in Buffer!Positions
  BY DEF BufferIInv, BufferTypeOK, Calls, Ends, Buffer!Threads
<1> QED
  BY <1>1 DEF BufferIInv, RecordsOwned, PushesOwn, PopsOwn, Puts, Gets, Buffer!FlagMeetsItsRecord

--------------------------------------------------------------------------------
(* The theorems *)

LEMMA InitTypes == ASSUME BufferParameters, Buffer!Init PROVE BufferTypeOK
<1>1. 0 \in 0..MaxPush /\ Buffer!Start \in Ends
  BY DEF BufferParameters, Buffer!Positions, Buffer!Start, Ends
<1>2. /\ \A p \in Pushers : p \in Buffer!Threads
      /\ \A c \in LonePoppers : c \in Buffer!Threads
  BY DEF Buffer!Threads
<1>3. /\ Buffer!NoFrame \in Calls /\ Buffer!EmptyInfo \in [end : Buffer!Positions, flag : BOOLEAN]
      /\ <<>> \in Seq(ByteValues)
  BY NoFrameType
<1>4. "idle" \in PushPlaces /\ "idle" \in PopPlaces
  BY DEF PushPlaces, PopPlaces
<1> QED
  BY <1>1, <1>2, <1>3, <1>4 DEF Buffer!Init, BufferTypeOK, ByteValues

LEMMA BufferInitIInv == ASSUME BufferParameters, Buffer!Init, bLag = [t \in Buffer!Threads |-> 0],
                               bStart = [i \in Buffer!Positions |-> 0]
                        PROVE  BufferIInv
<1>1. 0 \in Buffer!Positions /\ 0 \in 0..(TagModulus - 1) /\ Buffer!Start \in Ends /\ 0 \in 0..MaxPush
  BY DEF BufferParameters, Buffer!Positions, Buffer!Start, Ends
<1>2. /\ \A p \in Pushers : p \in Buffer!Threads
      /\ \A c \in LonePoppers : c \in Buffer!Threads
  BY DEF Buffer!Threads
<1>3. BufferTypeOK
  BY InitTypes
<1>4. BufferHistoriesOK
  BY <1>1 DEF BufferHistoriesOK
<1>5. \A i \in Buffer!Positions : ~Held(i)
  BY <1>1, GapNat DEF Held, Buffer!Init, Buffer!Start
<1>6. Laid
  <2>1. \A i, j \in Buffer!Positions : ~(/\ Gap(bHead.pos, i) < Gap(bHead.pos, j)
                                        /\ Gap(bHead.pos, j) <= Gap(bHead.pos, bTail.pos))
    <3>1. Gap(bHead.pos, bTail.pos) = 0 /\ \A i \in Buffer!Positions : Gap(bHead.pos, i) \in Nat
      BY <1>1, GapNat DEF Buffer!Init, Buffer!Start
    <3> QED
      BY <3>1
  <2> QED
    BY <1>1, <1>5, <2>1 DEF Laid, Buffer!Init, Buffer!Start
<1>7. \A t \in Buffer!Threads : bPc[t] = "idle" /\ bLag[t] = 0
  BY DEF Buffer!Init
<1>8. TagsKept
  BY <1>7 DEF TagsKept, HasCopy
<1>9. RecordsOwned
  BY <1>2, <1>5, <1>7 DEF RecordsOwned, PushesOwn, SetsWritten, MarksWritten, PopsOwn, CopiesHold,
                          Buffer!PoppedWhole,
                          Puts, Gets
<1>10. ChecksHold
  BY <1>2, <1>7 DEF ChecksHold
<1> QED
  BY <1>3, <1>4, <1>6, <1>8, <1>9, <1>10 DEF BufferIInv

LEMMA BufferStepIInv == ASSUME BufferParameters, BufferIInv, BufferAwake, BufferStep PROVE BufferIInv'
<1>1. BufferTypeOK' /\ BufferHistoriesOK'
  BY BufferTypeStep, BufferHistoriesStep DEF BufferIInv, BufferStep
<1> QED
  BY <1>1, LaidStep, TagsKeptStep, OwnedStep, ChecksHoldStep DEF BufferIInv

LEMMA BufferStutterIInv == ASSUME BufferIInv, UNCHANGED <<Buffer!vars, bLag, bStart>> PROVE BufferIInv'
<1>1. UNCHANGED <<bHead, bTail, bBytes, bInfo, bPc, bFrame, bSent, bGot, bClaim, bOverrun, bLag, bStart>>
  BY DEF Buffer!vars
<1>2. \A i \in Buffer!Positions : Held(i)' <=> Held(i)
  BY <1>1 DEF Held
<1>3. BufferTypeOK' /\ BufferHistoriesOK'
  BY <1>1 DEF BufferIInv, BufferTypeOK, BufferHistoriesOK
<1>4. Laid'
  BY <1>1, <1>2 DEF BufferIInv, Laid
<1>5. \A t \in Buffer!Threads : EndOf(t)' = EndOf(t) /\ (UpToDate(t)' <=> UpToDate(t))
  BY <1>1 DEF EndOf, UpToDate
<1>6. TagsKept'
  BY <1>1, <1>5 DEF BufferIInv, TagsKept
<1>7. ChecksHold'
  BY <1>1, <1>5 DEF BufferIInv, ChecksHold, UpToDate, EndOf
<1>8. RecordsOwned'
  BY <1>1, <1>2 DEF BufferIInv, RecordsOwned, PushesOwn, SetsWritten, MarksWritten, PopsOwn, CopiesHold,
                    Buffer!PoppedWhole,
                    Puts, Gets, Buffer!Outgoing, Written, Buffer!ClaimOf
<1> QED
  BY <1>3, <1>4, <1>6, <1>7, <1>8 DEF BufferIInv

\* Every variable keeps its type, whatever the tag does.
THEOREM BufferTypeCorrect == BufferParameters => (Buffer!Spec => []BufferTypeOK)
<1> SUFFICES ASSUME BufferParameters PROVE Buffer!Spec => []BufferTypeOK
  OBVIOUS
<1>1. Buffer!Init => BufferTypeOK
  BY InitTypes
<1>2. BufferTypeOK /\ [Buffer!Next]_(Buffer!vars) => BufferTypeOK'
  <2>1. ASSUME BufferTypeOK, UNCHANGED Buffer!vars PROVE BufferTypeOK'
    BY <2>1 DEF Buffer!vars, BufferTypeOK
  <2> QED
    BY <2>1, BufferTypeStep
<1> QED
  BY <1>1, <1>2, PTL DEF Buffer!Spec

THEOREM BufferInvariance == BufferParameters => (BufferCountedSpec /\ []BufferAwake => []BufferIInv)
<1> SUFFICES ASSUME BufferParameters PROVE BufferCountedSpec /\ []BufferAwake => []BufferIInv
  OBVIOUS
<1>1. Buffer!Init /\ bLag = [t \in Buffer!Threads |-> 0] /\ bStart = [i \in Buffer!Positions |-> 0] => BufferIInv
  BY BufferInitIInv
<1>2. BufferIInv /\ BufferAwake /\ [BufferStep]_<<Buffer!vars, bLag, bStart>> => BufferIInv'
  BY BufferStepIInv, BufferStutterIInv
<1> QED
  BY <1>1, <1>2, PTL DEF BufferCountedSpec

\* With any number of threads at either end: the flags of the records do what the lines
\* "error old-flag" check, the bytes between head and tail are those of the messages pushed,
\* and what Pop hands over is one whole message unless a push has written over it since Pop
\* moved the head.
THEOREM MessagesWhole ==
  BufferParameters => (BufferCountedSpec /\ []BufferAwake => [](Buffer!FlagMeetsItsRecord /\ Buffer!BytesFollowRecords /\ Buffer!PoppedWhole))
<1> SUFFICES ASSUME BufferParameters
             PROVE  BufferCountedSpec /\ []BufferAwake => [](Buffer!FlagMeetsItsRecord /\ Buffer!BytesFollowRecords /\ Buffer!PoppedWhole)
  OBVIOUS
<1>1. BufferIInv => Buffer!FlagMeetsItsRecord /\ Buffer!BytesFollowRecords /\ Buffer!PoppedWhole
  BY FlagsMeet, MessagesAddUp DEF BufferIInv, RecordsOwned
<1> QED
  BY <1>1, BufferInvariance, PTL

--------------------------------------------------------------------------------
(* One popping thread *)

LonePopper == \A c, d \in LonePoppers : c = d

\* Nobody else moves the head while the thread works on its copy, and the size that it was
\* told is that of the message at the head.
PopUndisturbed ==
  \A c \in LonePoppers :
    /\ bLag[c] = 0
    /\ bPc[c] = "popPos" => bFrame[c].at.buf = bHead.buf
    /\ bPc[c] \in {"popSome", "popInfo", "popEnd", "popTold", "popCas"} => bFrame[c].at = bHead
    /\ bPc[c] = "popTold" => /\ bHead.pos # bTail.pos /\ bFrame[c].told = bClaim[bHead.pos].size
                             /\ bFrame[c].told > bFrame[c].size

LEMMA ToldAtHead ==
  ASSUME BufferParameters, BufferIInv, NEW c \in LonePoppers, UpToDate(c), bPc[c] = "popEnd"
  PROVE  bHead.pos # bTail.pos /\ Buffer!Distance(bHead.buf, bInfo[bHead.pos].end) = bClaim[bHead.pos].size
<1>1. bHead.pos # bTail.pos /\ bInfo[bHead.pos].flag
  BY DEF BufferIInv, ChecksHold
<1>2. /\ bHead.pos \in Buffer!Positions /\ bTail.pos \in Buffer!Positions /\ bHead.buf \in Buffer!Positions
      /\ bInfo[bHead.pos].end \in Buffer!Positions
  BY DEF BufferIInv, BufferTypeOK, Ends
<1>3. Held(bHead.pos)
  BY <1>1, <1>2, GapNat DEF Held
<1>4. bInfo[bHead.pos].end = bStart[Beyond(bHead.pos)]
  BY <1>1, <1>2, <1>3 DEF BufferIInv, RecordsOwned, MarksWritten
<1>5. /\ bStart[bHead.pos] = bHead.buf
      /\ Gap(bStart[bHead.pos], bStart[Beyond(bHead.pos)]) = bClaim[bHead.pos].size
  BY <1>2, <1>3 DEF BufferIInv, Laid
<1> QED
  BY <1>1, <1>2, <1>4, <1>5, DistanceValue

LEMMA UndisturbedStep ==
  ASSUME BufferParameters, LonePopper, BufferIInv, BufferAwake, BufferStep, PopUndisturbed
  PROVE  PopUndisturbed'
<1>1. BufferTypeOK /\ Buffer!Next /\ BufferTypeOK'
  BY BufferTypeStep DEF BufferIInv, BufferStep
<1> SUFFICES ASSUME NEW c \in LonePoppers
             PROVE  /\ bLag'[c] = 0
                    /\ bPc'[c] = "popPos" => bFrame'[c].at.buf = bHead'.buf
                    /\ bPc'[c] \in {"popSome", "popInfo", "popEnd", "popTold", "popCas"} => bFrame'[c].at = bHead'
                    /\ bPc'[c] = "popTold" => /\ bHead'.pos # bTail'.pos /\ bFrame'[c].told = bClaim'[bHead'.pos].size
                                              /\ bFrame'[c].told > bFrame'[c].size
  BY DEF PopUndisturbed
<1>2. c \in Buffer!Threads /\ c \notin Pushers /\ EndOf(c) = bHead /\ EndOf(c)' = bHead'
  BY DEF Buffer!Threads, EndOf, BufferParameters
<1>3. /\ bLag[c] = 0
      /\ bPc[c] = "popPos" => bFrame[c].at.buf = bHead.buf
      /\ bPc[c] \in {"popSome", "popInfo", "popEnd", "popTold", "popCas"} => bFrame[c].at = bHead
      /\ bPc[c] = "popTold" => /\ bHead.pos # bTail.pos /\ bFrame[c].told = bClaim[bHead.pos].size
                               /\ bFrame[c].told > bFrame[c].size
  BY DEF PopUndisturbed
<1>4. bLag'[c] = IF bPc'[c] \in HasCopy THEN bLag[c] + (IF bHead' # bHead THEN 1 ELSE 0) ELSE 0
  BY <1>2 DEF BufferStep, BufferHistories
<1>5. CASE /\ bHead' = bHead /\ bPc'[c] = bPc[c] /\ bFrame'[c] = bFrame[c]
           /\ bClaim'[bHead.pos] = bClaim[bHead.pos]
  BY <1>3, <1>4, <1>5, OthersKeep
<1>6. ASSUME NEW p \in Pushers,
             PushReads(p) \/ Buffer!PushSwaps(p) \/ Buffer!PushCopies(p) \/ Buffer!PushSetsInfo(p), bPc[c] # "popTold"
      PROVE  bHead' = bHead /\ bPc'[c] = bPc[c] /\ bFrame'[c] = bFrame[c]
  <2>1. OnlyOwn(p) /\ bHead' = bHead
    BY <1>1, <1>6, PushReadsEffect, PushSwapsEffect, PushCopiesEffect,
       PushSetsEffect DEF Buffer!NothingElse, Buffer!shared
  <2> QED
    BY <1>2, <2>1 DEF OnlyOwn
<1>7. ASSUME NEW p \in Pushers,
             PushReads(p) \/ Buffer!PushSwaps(p) \/ Buffer!PushCopies(p) \/ Buffer!PushSetsInfo(p), bPc[c] = "popTold"
      PROVE  /\ bHead' = bHead /\ bPc'[c] = bPc[c] /\ bFrame'[c] = bFrame[c]
             /\ bClaim'[bHead.pos] = bClaim[bHead.pos]
  <2>1. OnlyOwn(p) /\ bHead' = bHead
    BY <1>1, <1>7, PushReadsEffect, PushSwapsEffect, PushCopiesEffect,
       PushSetsEffect DEF Buffer!NothingElse, Buffer!shared
  <2>2. bClaim' = bClaim \/ bClaim' = [bClaim EXCEPT ![bTail.pos] = Buffer!Outgoing(p)]
    BY <1>1, <1>7, PushReadsEffect, PushSwapsEffect, PushCopiesEffect,
       PushSetsEffect DEF Buffer!NothingElse, Buffer!shared
  <2>3. bClaim'[bHead.pos] = bClaim[bHead.pos]
    BY <1>1, <1>3, <1>7, <2>2 DEF BufferTypeOK, Ends
  <2> QED
    BY <1>2, <2>1, <2>3 DEF OnlyOwn
<1>8. ASSUME NEW p \in Pushers,
             PushReads(p) \/ Buffer!PushSwaps(p) \/ Buffer!PushCopies(p) \/ Buffer!PushSetsInfo(p), bPc[c] # "popTold"
      PROVE  /\ bLag'[c] = 0
             /\ bPc'[c] # "popTold"
             /\ bPc'[c] = "popPos" => bFrame'[c].at.buf = bHead'.buf
             /\ bPc'[c] \in {"popSome", "popInfo", "popEnd", "popTold", "popCas"} => bFrame'[c].at = bHead'
  BY <1>3, <1>4, <1>6, <1>8
<1>9. CASE PopReads(c)
  <2>1. UNCHANGED <<bHead, bTail, bClaim>>
    BY <1>1, <1>9, PopReadsEffect DEF Buffer!NothingElse, Buffer!shared
  <2>2. bLag'[c] = 0
    BY <1>3, <1>4, <2>1
  <2>3. bFrame'[c].at \in Ends /\ bHead \in Ends
    BY <1>1, <1>2 DEF BufferTypeOK, Calls
  <2>4. bPc'[c] = "popPos" => bFrame'[c].at.buf = bHead.buf
    BY <1>1, <1>9, PopReadsEffect
  <2>5. bPc'[c] = "popSome" => bFrame'[c].at = bHead
    <3> SUFFICES ASSUME bPc'[c] = "popSome" PROVE bFrame'[c].at = bHead
      OBVIOUS
    <3>1. bFrame'[c].at.buf = bHead.buf /\ bFrame'[c].at.pos = bHead.pos /\ bFrame'[c].at.tag = bHead.tag
      BY <1>1, <1>3, <1>9, PopReadsEffect
    <3> QED
      BY <2>3, <3>1 DEF Ends
  <2>6. bPc'[c] \in {"popInfo", "popEnd", "popTold", "popCas"} => bFrame'[c].at = bHead
    <3> SUFFICES ASSUME bPc'[c] \in {"popInfo", "popEnd", "popTold", "popCas"} PROVE bFrame'[c].at = bHead
      OBVIOUS
    <3>1. bFrame'[c].at = bFrame[c].at /\ bPc[c] \in {"popSome", "popInfo", "popEnd"}
      BY <1>1, <1>9, PopReadsEffect
    <3> QED
      BY <1>3, <3>1
  <2>7. ASSUME bPc'[c] = "popTold"
        PROVE  /\ bHead.pos # bTail.pos /\ bFrame'[c].told = bClaim[bHead.pos].size
               /\ bFrame'[c].told > bFrame'[c].size
    <3>1. /\ bPc[c] = "popEnd" /\ bFrame'[c].told > bFrame'[c].size
          /\ bFrame'[c].told = Buffer!Distance(bFrame[c].at.buf, bInfo[bFrame[c].at.pos].end)
      BY <1>1, <1>9, <2>7, PopReadsEffect
    <3>2. bFrame[c].at = bHead /\ UpToDate(c)
      BY <1>2, <1>3, <3>1 DEF UpToDate
    <3> QED
      BY <3>1, <3>2, ToldAtHead
  <2> QED
    BY <2>1, <2>2, <2>4, <2>5, <2>6, <2>7
<1>10. CASE Buffer!PopSwaps(c) \/ Buffer!PopCopies(c) \/ Buffer!PopClearsInfo(c)
  <2>1. bPc'[c] \in {"popCopy", "popClear", "idle"}
    BY <1>1, <1>10, PopSwapsEffect, PopCopiesEffect, PopClearsEffect
  <2> QED
    BY <1>4, <2>1 DEF HasCopy
<1>11. \A d \in LonePoppers : d = c
  BY DEF LonePopper
<1> QED
  BY <1>1, <1>5, <1>7, <1>8, <1>9, <1>10, <1>11, BufferSteps

LEMMA ToldRight ==
  ASSUME BufferParameters, BufferIInv, PopUndisturbed
  PROVE  Buffer!ToldTheSizeNeeded
<1> SUFFICES ASSUME NEW c \in LonePoppers, bPc[c] = "popTold"
             PROVE  bFrame[c].told = Buffer!Contents[1].size /\ bFrame[c].told > bFrame[c].size
  BY DEF Buffer!ToldTheSizeNeeded
<1>1. bHead.pos # bTail.pos /\ bFrame[c].told = bClaim[bHead.pos].size /\ bFrame[c].told > bFrame[c].size
  BY DEF PopUndisturbed
<1>2. bHead.pos \in Buffer!Positions /\ bTail.pos \in Buffer!Positions /\ BufferSize \in Nat \ {0}
  BY DEF BufferIInv, BufferTypeOK, Ends, BufferParameters
<1>3. Buffer!Distance(bHead.pos, bTail.pos) \in Nat /\ Buffer!Distance(bHead.pos, bTail.pos) # 0
  <2>1. Buffer!Distance(bHead.pos, bTail.pos) = Gap(bHead.pos, bTail.pos)
    BY <1>2, DistanceValue
  <2> QED
    BY <1>1, <1>2, <2>1, GapNat
<1>4. (bHead.pos + 1 - 1) % BufferSize = bHead.pos
  <2>1. bHead.pos + 1 - 1 = bHead.pos + 0 /\ 0 <= BufferSize /\ bHead.pos < BufferSize /\ bHead.pos \in Nat
    BY <1>2 DEF Buffer!Positions
  <2>2. (bHead.pos + 0) % BufferSize = bHead.pos
    BY <1>2, <2>1, SumValue
  <2> QED
    BY <2>1, <2>2
<1>5. Buffer!Contents[1] = bClaim[bHead.pos]
  <2>1. 1 \in 1..Buffer!Distance(bHead.pos, bTail.pos)
    BY <1>3
  <2> QED
    BY <1>4, <2>1 DEF Buffer!Contents
<1> QED
  BY <1>1, <1>5

LEMMA InitUndisturbed == ASSUME Buffer!Init, bLag = [t \in Buffer!Threads |-> 0] PROVE PopUndisturbed
BY DEF Buffer!Init, PopUndisturbed, Buffer!Threads

LEMMA StutterUndisturbed == ASSUME PopUndisturbed, UNCHANGED <<Buffer!vars, bLag, bStart>>
                            PROVE  PopUndisturbed'
BY DEF PopUndisturbed, Buffer!vars

LEMMA KeptByInvariant == ASSUME BufferParameters, BufferIInv, PopUndisturbed PROVE Buffer!BufferKeepsMessages
BY FlagsMeet, MessagesAddUp, ToldRight DEF BufferIInv, RecordsOwned, Buffer!BufferKeepsMessages

\* With one popping thread, and any number that push, the whole of what the ring promises: also
\* the size that a refused Pop stores is that of the message at the head, when Pop returns.
THEOREM MessagesKept ==
  BufferParameters /\ LonePopper => (BufferCountedSpec /\ []BufferAwake => []Buffer!BufferKeepsMessages)
<1> SUFFICES ASSUME BufferParameters, LonePopper
             PROVE  BufferCountedSpec /\ []BufferAwake => []Buffer!BufferKeepsMessages
  OBVIOUS
<1>1. Buffer!Init /\ bLag = [t \in Buffer!Threads |-> 0] => PopUndisturbed
  BY InitUndisturbed
<1>2. BufferIInv /\ PopUndisturbed /\ BufferAwake /\ [BufferStep]_<<Buffer!vars, bLag, bStart>> => PopUndisturbed'
  BY UndisturbedStep, StutterUndisturbed
<1>3. BufferIInv /\ PopUndisturbed => Buffer!BufferKeepsMessages
  BY KeptByInvariant
<1>4. BufferCountedSpec /\ []BufferAwake => []BufferIInv
  BY BufferInvariance
<1> QED
  BY <1>1, <1>2, <1>3, <1>4, PTL DEF BufferCountedSpec

--------------------------------------------------------------------------------
(* The ring of bytes as MCSpec runs it beside the other containers *)

CountedMCSpec ==
  /\ MCInit
  /\ bLag = [t \in Buffer!Threads |-> 0] /\ bStart = [i \in Buffer!Positions |-> 0]
  /\ [][/\ MCNext
        /\ IF which = "buffer" THEN BufferHistories ELSE UNCHANGED <<bLag, bStart>>]_<<allVars, bLag, bStart>>

BufferInv == BufferIInv /\ PopUndisturbed

LEMMA BufferInvInit ==
  ASSUME BufferParameters, Buffer!Init,
         bLag = [t \in Buffer!Threads |-> 0], bStart = [i \in Buffer!Positions |-> 0]
  PROVE  BufferInv
BY BufferInitIInv, InitUndisturbed DEF BufferInv

LEMMA BufferInvStep ==
  ASSUME BufferParameters, LonePopper, BufferInv, BufferAwake,
         [/\ MCNext
          /\ IF which = "buffer" THEN BufferHistories ELSE UNCHANGED <<bLag, bStart>>]_<<allVars, bLag, bStart>>
  PROVE  BufferInv'
<1>1. CASE BufferStep
  BY <1>1, BufferStepIInv, UndisturbedStep DEF BufferInv
<1>2. CASE UNCHANGED <<bufferVars, bLag, bStart>>
  <2>1. UNCHANGED <<Buffer!vars, bLag, bStart>>
    BY <1>2 DEF bufferVars, Buffer!vars
  <2> QED
    BY <2>1, BufferStutterIInv, StutterUndisturbed DEF BufferInv
<1> QED
  BY <1>1, <1>2 DEF MCNext, BufferStep, allVars

\* Beside the other containers too, the ring of bytes keeps what its run checks: with one
\* popping thread, any number of pushing ones, a ring of any size and messages of any length.
THEOREM BufferKept ==
  BufferParameters /\ LonePopper => (CountedMCSpec /\ []BufferAwake => []BufferKeepsMessages)
<1> SUFFICES ASSUME BufferParameters, LonePopper
             PROVE  CountedMCSpec /\ []BufferAwake => []BufferKeepsMessages
  OBVIOUS
<1>1. /\ MCInit
      /\ bLag = [t \in Buffer!Threads |-> 0] /\ bStart = [i \in Buffer!Positions |-> 0]
      => BufferInv
  BY BufferInvInit DEF MCInit
<1>2. /\ BufferInv /\ BufferAwake
      /\ [/\ MCNext
          /\ IF which = "buffer" THEN BufferHistories ELSE UNCHANGED <<bLag, bStart>>]_<<allVars, bLag, bStart>>
      => BufferInv'
  BY BufferInvStep
<1>3. BufferInv => BufferKeepsMessages
  BY KeptByInvariant DEF BufferInv, BufferKeepsMessages
<1> QED
  BY <1>1, <1>2, <1>3, PTL DEF CountedMCSpec

--------------------------------------------------------------------------------
(* The deque and the object pool *)

\* A deque has at least one cell; Init(num) of a pool makes it one more than there are objects.
PoolParameters ==
  PoolCells \in Nat \ {0} /\ IsFiniteSet(Objects) /\ Cardinality(Objects) < PoolCells

\* The cell that is k after h in the ring of a deque.
Nth(h, k) == IF h + k < PoolCells THEN h + k ELSE h + k - PoolCells

Deques == [head : Pool!Ids, tail : Pool!Ids, size : Nat, data : [Pool!Ids -> Objects \cup {None}]]

\* The deque q holds the sequence s, from its head on.
Holds(q, s) ==
  /\ q \in Deques /\ s \in Seq(Objects)
  /\ Len(s) < PoolCells /\ q.size = Len(s) /\ q.tail = Nth(q.head, Len(s))
  /\ \A k \in 1..Len(s) : q.data[Nth(q.head, k - 1)] = s[k]

\* Cells are told apart by their number from h on, and a step forwards, a step backwards and
\* the distance from h, all modulo the number of cells, are what they are called.
LEMMA NthFacts ==
  ASSUME PoolParameters, NEW h \in Pool!Ids, NEW k \in 0..PoolCells
  PROVE  /\ Nth(h, k) \in Pool!Ids /\ Nth(h, 0) = h
         /\ \A j \in 0..PoolCells : j # k /\ j < PoolCells /\ k < PoolCells => Nth(h, j) # Nth(h, k)
         /\ k < PoolCells => (Nth(h, k) + 1) % PoolCells = Nth(h, k + 1)
         /\ k > 0 => (PoolCells + Nth(h, k) - 1) % PoolCells = Nth(h, k - 1)
         /\ k < PoolCells => (PoolCells + Nth(h, k) - h) % PoolCells = k
<1> USE DEF PoolParameters, Pool!Ids, Nth
<1> PICK n : n = PoolCells
  OBVIOUS
<1>1. n \in Nat \ {0} /\ h \in Nat /\ h < n /\ k \in Nat /\ k <= n /\ n = PoolCells
  OBVIOUS
<1>2. /\ Nth(h, k) \in Pool!Ids /\ Nth(h, 0) = h
      /\ \A j \in 0..n : j # k /\ j < n /\ k < n => Nth(h, j) # Nth(h, k)
  BY <1>1
<1> PICK x : x = Nth(h, k)
  OBVIOUS
<1> HIDE DEF Nth, PoolParameters, Pool!Ids
<1>0. x \in Nat /\ x < n /\ x = IF h + k < n THEN h + k ELSE h + k - n
  BY <1>1, <1>2 DEF Nth, Pool!Ids
<1>3. ASSUME k < n PROVE (x + 1) % n = Nth(h, k + 1)
  <2> PICK y : y = x + 1
    OBVIOUS
  <2>1. y \in Nat /\ y < 2 * n
    BY <1>0, <1>1
  <2>2. y % n = IF y < n THEN y ELSE y - n
    BY <1>1, <2>1, ModOnce
  <2> QED
    BY <1>0, <1>1, <1>3, <2>2 DEF Nth
<1>4. ASSUME k > 0 PROVE (n + x - 1) % n = Nth(h, k - 1)
  <2> PICK y : y = n + x - 1
    OBVIOUS
  <2>1. y \in Nat /\ y < 2 * n
    BY <1>0, <1>1
  <2>2. y % n = IF y < n THEN y ELSE y - n
    BY <1>1, <2>1, ModOnce
  <2> QED
    BY <1>0, <1>1, <1>4, <2>2 DEF Nth
<1>5. ASSUME k < n PROVE (n + x - h) % n = k
  <2> PICK y : y = n + x - h
    OBVIOUS
  <2>1. y \in Nat /\ y < 2 * n
    BY <1>0, <1>1, <1>5
  <2>2. y % n = IF y < n THEN y ELSE y - n
    BY <1>1, <2>1, ModOnce
  <2> QED
    BY <1>0, <1>1, <1>5, <2>2
<1> QED
  BY <1>1, <1>2, <1>3, <1>4, <1>5

\* From the next cell on, and from the one before.
LEMMA NthShifts ==
  ASSUME PoolParameters, NEW h \in Pool!Ids, NEW k \in 0..(PoolCells - 1)
  PROVE  /\ Nth(Nth(h, 1), k) = Nth(h, k + 1)
         /\ Nth((PoolCells + h - 1) % PoolCells, k + 1) = Nth(h, k)
<1> USE DEF PoolParameters, Pool!Ids, Nth
<1> PICK n : n = PoolCells
  OBVIOUS
<1>1. n \in Nat \ {0} /\ h \in Nat /\ h < n /\ k \in Nat /\ k < n /\ n = PoolCells
  OBVIOUS
<1>2. (n + h - 1) % n = IF n + h - 1 < n THEN n + h - 1 ELSE n + h - 1 - n
  <2> PICK y : y = n + h - 1
    OBVIOUS
  <2>1. y \in Nat /\ y < 2 * n
    BY <1>1
  <2>2. y % n = IF y < n THEN y ELSE y - n
    BY <1>1, <2>1, ModOnce
  <2> QED
    BY <1>1, <2>2
<1> QED
  BY <1>1, <1>2

\* The cell before the head is a cell.
LEMMA NthBefore == ASSUME PoolParameters, NEW h \in Pool!Ids PROVE (PoolCells + h - 1) % PoolCells \in Pool!Ids
<1>1. 0 \in 0..(PoolCells - 1) /\ PoolCells \in Nat \ {0} /\ h \in Nat /\ h < PoolCells
  BY DEF PoolParameters, Pool!Ids
<1> PICK y : y = PoolCells + h - 1
  OBVIOUS
<1>2. y \in Nat /\ y < 2 * PoolCells
  BY <1>1
<1>3. y % PoolCells = IF y < PoolCells THEN y ELSE y - PoolCells
  BY <1>1, <1>2, ModOnce
<1> QED
  BY <1>1, <1>2, <1>3 DEF Pool!Ids

\* Empty, Full and BackID, which compare head and tail only, say what the sequence says.
LEMMA EmptyAndFull ==
  ASSUME PoolParameters, NEW q, NEW s, Holds(q, s)
  PROVE  /\ Pool!Empty(q) <=> s = <<>>
         /\ Pool!Empty(q) <=> Len(s) = 0
         /\ Pool!Full(q) <=> Len(s) + 1 = PoolCells
         /\ Pool!BackID(q) = IF s = <<>> THEN q.head ELSE Nth(q.head, Len(s) - 1)
<1> PICK n, m : n = PoolCells /\ m = Len(s)
  OBVIOUS
<1>1. /\ n \in Nat \ {0} /\ m \in Nat /\ m < n /\ q.head \in Pool!Ids /\ q.tail = Nth(q.head, m)
      /\ n = PoolCells
  BY DEF Holds, Deques, PoolParameters
<1>2. m \in 0..PoolCells /\ 0 \in 0..PoolCells
  BY <1>1
<1>3. Pool!Empty(q) <=> m = 0
  BY <1>1, <1>2, NthFacts DEF Pool!Empty
<1>4. s = <<>> <=> m = 0
  BY DEF Holds
<1>5. Pool!Full(q) <=> m + 1 = n
  <2>1. (q.tail + 1) % n = Nth(q.head, m + 1)
    BY <1>1, <1>2, NthFacts
  <2>2. CASE m + 1 = n
    <3>1. Nth(q.head, n) = q.head
      BY <1>1 DEF Nth, Pool!Ids
    <3> QED
      BY <1>1, <2>1, <2>2, <3>1 DEF Pool!Full
  <2>3. CASE m + 1 # n
    <3>1. m + 1 \in 0..PoolCells /\ m + 1 < PoolCells /\ m + 1 # 0
      BY <1>1, <2>3
    <3>2. Nth(q.head, m + 1) # Nth(q.head, 0) /\ Nth(q.head, 0) = q.head
      BY <1>1, <1>2, <3>1, NthFacts
    <3> QED
      BY <1>1, <2>1, <2>3, <3>2 DEF Pool!Full
  <2> QED
    BY <2>2, <2>3
<1>6. m # 0 => (n + q.tail - 1) % n = Nth(q.head, m - 1)
  BY <1>1, <1>2, NthFacts
<1> QED
  BY <1>1, <1>3, <1>4, <1>5, <1>6 DEF Pool!BackID

--------------------------------------------------------------------------------
(* Pushes and pops *)

\* How a deque that was put together from its parts is shown to hold a sequence.
LEMMA HoldsThese ==
  ASSUME PoolParameters, NEW h \in Pool!Ids, NEW d \in [Pool!Ids -> Objects \cup {None}],
         NEW s \in Seq(Objects), NEW m, m = Len(s), m < PoolCells,
         \A k \in 1..m : d[Nth(h, k - 1)] = s[k],
         NEW q, q = [head |-> h, tail |-> Nth(h, m), size |-> m, data |-> d]
  PROVE  Holds(q, s)
<1>1. m \in Nat /\ m \in 0..PoolCells /\ Nth(h, m) \in Pool!Ids
  <2>1. m \in Nat /\ m \in 0..PoolCells
    BY DEF PoolParameters
  <2> QED
    BY <2>1, NthFacts
<1> QED
  BY <1>1 DEF Holds, Deques

\* What a deque that holds a sequence looks like.
LEMMA HeldParts ==
  ASSUME PoolParameters, NEW q, NEW s, Holds(q, s)
  PROVE  /\ q.head \in Pool!Ids /\ q.tail \in Pool!Ids /\ q.data \in [Pool!Ids -> Objects \cup {None}]
         /\ s \in Seq(Objects) /\ Len(s) \in 0..(PoolCells - 1) /\ q.size = Len(s)
         /\ q.tail = Nth(q.head, Len(s))
         /\ \A k \in 1..Len(s) : q.data[Nth(q.head, k - 1)] = s[k] /\ s[k] \in Objects
         /\ DOMAIN s = 1..Len(s)
BY DEF Holds, Deques, PoolParameters

\* PushBack appends, PushFront prepends, PopBack drops the last and PopFront the first.
LEMMA PushBackHolds ==
  ASSUME PoolParameters, NEW q, NEW s, Holds(q, s), ~Pool!Full(q), NEW t \in Objects
  PROVE  Holds(Pool!PushBack(q, t), Append(s, t))
<1> PICK n, m, h : n = PoolCells /\ m = Len(s) /\ h = q.head
  OBVIOUS
<1>1. /\ h \in Pool!Ids /\ m \in Nat /\ m + 1 < n /\ m \in 0..PoolCells /\ m + 1 \in 0..PoolCells
      /\ n \in Nat \ {0} /\ s \in Seq(Objects) /\ q \in Deques /\ n = PoolCells
  <2>1. m \in 0..(n - 1) /\ m + 1 # n
    BY HeldParts, EmptyAndFull
  <2> QED
    BY <2>1, HeldParts DEF PoolParameters, Holds
<1>2. q.tail = Nth(h, m) /\ (q.tail + 1) % n = Nth(h, m + 1) /\ q.tail \in Pool!Ids
  <2>1. q.tail = Nth(h, m) /\ q.tail \in Pool!Ids
    BY HeldParts
  <2>2. m < n
    BY <1>1
  <2>3. (Nth(h, m) + 1) % n = Nth(h, m + 1)
    BY <1>1, <2>2, NthFacts
  <2> QED
    BY <2>1, <2>3
<1>3. (n + Nth(h, m + 1) - h) % n = m + 1
  BY <1>1, NthFacts
<1> DEFINE d == [q.data EXCEPT ![q.tail] = t]
<1>4. Pool!PushBack(q, t) = [head |-> h, tail |-> Nth(h, m + 1), size |-> m + 1, data |-> d]
  <2> DEFINE r == [q EXCEPT !.data[q.tail] = t, !.tail = (@ + 1) % PoolCells]
  <2>1. r = [head |-> h, tail |-> Nth(h, m + 1), size |-> q.size, data |-> d]
    <3>1. r.head = h /\ r.tail = Nth(h, m + 1) /\ r.size = q.size /\ r.data = d
      BY <1>1, <1>2 DEF Deques
    <3>2. r \in Deques
      <4>1. Nth(h, m + 1) \in Pool!Ids
        BY <1>1, NthFacts
      <4> QED
        BY <1>1, <1>2, <4>1 DEF Deques
    <3> HIDE DEF r, d
    <3> QED
      BY <3>1, <3>2 DEF Deques
  <2>2. Pool!PushBack(q, t) = [r EXCEPT !.size = (PoolCells + r.tail - r.head) % PoolCells]
    BY DEF Pool!PushBack, Pool!Sized
  <2> HIDE DEF r
  <2> QED
    BY <1>1, <1>3, <2>1, <2>2
<1>5. Append(s, t) \in Seq(Objects) /\ Len(Append(s, t)) = m + 1
  BY <1>1
<1>6. d \in [Pool!Ids -> Objects \cup {None}]
  BY HeldParts
<1>7. \A k \in 1..(m + 1) : d[Nth(h, k - 1)] = Append(s, t)[k]
  <2> TAKE k \in 1..(m + 1)
  <2>1. k - 1 \in 0..PoolCells /\ k - 1 \in 0..m /\ Nth(h, k - 1) \in Pool!Ids
    <3>1. k - 1 \in 0..PoolCells /\ k - 1 \in 0..m
      BY <1>1
    <3> QED
      BY <1>1, <3>1, NthFacts
  <2>2. CASE k = m + 1
    BY <1>1, <1>2, <2>2, HeldParts
  <2>3. CASE k # m + 1
    <3>1. k \in 1..m /\ k - 1 # m /\ k - 1 < n /\ m < n
      BY <1>1, <2>3
    <3>2. Nth(h, k - 1) # Nth(h, m)
      <4> PICK j : j = k - 1
        OBVIOUS
      <4>1. j # m /\ j < PoolCells /\ m < PoolCells /\ j \in 0..PoolCells
        BY <1>1, <2>1, <3>1
      <4> QED
        BY <1>1, <4>1, NthFacts
    <3> QED
      BY <1>1, <1>2, <2>1, <3>1, <3>2, HeldParts
  <2> QED
    BY <2>2, <2>3
<1> HIDE DEF d
<1> PICK r, w, l : r = Pool!PushBack(q, t) /\ w = Append(s, t) /\ l = m + 1
  OBVIOUS
<1> QED
  BY ZenonT(60), <1>1, <1>4, <1>5, <1>6, <1>7, HoldsThese

LEMMA PushFrontHolds ==
  ASSUME PoolParameters, NEW q, NEW s, Holds(q, s), ~Pool!Full(q), NEW t \in Objects
  PROVE  Holds(Pool!PushFront(q, t), <<t>> \o s)
<1> PICK n, m, h : n = PoolCells /\ m = Len(s) /\ h = (PoolCells + q.head - 1) % PoolCells
  OBVIOUS
<1>1. /\ q.head \in Pool!Ids /\ m \in Nat /\ m + 1 < n /\ m \in 0..PoolCells /\ m + 1 \in 0..PoolCells
      /\ n \in Nat \ {0} /\ s \in Seq(Objects) /\ q \in Deques /\ n = PoolCells
  <2>1. m \in 0..(n - 1) /\ m + 1 # n
    BY HeldParts, EmptyAndFull
  <2> QED
    BY <2>1, HeldParts DEF PoolParameters, Holds
<1>2. h \in Pool!Ids
  BY <1>1, NthBefore
<1>3. \A k \in 0..(n - 1) : Nth(h, k + 1) = Nth(q.head, k)
  BY <1>1, NthShifts
<1>4. q.tail = Nth(h, m + 1) /\ (n + Nth(h, m + 1) - h) % n = m + 1 /\ Nth(h, 0) = h
  <2>1. m \in 0..(n - 1)
    BY <1>1
  <2> QED
    BY <1>1, <1>2, <1>3, <2>1, HeldParts, NthFacts
<1> DEFINE d == [q.data EXCEPT ![h] = t]
<1>5. Pool!PushFront(q, t) = [head |-> h, tail |-> Nth(h, m + 1), size |-> m + 1, data |-> d]
  <2> DEFINE r == [q EXCEPT !.data[h] = t, !.head = h]
  <2>1. r = [head |-> h, tail |-> Nth(h, m + 1), size |-> q.size, data |-> d]
    <3>1. r.head = h /\ r.tail = Nth(h, m + 1) /\ r.size = q.size /\ r.data = d
      BY <1>1, <1>4 DEF Deques
    <3>2. r \in Deques
      BY <1>1, <1>2 DEF Deques
    <3> HIDE DEF r, d
    <3> QED
      BY <3>1, <3>2 DEF Deques
  <2>2. Pool!PushFront(q, t) = [r EXCEPT !.size = (PoolCells + r.tail - r.head) % PoolCells]
    BY DEF Pool!PushFront, Pool!Sized
  <2> HIDE DEF r
  <2> QED
    BY <1>1, <1>4, <2>1, <2>2
<1>6. <<t>> \o s \in Seq(Objects) /\ Len(<<t>> \o s) = m + 1
  BY <1>1
<1>7. d \in [Pool!Ids -> Objects \cup {None}]
  BY HeldParts
<1>8. \A k \in 1..(m + 1) : d[Nth(h, k - 1)] = (<<t>> \o s)[k]
  <2> TAKE k \in 1..(m + 1)
  <2>1. k - 1 \in 0..PoolCells /\ k - 1 \in 0..m /\ Nth(h, k - 1) \in Pool!Ids
    <3>1. k - 1 \in 0..PoolCells /\ k - 1 \in 0..m
      BY <1>1
    <3> QED
      BY <1>1, <1>2, <3>1, NthFacts
  <2>2. CASE k = 1
    BY <1>1, <1>2, <1>4, <2>2, HeldParts
  <2>3. CASE k # 1
    <3>1. k - 1 \in 1..m /\ k - 2 \in 0..(n - 1) /\ k - 1 # 0 /\ k - 1 < n
      BY <1>1, <2>3
    <3>2. Nth(h, k - 1) # h
      BY <1>1, <1>2, <1>4, <2>1, <3>1, NthFacts
    <3>3. Nth(h, k - 1) = Nth(q.head, (k - 1) - 1)
      <4>1. (k - 2) + 1 = k - 1 /\ k - 2 = (k - 1) - 1
        BY <3>1
      <4> QED
        BY <1>3, <3>1, <4>1
    <3>4. (<<t>> \o s)[k] = s[k - 1]
      BY <1>1, <3>1
    <3> QED
      BY <1>1, <2>1, <3>1, <3>2, <3>3, <3>4, HeldParts
  <2> QED
    BY <2>2, <2>3
<1> HIDE DEF d
<1> PICK r, w, l : r = Pool!PushFront(q, t) /\ w = <<t>> \o s /\ l = m + 1
  OBVIOUS
<1> QED
  BY <1>1, <1>2, <1>5, <1>6, <1>7, <1>8, HoldsThese

LEMMA PopBackHolds ==
  ASSUME PoolParameters, NEW q, NEW s, Holds(q, s), ~Pool!Empty(q)
  PROVE  Holds(Pool!PopBack(q), Pool!Front(s))
<1> PICK n, m, h : n = PoolCells /\ m = Len(s) /\ h = q.head
  OBVIOUS
<1>1. /\ h \in Pool!Ids /\ m \in Nat \ {0} /\ m < n /\ m - 1 \in 0..PoolCells
      /\ n \in Nat \ {0} /\ s \in Seq(Objects) /\ q \in Deques /\ n = PoolCells
  <2>1. m \in 0..(n - 1) /\ m # 0
    BY HeldParts, EmptyAndFull
  <2> QED
    BY <2>1, HeldParts DEF PoolParameters, Holds
<1>2. Pool!BackID(q) = Nth(h, m - 1)
  BY <1>1, EmptyAndFull
<1>3. (n + Nth(h, m - 1) - h) % n = m - 1
  BY <1>1, NthFacts
<1>4. Pool!PopBack(q) = [head |-> h, tail |-> Nth(h, m - 1), size |-> m - 1, data |-> q.data]
  <2> DEFINE r == [q EXCEPT !.tail = Pool!BackID(q)]
  <2>1. r = [head |-> h, tail |-> Nth(h, m - 1), size |-> q.size, data |-> q.data]
    BY <1>1, <1>2 DEF Deques
  <2>2. Pool!PopBack(q) = [r EXCEPT !.size = (PoolCells + r.tail - r.head) % PoolCells]
    BY DEF Pool!PopBack, Pool!Sized
  <2> HIDE DEF r
  <2> QED
    BY <1>1, <1>3, <2>1, <2>2
<1>5. /\ Pool!Front(s) \in Seq(Objects) /\ Len(Pool!Front(s)) = m - 1
      /\ \A k \in 1..(m - 1) : Pool!Front(s)[k] = s[k]
  BY <1>1 DEF Pool!Front
<1>6. \A k \in 1..(m - 1) : q.data[Nth(h, k - 1)] = Pool!Front(s)[k]
  <2>1. \A k \in 1..(m - 1) : k \in 1..m
    BY <1>1
  <2> QED
    BY <1>5, <2>1, HeldParts
<1> PICK r, w, l : r = Pool!PopBack(q) /\ w = Pool!Front(s) /\ l = m - 1
  OBVIOUS
<1>7. /\ w \in Seq(Objects) /\ l = Len(w) /\ l < PoolCells
      /\ r = [head |-> h, tail |-> Nth(h, l), size |-> l, data |-> q.data]
      /\ \A k \in 1..l : q.data[Nth(h, k - 1)] = w[k]
  BY <1>1, <1>4, <1>5, <1>6
<1>8. q.data \in [Pool!Ids -> Objects \cup {None}]
  BY HeldParts
<1> QED
  BY ZenonT(60), <1>1, <1>7, <1>8, HoldsThese

LEMMA PopFrontHolds ==
  ASSUME PoolParameters, NEW q, NEW s, Holds(q, s), ~Pool!Empty(q)
  PROVE  Holds(Pool!PopFront(q), Tail(s)) /\ q.data[q.head] = Head(s) /\ s # <<>>
<1> PICK n, m, h : n = PoolCells /\ m = Len(s) /\ h = Nth(q.head, 1)
  OBVIOUS
<1>1. /\ q.head \in Pool!Ids /\ m \in Nat \ {0} /\ m < n /\ m - 1 \in 0..PoolCells /\ 0 \in 0..PoolCells
      /\ n \in Nat \ {0} /\ s \in Seq(Objects) /\ q \in Deques /\ n = PoolCells /\ 1 \in 0..PoolCells
  <2>1. m \in 0..(n - 1) /\ m # 0
    BY HeldParts, EmptyAndFull
  <2> QED
    BY <2>1, HeldParts DEF PoolParameters, Holds
<1>2. h \in Pool!Ids /\ (q.head + 1) % n = h /\ Nth(q.head, 0) = q.head
  <2>1. Nth(q.head, 0) = q.head /\ 0 < n /\ 0 + 1 = 1
    BY <1>1, NthFacts
  <2>2. (Nth(q.head, 0) + 1) % n = Nth(q.head, 0 + 1)
    BY <1>1, <2>1, NthFacts
  <2> QED
    BY <1>1, <2>1, <2>2, NthFacts
<1>3. \A k \in 0..(n - 1) : Nth(h, k) = Nth(q.head, k + 1)
  BY <1>1, NthShifts
<1>4. q.tail = Nth(h, m - 1) /\ (n + Nth(h, m - 1) - h) % n = m - 1
  <2>1. m - 1 \in 0..(n - 1) /\ (m - 1) + 1 = m
    BY <1>1
  <2>2. q.tail = Nth(h, m - 1)
    BY <1>3, <2>1, HeldParts
  <2> QED
    BY <1>1, <1>2, <2>1, <2>2, NthFacts
<1>5. Pool!PopFront(q) = [head |-> h, tail |-> Nth(h, m - 1), size |-> m - 1, data |-> q.data]
  <2> DEFINE r == [q EXCEPT !.head = (@ + 1) % PoolCells]
  <2>1. r = [head |-> h, tail |-> Nth(h, m - 1), size |-> q.size, data |-> q.data]
    BY <1>1, <1>2, <1>4 DEF Deques
  <2>2. Pool!PopFront(q) = [r EXCEPT !.size = (PoolCells + r.tail - r.head) % PoolCells]
    BY DEF Pool!PopFront, Pool!Sized
  <2> HIDE DEF r
  <2> QED
    BY <1>1, <1>4, <2>1, <2>2
<1>6. /\ s # <<>> /\ Tail(s) \in Seq(Objects) /\ Len(Tail(s)) = m - 1 /\ Head(s) = s[1]
      /\ \A k \in 1..(m - 1) : Tail(s)[k] = s[k + 1]
  BY <1>1
<1>7. \A k \in 1..(m - 1) : q.data[Nth(h, k - 1)] = Tail(s)[k]
  <2> TAKE k \in 1..(m - 1)
  <2>1. k - 1 \in 0..(n - 1) /\ (k - 1) + 1 = (k + 1) - 1 /\ k + 1 \in 1..m
    BY <1>1
  <2>2. Nth(h, k - 1) = Nth(q.head, (k + 1) - 1)
    BY <1>3, <2>1
  <2> QED
    BY <1>6, <2>1, <2>2, HeldParts
<1>8. q.data[q.head] = s[1]
  <2>1. 1 \in 1..m /\ 1 - 1 = 0
    BY <1>1
  <2> QED
    BY <1>2, <2>1, HeldParts
<1>9. Holds(Pool!PopFront(q), Tail(s))
  <2> PICK r, w, l : r = Pool!PopFront(q) /\ w = Tail(s) /\ l = m - 1
    OBVIOUS
  <2>1. /\ w \in Seq(Objects) /\ l = Len(w) /\ l < PoolCells
        /\ r = [head |-> h, tail |-> Nth(h, l), size |-> l, data |-> q.data]
        /\ \A k \in 1..l : q.data[Nth(h, k - 1)] = w[k]
    BY <1>1, <1>5, <1>6, <1>7
  <2>2. q.data \in [Pool!Ids -> Objects \cup {None}]
    BY HeldParts
  <2> QED
    BY <1>2, <2>1, <2>2, HoldsThese
<1> QED
  BY <1>6, <1>8, <1>9

--------------------------------------------------------------------------------
(* Walks over the ids *)

\* Functions with the same domain and the same values are equal.
LEMMA SameFunction ==
  ASSUME NEW S, NEW f, NEW g, f = [i \in S |-> f[i]], g = [i \in S |-> g[i]], \A i \in S : g[i] = f[i]
  PROVE  f = g
OBVIOUS

\* A walk whose ids are w meets the elements at the first m of them, if those are valid and
\* the next one is not.
LEMMA WalkMeets ==
  ASSUME PoolParameters, NEW q, NEW from, NEW step, NEW m \in 0..PoolCells, NEW w,
         w[0] = from,
         \A i \in 1..PoolCells :
           w[i] = IF Pool!IsValidID(q, w[i - 1]) THEN step[w[i - 1]] ELSE Pool!InvalidId,
         \A i \in 0..(m - 1) : Pool!IsValidID(q, w[i]),
         ~Pool!IsValidID(q, w[m])
  PROVE  Pool!Walk(q, from, step) = [i \in 1..m |-> q.data[w[i - 1]]]
<1> PICK n : n = PoolCells
  OBVIOUS
<1> DEFINE id[i \in 0..PoolCells] == IF i = 0 THEN from
                                     ELSE IF Pool!IsValidID(q, id[i - 1]) THEN step[id[i - 1]]
                                     ELSE Pool!InvalidId
           visited == {i \in 0..PoolCells :
                         Pool!IsValidID(q, id[i]) /\ \A j \in 0..i : Pool!IsValidID(q, id[j])}
           length == CHOOSE k \in 0..(PoolCells + 1) : visited = 0..(k - 1)
           v == [i \in 0..PoolCells |-> w[i]]
           next(f, i) == IF i = 0 THEN from
                         ELSE IF Pool!IsValidID(q, f[i - 1]) THEN step[f[i - 1]] ELSE Pool!InvalidId
<1>0. n \in Nat \ {0} /\ n = PoolCells /\ m \in Nat /\ m <= n
  BY DEF PoolParameters
<1>1. v = [i \in 0..PoolCells |-> next(v, i)]
  <2>1. \A i \in 0..PoolCells : v[i] = next(v, i)
    <3> TAKE i \in 0..PoolCells
    <3>1. CASE i = 0
      BY <3>1, <1>0
    <3>2. CASE i # 0
      <4>1. i \in 1..PoolCells /\ i - 1 \in 0..PoolCells
        BY <1>0, <3>2
      <4> QED
        BY <3>2, <4>1
    <3> QED
      BY <3>1, <3>2
  <2> DEFINE u == [i \in 0..PoolCells |-> next(v, i)]
  <2>2. v = [i \in 0..PoolCells |-> v[i]]
    OBVIOUS
  <2> HIDE DEF v, next
  <2>3. u = [i \in 0..PoolCells |-> u[i]] /\ \A i \in 0..PoolCells : u[i] = v[i]
    BY <2>1
  <2> HIDE DEF u
  <2>4. v = u
    BY <2>2, <2>3, SameFunction
  <2> QED
    BY <2>4 DEF u
<1>2. id = [i \in 0..PoolCells |-> next(id, i)]
  <2> HIDE DEF v
  <2> QED
    BY <1>1
<1>3. \A i \in 0..PoolCells : id[i] = next(id, i) /\ v[i] = next(v, i)
  <2> HIDE DEF id, v, next
  <2>1. ASSUME NEW f, f = [i \in 0..PoolCells |-> next(f, i)], NEW i \in 0..PoolCells
        PROVE  f[i] = next(f, i)
    <3> PICK g : g = f
      OBVIOUS
    <3>1. f = [k \in 0..PoolCells |-> next(g, k)]
      BY <2>1
    <3> DEFINE u == [k \in 0..PoolCells |-> next(g, k)]
    <3>2. u[i] = next(g, i)
      BY <2>1
    <3> HIDE DEF u
    <3> QED
      BY <3>1, <3>2 DEF u
  <2> QED
    BY <1>1, <1>2, <2>1
<1> HIDE DEF id
<1>4. ASSUME NEW j \in 0..PoolCells PROVE id[j] = w[j]
  <2> DEFINE P == {k \in 0..PoolCells : id[k] = v[k]}
  <2> HIDE DEF v
  <2>1. 0 \in P
    BY <1>0, <1>3
  <2>2. ASSUME NEW k \in 0..(j - 1), k \in P PROVE k + 1 \in P
    <3>1. k + 1 \in 0..PoolCells /\ k + 1 # 0 /\ (k + 1) - 1 = k /\ id[k] = v[k]
      BY <1>0, <2>2
    <3>2. id[k + 1] = next(id, k + 1) /\ v[k + 1] = next(v, k + 1)
      BY <1>3, <3>1
    <3> QED
      BY <3>1, <3>2
  <2>3. j \in P
    <3>1. j \in Nat
      BY <1>0
    <3> HIDE DEF P
    <3> QED
      BY <2>1, <2>2, <3>1, Climb
  <2> QED
    BY <2>3 DEF v
<1>5. visited = 0..(m - 1)
  <2>1. ASSUME NEW i \in 0..PoolCells PROVE i \in visited <=> i < m
    <3>1. CASE i < m
      <4>1. \A j \in 0..i : j \in 0..PoolCells /\ j \in 0..(m - 1)
        BY <1>0, <3>1
      <4>2. i \in 0..i
        BY <1>0
      <4> QED
        BY <1>4, <3>1, <4>1, <4>2
    <3>2. CASE ~(i < m)
      <4>1. m \in 0..i /\ m \in 0..PoolCells
        BY <1>0, <3>2
      <4> QED
        BY <1>4, <3>2, <4>1
    <3> QED
      BY <3>1, <3>2
  <2>2. \A i \in visited : i \in 0..PoolCells
    OBVIOUS
  <2> HIDE DEF visited
  <2>3. ASSUME NEW i PROVE i \in visited <=> i \in 0..(m - 1)
    <3>1. i \in 0..(m - 1) <=> i \in 0..PoolCells /\ i < m
      BY <1>0
    <3> QED
      BY <2>1, <2>2, <3>1
  <2> QED
    BY <2>3
<1> HIDE DEF visited
<1>6. length = m
  <2>1. m \in 0..(PoolCells + 1) /\ visited = 0..(m - 1)
    BY <1>0, <1>5
  <2>2. length \in 0..(PoolCells + 1) /\ visited = 0..(length - 1)
    BY <2>1
  <2> HIDE DEF length
  <2> QED
    <3>1. length \in Nat /\ 0..(length - 1) = 0..(m - 1)
      BY <1>0, <1>5, <2>2
    <3>2. ~(length < m)
      <4> SUFFICES ASSUME length < m PROVE FALSE
        OBVIOUS
      <4>1. length \in 0..(m - 1) /\ length \notin 0..(length - 1)
        BY <1>0, <3>1
      <4> QED
        BY <3>1, <4>1
    <3>3. ~(m < length)
      <4> SUFFICES ASSUME m < length PROVE FALSE
        OBVIOUS
      <4>1. m \in 0..(length - 1) /\ m \notin 0..(m - 1)
        BY <1>0, <3>1
      <4> QED
        BY <3>1, <4>1
    <3> QED
      BY <1>0, <3>1, <3>2, <3>3
<1>7. Pool!Walk(q, from, step) = [i \in 1..length |-> q.data[id[i - 1]]]
  BY DEF Pool!Walk, id, visited
<1> HIDE DEF length
<1>8. \A i \in 1..m : i - 1 \in 0..PoolCells
  BY <1>0
<1> QED
  BY <1>4, <1>6, <1>7, <1>8

\* The ids of the elements are valid; the id that ends a walk is not, and none is in an
\* empty deque.
LEMMA ValidIds ==
  ASSUME PoolParameters, NEW q, NEW s, Holds(q, s)
  PROVE  /\ \A k \in 0..(Len(s) - 1) : Pool!IsValidID(q, Nth(q.head, k))
         /\ ~Pool!IsValidID(q, Pool!InvalidId)
         /\ s = <<>> => \A i : ~Pool!IsValidID(q, i)
<1> PICK n, m, h : n = PoolCells /\ m = Len(s) /\ h = q.head
  OBVIOUS
<1>1. n \in Nat \ {0} /\ n = PoolCells /\ m \in Nat /\ m < n /\ h \in Pool!Ids /\ h \in Nat /\ h < n
  <2>1. m \in 0..(n - 1) /\ h \in Pool!Ids
    BY HeldParts
  <2> QED
    BY <2>1 DEF PoolParameters, Pool!Ids
<1>2. ASSUME NEW k \in 0..(n - 1) PROVE Pool!CalcIndex(q, Nth(h, k)) = k
  BY <1>1 DEF Pool!CalcIndex, Nth
<1>3. q.tail = Nth(h, m) /\ Pool!CalcIndex(q, q.tail) = m
  <2>1. m \in 0..(n - 1)
    BY <1>1
  <2> QED
    BY <1>2, <2>1, HeldParts
<1>4. Pool!Empty(q) <=> m = 0
  BY EmptyAndFull
<1>5. s = <<>> => m = 0
  OBVIOUS
<1>6. ASSUME NEW k \in 0..(m - 1) PROVE Pool!IsValidID(q, Nth(h, k))
  <2>1. k \in 0..(n - 1) /\ k \in 0..PoolCells /\ k < m /\ m # 0
    BY <1>1
  <2> QED
    BY <1>1, <1>2, <1>3, <1>4, <2>1, NthFacts DEF Pool!IsValidID
<1>7. Pool!InvalidId \notin Pool!Ids
  BY <1>1 DEF Pool!InvalidId, Pool!Ids
<1> QED
  BY <1>4, <1>5, <1>6, <1>7 DEF Pool!IsValidID

\* A walk from the front on meets the sequence.
LEMMA WalkForward ==
  ASSUME PoolParameters, NEW q, NEW s, Holds(q, s)
  PROVE  Pool!Walk(q, Pool!FrontID(q), Pool!NextIds(q)) = s
<1> PICK n, m, h : n = PoolCells /\ m = Len(s) /\ h = q.head
  OBVIOUS
<1> DEFINE w == [i \in 0..PoolCells |-> IF i = 0 THEN h ELSE IF i < m THEN Nth(h, i) ELSE Pool!InvalidId]
<1>1. n \in Nat \ {0} /\ n = PoolCells /\ m \in Nat /\ m < n /\ h \in Pool!Ids
  <2>1. m \in 0..(n - 1) /\ h \in Pool!Ids
    BY HeldParts
  <2> QED
    BY <2>1 DEF PoolParameters
<1>2. \A i \in 0..PoolCells : i < m => w[i] = Nth(h, i) /\ Pool!IsValidID(q, w[i])
  <2> TAKE i \in 0..PoolCells
  <2> HAVE i < m
  <2>1. i \in 0..(m - 1)
    BY <1>1
  <2>2. Nth(h, 0) = h
    BY <1>1, NthFacts
  <2> QED
    BY <1>1, <2>1, <2>2, ValidIds
<1>3. \A i \in 0..PoolCells : m <= i => ~Pool!IsValidID(q, w[i])
  <2> TAKE i \in 0..PoolCells
  <2> HAVE m <= i
  <2>1. CASE m = 0
    <3>1. s = <<>>
      <4>1. Len(s) = 0
        BY <2>1
      <4> QED
        BY <4>1, EmptyAndFull
    <3> QED
      BY <3>1, ValidIds
  <2>2. CASE m # 0
    <3>1. w[i] = Pool!InvalidId
      BY <1>1, <2>2
    <3> QED
      BY <3>1, ValidIds
  <2> QED
    BY <2>1, <2>2
<1>4. ASSUME NEW i \in 1..PoolCells
      PROVE  w[i] = IF Pool!IsValidID(q, w[i - 1]) THEN Pool!NextIds(q)[w[i - 1]] ELSE Pool!InvalidId
  <2>0. i - 1 \in 0..PoolCells /\ i \in 0..PoolCells /\ i # 0
    BY <1>1
  <2>1. CASE ~(i - 1 < m)
    <3>1. m <= i - 1 /\ ~(i < m)
      BY <1>1, <2>0, <2>1
    <3>2. ~Pool!IsValidID(q, w[i - 1])
      BY <1>3, <2>0, <3>1
    <3>3. w[i] = Pool!InvalidId
      BY <2>0, <3>1
    <3> QED
      BY <3>2, <3>3
  <2>2. CASE i - 1 < m
    <3>1. w[i - 1] = Nth(h, i - 1) /\ Pool!IsValidID(q, w[i - 1]) /\ Nth(h, i - 1) \in Pool!Ids
      BY <1>1, <1>2, <2>0, <2>2, NthFacts
    <3>2. Pool!BackID(q) = Nth(h, m - 1)
      <4>1. s # <<>>
        BY <1>1, <2>0, <2>2
      <4> QED
        BY <4>1, EmptyAndFull
    <3>3. Pool!NextIds(q)[w[i - 1]] = Pool!NextID(q, Nth(h, i - 1))
      BY <3>1 DEF Pool!NextIds
    <3>4. CASE i = m
      BY <2>0, <3>1, <3>2, <3>3, <3>4 DEF Pool!NextID
    <3>5. CASE i # m
      <4>1. i < m /\ i - 1 # m - 1 /\ i - 1 < n /\ m - 1 < n /\ m - 1 \in 0..PoolCells /\ (i - 1) + 1 = i
        BY <1>1, <2>0, <2>2, <3>5
      <4>2. Nth(h, i - 1) # Nth(h, m - 1)
        <5> PICK j, k : j = i - 1 /\ k = m - 1
          OBVIOUS
        <5> QED
          BY <1>1, <2>0, <4>1, NthFacts
      <4>3. (Nth(h, i - 1) + 1) % n = Nth(h, (i - 1) + 1)
        BY <1>1, <2>0, <4>1, NthFacts
      <4>4. w[i] = Nth(h, i)
        BY <1>2, <2>0, <4>1
      <4> QED
        BY <1>1, <3>1, <3>2, <3>3, <4>1, <4>2, <4>3, <4>4 DEF Pool!NextID
    <3> QED
      BY <3>4, <3>5
  <2> QED
    BY <2>1, <2>2
<1>5. w[0] = Pool!FrontID(q)
  BY <1>1 DEF Pool!FrontID
<1> HIDE DEF w
<1>6. Pool!Walk(q, Pool!FrontID(q), Pool!NextIds(q)) = [i \in 1..m |-> q.data[w[i - 1]]]
  <2>1. \A i \in 0..(m - 1) : i \in 0..PoolCells /\ i < m
    BY <1>1
  <2>2. m \in 0..PoolCells /\ m <= m
    BY <1>1
  <2>3. (\A i \in 0..(m - 1) : Pool!IsValidID(q, w[i])) /\ ~Pool!IsValidID(q, w[m])
    BY <1>2, <1>3, <2>1, <2>2
  <2> QED
    BY <1>4, <1>5, <2>2, <2>3, WalkMeets
<1>7. \A i \in 1..m : q.data[w[i - 1]] = s[i]
  <2> TAKE i \in 1..m
  <2>1. i - 1 \in 0..PoolCells /\ i - 1 < m
    BY <1>1
  <2> QED
    BY <1>2, <2>1, HeldParts
<1>8. s = [i \in 1..m |-> s[i]]
  BY HeldParts
<1> QED
  BY <1>6, <1>7, <1>8

\* A walk from the back meets it backwards.
LEMMA WalkBackward ==
  ASSUME PoolParameters, NEW q, NEW s, Holds(q, s)
  PROVE  Pool!Walk(q, Pool!BackID(q), Pool!PrevIds(q)) = Pool!Reverse(s)
<1> PICK n, m, h, b : n = PoolCells /\ m = Len(s) /\ h = q.head /\ b = Pool!BackID(q)
  OBVIOUS
<1> DEFINE w == [i \in 0..PoolCells |-> IF i = 0 THEN b
                                        ELSE IF i < m THEN Nth(h, m - 1 - i) ELSE Pool!InvalidId]
<1>1. n \in Nat \ {0} /\ n = PoolCells /\ m \in Nat /\ m < n /\ h \in Pool!Ids
  <2>1. m \in 0..(n - 1) /\ h \in Pool!Ids
    BY HeldParts
  <2> QED
    BY <2>1 DEF PoolParameters
<1>2. \A i \in 0..PoolCells : i < m => w[i] = Nth(h, m - 1 - i) /\ Pool!IsValidID(q, w[i])
  <2> TAKE i \in 0..PoolCells
  <2> HAVE i < m
  <2>1. m - 1 - i \in 0..(m - 1) /\ (i = 0 => m - 1 - i = m - 1) /\ m # 0
    BY <1>1
  <2>2. b = Nth(h, m - 1)
    <3>1. s # <<>>
      BY <1>1, <2>1
    <3> QED
      BY <3>1, EmptyAndFull
  <2>3. w[i] = Nth(h, m - 1 - i)
    BY <2>1, <2>2
  <2> HIDE DEF w
  <2> QED
    BY <2>1, <2>3, ValidIds
<1>3. \A i \in 0..PoolCells : m <= i => ~Pool!IsValidID(q, w[i])
  <2> TAKE i \in 0..PoolCells
  <2> HAVE m <= i
  <2>1. CASE m = 0
    <3>1. s = <<>>
      <4>1. Len(s) = 0
        BY <2>1
      <4> QED
        BY <4>1, EmptyAndFull
    <3> QED
      BY <3>1, ValidIds
  <2>2. CASE m # 0
    <3>1. w[i] = Pool!InvalidId
      BY <1>1, <2>2
    <3> QED
      BY <3>1, ValidIds
  <2> QED
    BY <2>1, <2>2
<1>4. ASSUME NEW i \in 1..PoolCells
      PROVE  w[i] = IF Pool!IsValidID(q, w[i - 1]) THEN Pool!PrevIds(q)[w[i - 1]] ELSE Pool!InvalidId
  <2>0. i - 1 \in 0..PoolCells /\ i \in 0..PoolCells /\ i # 0
    BY <1>1
  <2>1. CASE ~(i - 1 < m)
    <3>1. m <= i - 1 /\ ~(i < m)
      BY <1>1, <2>0, <2>1
    <3>2. ~Pool!IsValidID(q, w[i - 1])
      BY <1>3, <2>0, <3>1
    <3>3. w[i] = Pool!InvalidId
      BY <2>0, <3>1
    <3> QED
      BY <3>2, <3>3
  <2>2. CASE i - 1 < m
    <3> PICK j : j = m - i
      OBVIOUS
    <3>0. j \in 0..PoolCells /\ j < n /\ j = m - 1 - (i - 1) /\ (j = 0 <=> i = m) /\ j - 1 = m - 1 - i
      BY <1>1, <2>0, <2>2
    <3>1. w[i - 1] = Nth(h, j) /\ Pool!IsValidID(q, w[i - 1]) /\ Nth(h, j) \in Pool!Ids /\ Nth(h, 0) = h
      BY <1>1, <1>2, <2>0, <2>2, <3>0, NthFacts
    <3>2. Pool!PrevIds(q)[w[i - 1]] = Pool!PrevID(q, Nth(h, j))
      BY <3>1 DEF Pool!PrevIds
    <3>3. CASE i = m
      <4>1. w[i] = Pool!InvalidId /\ Nth(h, j) = h
        BY <2>0, <3>0, <3>1, <3>3
      <4> QED
        BY <3>1, <3>2, <4>1 DEF Pool!PrevID
    <3>4. CASE i # m
      <4>1. i < m /\ j > 0 /\ 0 \in 0..PoolCells /\ 0 # j /\ 0 < n
        BY <1>1, <2>0, <2>2, <3>0, <3>4
      <4>2. Nth(h, j) # h
        BY <1>1, <3>0, <3>1, <4>1, NthFacts
      <4>3. (n + Nth(h, j) - 1) % n = Nth(h, j - 1)
        BY <1>1, <3>0, <4>1, NthFacts
      <4>4. w[i] = Nth(h, j - 1)
        BY <1>2, <2>0, <3>0, <4>1
      <4> QED
        BY <1>1, <3>1, <3>2, <4>2, <4>3, <4>4 DEF Pool!PrevID
    <3> QED
      BY <3>3, <3>4
  <2> QED
    BY <2>1, <2>2
<1>5. w[0] = Pool!BackID(q)
  BY <1>1
<1> HIDE DEF w
<1>6. Pool!Walk(q, Pool!BackID(q), Pool!PrevIds(q)) = [i \in 1..m |-> q.data[w[i - 1]]]
  <2>1. \A i \in 0..(m - 1) : i \in 0..PoolCells /\ i < m
    BY <1>1
  <2>2. m \in 0..PoolCells /\ m <= m
    BY <1>1
  <2>3. (\A i \in 0..(m - 1) : Pool!IsValidID(q, w[i])) /\ ~Pool!IsValidID(q, w[m])
    BY <1>2, <1>3, <2>1, <2>2
  <2> QED
    BY <1>4, <1>5, <2>2, <2>3, WalkMeets
<1>7. \A i \in 1..m : q.data[w[i - 1]] = s[(m - i) + 1]
  <2> TAKE i \in 1..m
  <2>1. i - 1 \in 0..PoolCells /\ i - 1 < m /\ m - 1 - (i - 1) = ((m - i) + 1) - 1 /\ (m - i) + 1 \in 1..m
    BY <1>1
  <2>2. w[i - 1] = Nth(h, ((m - i) + 1) - 1)
    BY <1>2, <2>1
  <2> QED
    BY <2>1, <2>2, HeldParts
<1> QED
  BY <1>6, <1>7 DEF Pool!Reverse

--------------------------------------------------------------------------------
\* What is promised of a deque follows from the sequence that it holds.
LEMMA HeldIsSequence ==
  ASSUME PoolParameters, Holds(queue, contents)
  PROVE  Pool!DequeIsSequence
<1> PICK m : m = Len(contents)
  OBVIOUS
<1>1. queue.size = m /\ (Pool!Empty(queue) = (contents = <<>>))
  BY HeldParts, EmptyAndFull DEF Pool!Empty
<1>2. ASSUME contents # <<>>
      PROVE  /\ queue.data[Pool!FrontID(queue)] = Head(contents)
             /\ queue.data[Pool!BackID(queue)] = Pool!Last(contents)
  <2>1. m \in Nat \ {0} /\ 1 \in 1..m /\ m \in 1..m /\ 1 - 1 = 0 /\ 0 \in 0..PoolCells
    <3>1. m \in 0..(PoolCells - 1) /\ m # 0
      BY <1>2, HeldParts, EmptyAndFull
    <3> QED
      BY <3>1 DEF PoolParameters
  <2>2. Nth(queue.head, 0) = queue.head
    BY <2>1, HeldParts, NthFacts
  <2>3. queue.data[queue.head] = contents[1] /\ queue.data[Nth(queue.head, m - 1)] = contents[m]
    BY <2>1, <2>2, HeldParts
  <2>4. Pool!BackID(queue) = Nth(queue.head, m - 1)
    BY <1>2, EmptyAndFull
  <2>5. Head(contents) = contents[1]
    BY <1>2, HeldParts
  <2> QED
    BY <2>3, <2>4, <2>5 DEF Pool!FrontID, Pool!Last
<1> QED
  BY <1>1, <1>2, WalkForward, WalkBackward DEF Pool!DequeIsSequence

--------------------------------------------------------------------------------
(* The pool at the start: one object in each of its first cells *)

\* Cardinality and injectivity of the pool's module are those of this one.
LEMMA SameNotions ==
  /\ \A S : Pool!Cardinality(S) = Cardinality(S)
  /\ \A f : Pool!IsInjective(f) <=> IsInjective(f)
<1>1. \A S : Pool!Cardinality(S) = Cardinality(S)
  BY DEF Cardinality, Pool!Cardinality
<1>2. \A f : Pool!IsInjective(f) <=> IsInjective(f)
  BY DEF IsInjective, Pool!IsInjective
<1> QED
  BY <1>1, <1>2

\* The order in which Init(num) puts the objects into the deque names each of them once.
LEMMA OrderOfObjects ==
  ASSUME PoolParameters
  PROVE  /\ Pool!SetToSeq(Objects) \in [1..Cardinality(Objects) -> Objects]
         /\ IsInjective(Pool!SetToSeq(Objects))
         /\ Cardinality(Objects) \in Nat /\ Cardinality(Objects) < PoolCells
         /\ \A o \in Objects : \E k \in 1..Cardinality(Objects) : Pool!SetToSeq(Objects)[k] = o
<1> PICK c : c = Cardinality(Objects)
  OBVIOUS
<1>1. c \in Nat /\ c < PoolCells /\ ExistsBijection(1..c, Objects) /\ IsFiniteSet(Objects)
  BY FS_CardinalityType DEF PoolParameters
<1>2. \E f \in [1..c -> Objects] : Pool!IsInjective(f)
  BY <1>1, SameNotions DEF ExistsBijection, Bijection, Injection
<1> PICK order : order = Pool!SetToSeq(Objects)
  OBVIOUS
<1>3. order = CHOOSE f \in [1..c -> Objects] : Pool!IsInjective(f)
  BY SameNotions DEF Pool!SetToSeq
<1>4. order \in [1..c -> Objects] /\ IsInjective(order)
  BY <1>2, <1>3, SameNotions
<1>5. order \in Surjection(1..c, Objects)
  <2>1. order \in Injection(1..c, Objects)
    BY <1>4 DEF Injection
  <2>2. IsFiniteSet(1..c) /\ Cardinality(1..c) = c
    BY <1>1, FS_Interval
  <2> QED
    BY <1>1, <2>1, <2>2, FS_Injection
<1> QED
  BY <1>1, <1>4, <1>5 DEF Surjection

\* A pool that was just initialised holds all the objects, in that order.
LEMMA InitPoolHolds ==
  ASSUME PoolParameters
  PROVE  Holds(Pool!InitPool, Pool!SetToSeq(Objects))
<1> PICK n, c, order : n = PoolCells /\ c = Cardinality(Objects) /\ order = Pool!SetToSeq(Objects)
  OBVIOUS
<1>0. n \in Nat \ {0} /\ n = PoolCells /\ c \in Nat /\ c < n /\ order \in [1..c -> Objects]
  BY OrderOfObjects DEF PoolParameters
<1> DEFINE row(i) == [j \in Pool!Ids |-> IF j < i THEN order[j + 1] ELSE None]
           v == [i \in 0..c |-> [head |-> 0, tail |-> i, size |-> i, data |-> row(i)]]
           fill[i \in 0..c] == IF i = 0 THEN Pool!Cleared ELSE Pool!PushBack(fill[i - 1], order[i])
           next(f, i) == IF i = 0 THEN Pool!Cleared ELSE Pool!PushBack(f[i - 1], order[i])
<1>1. \A i \in 0..c : v[i] = next(v, i)
  <2> TAKE i \in 0..c
  <2>1. CASE i = 0
    <3>1. row(0) = [j \in Pool!Ids |-> None]
      <4>1. \A j \in Pool!Ids : ~(j < 0)
        BY <1>0 DEF Pool!Ids
      <4> QED
        BY <4>1
    <3> HIDE DEF row
    <3> QED
      BY <1>0, <2>1, <3>1 DEF Pool!Cleared
  <2>2. CASE i # 0
    <3>1. i - 1 \in 0..c /\ i \in Nat /\ i < n /\ i - 1 \in Pool!Ids /\ i \in 1..c
      BY <1>0, <2>2 DEF Pool!Ids
    <3> PICK x : x = i - 1
      OBVIOUS
    <3>2. x \in 0..c /\ x + 1 = i /\ (x + 1) % n = i /\ (n + i - 0) % n = i
      <4> PICK y : y = n + i - 0
        OBVIOUS
      <4>1. y \in Nat /\ y < 2 * n /\ ~(y < n) /\ y - n = i
        BY <1>0, <3>1
      <4>2. y % n = i
        BY <1>0, <4>1, ModOnce
      <4>3. i % n = i
        BY <1>0, <3>1, ModSmall
      <4> QED
        BY <1>0, <3>1, <4>2, <4>3
    <3>3. [row(x) EXCEPT ![x] = order[i]] = row(i)
      <4>1. \A j \in Pool!Ids : j < i <=> j < x \/ j = x
        BY <1>0, <3>1 DEF Pool!Ids
      <4> QED
        BY <1>0, <3>1, <3>2, <4>1
    <3>4. v[x] = [head |-> 0, tail |-> x, size |-> x, data |-> row(x)]
      BY <3>2
    <3>5. v[i] = [head |-> 0, tail |-> i, size |-> i, data |-> row(i)]
      OBVIOUS
    <3> HIDE DEF v, row
    <3> DEFINE r == [v[x] EXCEPT !.data[v[x].tail] = order[i], !.tail = (@ + 1) % PoolCells]
    <3>6. r = [head |-> 0, tail |-> i, size |-> x, data |-> row(i)]
      <4> DEFINE a == row(x)
                 b == row(i)
      <4>1. v[x] = [head |-> 0, tail |-> x, size |-> x, data |-> a] /\ [a EXCEPT ![x] = order[i]] = b
        BY <3>3, <3>4
      <4> HIDE DEF a, b
      <4> PICK z, e : z = v[x] /\ e = order[i]
        OBVIOUS
      <4>2. z = [head |-> 0, tail |-> x, size |-> x, data |-> a] /\ z.tail = x
        BY <4>1
      <4>3. r = [z EXCEPT !.data[x] = e, !.tail = (@ + 1) % PoolCells]
        BY <4>2
      <4>4. z \in [head : {0}, tail : {x}, size : {x}, data : {a}] /\ [a EXCEPT ![x] = e] = b
        BY <4>1, <4>2
      <4> HIDE DEF r
      <4>5. (x + 1) % PoolCells = i
        BY <1>0, <3>2
      <4>6. r.head = 0 /\ r.tail = i /\ r.size = x /\ r.data = b
        BY <4>3, <4>4, <4>5
      <4>7. r \in [head : {0}, tail : {i}, size : {x}, data : {b}]
        BY <4>3, <4>4, <4>5
      <4>8. r = [head |-> 0, tail |-> i, size |-> x, data |-> b]
        BY <4>6, <4>7
      <4> QED
        BY <4>8 DEF b
    <3>7. Pool!PushBack(v[x], order[i]) = [r EXCEPT !.size = (PoolCells + r.tail - r.head) % PoolCells]
      BY DEF Pool!PushBack, Pool!Sized
    <3> HIDE DEF r
    <3>8. Pool!PushBack(v[x], order[i]) = v[i]
      BY <1>0, <3>2, <3>5, <3>6, <3>7
    <3> QED
      BY <2>2, <3>8
  <2> QED
    BY <2>1, <2>2
<1>2. v = [i \in 0..c |-> next(v, i)]
  <2> DEFINE u == [i \in 0..c |-> next(v, i)]
  <2>1. v = [i \in 0..c |-> v[i]]
    OBVIOUS
  <2> HIDE DEF v, next
  <2>2. u = [i \in 0..c |-> u[i]] /\ \A i \in 0..c : u[i] = v[i]
    BY <1>1
  <2> HIDE DEF u
  <2>3. v = u
    BY <2>1, <2>2, SameFunction
  <2> QED
    BY <2>3 DEF u
<1>3. fill = [i \in 0..c |-> next(fill, i)]
  <2> HIDE DEF v
  <2> QED
    BY <1>2
<1>4. \A i \in 0..c : fill[i] = next(fill, i)
  <2> HIDE DEF fill, v, next
  <2> PICK g : g = fill
    OBVIOUS
  <2> DEFINE u == [k \in 0..c |-> next(g, k)]
  <2>1. \A i \in 0..c : u[i] = next(g, i)
    OBVIOUS
  <2>2. fill = u
    BY <1>3
  <2> HIDE DEF u
  <2> QED
    BY <2>1, <2>2
<1>5. Pool!InitPool = fill[c]
  BY SameNotions DEF Pool!InitPool
<1> HIDE DEF fill
<1>6. fill[c] = v[c]
  <2> DEFINE P == {k \in 0..c : fill[k] = v[k]}
  <2> HIDE DEF v
  <2>1. 0 \in P
    BY <1>0, <1>1, <1>4
  <2>2. ASSUME NEW k \in 0..(c - 1), k \in P PROVE k + 1 \in P
    <3>1. k + 1 \in 0..c /\ k + 1 # 0 /\ (k + 1) - 1 = k /\ fill[k] = v[k]
      BY <1>0, <2>2
    <3>2. fill[k + 1] = next(fill, k + 1) /\ v[k + 1] = next(v, k + 1)
      BY <1>1, <1>4, <3>1
    <3> QED
      BY <3>1, <3>2
  <2>3. c \in P
    <3> HIDE DEF P
    <3> QED
      BY <1>0, <2>1, <2>2, Climb
  <2> QED
    BY <2>3
<1>7. v[c] = [head |-> 0, tail |-> c, size |-> c, data |-> row(c)]
  BY <1>0
<1>8. row(c) \in [Pool!Ids -> Objects \cup {None}]
  <2>1. \A j \in Pool!Ids : j < c => j + 1 \in 1..c
    BY <1>0 DEF Pool!Ids
  <2> QED
    BY <1>0, <2>1
<1>9. \A k \in 1..c : row(c)[Nth(0, k - 1)] = order[k]
  <2> TAKE k \in 1..c
  <2>1. Nth(0, k - 1) = k - 1 /\ k - 1 \in Pool!Ids /\ k - 1 < c /\ (k - 1) + 1 = k
    BY <1>0 DEF Nth, Pool!Ids
  <2> QED
    BY <2>1
<1>10. Nth(0, c) = c /\ 0 \in Pool!Ids /\ order \in Seq(Objects) /\ Len(order) = c
  BY <1>0 DEF Nth, Pool!Ids
<1> HIDE DEF v, row
<1> PICK q, d : q = fill[c] /\ d = row(c)
  OBVIOUS
<1>11. /\ d \in [Pool!Ids -> Objects \cup {None}] /\ q = [head |-> 0, tail |-> Nth(0, c), size |-> c, data |-> d]
       /\ \A k \in 1..c : d[Nth(0, k - 1)] = order[k]
  BY <1>6, <1>7, <1>8, <1>9, <1>10
<1>12. Holds(q, order)
  BY <1>0, <1>10, <1>11, HoldsThese
<1> QED
  BY <1>5, <1>12

--------------------------------------------------------------------------------
(* The inductive invariant of the deque and the pool, and its steps *)

\* The objects s wait in the pool, in this order: each object that is not given out, once.
InPool(s) ==
  /\ Holds(unused, s) /\ IsInjective(s)
  /\ allocated \in [Objects -> BOOLEAN]
  /\ \A o \in Objects : ~allocated[o] <=> \E k \in 1..Len(s) : s[k] = o

PoolInv == Holds(queue, contents) /\ \E s : InPool(s)

LEMMA PoolInit == ASSUME PoolParameters, Pool!Init PROVE PoolInv
<1>1. Holds(queue, contents)
  <2> PICK d : d = [i \in Pool!Ids |-> None]
    OBVIOUS
  <2> PICK q, s : q = queue /\ s = contents
    OBVIOUS
  <2>1. q = [head |-> 0, tail |-> 0, size |-> 0, data |-> d] /\ s = <<>>
    BY DEF Pool!Init, Pool!Cleared
  <2>2. /\ 0 \in Pool!Ids /\ Nth(0, 0) = 0 /\ s \in Seq(Objects) /\ Len(s) = 0 /\ 0 < PoolCells
        /\ d \in [Pool!Ids -> Objects \cup {None}]
    BY <2>1 DEF PoolParameters, Pool!Ids, Nth
  <2>3. \A k \in 1..0 : d[Nth(0, k - 1)] = s[k]
    OBVIOUS
  <2>4. Holds(q, s)
    BY <2>1, <2>2, <2>3, HoldsThese
  <2> QED
    BY <2>4
<1>2. InPool(Pool!SetToSeq(Objects))
  <2> PICK s : s = Pool!SetToSeq(Objects)
    OBVIOUS
  <2>1. /\ Holds(unused, s) /\ IsInjective(s) /\ allocated = [o \in Objects |-> FALSE]
        /\ s \in [1..Cardinality(Objects) -> Objects]
        /\ \A o \in Objects : \E k \in 1..Cardinality(Objects) : s[k] = o
    BY InitPoolHolds, OrderOfObjects DEF Pool!Init
  <2>2. Len(s) = Cardinality(Objects)
    BY <2>1, OrderOfObjects
  <2> QED
    BY <2>1, <2>2 DEF InPool
<1> QED
  BY <1>1, <1>2 DEF PoolInv

\* NewObject and Recycle move one object out of those that wait, or behind them.
LEMMA PoolStepKeeps ==
  ASSUME PoolParameters, NEW s, InPool(s), Pool!PoolStep
  PROVE  \E r : InPool(r)'
<1> PICK m : m = Len(s)
  OBVIOUS
<1>0. /\ s \in Seq(Objects) /\ m = Len(s) /\ m \in Nat /\ DOMAIN s = 1..m
      /\ \A i, j \in 1..m : s[i] = s[j] => i = j
      /\ allocated \in [Objects -> BOOLEAN]
      /\ \A k \in 1..m : s[k] \in Objects
      /\ \A o \in Objects : ~allocated[o] <=> \E k \in 1..m : s[k] = o
  <2>1. Holds(unused, s)
    BY DEF InPool
  <2>2. /\ s \in Seq(Objects) /\ Len(s) \in Nat /\ DOMAIN s = 1..Len(s)
        /\ \A k \in 1..Len(s) : s[k] \in Objects
    BY <2>1, HeldParts
  <2>3. \A i, j \in DOMAIN s : s[i] = s[j] => i = j
    BY DEF InPool, IsInjective
  <2> QED
    BY <2>2, <2>3 DEF InPool
<1>1. CASE Pool!NewObject
  <2>1. Holds(unused', Tail(s)) /\ unused.data[unused.head] = Head(s) /\ s # <<>>
    BY <1>1, PopFrontHolds DEF Pool!NewObject, InPool
  <2>2. /\ Len(Tail(s)) = m - 1 /\ m > 0 /\ Head(s) = s[1] /\ DOMAIN Tail(s) = 1..(m - 1)
        /\ \A k \in 1..(m - 1) : Tail(s)[k] = s[k + 1]
    BY <1>0, <2>1
  <2>3. allocated' = [allocated EXCEPT ![s[1]] = TRUE]
    BY <1>1, <2>1, <2>2 DEF Pool!NewObject
  <2> PICK r : r = Tail(s)
    OBVIOUS
  <2>4. IsInjective(r)
    <3>1. ASSUME NEW i \in 1..(m - 1), NEW j \in 1..(m - 1), r[i] = r[j] PROVE i = j
      <4>1. i + 1 \in 1..m /\ j + 1 \in 1..m /\ s[i + 1] = s[j + 1]
        BY <1>0, <2>2, <3>1
      <4>2. i + 1 = j + 1
        BY <1>0, <4>1
      <4> QED
        BY <4>2
    <3> QED
      BY <2>2, <3>1 DEF IsInjective
  <2>5. ASSUME NEW o \in Objects PROVE ~allocated'[o] <=> \E k \in 1..(m - 1) : r[k] = o
    <3>1. 1 \in 1..m /\ s[1] \in Objects
      BY <1>0, <2>2
    <3>2. CASE o = s[1]
      <4>1. \A k \in 1..(m - 1) : k + 1 \in 1..m /\ k + 1 # 1
        BY <1>0
      <4> QED
        BY <1>0, <2>2, <2>3, <3>1, <3>2, <4>1
    <3>3. CASE o # s[1]
      <4>1. (\E k \in 1..(m - 1) : s[k + 1] = o) <=> (\E k \in 1..m : s[k] = o)
        <5>1. ASSUME NEW k \in 1..m, s[k] = o PROVE k - 1 \in 1..(m - 1) /\ s[(k - 1) + 1] = o
          BY <1>0, <3>3, <5>1
        <5>2. \A k \in 1..(m - 1) : k + 1 \in 1..m
          BY <1>0
        <5> QED
          BY <5>1, <5>2
      <4> QED
        BY <1>0, <2>2, <2>3, <3>3, <4>1
    <3> QED
      BY <3>2, <3>3
  <2>6. allocated' \in [Objects -> BOOLEAN] /\ Len(r) = m - 1 /\ Holds(unused', r)
    BY <1>0, <2>1, <2>2, <2>3
  <2>7. InPool(r)'
    BY <2>4, <2>5, <2>6 DEF InPool
  <2> QED
    BY <2>7
<1>2. ASSUME NEW o \in Objects, Pool!Recycle(o) PROVE \E r : InPool(r)'
  <2> PICK r : r = Append(s, o)
    OBVIOUS
  <2>1. Holds(unused', r) /\ allocated[o] /\ allocated' = [allocated EXCEPT ![o] = FALSE]
    BY <1>2, PushBackHolds DEF Pool!Recycle, InPool
  <2>2. /\ Len(r) = m + 1 /\ DOMAIN r = 1..(m + 1) /\ r[m + 1] = o
        /\ \A k \in 1..m : r[k] = s[k]
    BY <1>0
  <2>3. \A k \in 1..m : s[k] # o
    BY <1>0, <2>1
  <2>4. \A k \in 1..(m + 1) : k \in 1..m \/ k = m + 1
    BY <1>0
  <2>5. IsInjective(r)
    BY <1>0, <2>2, <2>3, <2>4 DEF IsInjective
  <2>6. ASSUME NEW x \in Objects PROVE ~allocated'[x] <=> \E k \in 1..(m + 1) : r[k] = x
    <3>1. m + 1 \in 1..(m + 1) /\ \A k \in 1..m : k \in 1..(m + 1)
      BY <1>0
    <3>2. CASE x = o
      BY <1>0, <2>1, <2>2, <3>1, <3>2
    <3>3. CASE x # o
      BY <1>0, <2>1, <2>2, <2>4, <3>1, <3>3
    <3> QED
      BY <3>2, <3>3
  <2>7. allocated' \in [Objects -> BOOLEAN]
    BY <1>0, <2>1
  <2>8. InPool(r)'
    BY <2>1, <2>2, <2>5, <2>6, <2>7 DEF InPool
  <2> QED
    BY <2>8
<1> QED
  BY <1>1, <1>2 DEF Pool!PoolStep

\* Every push and pop does to the sequence what its name says.
LEMMA DequeStepKeeps ==
  ASSUME PoolParameters, Holds(queue, contents), Pool!DequeStep
  PROVE  Holds(queue, contents)'
<1>1. ASSUME NEW t \in Objects, Pool!UsePushBack(t) PROVE Holds(queue', contents')
  BY <1>1, PushBackHolds DEF Pool!UsePushBack
<1>2. ASSUME NEW t \in Objects, Pool!UsePushFront(t) PROVE Holds(queue', contents')
  BY <1>2, PushFrontHolds DEF Pool!UsePushFront
<1>3. ASSUME Pool!UsePopBack PROVE Holds(queue', contents')
  BY <1>3, PopBackHolds DEF Pool!UsePopBack
<1>4. ASSUME Pool!UsePopFront PROVE Holds(queue', contents')
  BY <1>4, PopFrontHolds DEF Pool!UsePopFront
<1>5. Holds(queue', contents')
  BY <1>1, <1>2, <1>3, <1>4 DEF Pool!DequeStep
<1> QED
  BY <1>5 DEF Holds

LEMMA PoolInvStep ==
  ASSUME PoolParameters, PoolInv, [MCNext]_allVars
  PROVE  PoolInv'
<1>1. CASE UNCHANGED poolVars
  BY <1>1 DEF poolVars, PoolInv, InPool
<1>2. CASE Pool!PoolStep
  <2>1. queue' = queue /\ contents' = contents
    BY <1>2 DEF Pool!PoolStep, Pool!NewObject, Pool!Recycle
  <2>2. \E r : InPool(r)'
    BY <1>2, PoolStepKeeps DEF PoolInv
  <2> QED
    BY <2>1, <2>2 DEF PoolInv
<1>3. CASE Pool!DequeStep
  <2>1. unused' = unused /\ allocated' = allocated
    BY <1>3 DEF Pool!DequeStep, Pool!UsePushBack, Pool!UsePushFront, Pool!UsePopBack, Pool!UsePopFront
  <2>2. Holds(queue, contents)'
    BY <1>3, DequeStepKeeps DEF PoolInv
  <2> QED
    BY <2>1, <2>2 DEF PoolInv, InPool
<1> QED
  BY <1>1, <1>2, <1>3 DEF MCNext, allVars

\* What is promised of the pool follows from the objects that wait in it.
LEMMA InPoolOnce ==
  ASSUME PoolParameters, NEW s, InPool(s)
  PROVE  Pool!EachObjectOnce
<1> PICK T : T = {o \in Objects : ~allocated[o]}
  OBVIOUS
<1>1. Pool!Walk(unused, Pool!FrontID(unused), Pool!NextIds(unused)) = s
  BY WalkForward DEF InPool
<1>2. /\ s \in Seq(Objects) /\ Len(s) \in Nat /\ DOMAIN s = 1..Len(s) /\ unused.size = Len(s)
      /\ \A k \in 1..Len(s) : s[k] \in Objects
      /\ \A o \in Objects : ~allocated[o] <=> \E k \in 1..Len(s) : s[k] = o
      /\ IsInjective(s)
  BY HeldParts DEF InPool
<1>3. Pool!ToSet(s) = T
  BY <1>2 DEF Pool!ToSet
<1>4. s \in [1..Len(s) -> T]
  BY <1>2
<1>5. s \in Bijection(1..Len(s), T)
  BY <1>2, <1>4 DEF Bijection, Injection, Surjection
<1>6. Cardinality(T) = Len(s)
  BY <1>2, <1>5, FS_CountingElements DEF ExistsBijection
<1> QED
  BY <1>1, <1>2, <1>3, <1>6, SameNotions DEF Pool!EachObjectOnce

\* For a deque of any size, pushed and popped at both ends: its size, its ends and a walk in
\* either direction say what was pushed and not popped. For a pool of any finite number of
\* objects: each is given out, or waits in the deque exactly once.
THEOREM DequeAndPoolHold == PoolParameters => (MCSpec => []DequeAndPool)
<1> SUFFICES ASSUME PoolParameters PROVE MCSpec => []DequeAndPool
  OBVIOUS
<1>1. MCInit => PoolInv
  BY PoolInit DEF MCInit
<1>2. PoolInv /\ [MCNext]_allVars => PoolInv'
  BY PoolInvStep
<1>3. PoolInv => DequeAndPool
  BY HeldIsSequence, InPoolOnce DEF PoolInv, DequeAndPool
<1> QED
  BY <1>1, <1>2, <1>3, PTL DEF MCSpec
================================================================================
