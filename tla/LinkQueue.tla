------------------------------- MODULE LinkQueue -------------------------------
(***************************************************************************)
(* LockFreeLinkedQueueT of Common/LockFree/LinkQueue.h, after the queue of *)
(* Michael and Scott, over either of the two pools of nodes: the one that  *)
(* deletes (LinkedNodePoolT) and the one that recycles                     *)
(* (LockFreeLinkedNodePoolT of LinkQueuePool.h).                           *)
(* A copy of m_Head or m_Tail is one step although it is two loads: the    *)
(* comparison that follows refuses a copy of two different moments. The    *)
(* two loads of a next pointer are two steps. A count is a word that wraps *)
(* in the code; here it does not.                                          *)
(***************************************************************************)
EXTENDS Integers, FiniteSets, Sequences

CONSTANTS Pushers, Poppers,
          Nodes,       \* the memory of the pool
          Null,
          MaxNum,      \* m_MaxNum
          Recycles,    \* which pool: TRUE for LockFreeLinkedNodePoolT
          MaxRetry,    \* s_c_MaxRetryCount
          MaxPush,     \* bound: successful pushes of one pusher
          None

Threads == Pushers \cup Poppers

ASSUME ThreadsAssumption ==
  /\ Pushers \cap Poppers = {}
  /\ IsFiniteSet(Threads)
  /\ MaxRetry \in Nat /\ MaxPush \in Nat

ASSUME PoolAssumption ==
  /\ IsFiniteSet(Nodes) /\ Nodes # {} /\ Null \notin Nodes
  /\ MaxNum \in Nat
  /\ Recycles \in BOOLEAN

Values == Pushers \X (1..MaxPush)

ASSUME NoneAssumption == None \notin Values

VARIABLES head, tail,  \* Pointer: node and count
          node,        \* m_Next and m_Data of every node
          pool,        \* free nodes, the one that is given out next first
          num,         \* m_Num
          pc, frame,   \* where a thread is, and the locals of its call
          sent,        \* pushes that returned true
          got,         \* what Pop returned last
          lost,        \* history: nodes of pushes that gave up after MaxRetry tries
          stray,       \* history: a push linked its node to a node that is not the last one
          touched      \* history: a node was used that had been given back, see Uses

shared == <<head, tail, node, pool, num>>
history == <<lost, stray, touched>>
vars == <<shared, pc, frame, sent, got, history>>

NullPointer == [ptr |-> Null, count |-> 0]
NoFrame == [new |-> Null, at |-> NullPointer, tail |-> NullPointer, next |-> NullPointer,
            target |-> Null, data |-> None, tries |-> 0]

Init ==
  /\ \E dummy \in Nodes, order \in [1..(Cardinality(Nodes) - 1) -> Nodes] :
       /\ {order[i] : i \in DOMAIN order} = Nodes \ {dummy}
       /\ head = [ptr |-> dummy, count |-> 0]
       /\ pool = order
  /\ tail = head
  /\ node = [n \in Nodes |-> [next |-> NullPointer, data |-> None]]
  /\ num = 0
  /\ pc = [t \in Threads |-> "idle"]
  /\ frame = [t \in Threads |-> NoFrame]
  /\ sent = [p \in Pushers |-> 0]
  /\ got = [c \in Poppers |-> None]
  /\ lost = {} /\ stray = FALSE /\ touched = FALSE

Free == {pool[i] : i \in DOMAIN pool}
GoTo(t, where) == pc' = [pc EXCEPT ![t] = where]
Locally(t, f, where) == frame' = [frame EXCEPT ![t] = f] /\ GoTo(t, where)
Return(t) == Locally(t, NoFrame, "idle")

\* Another thread has moved the end at which t works since t has read it: its comparisons
\* will fail.
Overtaken(t) == IF t \in Poppers THEN head # frame[t].at ELSE tail # frame[t].tail

\* A use of a node through a pointer; that of a thread that was overtaken does not count.
Uses(t, n) == touched' = (touched \/ (n \in Free /\ ~Overtaken(t)))

\* The loop goes round again, or ends without success after MaxRetry rounds.
Rejoins(t, again) ==
  IF frame[t].tries + 1 < MaxRetry
    THEN Locally(t, [frame[t] EXCEPT !.tries = @ + 1], again) /\ UNCHANGED lost
    ELSE Return(t) /\ lost' = lost \cup ({frame[t].new} \ {Null})

\* Moves m_Tail if it is still what was read.
HelpTail(old, new) == IF tail = old THEN tail' = [ptr |-> new, count |-> old.count + 1] ELSE UNCHANGED tail

--------------------------------------------------------------------------------
(* Push *)

Outgoing(p) == <<p, sent[p] + 1>>

PushChecksNum(p) ==
  /\ pc[p] = "idle" /\ sent[p] < MaxPush
  /\ IF num < MaxNum THEN GoTo(p, "pushAlloc") ELSE UNCHANGED pc
  /\ UNCHANGED <<shared, frame, sent, got, history>>

\* new gives an initialised node, and nobody knows which address; the recycling pool gives
\* the node that was free longest, with the count it has. An empty pool gives NULL.
PushAllocs(p) ==
  /\ pc[p] = "pushAlloc"
  /\ IF pool = <<>>
       THEN Return(p) /\ UNCHANGED <<node, pool>>
       ELSE \E i \in IF Recycles THEN {1} ELSE DOMAIN pool :
              /\ Locally(p, [NoFrame EXCEPT !.new = pool[i]], "pushInit")
              /\ pool' = SubSeq(pool, 1, i - 1) \o SubSeq(pool, i + 1, Len(pool))
              /\ node' = IF Recycles THEN node ELSE [node EXCEPT ![pool[i]].next = NullPointer]
  /\ UNCHANGED <<head, tail, num, sent, got, history>>

PushInits(p) ==
  /\ pc[p] = "pushInit"
  /\ node' = [node EXCEPT ![frame[p].new].data = Outgoing(p), ![frame[p].new].next.ptr = Null]
  /\ GoTo(p, "pushTail")
  /\ UNCHANGED <<head, tail, pool, num, frame, sent, got, history>>

PushReadsTail(p) ==
  /\ pc[p] = "pushTail"
  /\ Locally(p, [frame[p] EXCEPT !.tail = tail], "pushNext")
  /\ UNCHANGED <<shared, sent, got, history>>

PushReadsNext(p) ==
  /\ pc[p] = "pushNext"
  /\ Locally(p, [frame[p] EXCEPT !.next.ptr = node[frame[p].tail.ptr].next.ptr], "pushCount")
  /\ Uses(p, frame[p].tail.ptr)
  /\ UNCHANGED <<shared, sent, got, lost, stray>>

PushReadsCount(p) ==
  /\ pc[p] = "pushCount"
  /\ Locally(p, [frame[p] EXCEPT !.next.count = node[frame[p].tail.ptr].next.count], "pushCheck")
  /\ Uses(p, frame[p].tail.ptr)
  /\ UNCHANGED <<shared, sent, got, lost, stray>>

PushChecksTail(p) ==
  /\ pc[p] = "pushCheck"
  /\ IF tail # frame[p].tail
       THEN Rejoins(p, "pushTail")
       ELSE /\ GoTo(p, IF frame[p].next.ptr = Null THEN "pushTarget" ELSE "pushHelp")
            /\ UNCHANGED <<frame, lost>>
  /\ UNCHANGED <<shared, sent, got, stray, touched>>

\* The swap is made on the next pointer of the node that m_Tail names by then, which need
\* not be the node that was read and checked.
PushTakesTarget(p) ==
  /\ pc[p] = "pushTarget"
  /\ Locally(p, [frame[p] EXCEPT !.target = tail.ptr], "pushLink")
  /\ UNCHANGED <<shared, sent, got, history>>

\* The nodes from the dummy on, as far as the next pointers lead.
Chain ==
  LET at[i \in 0..Cardinality(Nodes)] ==
        IF i = 0 THEN head.ptr ELSE IF at[i - 1] = Null THEN Null ELSE node[at[i - 1]].next.ptr
      long == {i \in 0..Cardinality(Nodes) : at[i] # Null}
  IN [i \in 1..Cardinality(long) |-> at[i - 1]]
Last == Chain[Len(Chain)]

PushLinks(p) ==
  LET target == frame[p].target
  IN /\ pc[p] = "pushLink"
     /\ node[target].next = frame[p].next
     /\ node' = [node EXCEPT ![target].next = [ptr |-> frame[p].new, count |-> frame[p].next.count + 1]]
     /\ stray' = (stray \/ target # Last)
     /\ Uses(p, target)
     /\ GoTo(p, "pushSwing")
     /\ UNCHANGED <<head, tail, pool, num, frame, sent, got, lost>>

PushLinkFails(p) ==
  /\ pc[p] = "pushLink"
  /\ node[frame[p].target].next # frame[p].next
  /\ Uses(p, frame[p].target)
  /\ Rejoins(p, "pushTail")
  /\ UNCHANGED <<shared, sent, got, stray>>

PushHelps(p) ==
  /\ pc[p] = "pushHelp"
  /\ HelpTail(frame[p].tail, frame[p].next.ptr)
  /\ Rejoins(p, "pushTail")
  /\ UNCHANGED <<head, node, pool, num, sent, got, stray, touched>>

PushSwings(p) ==
  /\ pc[p] = "pushSwing"
  /\ HelpTail(frame[p].tail, frame[p].new)
  /\ GoTo(p, "pushCounts")
  /\ UNCHANGED <<head, node, pool, num, frame, sent, got, history>>

PushCounts(p) ==
  /\ pc[p] = "pushCounts"
  /\ num' = num + 1
  /\ sent' = [sent EXCEPT ![p] = @ + 1]
  /\ Return(p)
  /\ UNCHANGED <<head, tail, node, pool, got, history>>

--------------------------------------------------------------------------------
(* Pop *)

PopReadsHead(c) ==
  /\ pc[c] \in {"idle", "popHead"}
  /\ Locally(c, [frame[c] EXCEPT !.at = head], "popTail")
  /\ UNCHANGED <<shared, sent, got, history>>

PopReadsTail(c) ==
  /\ pc[c] = "popTail"
  /\ Locally(c, [frame[c] EXCEPT !.tail = tail], "popNext")
  /\ UNCHANGED <<shared, sent, got, history>>

PopReadsNext(c) ==
  /\ pc[c] = "popNext"
  /\ Locally(c, [frame[c] EXCEPT !.next.ptr = node[frame[c].at.ptr].next.ptr], "popCheck")
  /\ Uses(c, frame[c].at.ptr)
  /\ UNCHANGED <<shared, sent, got, lost, stray>>

PopChecksHead(c) ==
  /\ pc[c] = "popCheck"
  /\ CASE head # frame[c].at -> Rejoins(c, "popHead")
       [] head = frame[c].at /\ frame[c].next.ptr = Null -> Return(c) /\ UNCHANGED lost
       [] OTHER -> /\ GoTo(c, IF frame[c].at.ptr = frame[c].tail.ptr THEN "popHelp" ELSE "popData")
                   /\ UNCHANGED <<frame, lost>>
  /\ UNCHANGED <<shared, sent, got, stray, touched>>

PopHelps(c) ==
  /\ pc[c] = "popHelp"
  /\ HelpTail(frame[c].tail, frame[c].next.ptr)
  /\ Rejoins(c, "popHead")
  /\ UNCHANGED <<head, node, pool, num, sent, got, stray, touched>>

\* Mutant: the value is read from the dummy.
PopReadsDummy(c) ==
  /\ pc[c] = "popData"
  /\ Locally(c, [frame[c] EXCEPT !.data = node[frame[c].at.ptr].data], "popSwap")
  /\ Uses(c, frame[c].at.ptr)
  /\ UNCHANGED <<shared, sent, got, lost, stray>>
PopReadsData(c) ==
  /\ pc[c] = "popData"
  /\ Locally(c, [frame[c] EXCEPT !.data = node[frame[c].next.ptr].data], "popSwap")
  /\ Uses(c, frame[c].next.ptr)
  /\ UNCHANGED <<shared, sent, got, lost, stray>>

PopSwaps(c) ==
  /\ pc[c] = "popSwap"
  /\ head = frame[c].at
  /\ head' = [ptr |-> frame[c].next.ptr, count |-> frame[c].at.count + 1]
  /\ GoTo(c, "popCounts")
  /\ got' = [got EXCEPT ![c] = frame[c].data]
  /\ UNCHANGED <<tail, node, pool, num, frame, sent, history>>

PopSwapFails(c) ==
  /\ pc[c] = "popSwap"
  /\ head # frame[c].at
  /\ Rejoins(c, "popHead")
  /\ UNCHANGED <<shared, sent, got, stray, touched>>

PopCounts(c) ==
  /\ pc[c] = "popCounts"
  /\ num' = num - 1
  /\ GoTo(c, "popFree")
  /\ UNCHANGED <<head, tail, node, pool, frame, sent, got, history>>

\* Mutant: the node of the value is given back in place of the old dummy.
PopFreesNext(c) ==
  /\ pc[c] = "popFree"
  /\ pool' = Append(pool, frame[c].next.ptr)
  /\ Return(c)
  /\ UNCHANGED <<head, tail, node, num, sent, got, history>>
PopFrees(c) ==
  /\ pc[c] = "popFree"
  /\ pool' = Append(pool, frame[c].at.ptr)
  /\ Return(c)
  /\ UNCHANGED <<head, tail, node, num, sent, got, history>>

--------------------------------------------------------------------------------
PushStep(p) ==
  \/ PushChecksNum(p)  \/ PushAllocs(p)     \/ PushInits(p)       \/ PushReadsTail(p)
  \/ PushReadsNext(p)  \/ PushReadsCount(p) \/ PushChecksTail(p)  \/ PushTakesTarget(p)
  \/ PushLinks(p)      \/ PushLinkFails(p)  \/ PushHelps(p)       \/ PushSwings(p)
  \/ PushCounts(p)
PopStep(c) ==
  \/ PopReadsHead(c)   \/ PopReadsTail(c)   \/ PopReadsNext(c)    \/ PopChecksHead(c)
  \/ PopHelps(c)       \/ PopReadsData(c)   \/ PopSwaps(c)        \/ PopSwapFails(c)
  \/ PopCounts(c)      \/ PopFrees(c)

Next == (\E p \in Pushers : PushStep(p)) \/ (\E c \in Poppers : PopStep(c))

Spec == Init /\ [][Next]_vars

--------------------------------------------------------------------------------
(* Properties *)

Pointers == [ptr : Nodes \cup {Null}, count : Nat]

Held == {frame[p].new : p \in {q \in Pushers : pc[q] \in {"pushInit", "pushTail", "pushNext",
           "pushCount", "pushCheck", "pushTarget", "pushLink", "pushHelp"}}}
Popped == {frame[c].at.ptr : c \in {d \in Poppers : pc[d] \in {"popCounts", "popFree"}}}

\* Every node of the pool is free, in the list, with a push that has not linked it, with a
\* pop that has not given it back, or was kept by a push that gave up; never two of these.
\* m_Tail names a node of the list.
NodesAccountedFor ==
  stray \/
  LET inChain == {Chain[i] : i \in DOMAIN Chain}
      places == {Free, inChain, Held, Popped, lost}
  IN /\ Nodes = UNION places
     /\ Cardinality(Nodes) = Len(pool) + Cardinality(inChain) + Cardinality(Held)
                               + Cardinality(Popped) + Cardinality(lost)
     /\ tail.ptr \in inChain

Contents == [i \in 1..(Len(Chain) - 1) |-> node[Chain[i + 1]].data]
Linked == {"pushSwing", "pushCounts"}
InCall == [p \in Pushers |-> IF pc[p] \in {"idle"} \cup Linked THEN None ELSE Outgoing(p)]
Accepted == [p \in Pushers |-> sent[p] + (IF pc[p] \in Linked THEN 1 ELSE 0)]

Abstract == INSTANCE BoundedFifo
  WITH Capacity <- MaxNum - 1 + Cardinality(Pushers), NoValue <- None,
       queue <- Contents, sending <- InCall, accepted <- Accepted, held <- got

\* Push and Pop work on one first-in-first-out queue. It may grow above m_MaxNum, by one
\* value for each further thread that tested m_Num before the others had counted.
ImplementsFifo == Abstract!Spec

\* A node that was given back is used by no thread but one that another has overtaken at its
\* end of the list. So with one thread at each end the pool may delete its nodes
\* (LinkedNodePoolT); of several one may read a deleted node, and they need the pool that
\* recycles.
NoFreedNodeUsed == ~touched
================================================================================
