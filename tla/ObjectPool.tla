------------------------------ MODULE ObjectPool ------------------------------
(***************************************************************************)
(* ObjectPoolT of Common/ObjectPool.h (and CChainNodePoolT, which works in *)
(* the same way): the free objects wait in a deque, and a flag in each     *)
(* object says whether it is given out.  Beside it, a deque that is used   *)
(* at both ends with the sequence it stands for.                           *)
(***************************************************************************)
EXTENDS Deque, SequencesExt

CONSTANTS Objects

VARIABLES unused,     \* m_UnusedDatas
          allocated,  \* m_Allocated of each object
          queue,      \* a deque that is pushed and popped at both ends
          contents    \* history: the sequence that the deque stands for

vars == <<unused, allocated, queue, contents>>

\* Init(num) puts every object into the deque.
InitPool ==
  LET order == SetToSeq(Objects)
      fill[i \in 0..Cardinality(Objects)] == IF i = 0 THEN Cleared ELSE PushBack(fill[i - 1], order[i])
  IN fill[Cardinality(Objects)]

Init ==
  /\ unused = InitPool
  /\ allocated = [o \in Objects |-> FALSE]
  /\ queue = Cleared
  /\ contents = <<>>

NewObject ==
  /\ ~Empty(unused)
  /\ unused' = PopFront(unused)
  /\ allocated' = [allocated EXCEPT ![unused.data[unused.head]] = TRUE]
  /\ UNCHANGED <<queue, contents>>

\* Mutant: an object that is not given out is taken back as well.
RecycleAny(o) ==
  /\ ~Full(unused)
  /\ unused' = PushBack(unused, o)
  /\ allocated' = [allocated EXCEPT ![o] = FALSE]
  /\ UNCHANGED <<queue, contents>>
Recycle(o) ==
  /\ allocated[o]
  /\ ~Full(unused)
  /\ unused' = PushBack(unused, o)
  /\ allocated' = [allocated EXCEPT ![o] = FALSE]
  /\ UNCHANGED <<queue, contents>>

UsePushBack(t) ==
  /\ ~Full(queue)
  /\ queue' = PushBack(queue, t)
  /\ contents' = Append(contents, t)
  /\ UNCHANGED <<unused, allocated>>

UsePushFront(t) ==
  /\ ~Full(queue)
  /\ queue' = PushFront(queue, t)
  /\ contents' = <<t>> \o contents
  /\ UNCHANGED <<unused, allocated>>

UsePopBack ==
  /\ ~Empty(queue)
  /\ queue' = PopBack(queue)
  /\ contents' = Front(contents)
  /\ UNCHANGED <<unused, allocated>>

UsePopFront ==
  /\ ~Empty(queue)
  /\ queue' = PopFront(queue)
  /\ contents' = Tail(contents)
  /\ UNCHANGED <<unused, allocated>>

PoolStep == NewObject \/ \E o \in Objects : Recycle(o)
DequeStep ==
  \/ \E t \in Objects : UsePushBack(t) \/ UsePushFront(t)
  \/ UsePopBack \/ UsePopFront

Next == PoolStep \/ DequeStep

Spec == Init /\ [][Next]_vars

--------------------------------------------------------------------------------
\* A deque, wherever it lies in its ring, full or empty, holds what was pushed and not
\* popped: its size, its two ends and a walk over its ids in either direction say so.
DequeIsSequence ==
  /\ queue.size = Len(contents)
  /\ Empty(queue) = (contents = <<>>)
  /\ contents # <<>> => /\ queue.data[FrontID(queue)] = Head(contents)
                        /\ queue.data[BackID(queue)] = Last(contents)
  /\ Walk(queue, FrontID(queue), NextIds(queue)) = contents
  /\ Walk(queue, BackID(queue), PrevIds(queue)) = Reverse(contents)

\* Each object of a pool is either given out or waits in the deque, once: Recycle of an
\* object that was recycled before does nothing, and NewObject fails only when all are out.
EachObjectOnce ==
  LET waiting == Walk(unused, FrontID(unused), NextIds(unused))
  IN /\ ToSet(waiting) = {o \in Objects : ~allocated[o]}
     /\ unused.size = Cardinality(ToSet(waiting))
================================================================================
