-------------------------------- MODULE Deque --------------------------------
(***************************************************************************)
(* DequeT of Common/Queue.h: a ring of cells one of which stays free, with *)
(* ids to walk over it.  The operators work on a deque                     *)
(* [head, tail, size, data]; callers test Full and Empty themselves.       *)
(***************************************************************************)
EXTENDS Integers, Sequences

CONSTANTS MaxSize,  \* m_MaxSize: one cell more than Init was called with
          Nobody    \* what a cell holds that was never written

Ids == 0..(MaxSize - 1)
InvalidId == -1
Cleared == [head |-> 0, tail |-> 0, size |-> 0, data |-> [i \in Ids |-> Nobody]]

Empty(q) == q.head = q.tail
Full(q) == q.head = (q.tail + 1) % MaxSize

\* Mutant: the tail may be below the head.
SizedNoWrap(q) == [q EXCEPT !.size = q.tail - q.head]
Sized(q) == [q EXCEPT !.size = (MaxSize + q.tail - q.head) % MaxSize]

FrontID(q) == q.head
BackID(q) == IF Empty(q) THEN q.head ELSE (MaxSize + q.tail - 1) % MaxSize

PushBack(q, t) == Sized([q EXCEPT !.data[q.tail] = t, !.tail = (@ + 1) % MaxSize])
PushFront(q, t) ==
  LET h == (MaxSize + q.head - 1) % MaxSize
  IN Sized([q EXCEPT !.data[h] = t, !.head = h])
PopBack(q) == Sized([q EXCEPT !.tail = BackID(q)])
PopFront(q) == Sized([q EXCEPT !.head = (@ + 1) % MaxSize])

--------------------------------------------------------------------------------
(* Walking *)

\* Mutant: ids below the head are numbered as those above it.
CalcIndexNoWrap(q, id) == id - q.head
CalcIndex(q, id) == IF id < q.head THEN id + MaxSize - q.head ELSE id - q.head
IsValidID(q, id) == ~Empty(q) /\ id \in Ids /\ CalcIndex(q, id) < CalcIndex(q, q.tail)
NextID(q, id) == IF id = BackID(q) THEN InvalidId ELSE (id + 1) % MaxSize
PrevID(q, id) == IF id = q.head THEN InvalidId ELSE (MaxSize + id - 1) % MaxSize
NextIds(q) == [id \in Ids |-> NextID(q, id)]
PrevIds(q) == [id \in Ids |-> PrevID(q, id)]

\* The elements that "for (id = from; IsValidID(id); id = step[id])" meets, as in CopyFrom.
Walk(q, from, step) ==
  LET id[i \in 0..MaxSize] == IF i = 0 THEN from
                              ELSE IF IsValidID(q, id[i - 1]) THEN step[id[i - 1]] ELSE InvalidId
      visited == {i \in 0..MaxSize : IsValidID(q, id[i]) /\ \A j \in 0..i : IsValidID(q, id[j])}
      length == CHOOSE n \in 0..(MaxSize + 1) : visited = 0..(n - 1)
  IN [i \in 1..length |-> q.data[id[i - 1]]]
================================================================================
