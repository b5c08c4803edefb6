--------------------------------- MODULE Heap ---------------------------------
(***************************************************************************)
(* HeapT of Common/Heap.h: a priority queue in an array whose cell 0 is    *)
(* not used. m_IsLess is the order of the numbers.                         *)
(***************************************************************************)
EXTENDS Naturals, Sequences, FiniteSets

CONSTANTS Numbers, None,
          MaxSize          \* m_MaxSize

VARIABLES heap,            \* m_Heap, without cell 0
          size             \* m_CurrentSize

vars == <<heap, size>>
Cells == 1..MaxSize

Init ==
  /\ heap = [i \in Cells |-> 0]
  /\ size = 0

\* The larger child of i among the first n cells, as ci or ci + 1.
LargerChild(h, n, i) == IF 2 * i < n /\ h[2 * i] < h[2 * i + 1] THEN 2 * i + 1 ELSE 2 * i

\* x sinks from the cell root of h, which has n cells, and children move up.
SiftDown(h, n, root, x) ==
  LET sink[i \in Cells] ==
        LET c == LargerChild(h, n, i)
        IN IF 2 * i > n \/ x >= h[c] THEN [h EXCEPT ![i] = x] ELSE [sink[c] EXCEPT ![i] = h[c]]
  IN sink[root]

\* x rises from the cell n of h, and parents move down.
SiftUp(h, n, x) ==
  LET rise[i \in Cells] ==
        IF i = 1 \/ h[i \div 2] >= x THEN [h EXCEPT ![i] = x] ELSE [rise[i \div 2] EXCEPT ![i] = h[i \div 2]]
  IN rise[n]

Push(x) ==
  /\ size < MaxSize
  /\ size' = size + 1
  /\ heap' = SiftUp(heap, size + 1, x)

Pop ==
  /\ size > 0
  /\ size' = size - 1
  /\ heap' = SiftDown(heap, size - 1, 1, heap[size])

\* The values are copied, and the inner cells sink one after the other, the last one first.
Build(vals) ==
  LET n == Len(vals)
      copied == [i \in Cells |-> IF i <= n THEN vals[i] ELSE heap[i]]
      after[i \in 1..(n \div 2 + 1)] ==
        IF i = n \div 2 + 1 THEN copied
        ELSE LET below == after[i + 1] IN SiftDown(below, n, i, below[i])
  IN /\ size' = n
     /\ heap' = after[1]

Next ==
  \/ \E x \in Numbers : Push(x)
  \/ Pop
  \/ \E n \in 0..MaxSize : \E vals \in [1..n -> Numbers] : Build(vals)

Spec == Init /\ [][Next]_vars

--------------------------------------------------------------------------------
Promise == INSTANCE PriorityQueue
  WITH Capacity <- MaxSize,
       bag <- [n \in Numbers |-> Cardinality({i \in 1..size : heap[i] = n})],
       top <- IF size = 0 THEN None ELSE heap[1]

\* A step that is a call of the heap is the same call, with the same number or numbers, of
\* the queue: that it is some call of the queue would not say that no number gets lost.
CallsAsPromised ==
  /\ \A x \in Numbers : Push(x) => Promise!Push(x)
  /\ Pop => Promise!Pop
  /\ \A vals \in [1..size' -> Numbers] : Build(vals) => Promise!Build(vals)

================================================================================
