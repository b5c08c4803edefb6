---------------------------- MODULE PriorityQueue ----------------------------
(***************************************************************************)
(* What the calls of HeapT promise: they keep a bag of at most Capacity    *)
(* numbers whose largest one can be read and removed.                      *)
(***************************************************************************)
EXTENDS Integers, FiniteSets, Sequences

CONSTANTS Numbers, None, Capacity

VARIABLES bag,  \* how often each number is in the queue
          top   \* the largest number, or None

LOCAL INSTANCE FiniteSetsExt

Empty == [n \in Numbers |-> 0]
Total(b) == MapThenSumSet(LAMBDA n : b[n], Numbers)
LargestOf(b) == IF b = Empty THEN None ELSE Max({n \in Numbers : b[n] > 0})

Init == bag = Empty /\ top = None

Becomes(b) == bag' = b /\ top' = LargestOf(b)
Push(n) == Total(bag) < Capacity /\ Becomes([bag EXCEPT ![n] = @ + 1])
Pop == bag # Empty /\ Becomes([bag EXCEPT ![LargestOf(bag)] = @ - 1])
\* What was in the queue is replaced by the given numbers.
Build(vals) ==
  /\ Len(vals) <= Capacity
  /\ Becomes([n \in Numbers |-> Cardinality({i \in DOMAIN vals : vals[i] = n})])

Next ==
  \/ \E n \in Numbers : Push(n)
  \/ Pop
  \/ \E k \in 0..Capacity : \E vals \in [1..k -> Numbers] : Build(vals)

Spec == Init /\ [][Next]_<<bag, top>>
================================================================================
