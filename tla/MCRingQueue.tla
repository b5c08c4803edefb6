----------------------------- MODULE MCRingQueue -----------------------------
\* Instances of RingQueue: MCRingQueue*.cfg give the threads, the size and the bounds.
EXTENDS RingQueue, TLC

Symmetry == Permutations(Pushers) \cup Permutations(Poppers)
================================================================================
