--------------------------- MODULE MCLinkQueuePushers --------------------------
\* Several threads that push, each as often as the others.
EXTENDS LinkQueue, TLC

Symmetry == Permutations(Pushers) \cup Permutations(Poppers) \cup Permutations(Nodes)
================================================================================
