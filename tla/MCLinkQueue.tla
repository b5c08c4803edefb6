------------------------------ MODULE MCLinkQueue ------------------------------
(***************************************************************************)
(* The list where it is a queue: one thread pushes, up to MaxPush times,   *)
(* while nodes come back from the pool, or all of Pushers push once each,  *)
(* into nodes that are new or have been in a push that gave up.            *)
(***************************************************************************)
EXTENDS LinkQueue, TLC

VARIABLE pushing  \* the threads that push in this behaviour

Often == IF Cardinality(pushing) = 1 THEN MaxPush ELSE 1

MCInit == Init /\ pushing \in {Pushers} \cup {{p} : p \in Pushers}
MCNext ==
  /\ Next
  /\ \A p \in Pushers : pc'[p] # "idle" => p \in pushing /\ sent[p] < Often
  /\ UNCHANGED pushing
MCSpec == MCInit /\ [][MCNext]_<<pushing, vars>>

Symmetry == Permutations(Pushers) \cup Permutations(Poppers) \cup Permutations(Nodes)
================================================================================
