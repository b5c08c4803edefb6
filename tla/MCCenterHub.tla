----------------------------- MODULE MCCenterHub -----------------------------
(* Two worlds. From one configuration to the next the center of the first   *)
(* changes its place, its name or both, and the second may be missing.      *)
EXTENDS CenterHub

MCConfigs ==
    {<<[world |-> "w1", address |-> a, name |-> n], [world |-> "w2", address |-> "a1", name |-> e]>> :
        <<a, n, e>> \in {<<"a1", "n1", "n1">>, <<"a2", "n2", "n1">>, <<"a2", "n1", Missing>>}}
=============================================================================
