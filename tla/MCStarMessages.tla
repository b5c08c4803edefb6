--------------------------- MODULE MCStarMessages ---------------------------
(* What travels through the star: a behaviour sends either a transmit or   *)
(* commands, and connections close at the client's end first.  A transmit  *)
(* meets three connections and failures of one connection at a time;       *)
(* commands meet two connections and restarts of either side, and wait     *)
(* until the names have been told.                                         *)
EXTENDS StarProperties, TLC

VARIABLE sends

MCNameOf == [p \in Clients |-> p]

(* A process that ends takes its directory or all its sockets with it. *)
Restarts ==
    \/ \E p \in Clients : session'[p] = NoConn /\ nameHandles'[p] # nameHandles[p]
    \/ \E c, d \in Conns : c # d /\ {centerEnd'[c], centerEnd'[d]} = {"closed"}
                             /\ "closed" \notin {centerEnd[c], centerEnd[d]}

NamesSettled ==
    \A c \in Conns :
        /\ \A i \in DOMAIN up[c] : up[c][i].class # "MyName"
        /\ \A i \in DOMAIN down[c] : down[c][i].class = "Command"

MCInit == Init /\ sends \in {"transmit", "commands"}
MCNext ==
    /\ Next
    /\ \/ sends = "transmit" /\ asked' = <<>> /\ ~Restarts
       \/ sends = "commands" /\ sent' = <<>> /\ nConn' <= 2 /\ (asked' # asked => NamesSettled)
    /\ \A c \in sessions \ sessions' : clientEnd[c] = "closed" \/ sessions' = {}
    /\ UNCHANGED sends
MCSpec == MCInit /\ [][MCNext]_<<sends, vars>>

Symmetry == Permutations(Clients) \cup Permutations(Handles)
=============================================================================
