--------------------------- MODULE MCStarNetwork ----------------------------
(* Small stars in which every server is registered under a name of its     *)
(* own, the process itself standing for the name.  Nothing distinguishes   *)
(* the servers, or the descriptors, from one another.                      *)
EXTENDS StarProperties

MCNameOf == [p \in Clients |-> p]
=============================================================================
