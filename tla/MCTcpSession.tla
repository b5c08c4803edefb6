---------------------------- MODULE MCTcpSession ----------------------------
(* Two sessions on one event loop, two buffered frames each. *)
EXTENDS TcpSession

CONSTANTS s1, s2
=============================================================================
