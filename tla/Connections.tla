---------------------------- MODULE Connections -----------------------------
(***************************************************************************)
(* The TCP connections between the center and its clients (external: the   *)
(* kernel, and libevent's bufferevents as TcpSession uses them).           *)
(*                                                                         *)
(* Connections are numbered in the order in which they are established,    *)
(* which is the order in which the listener hands them to the center.  The *)
(* two ends of a connection open and close independently: an end that is   *)
(* closed tells the other end nothing until that end notices.  What is     *)
(* written to an end whose peer has closed is lost, and what is still in   *)
(* flight may be lost because the reader can notice the failure at any     *)
(* time.  In between, each direction is a FIFO.                            *)
(***************************************************************************)
EXTENDS SessionInfo, Sequences, FiniteSets

CONSTANTS
    Clients,    \* the processes that connect to the center
    NoClient,   \* the owner of a connection that does not exist yet
    MaxConn,    \* bound: connections made in a behaviour
    Faults      \* bound: the kinds of failures that happen, see AllFaults

ASSUME ClientsAssumption == NoClient \notin Clients
ASSUME MaxConnAssumption == MaxConn \in Nat

(* "throw": Connect throws.  "center": the center is restarted.  "client": *)
(* a client is restarted.  "network": the center sees an error on a        *)
(* connection whose client is alive.  That an attempt to connect fails,    *)
(* that a client disconnects or sees an error first, is always possible.   *)
AllFaults == {"throw", "center", "client", "network"}

ASSUME FaultsAssumption == Faults \subseteq AllFaults

Conns == 1..MaxConn
NoConn == 0

VARIABLES
    nConn,      \* the number of connections made so far
    owner,      \* [Conns -> Clients \cup {NoClient}], who connected
    clientEnd,  \* [Conns -> EndState]
    centerEnd,  \* [Conns -> EndState], "backlog": not accepted yet
    up,         \* [Conns -> Seq(UpMessage)], from the client to the center
    down        \* [Conns -> Seq(DownMessage)], from the center to the client

connVars == <<nConn, owner, clientEnd, centerEnd, up, down>>

EndState == {"none", "backlog", "open", "closed"}

ConnInit ==
    /\ nConn = 0
    /\ owner = [c \in Conns |-> NoClient]
    /\ clientEnd = [c \in Conns |-> "none"]
    /\ centerEnd = [c \in Conns |-> "none"]
    /\ up = [c \in Conns |-> <<>>]
    /\ down = [c \in Conns |-> <<>>]

(* What the client writes is lost when the center's end is closed. *)
AfterSendUp(c, msgs) ==
    IF centerEnd[c] = "closed" THEN up ELSE [up EXCEPT ![c] = @ \o msgs]

(* The center writes out[c] to connection c, for all connections at once. *)
AfterSendDown(out) ==
    [c \in Conns |-> IF clientEnd[c] = "closed" THEN down[c] ELSE down[c] \o out[c]]

(* Both ends are up. *)
Whole(c) == clientEnd[c] = "open" /\ centerEnd[c] \in {"backlog", "open"}

ConnTypeOK ==
    /\ nConn \in 0..MaxConn
    /\ owner \in [Conns -> Clients \cup {NoClient}]
    /\ clientEnd \in [Conns -> EndState]
    /\ centerEnd \in [Conns -> EndState]
    /\ up \in [Conns -> Seq(UpMessage)]
    /\ down \in [Conns -> Seq(DownMessage)]
=============================================================================
