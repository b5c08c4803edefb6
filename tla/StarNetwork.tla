---------------------------- MODULE StarNetwork -----------------------------
(***************************************************************************)
(* The star: one ServerCenter and the clients connected to it.  Steps of   *)
(* the center and of the clients interleave; the connections between them  *)
(* are shared.                                                             *)
(***************************************************************************)
EXTENDS ServerCenter, CenterClient

(* Names whose announcements were last undone by the removal of an older   *)
(* session with the same name; for the properties.                         *)
VARIABLE erased

vars == <<nConn, owner, clientEnd, centerEnd, up, down, sessions, fd, value,
          curSrc, lines, results, lastLine, session, connector, myHandle,
          nameHandles, sequence, sent, asked, delivered, answered, erased>>

Init ==
    /\ ConnInit
    /\ CenterInit
    /\ ClientInit
    /\ erased = {}

ErasedNames ==
    {value[c] : c \in {d \in sessions \ sessions' :
                          \E e \in sessions' : value[e] = value[d]}}
AnnouncedNames == {value'[c] : c \in {d \in Conns : value'[d] # value[d]}}

CenterStep ==
    /\ CenterNext
    /\ erased' = (erased \cup ErasedNames) \ AnnouncedNames
    /\ UNCHANGED clientVars
    /\ UNCHANGED historyVars

SyncStep ==
    /\ Tick(TRUE)
    /\ erased' = {}
    /\ UNCHANGED clientVars
    /\ UNCHANGED historyVars

ClientStep ==
    /\ ClientNext
    /\ UNCHANGED centerVars
    /\ UNCHANGED erased

Next == CenterStep \/ SyncStep \/ ClientStep

Spec == Init /\ [][Next]_vars

-----------------------------------------------------------------------------
(* Fairness.  The center's loop polls all sockets and ticks for ever; a    *)
(* client calls Tick for ever.  A connection whose client is gone is       *)
(* noticed by the center, which writes to every session once a minute, and *)
(* a connection whose center is gone is noticed by the client.  That a     *)
(* center is reachable again and again is assumed of the network.          *)

CenterHandles(c) ==
    \/ \E h \in Handles : AddSession(c, h)
    \/ HandleMyName(c)
    \/ HandleTransmit(c)
    \/ HandleTransmitResult(c)
    \/ HandleCommand(c)
    \/ clientEnd[c] = "closed" /\ OnSessionError(c)

CenterFairness ==
    /\ \A c \in Conns : WF_vars(CenterHandles(c) /\ CenterStep)
    /\ WF_vars(SyncStep)

ClientFairness ==
    \A p \in Clients :
        /\ WF_vars((Receive(p) \/ OnClientSessionError(p)) /\ ClientStep)
        /\ WF_vars((TickConnect(p) \/ TickConnectThrows(p)) /\ ClientStep)
        /\ SF_vars(OnConnected(p) /\ ClientStep)

FairSpec == Spec /\ CenterFairness /\ ClientFairness

-----------------------------------------------------------------------------
(* Every variable has its type. *)
TypeOK == ConnTypeOK /\ CenterTypeOK /\ ClientTypeOK /\ erased \subseteq NameOrNone

(* A handle names at most one open socket of the center, and m_Sessions    *)
(* holds open ones only: AddSession never takes an entry over and the      *)
(* sweep in Tick never finds anything.                                     *)
HandlesUnique ==
    /\ \A c \in sessions : centerEnd[c] = "open"
    /\ \A c, d \in Conns :
          centerEnd[c] = "open" /\ centerEnd[d] = "open" /\ fd[c] = fd[d] => c = d

(* The handle a client puts into its transmits as the source is the one    *)
(* the center has for the client's present session, never one of an        *)
(* earlier session (SetSession resets it, and messages of an old session   *)
(* cannot arrive on a new one).                                            *)
OwnHandle ==
    \A p \in Clients :
        myHandle[p] # NoHandle =>
            /\ session[p] # NoConn
            /\ centerEnd[session[p]] # "backlog"
            /\ myHandle[p] = fd[session[p]]
=============================================================================
