---------------------------- MODULE CenterClient ----------------------------
(***************************************************************************)
(* A process that uses CenterClientLibrary (main.cpp and                   *)
(* Communication/SessionManager.cpp): it keeps one session to the center,  *)
(* its own handle, a directory of the names it has heard of, and offers    *)
(* the Send functions.  The application calls Tick and the API from one    *)
(* thread, so each callback and each call is one step.                     *)
(***************************************************************************)
EXTENDS Connections

CONSTANTS
    NameOf,         \* [Clients -> Names], the name each client is configured with
    MaxNames,       \* capacity of m_NameHandles
    MaxTransmits,   \* bound: transmits sent in a behaviour
    MaxCommands     \* bound: commands sent in a behaviour

ASSUME ClientAssumption ==
    /\ NameOf \in [Clients -> Names]
    /\ MaxNames \in Nat
    /\ MaxTransmits \in Nat
    /\ MaxCommands \in Nat

VARIABLES
    session,        \* [Clients -> Conns \cup {NoConn}], m_Session
    connector,      \* [Clients -> ConnectorState], see below
    myHandle,       \* [Clients -> HandleOrNone], m_MyselfInfo.m_Handle
    nameHandles,    \* [Clients -> [Names -> HandleOrNone]], m_NameHandles
    sequence,       \* [Clients -> Nat], m_SessionSequence
    sent,           \* the transmits sent so far; for the bound and the properties
    asked,          \* the commands sent so far, likewise
    delivered,      \* what HandleMessage was called with, in order
    answered        \* what HandleMessageResult was called with, in order

clientVars == <<session, connector, myHandle, nameHandles, sequence>>
historyVars == <<sent, asked, delivered, answered>>

(* "idle": g_ConnectFinish is TRUE.  "pending": it is FALSE and libevent   *)
(* will call OnConnectFinish.  "thrown": it is FALSE and no call will      *)
(* come.                                                                   *)
ConnectorState == {"idle", "pending", "thrown"}

(* Mutant: OnConnectFinish does not set g_ConnectFinish. *)
FinishForgotten == "stuck"

(* The end of OnConnectFinish. *)
Finished == "idle"

EmptyDirectory == [n \in Names |-> NoHandle]

ClientInit ==
    /\ session = [p \in Clients |-> NoConn]
    /\ connector = [p \in Clients |-> "idle"]
    /\ myHandle = [p \in Clients |-> NoHandle]
    /\ nameHandles = [p \in Clients |-> EmptyDirectory]
    /\ sequence = [p \in Clients |-> 1]
    /\ sent = <<>>
    /\ asked = <<>>
    /\ delivered = <<>>
    /\ answered = <<>>

-----------------------------------------------------------------------------
(* m_NameHandles after `name -> handle' was put in: an entry that is there *)
(* is updated, a new one is refused when the table is full.                *)
Put(dir, n, h) ==
    IF dir[n] # NoHandle \/ Cardinality({m \in Names : dir[m] # NoHandle}) < MaxNames
      THEN [dir EXCEPT ![n] = h]
      ELSE dir

(* Mutant: m_MyselfInfo.m_Handle is not reset. *)
SetSessionNullKeepsHandle(p) ==
    /\ clientEnd' = [clientEnd EXCEPT ![session[p]] = "closed"]
    /\ down' = [down EXCEPT ![session[p]] = <<>>]
    /\ session' = [session EXCEPT ![p] = NoConn]
    /\ sequence' = [sequence EXCEPT ![p] = 1]
    /\ UNCHANGED <<nConn, owner, centerEnd, up, myHandle>>

(* SetSession(NULL) on a client that has a session: the bufferevent goes   *)
(* with the session.  The directory stays as it is.                        *)
SetSessionNull(p) ==
    /\ clientEnd' = [clientEnd EXCEPT ![session[p]] = "closed"]
    /\ down' = [down EXCEPT ![session[p]] = <<>>]
    /\ session' = [session EXCEPT ![p] = NoConn]
    /\ myHandle' = [myHandle EXCEPT ![p] = NoHandle]
    /\ sequence' = [sequence EXCEPT ![p] = 1]
    /\ UNCHANGED <<nConn, owner, centerEnd, up>>

-----------------------------------------------------------------------------
(* Tick without a session: Connect is started.  Connector::Connect throws  *)
(* when the address cannot be parsed, no bufferevent can be made or        *)
(* connect(2) fails at once; the handler for std::exception leaves         *)
(* g_ConnectFinish FALSE.                                                  *)
TickConnect(p) ==
    /\ session[p] = NoConn
    /\ connector[p] = "idle"
    /\ connector' = [connector EXCEPT ![p] = "pending"]
    /\ UNCHANGED <<session, myHandle, nameHandles, sequence>>
    /\ UNCHANGED connVars
    /\ UNCHANGED historyVars

TickConnectThrows(p) ==
    /\ "throw" \in Faults
    /\ session[p] = NoConn
    /\ connector[p] = "idle"
    /\ connector' = [connector EXCEPT ![p] = "thrown"]
    /\ UNCHANGED <<session, myHandle, nameHandles, sequence>>
    /\ UNCHANGED connVars
    /\ UNCHANGED historyVars

(* OnConnectFinish with a session: SetSession registers it and sends the   *)
(* name.                                                                   *)
OnConnected(p) ==
    /\ connector[p] = "pending"
    /\ nConn < MaxConn
    /\ LET c == nConn + 1
       IN  /\ nConn' = c
           /\ owner' = [owner EXCEPT ![c] = p]
           /\ clientEnd' = [clientEnd EXCEPT ![c] = "open"]
           /\ centerEnd' = [centerEnd EXCEPT ![c] = "backlog"]
           /\ up' = [up EXCEPT ![c] = <<MyName(NameOf[p])>>]
           /\ session' = [session EXCEPT ![p] = c]
    /\ myHandle' = [myHandle EXCEPT ![p] = NoHandle]
    /\ sequence' = [sequence EXCEPT ![p] = 1]
    /\ connector' = [connector EXCEPT ![p] = Finished]
    /\ UNCHANGED <<down, nameHandles>>
    /\ UNCHANGED historyVars

(* OnConnectFinish without a session. *)
OnConnectFailed(p) ==
    /\ connector[p] = "pending"
    /\ connector' = [connector EXCEPT ![p] = Finished]
    /\ UNCHANGED <<session, myHandle, nameHandles, sequence>>
    /\ UNCHANGED connVars
    /\ UNCHANGED historyVars

(* OnSessionError after the center has closed its end; what was in flight  *)
(* is lost.                                                                *)
OnClientSessionError(p) ==
    /\ session[p] # NoConn
    /\ centerEnd[session[p]] = "closed"
    /\ SetSessionNull(p)
    /\ UNCHANGED <<connector, nameHandles>>
    /\ UNCHANGED historyVars

(* Disconnect(), and equally a failure of the network that the client      *)
(* notices first.                                                          *)
Disconnect(p) ==
    /\ session[p] # NoConn
    /\ SetSessionNull(p)
    /\ UNCHANGED <<connector, nameHandles>>
    /\ UNCHANGED historyVars

(* The process ends and is started again (Init). *)
ClientRestart(p) ==
    /\ "client" \in Faults
    /\ session[p] # NoConn \/ connector[p] = "thrown"
    /\ clientEnd' = [c \in Conns |-> IF c = session[p] THEN "closed" ELSE clientEnd[c]]
    /\ down' = [c \in Conns |-> IF c = session[p] THEN <<>> ELSE down[c]]
    /\ session' = [session EXCEPT ![p] = NoConn]
    /\ connector' = [connector EXCEPT ![p] = "idle"]
    /\ myHandle' = [myHandle EXCEPT ![p] = NoHandle]
    /\ nameHandles' = [nameHandles EXCEPT ![p] = EmptyDirectory]
    /\ sequence' = [sequence EXCEPT ![p] = 1]
    /\ UNCHANGED <<nConn, owner, centerEnd, up>>
    /\ UNCHANGED historyVars

-----------------------------------------------------------------------------
(* OnSessionReceive: the first message of the session, of the given class. *)
Hears(p, class) ==
    /\ session[p] # NoConn
    /\ down[session[p]] # <<>>
    /\ Head(down[session[p]]).class = class

Heard(p) == Head(down[session[p]])

(* The message is read and reply is sent on the same session. *)
Consume(p, reply) ==
    /\ down' = [down EXCEPT ![session[p]] = Tail(@)]
    /\ up' = AfterSendUp(session[p], reply)
    /\ UNCHANGED <<nConn, owner, clientEnd, centerEnd>>

HandleMyHandle(p) ==
    /\ Hears(p, "MyHandle")
    /\ myHandle' = [myHandle EXCEPT ![p] = Heard(p).handle]
    /\ nameHandles' = [nameHandles EXCEPT ![p] = Put(@, NameOf[p], Heard(p).handle)]
    /\ Consume(p, <<>>)
    /\ UNCHANGED <<session, connector, sequence>>
    /\ UNCHANGED historyVars

HandleAddNameHandle(p) ==
    /\ Hears(p, "AddNameHandle")
    /\ nameHandles' = [nameHandles EXCEPT ![p] = Put(@, Heard(p).name, Heard(p).handle)]
    /\ Consume(p, <<>>)
    /\ UNCHANGED <<session, connector, myHandle, sequence>>
    /\ UNCHANGED historyVars

(* The entry of the name goes, whatever handle it holds. *)
Forget(dir, n) == [m \in Names |-> IF m = n THEN NoHandle ELSE dir[m]]

HandleRemoveNameHandle(p) ==
    /\ Hears(p, "RemoveNameHandle")
    /\ nameHandles' = [nameHandles EXCEPT ![p] = Forget(@, Heard(p).name)]
    /\ Consume(p, <<>>)
    /\ UNCHANGED <<session, connector, myHandle, sequence>>
    /\ UNCHANGED historyVars

(* MessageClearNameHandleList is one byte long: OnSessionReceive takes     *)
(* only messages of more than one byte, so it has no effect.               *)
IgnoreClearNameHandleList(p) ==
    /\ Hears(p, "ClearNameHandleList")
    /\ Consume(p, <<>>)
    /\ UNCHANGED clientVars
    /\ UNCHANGED historyVars

(* HandleTransmit of the client: answer, then tell the application. *)
HandleDelivery(p) ==
    /\ Hears(p, "Transmit")
    /\ LET m == Heard(p)
       IN  /\ Consume(p, <<TransmitResult(m.seq, m.dest, m.src, TRUE, m.id)>>)
           /\ delivered' = Append(delivered, [id |-> m.id, conn |-> session[p]])
    /\ UNCHANGED clientVars
    /\ UNCHANGED <<sent, asked, answered>>

(* HandleTransmitResult of the client: tell the application. *)
HandleResult(p) ==
    /\ Hears(p, "TransmitResult")
    /\ answered' = Append(answered, [id |-> Heard(p).of, conn |-> session[p], ok |-> Heard(p).ok])
    /\ Consume(p, <<>>)
    /\ UNCHANGED clientVars
    /\ UNCHANGED <<sent, asked, delivered>>

(* HandleCommand of the client: tell the application. *)
HandleClientCommand(p) ==
    /\ Hears(p, "Command")
    /\ Consume(p, <<>>)
    /\ UNCHANGED clientVars
    /\ UNCHANGED historyVars

-----------------------------------------------------------------------------
(* SendByHandle; n is the name SendByName was called with, if it was. *)
SendTransmit(p, dest, n) ==
    /\ Len(sent) < MaxTransmits
    /\ session[p] # NoConn
    /\ TransmitIsValid(myHandle[p], dest)
    /\ LET id == Len(sent) + 1
       IN  /\ up' = AfterSendUp(session[p], <<Transmit(sequence[p], myHandle[p], dest, id)>>)
           /\ sent' = Append(sent, [conn |-> session[p], seq |-> sequence[p],
                                    dest |-> dest, name |-> n])
    /\ sequence' = [sequence EXCEPT ![p] = @ + 1]
    /\ UNCHANGED <<nConn, owner, clientEnd, centerEnd, down>>
    /\ UNCHANGED <<session, connector, myHandle, nameHandles>>
    /\ UNCHANGED <<asked, delivered, answered>>

SendByHandle(p, dest) == SendTransmit(p, dest, NoName)

(* SendByName: TargetHandle is 0 for a name that is not in the directory. *)
SendByName(p, n) == SendTransmit(p, nameHandles[p][n], n)

(* SendCommandByHandle and SendCommandByName: nothing is validated, so a   *)
(* name that is not in the directory reaches the center's script thread.   *)
SendCommandByHandle(p, dest) ==
    /\ Len(asked) < MaxCommands
    /\ session[p] # NoConn
    /\ up' = AfterSendUp(session[p], <<Command(myHandle[p], dest, Len(asked) + 1)>>)
    /\ asked' = Append(asked, [conn |-> session[p], src |-> myHandle[p], dest |-> dest])
    /\ UNCHANGED <<nConn, owner, clientEnd, centerEnd, down>>
    /\ UNCHANGED clientVars
    /\ UNCHANGED <<sent, delivered, answered>>

SendCommandByName(p, n) == SendCommandByHandle(p, nameHandles[p][n])

-----------------------------------------------------------------------------
Receive(p) ==
    \/ HandleMyHandle(p)
    \/ HandleAddNameHandle(p)
    \/ HandleRemoveNameHandle(p)
    \/ IgnoreClearNameHandleList(p)
    \/ HandleDelivery(p)
    \/ HandleResult(p)
    \/ HandleClientCommand(p)

ClientNext ==
    \E p \in Clients :
        \/ TickConnect(p)
        \/ TickConnectThrows(p)
        \/ OnConnected(p)
        \/ OnConnectFailed(p)
        \/ OnClientSessionError(p)
        \/ Disconnect(p)
        \/ ClientRestart(p)
        \/ Receive(p)
        \/ \E h \in HandleOrNone : SendByHandle(p, h) \/ SendCommandByHandle(p, h)
        \/ \E n \in Names : SendByName(p, n) \/ SendCommandByName(p, n)

SentType == [conn : Conns, seq : Nat, dest : Handles, name : NameOrNone]
AskedType == [conn : Conns, src : HandleOrNone, dest : HandleOrNone]

ClientTypeOK ==
    /\ session \in [Clients -> Conns \cup {NoConn}]
    /\ connector \in [Clients -> ConnectorState]
    /\ myHandle \in [Clients -> HandleOrNone]
    /\ nameHandles \in [Clients -> [Names -> HandleOrNone]]
    /\ sequence \in [Clients -> Nat]
    /\ sent \in Seq(SentType)
    /\ asked \in Seq(AskedType)
    /\ delivered \in Seq([id : Nat, conn : Conns])
    /\ answered \in Seq([id : Nat, conn : Conns, ok : BOOLEAN])
=============================================================================
