--------------------------- MODULE StarProperties ---------------------------
(***************************************************************************)
(* What the star is for: directories that follow the center's table, and   *)
(* transmits, commands and their answers that reach whom they are for.     *)
(***************************************************************************)
EXTENDS StarNetwork

(* What message m tells the directory of p about the name n: the handle of *)
(* n, or that it has none.                                                 *)
Mentions(p, m, n) ==
    \/ m.class = "MyHandle" /\ NameOf[p] = n
    \/ m.class \in {"AddNameHandle", "RemoveNameHandle"} /\ m.name = n

Says(m) == IF m.class = "RemoveNameHandle" THEN NoHandle ELSE m.handle

(* The last of the messages msgs that tells p about n says h. *)
LastSays(p, msgs, n, h) ==
    \E i \in DOMAIN msgs :
        /\ Mentions(p, msgs[i], n) /\ Says(msgs[i]) = h
        /\ \A j \in DOMAIN msgs : Mentions(p, msgs[j], n) => j <= i

Silent(p, msgs, n) == \A i \in DOMAIN msgs : ~Mentions(p, msgs[i], n)

(* When the messages on their way to p have been handled its directory     *)
(* gives the handle h for n: the last of them that mentions n says so, or  *)
(* none does and it is there already.                                      *)
WillResolve(p, n, h) ==
    \/ LastSays(p, down[session[p]], n, h)
    \/ Silent(p, down[session[p]], n) /\ nameHandles[p][n] = h

(* No entry is ever refused by a directory. *)
NamesFit == IsFiniteSet(Names) /\ Cardinality(Names) <= MaxNames

(* A client that has told its name can resolve every other one: once the   *)
(* messages under way are handled its directory has the right handle for   *)
(* the name of every session, unless two sessions have the name or the     *)
(* removal of an older session has wiped it out since the last sync        *)
(* (HandleRemoveNameHandle does not compare handles).                      *)
DirectoryTracksCenter ==
    NamesFit =>
        \A p \in Clients : \A d \in sessions :
            /\ session[p] \in sessions
            /\ value[session[p]] # NoName
            /\ value[d] # NoName
            /\ \A e \in sessions : value[e] = value[d] => e = d
            /\ value[d] \notin erased
            => WillResolve(p, value[d], fd[d])

(* In the end, when no more connections are made, every connected client   *)
(* resolves every name the center knows to the newest session of that      *)
(* name.  The list sent once a minute is what repairs a directory that     *)
(* lost a name.                                                            *)
Converged ==
    \A p \in Clients : \A d \in sessions :
        session[p] \in sessions /\ value[d] # NoName
        /\ (\A e \in sessions : value[e] = value[d] => e <= d)
        => nameHandles[p][value[d]] = fd[d]
DirectoryConverges == <>[]Converged

(* A client without a session gets one again, unless Connect has thrown:   *)
(* g_ConnectFinish is then never set again.  (Or the bound on the number   *)
(* of connections is reached.)                                             *)
ReconnectsUnlessThrown ==
    \A p \in Clients :
        session[p] = NoConn ~>
            session[p] # NoConn \/ connector[p] = "thrown" \/ nConn = MaxConn

-----------------------------------------------------------------------------
(* A descriptor that the center has had for two connections. *)
Reused(h) == \E c, d \in Conns : c # d /\ fd[c] = h /\ fd[d] = h

(* Where messages that satisfy P are in the channels chan. *)
Positions(chan, P(_)) ==
    UNION {{<<c, i>> : i \in {j \in DOMAIN chan[c] : P(chan[c][j])}} : c \in Conns}

InFlight(id) ==
    LET isIt(m) == m.class = "Transmit" /\ m.id = id
    IN  Cardinality(Positions(up, isIt)) + Cardinality(Positions(down, isIt))
Refusals(id) ==
    LET isIt(m) == m.class = "TransmitResult" /\ m.of = id /\ ~m.ok
    IN  Cardinality(Positions(down, isIt))
           + Cardinality({i \in DOMAIN answered : answered[i].id = id /\ ~answered[i].ok})
Deliveries(id) == Cardinality({i \in DOMAIN delivered : delivered[i].id = id})

(* However sessions fail and descriptors are reused, the application data  *)
(* of one send is delivered at most once, and never both delivered and     *)
(* reported as failed.                                                     *)
AtMostOnce ==
    \A id \in DOMAIN sent : InFlight(id) + Refusals(id) + Deliveries(id) <= 1

(* A success that is reported is the success of a transmit that was        *)
(* delivered, and it is reported to the session that sent it unless the    *)
(* center has given that session's descriptor out twice.                   *)
AcksAreTruthful ==
    \A i \in DOMAIN answered :
        LET a == answered[i]
        IN  a.ok => /\ Deliveries(a.id) = 1
                    /\ sent[a.id].conn = a.conn \/ Reused(fd[a.conn])

(* A transmit sent by name is delivered to the server of that name, unless *)
(* the center has given the descriptor the name stood for to another       *)
(* connection since.                                                       *)
NamedDelivery ==
    \A i \in DOMAIN delivered :
        LET a == delivered[i]
            n == sent[a.id].name
        IN  n # NoName => NameOf[owner[a.conn]] = n \/ Reused(fd[a.conn])

(* A transmit is answered, with success or failure, as long as the         *)
(* connections of the sender and of the receiver last.                     *)
TransmitAnswered ==
    \A id \in 1..MaxTransmits :
        Len(sent) >= id ~>
            \/ \E i \in DOMAIN answered : answered[i].id = id
            \/ /\ id \in DOMAIN sent
               /\ \/ ~Whole(sent[id].conn)
                  \/ \E d \in Conns : fd[d] = sent[id].dest /\ ~Whole(d)

(* The result of the command that was sent last goes to the session that   *)
(* sent it (or to nobody, or to the new user of its descriptor).  Of       *)
(* earlier commands this is not so: m_CurSrc is one variable.              *)
ResultReachesAsker ==
    [][\A c \in Conns :
          /\ results # <<>>
          /\ results' = Tail(results)
          /\ lastLine = Head(results)
          /\ Len(down'[c]) > Len(down[c])
          /\ down'[c][Len(down'[c])].class = "Command"
          => asked[lastLine].conn = c \/ Reused(fd[c])]_vars
=============================================================================
