---------------------------- MODULE ServerCenter ----------------------------
(***************************************************************************)
(* ServerCenter: the hub of the star (ServerCenter/main.cpp and            *)
(* ServerCenter/Communication/SessionManager.cpp).  One thread polls the   *)
(* sockets and ticks, so each callback and each Tick is one step.          *)
(*                                                                         *)
(* m_Sessions is keyed by the file descriptor and iterated in the order of *)
(* insertion.  Here it is the set `sessions' of connections with the       *)
(* functions fd (SessionInfo::m_Handle) and value (SessionInfo::m_Value);  *)
(* insertion order is the order of the connection numbers.  fd keeps its   *)
(* value after the session is gone, so that it is also the history of the  *)
(* descriptors.                                                            *)
(***************************************************************************)
EXTENDS Connections

CONSTANTS
    MaxSessions,    \* capacity of m_Sessions
    MaxLines,       \* capacity of the script thread's two queues
    LowestFd,       \* the kernel gives out the lowest free descriptor (POSIX)
    MaxBacklog      \* bound: a sync starts when every channel holds fewer messages
                    \* (0: no sync is due in the time the behaviour takes)

ASSUME LowestFdAssumption == LowestFd \in BOOLEAN
ASSUME CapacityAssumption == MaxSessions \in Nat /\ MaxLines \in Nat /\ MaxBacklog \in Nat

VARIABLES
    sessions,   \* the connections in m_Sessions
    fd,         \* [Conns -> HandleOrNone]
    value,      \* [Conns -> NameOrNone]
    curSrc,     \* ScriptThread::m_CurSrc
    lines,      \* ScriptThread::m_Scripts: ids of the commands to run
    results,    \* ScriptThread::m_Results: ids of the commands that answered
    lastLine    \* id of the command pushed last (0: none); for the properties

scriptVars == <<curSrc, lines, results, lastLine>>
centerVars == <<sessions, fd, value, curSrc, lines, results, lastLine>>

CenterInit ==
    /\ sessions = {}
    /\ fd = [c \in Conns |-> NoHandle]
    /\ value = [c \in Conns |-> NoName]
    /\ curSrc = NoHandle
    /\ lines = <<>>
    /\ results = <<>>
    /\ lastLine = 0

-----------------------------------------------------------------------------
(* Descriptors of the center's open sockets: the kernel gives out others. *)
OpenFds == {fd[c] : c \in {d \in Conns : centerEnd[d] = "open"}}

FreshFd(h) ==
    /\ h \notin OpenFds
    /\ LowestFd => \A g \in Handles : g < h => g \in OpenFds

(* m_Sessions.Get(h): the connection registered under h. *)
SessionOf(h) ==
    IF \E c \in sessions : fd[c] = h
      THEN CHOOSE c \in sessions : fd[c] = h
      ELSE NoConn

(* TcpSession::Send by the center succeeds while the bufferevent exists. *)
CanSend(c) == c # NoConn /\ centerEnd[c] = "open"

(* The elements of S in insertion order (each finite set has one such      *)
(* sequence).                                                              *)
Ascending(S) ==
    {q \in [1..Cardinality(S) -> S] : \A i, j \in DOMAIN q : i < j => q[i] < q[j]}
InOrder(S) == IF Ascending(S) # {} THEN CHOOSE q \in Ascending(S) : TRUE ELSE <<>>

(* The AddNameHandle messages for the sessions of S that have a name. *)
NameHandleList(S) ==
    LET q == InOrder({c \in S : value[c] # NoName})
    IN  [i \in DOMAIN q |-> AddNameHandle(value[q[i]], fd[q[i]])]

Silence == [c \in Conns |-> <<>>]
To(c, msgs) == [Silence EXCEPT ![c] = msgs]

(* Mutant: each receiver is sent its own handle. *)
ToOthersOwnHandle(S, h, msg) ==
    [c \in Conns |-> IF c \in S /\ fd[c] # h THEN <<[msg EXCEPT !.handle = fd[c]]>> ELSE <<>>]

(* BroadcastAddNameHandle and BroadcastRemoveNameHandle: all registered    *)
(* sessions but those with handle h.                                       *)
ToOthers(S, h, msg) == [c \in Conns |-> IF c \in S /\ fd[c] # h THEN <<msg>> ELSE <<>>]

(* The center has read the first message of c and answers with out. *)
Answer(c, out) ==
    /\ up' = [up EXCEPT ![c] = Tail(@)]
    /\ down' = AfterSendDown(out)
    /\ UNCHANGED <<nConn, owner, clientEnd, centerEnd>>

(* The first message of connection c is of the given class. *)
Reads(c, class) ==
    /\ centerEnd[c] = "open"
    /\ up[c] # <<>>
    /\ Head(up[c]).class = class

-----------------------------------------------------------------------------
(* OnAccept and AddSession.  The listener hands over connections in order, *)
(* with a descriptor that is not in use.  m_Sessions.Add fails when the    *)
(* table is full: the session then lives on without being registered.  An  *)
(* entry that already has the descriptor would be taken over with its name.*)
AddSession(c, h) ==
    /\ centerEnd[c] = "backlog"
    /\ \A d \in Conns : centerEnd[d] = "backlog" => c <= d
    /\ FreshFd(h)
    /\ centerEnd' = [centerEnd EXCEPT ![c] = "open"]
    /\ fd' = [fd EXCEPT ![c] = h]
    /\ LET old == SessionOf(h)
       IN  IF old = NoConn
             THEN /\ sessions' = IF Cardinality(sessions) < MaxSessions
                                   THEN sessions \cup {c} ELSE sessions
                  /\ UNCHANGED value
             ELSE /\ sessions' = (sessions \ {old}) \cup {c}
                  /\ value' = [value EXCEPT ![c] = value[old]]
    /\ UNCHANGED <<nConn, owner, clientEnd, up, down>>
    /\ UNCHANGED scriptVars

(* Mutant: a new session is not sent the names that are there already. *)
WelcomeWithoutList(c) == <<MyHandle(fd[c])>>

Welcome(c) == <<MyHandle(fd[c])>> \o NameHandleList(sessions)

(* HandleMyName: the handle, the list of the names registered so far, then *)
(* the name is set and announced to the others.                            *)
HandleMyName(c) ==
    /\ Reads(c, "MyName")
    /\ LET n == Head(up[c]).name
       IN  IF c \in sessions
             THEN /\ value' = [value EXCEPT ![c] = n]
                  /\ Answer(c, [ToOthers(sessions, fd[c], AddNameHandle(n, fd[c]))
                                  EXCEPT ![c] = Welcome(c)])
             ELSE /\ UNCHANGED value
                  /\ Answer(c, Silence)
    /\ UNCHANGED <<sessions, fd>>
    /\ UNCHANGED scriptVars

(* Mutants: a refusal that says success; no refusal at all. *)
RefuseAsSuccess(c, m) ==
    To(c, <<TransmitResult(m.seq, NoHandle, m.src, TRUE, m.id)>>)
RefuseSilently(c, m) == Silence

(* The failure is reported to the session the transmit came from. *)
Refuse(c, m) == To(c, <<TransmitResult(m.seq, NoHandle, m.src, FALSE, m.id)>>)

(* Mutant: the flag that the transmit was forwarded is not set. *)
ForwardAndRefuse(c, m) ==
    LET d == SessionOf(m.dest)
    IN  IF CanSend(d) /\ d # c THEN [Refuse(c, m) EXCEPT ![d] = <<m>>] ELSE Refuse(c, m)

ForwardOrRefuse(c, m) ==
    LET d == SessionOf(m.dest)
    IN  IF CanSend(d) THEN To(d, <<m>>) ELSE Refuse(c, m)

(* HandleTransmit *)
HandleTransmit(c) ==
    /\ Reads(c, "Transmit")
    /\ Answer(c, ForwardOrRefuse(c, Head(up[c])))
    /\ UNCHANGED centerVars

(* HandleTransmitResult: forwarded, or dropped. *)
HandleTransmitResult(c) ==
    /\ Reads(c, "TransmitResult")
    /\ LET m == Head(up[c])
           d == SessionOf(m.dest)
       IN  Answer(c, IF CanSend(d) THEN To(d, <<m>>) ELSE Silence)
    /\ UNCHANGED centerVars

(* HandleCommand: destination 0 is the script thread.  PushLine fails when *)
(* the queue is full, after m_CurSrc was set.                              *)
HandleCommand(c) ==
    /\ Reads(c, "Command")
    /\ LET m == Head(up[c])
           d == SessionOf(m.dest)
       IN  IF m.dest = NoHandle
             THEN /\ curSrc' = m.src
                  /\ lines' = IF Len(lines) < MaxLines THEN Append(lines, m.of) ELSE lines
                  /\ lastLine' = m.of
                  /\ Answer(c, Silence)
                  /\ UNCHANGED results
             ELSE /\ Answer(c, IF CanSend(d) THEN To(d, <<m>>) ELSE Silence)
                  /\ UNCHANGED scriptVars
    /\ UNCHANGED <<sessions, fd, value>>

(* Mutant: the entry stays in the table. *)
WithoutNothing(h) == sessions

(* m_Sessions.Remove(h) *)
Without(h) == {d \in sessions : fd[d] # h}

(* OnSessionError, on an end of file or an error of the socket; whatever   *)
(* was not read yet is lost.                                               *)
OnSessionError(c) ==
    /\ centerEnd[c] = "open"
    /\ clientEnd[c] = "closed" \/ "network" \in Faults
    /\ centerEnd' = [centerEnd EXCEPT ![c] = "closed"]
    /\ up' = [up EXCEPT ![c] = <<>>]
    /\ down' = IF c \in sessions
                 THEN AfterSendDown(ToOthers(sessions, fd[c], RemoveNameHandle(value[c], fd[c])))
                 ELSE down
    /\ sessions' = Without(fd[c])
    /\ UNCHANGED <<nConn, owner, clientEnd, fd, value>>
    /\ UNCHANGED scriptVars

-----------------------------------------------------------------------------
(* Tick.  Once a minute (due) the sessions that have become invalid are    *)
(* swept out, which is announced, and everyone is sent the whole list      *)
(* (BroadcastNameHandleList).  Then one result of the script thread is     *)
(* sent to m_CurSrc.                                                       *)
InvalidSessions == {c \in sessions : centerEnd[c] # "open"}

(* Mutant: the list is only sent to sessions that have no name yet. *)
SyncOutToUnnamed(valid) ==
    [c \in Conns |-> IF c \in valid /\ value[c] = NoName
                       THEN <<ClearNameHandleList>> \o NameHandleList(valid) ELSE <<>>]

SyncOut(valid) ==
    LET gone == InOrder(sessions \ valid)
        removals == [i \in DOMAIN gone |-> RemoveNameHandle(value[gone[i]], fd[gone[i]])]
    IN  [c \in Conns |->
            IF c \in valid
              THEN removals \o <<ClearNameHandleList>> \o NameHandleList(valid)
              ELSE <<>>]

(* Mutant: the result is sent to the session that connected last. *)
ResultToLatest(valid) ==
    IF valid = {} THEN NoConn ELSE CHOOSE c \in valid : \A d \in valid : d <= c

(* Where a result of the script thread goes. *)
ResultTo(valid) ==
    IF SessionOf(curSrc) \in valid THEN SessionOf(curSrc) ELSE NoConn

ResultOut(valid) ==
    LET d == ResultTo(valid)
    IN  IF results # <<>> /\ CanSend(d)
          THEN To(d, <<Command(NoHandle, curSrc, Head(results))>>)
          ELSE Silence

SyncDue == sessions # {} /\ \A c \in sessions : Len(down[c]) < MaxBacklog

Tick(due) ==
    /\ IF due THEN SyncDue ELSE results # <<>>
    /\ LET valid == IF due THEN sessions \ InvalidSessions ELSE sessions
           sync == IF due THEN SyncOut(valid) ELSE Silence
       IN  /\ sessions' = valid
           /\ down' = AfterSendDown([c \in Conns |-> sync[c] \o ResultOut(valid)[c]])
    /\ results' = IF results # <<>> THEN Tail(results) ELSE results
    /\ UNCHANGED <<nConn, owner, clientEnd, centerEnd, up>>
    /\ UNCHANGED <<fd, value, curSrc, lines, lastLine>>

(* The script thread runs a line, which may call returnCommandToLogic. *)
ScriptRun ==
    /\ lines # <<>>
    /\ lines' = Tail(lines)
    /\ \/ results' = IF Len(results) < MaxLines THEN Append(results, Head(lines)) ELSE results
       \/ UNCHANGED results
    /\ UNCHANGED <<sessions, fd, value, curSrc, lastLine>>
    /\ UNCHANGED connVars

(* The process ends and is started again: all sockets close, the table and *)
(* the queues are new.                                                     *)
CenterRestart ==
    /\ "center" \in Faults
    /\ \E c \in Conns : centerEnd[c] \in {"backlog", "open"}
    /\ centerEnd' = [c \in Conns |->
                        IF centerEnd[c] \in {"backlog", "open"} THEN "closed" ELSE centerEnd[c]]
    /\ up' = [c \in Conns |-> <<>>]
    /\ sessions' = {}
    /\ curSrc' = NoHandle
    /\ lines' = <<>>
    /\ results' = <<>>
    /\ lastLine' = 0
    /\ UNCHANGED <<nConn, owner, clientEnd, down, fd, value>>

CenterNext ==
    \/ \E c \in Conns :
          \/ \E h \in Handles : AddSession(c, h)
          \/ HandleMyName(c)
          \/ HandleTransmit(c)
          \/ HandleTransmitResult(c)
          \/ HandleCommand(c)
          \/ OnSessionError(c)
    \/ Tick(FALSE)
    \/ ScriptRun
    \/ CenterRestart

CenterTypeOK ==
    /\ sessions \subseteq Conns
    /\ fd \in [Conns -> HandleOrNone]
    /\ value \in [Conns -> NameOrNone]
    /\ curSrc \in HandleOrNone
    /\ lines \in Seq(Nat)
    /\ results \in Seq(Nat)
    /\ lastLine \in Nat
=============================================================================
