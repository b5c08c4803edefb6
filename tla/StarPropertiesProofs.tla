------------------------ MODULE StarPropertiesProofs ------------------------
(***************************************************************************)
(* Proofs about the star and what travels through it, for any number of    *)
(* clients, connections, descriptors, transmits and failures: types; a     *)
(* handle names one open session, and a client only uses that of its       *)
(* present one; a transmit is at one place at a time, so that it is        *)
(* delivered at most once; what is reported of it is true; a transmit by   *)
(* name reaches a client of that name; the result of the newest command    *)
(* reaches the session that asked; and the directories of the clients      *)
(* follow the center's table.                                              *)
(***************************************************************************)
EXTENDS StarProperties, FiniteSetTheorems, TLAPS

-----------------------------------------------------------------------------
(* Sessions and handles *)

(* The messages that may be on their way down connection c: a MyHandle     *)
(* tells the descriptor of the session that the center has accepted.       *)
OwnMessages(c) ==
    {m \in DownMessage :
        m.class = "MyHandle" => m.handle = fd[c] /\ centerEnd[c] \in {"open", "closed"}}

Downs == {o \in [Conns -> Seq(DownMessage)] : \A c \in Conns : o[c] \in Seq(OwnMessages(c))}

OwnMessagesOnly == down \in Downs

(* Connections that were not made yet are not in use. *)
MadeInOrder ==
    /\ \A c \in Conns : c > nConn => centerEnd[c] = "none"
    /\ \A p \in Clients : session[p] <= nConn

OpenHasHandle == \A c \in Conns : centerEnd[c] = "open" => fd[c] \in Handles

(* The inductive invariant. *)
IInv ==
    /\ TypeOK
    /\ MadeInOrder
    /\ OpenHasHandle
    /\ HandlesUnique
    /\ OwnMessagesOnly
    /\ OwnHandle

-----------------------------------------------------------------------------
LEMMA SeqMonotone ==
    ASSUME NEW S, NEW T, S \subseteq T
    PROVE  Seq(S) \subseteq Seq(T)
OBVIOUS

LEMMA ConnsFinite ==
    ASSUME NEW S \in SUBSET Conns
    PROVE  IsFiniteSet(S) /\ Cardinality(S) \in Nat
<1>1. IsFiniteSet(Conns)
  BY MaxConnAssumption, FS_Interval DEF Conns
<1> QED
  BY <1>1, FS_Subset, FS_CardinalityType

(* InOrder enumerates: whatever it returns is a sequence over its set. *)
LEMMA InOrderType ==
    ASSUME NEW S \in SUBSET Conns
    PROVE  InOrder(S) \in Seq(S)
<1>1. CASE Ascending(S) # {}
  <2>1. InOrder(S) \in Ascending(S)
    BY <1>1 DEF InOrder
  <2>2. Ascending(S) \subseteq [1..Cardinality(S) -> S]
    BY DEF Ascending
  <2> QED
    BY <2>1, <2>2, ConnsFinite
<1>2. CASE Ascending(S) = {}
  BY <1>2 DEF InOrder
<1> QED
  BY <1>1, <1>2

(* The list of names holds AddNameHandle messages only. *)
LEMMA NameHandleListType ==
    ASSUME TypeOK, NEW S \in SUBSET Conns, \A c \in S : fd[c] \in Handles,
           NEW d \in Conns
    PROVE  NameHandleList(S) \in Seq(OwnMessages(d))
<1> DEFINE T == {c \in S : value[c] # NoName}
           q == InOrder(T)
<1>1. q \in Seq(T)
  BY InOrderType
<1>2. \A i \in DOMAIN q : AddNameHandle(value[q[i]], fd[q[i]]) \in OwnMessages(d)
  <2> TAKE i \in DOMAIN q
  <2>1. q[i] \in T
    BY <1>1
  <2>2. value[q[i]] \in Names /\ fd[q[i]] \in Handles
    BY <2>1 DEF TypeOK, CenterTypeOK, NameOrNone
  <2> QED
    BY <2>2 DEF OwnMessages, DownMessage, AddNameHandle
<1>3. DOMAIN q = 1..Len(q) /\ Len(q) \in Nat
  BY <1>1
<1> HIDE DEF q
<1>4. [i \in DOMAIN q |-> AddNameHandle(value[q[i]], fd[q[i]])] \in Seq(OwnMessages(d))
  BY <1>2, <1>3
<1> QED
  BY <1>4 DEF NameHandleList, q

-----------------------------------------------------------------------------
(* What the center sends is of the kind the channels may hold. *)
LEMMA PlainMessages ==
    ASSUME NEW m \in DownMessage, m.class # "MyHandle", NEW c \in Conns
    PROVE  m \in OwnMessages(c)
BY DEF OwnMessages

LEMMA EmptySeq == ASSUME NEW S PROVE <<>> \in Seq(S)
OBVIOUS

LEMMA ConcatSeq == ASSUME NEW S, NEW s \in Seq(S), NEW t \in Seq(S) PROVE s \o t \in Seq(S)
OBVIOUS

(* A function of messages per connection is in Downs if each value is. *)
LEMMA DownsIntro ==
    ASSUME NEW o, o = [c \in Conns |-> o[c]], \A c \in Conns : o[c] \in Seq(OwnMessages(c))
    PROVE  o \in Downs
<1>1. \A c \in Conns : Seq(OwnMessages(c)) \subseteq Seq(DownMessage)
  BY SeqMonotone DEF OwnMessages
<1> QED
  BY <1>1 DEF Downs

LEMMA SilenceType == Silence \in Downs
<1>1. \A c \in Conns : Silence[c] = <<>>
  BY DEF Silence
<1>2. Silence = [c \in Conns |-> Silence[c]]
  BY DEF Silence
<1> QED
  BY <1>1, <1>2, EmptySeq, DownsIntro

LEMMA ToType ==
    ASSUME NEW c \in Conns, NEW msgs \in Seq(OwnMessages(c))
    PROVE  To(c, msgs) \in Downs
<1> DEFINE o == To(c, msgs)
<1>1. \A d \in Conns : o[d] = IF d = c THEN msgs ELSE <<>>
  BY DEF To, Silence
<1>2. o = [d \in Conns |-> o[d]]
  BY DEF To, Silence
<1>3. \A d \in Conns : o[d] \in Seq(OwnMessages(d))
  BY <1>1, EmptySeq
<1> QED
  BY <1>2, <1>3, DownsIntro

LEMMA ToOthersType ==
    ASSUME NEW S, NEW h, NEW m \in DownMessage, m.class # "MyHandle"
    PROVE  ToOthers(S, h, m) \in Downs
<1> DEFINE o == ToOthers(S, h, m)
<1>1. \A c \in Conns : o[c] = IF c \in S /\ fd[c] # h THEN <<m>> ELSE <<>>
  BY DEF ToOthers
<1>2. o = [c \in Conns |-> o[c]]
  BY DEF ToOthers
<1>3. \A c \in Conns : <<m>> \in Seq(OwnMessages(c))
  BY PlainMessages
<1>4. \A c \in Conns : o[c] \in Seq(OwnMessages(c))
  BY <1>1, <1>3, EmptySeq
<1> QED
  BY <1>2, <1>4, DownsIntro

LEMMA AfterSendDownType ==
    ASSUME OwnMessagesOnly, NEW out \in Downs
    PROVE  AfterSendDown(out) \in Downs
<1> DEFINE o == AfterSendDown(out)
<1>1. \A c \in Conns : o[c] = IF clientEnd[c] = "closed" THEN down[c] ELSE down[c] \o out[c]
  BY DEF AfterSendDown
<1>2. o = [c \in Conns |-> o[c]]
  BY DEF AfterSendDown
<1>3. \A c \in Conns : down[c] \in Seq(OwnMessages(c)) /\ out[c] \in Seq(OwnMessages(c))
  BY DEF OwnMessagesOnly, Downs
<1> HIDE DEF o
<1>4. \A c \in Conns : o[c] \in Seq(OwnMessages(c))
  BY <1>1, <1>3, ConcatSeq
<1> USE DEF o
<1> QED
  BY <1>2, <1>4, DownsIntro

(* The names in erased are names of sessions. *)
LEMMA ErasedType ==
    ASSUME TypeOK, CenterTypeOK',
           erased' = (erased \cup ErasedNames) \ AnnouncedNames
    PROVE  erased' \subseteq NameOrNone
<1>1. ErasedNames \subseteq NameOrNone
  BY DEF ErasedNames, TypeOK, CenterTypeOK
<1> QED
  BY <1>1 DEF TypeOK

-----------------------------------------------------------------------------
(* The handlers of the center that read a message and answer it keep the   *)
(* invariant if their answer is of the right kind.                         *)
LEMMA AnswerStep ==
    ASSUME IInv, NEW c \in Conns, NEW class, Reads(c, class),
           NEW out \in Downs, Answer(c, out),
           UNCHANGED <<sessions, fd>>, CenterTypeOK',
           erased' = (erased \cup ErasedNames) \ AnnouncedNames,
           UNCHANGED clientVars, UNCHANGED historyVars
    PROVE  IInv'
<1> USE DEF IInv
<1>1. ConnTypeOK' /\ OwnMessagesOnly'
  <2>1. up' \in [Conns -> Seq(UpMessage)]
    BY DEF Reads, Answer, TypeOK, ConnTypeOK
  <2>2. AfterSendDown(out) \in Downs
    BY AfterSendDownType
  <2>3. OwnMessages(c)' = OwnMessages(c) /\ Downs' = Downs
    BY DEF Answer, Downs, OwnMessages
  <2> QED
    BY <2>1, <2>2, <2>3 DEF Answer, TypeOK, ConnTypeOK, OwnMessagesOnly, Downs
<1>2. ClientTypeOK'
  BY DEF TypeOK, ClientTypeOK, clientVars, historyVars
<1>3. (erased \subseteq NameOrNone)'
  BY ErasedType
<1>4. MadeInOrder' /\ OpenHasHandle' /\ HandlesUnique' /\ OwnHandle'
  BY DEF Answer, MadeInOrder, OpenHasHandle, HandlesUnique, OwnHandle, clientVars
<1> QED
  BY <1>1, <1>2, <1>3, <1>4 DEF TypeOK

LEMMA HandleMyNameStep ==
    ASSUME IInv, NEW c \in Conns, HandleMyName(c),
           erased' = (erased \cup ErasedNames) \ AnnouncedNames,
           UNCHANGED clientVars, UNCHANGED historyVars
    PROVE  IInv'
<1> USE DEF IInv
<1> DEFINE n == Head(up[c]).name
<1>1. n \in Names
  BY SMTT(30) DEF Reads, HandleMyName, TypeOK, ConnTypeOK, UpMessage, TransmitType,
         TransmitResultType, CommandType
<1>2. CenterTypeOK'
  BY <1>1 DEF HandleMyName, TypeOK, CenterTypeOK, scriptVars, NameOrNone
<1>3. CASE c \in sessions
  <2> DEFINE others == ToOthers(sessions, fd[c], AddNameHandle(n, fd[c]))
             out == [others EXCEPT ![c] = Welcome(c)]
  <2>1. centerEnd[c] = "open" /\ fd[c] \in Handles
    BY DEF HandleMyName, Reads, OpenHasHandle
  <2>2. \A d \in sessions : fd[d] \in Handles
    BY DEF HandlesUnique, OpenHasHandle, TypeOK, CenterTypeOK
  <2>3. AddNameHandle(n, fd[c]) \in DownMessage
    BY <1>1, <2>1 DEF AddNameHandle, DownMessage
  <2>4. others \in Downs
    BY <2>3, ToOthersType DEF AddNameHandle
  <2>5. MyHandle(fd[c]) \in OwnMessages(c)
    BY <2>1 DEF MyHandle, OwnMessages, DownMessage
  <2>6. NameHandleList(sessions) \in Seq(OwnMessages(c))
    BY <2>2, NameHandleListType DEF TypeOK, CenterTypeOK
  <2>7. Welcome(c) \in Seq(OwnMessages(c))
    BY <2>5, <2>6 DEF Welcome
  <2>8. Welcome(c) \in Seq(DownMessage)
    BY <2>7, SeqMonotone DEF OwnMessages
  <2> HIDE DEF others
  <2>9. out \in Downs
    BY <2>4, <2>7, <2>8 DEF Downs
  <2>10. Answer(c, out)
    BY <1>3 DEF HandleMyName, others
  <2> QED
    BY <1>2, <2>9, <2>10, AnswerStep DEF HandleMyName
<1>4. CASE c \notin sessions
  BY <1>2, <1>4, SilenceType, AnswerStep DEF HandleMyName
<1> QED
  BY <1>3, <1>4

LEMMA HandleTransmitStep ==
    ASSUME IInv, NEW c \in Conns, HandleTransmit(c),
           erased' = (erased \cup ErasedNames) \ AnnouncedNames,
           UNCHANGED clientVars, UNCHANGED historyVars
    PROVE  IInv'
<1> DEFINE m == Head(up[c])
<1>1. m \in UpMessage /\ m.class = "Transmit"
  BY DEF HandleTransmit, Reads, IInv, TypeOK, ConnTypeOK
<1>2. m \in TransmitType
  BY <1>1 DEF UpMessage, TransmitType, TransmitResultType, CommandType
<1>3. m \in DownMessage
  BY <1>2 DEF DownMessage
<1>4. \A d \in Conns : <<m>> \in Seq(OwnMessages(d))
  BY <1>1, <1>3, PlainMessages
<1>5. TransmitResult(m.seq, NoHandle, m.src, FALSE, m.id) \in TransmitResultType
  BY <1>2 DEF TransmitType, TransmitResult, TransmitResultType, HandleOrNone
<1>6. Refuse(c, m) \in Downs
  <2> DEFINE r == TransmitResult(m.seq, NoHandle, m.src, FALSE, m.id)
  <2>1. r \in DownMessage /\ r.class # "MyHandle"
    BY <1>5 DEF DownMessage, TransmitResult
  <2> HIDE DEF r
  <2>2. <<r>> \in Seq(OwnMessages(c))
    BY <2>1, PlainMessages
  <2> QED
    BY <2>2, ToType DEF Refuse, r
<1>7. SessionOf(m.dest) \in Conns \cup {NoConn}
  BY DEF SessionOf, IInv, TypeOK, CenterTypeOK
<1>8. ForwardOrRefuse(c, m) \in Downs
  <2>1. CASE CanSend(SessionOf(m.dest))
    BY <2>1, <1>4, <1>7, ToType DEF ForwardOrRefuse, CanSend
  <2>2. CASE ~CanSend(SessionOf(m.dest))
    BY <2>2, <1>6 DEF ForwardOrRefuse
  <2> QED
    BY <2>1, <2>2
<1>9. CenterTypeOK'
  BY DEF HandleTransmit, centerVars, IInv, TypeOK, CenterTypeOK
<1>10. Answer(c, ForwardOrRefuse(c, m)) /\ Reads(c, "Transmit") /\ UNCHANGED <<sessions, fd>>
  BY DEF HandleTransmit, centerVars
<1> HIDE DEF m
<1> QED
  BY <1>8, <1>9, <1>10, AnswerStep

LEMMA HandleTransmitResultStep ==
    ASSUME IInv, NEW c \in Conns, HandleTransmitResult(c),
           erased' = (erased \cup ErasedNames) \ AnnouncedNames,
           UNCHANGED clientVars, UNCHANGED historyVars
    PROVE  IInv'
<1> DEFINE m == Head(up[c])
           d == SessionOf(m.dest)
           out == IF CanSend(d) THEN To(d, <<m>>) ELSE Silence
<1>1. m \in UpMessage /\ m.class = "TransmitResult"
  BY DEF HandleTransmitResult, Reads, IInv, TypeOK, ConnTypeOK
<1>2. m \in DownMessage
  BY <1>1 DEF UpMessage, DownMessage, TransmitType, TransmitResultType, CommandType
<1>3. \A e \in Conns : <<m>> \in Seq(OwnMessages(e))
  BY <1>1, <1>2, PlainMessages
<1>4. d \in Conns \cup {NoConn}
  BY DEF SessionOf, IInv, TypeOK, CenterTypeOK
<1>5. out \in Downs
  BY <1>3, <1>4, ToType, SilenceType DEF CanSend
<1>6. CenterTypeOK'
  BY DEF HandleTransmitResult, centerVars, IInv, TypeOK, CenterTypeOK
<1>7. Answer(c, out) /\ Reads(c, "TransmitResult") /\ UNCHANGED <<sessions, fd>>
  BY DEF HandleTransmitResult, centerVars
<1> HIDE DEF out
<1> QED
  BY <1>5, <1>6, <1>7, AnswerStep

LEMMA HandleCommandStep ==
    ASSUME IInv, NEW c \in Conns, HandleCommand(c),
           erased' = (erased \cup ErasedNames) \ AnnouncedNames,
           UNCHANGED clientVars, UNCHANGED historyVars
    PROVE  IInv'
<1> DEFINE m == Head(up[c])
           d == SessionOf(m.dest)
           out == IF m.dest # NoHandle /\ CanSend(d) THEN To(d, <<m>>) ELSE Silence
<1>1. m \in UpMessage /\ m.class = "Command"
  BY DEF HandleCommand, Reads, IInv, TypeOK, ConnTypeOK
<1>2. m \in CommandType
  BY <1>1 DEF UpMessage, TransmitType, TransmitResultType, CommandType
<1>3. \A e \in Conns : <<m>> \in Seq(OwnMessages(e))
  BY <1>1, <1>2, PlainMessages DEF DownMessage
<1>4. d \in Conns \cup {NoConn}
  BY DEF SessionOf, IInv, TypeOK, CenterTypeOK
<1>5. out \in Downs
  BY <1>3, <1>4, ToType, SilenceType DEF CanSend
<1>6. CenterTypeOK'
  <2>1. CASE m.dest = NoHandle
    <3>1. m.src \in HandleOrNone /\ m.of \in Nat
      BY <1>2 DEF CommandType
    <3>2. lines' = IF Len(lines) < MaxLines THEN Append(lines, m.of) ELSE lines
      BY <2>1 DEF HandleCommand
    <3> HIDE DEF m
    <3>3. lines' \in Seq(Nat)
      BY <3>1, <3>2 DEF IInv, TypeOK, CenterTypeOK
    <3> USE DEF m
    <3> QED
      BY <2>1, <3>1, <3>3 DEF HandleCommand, IInv, TypeOK, CenterTypeOK
  <2>2. CASE m.dest # NoHandle
    BY <2>2 DEF HandleCommand, scriptVars, IInv, TypeOK, CenterTypeOK
  <2> QED
    BY <2>1, <2>2
<1>7. Answer(c, out) /\ Reads(c, "Command") /\ UNCHANGED <<sessions, fd>>
  BY DEF HandleCommand
<1> HIDE DEF out
<1> QED
  BY <1>5, <1>6, <1>7, AnswerStep

-----------------------------------------------------------------------------
(* A descriptor is fresh when it is given out, so no entry is taken over. *)
LEMMA AddSessionStep ==
    ASSUME IInv, NEW c \in Conns, NEW h \in Handles, AddSession(c, h),
           erased' = (erased \cup ErasedNames) \ AnnouncedNames,
           UNCHANGED clientVars, UNCHANGED historyVars
    PROVE  IInv'
<1> USE DEF IInv
<1>1. \A d \in Conns : centerEnd[d] = "open" => fd[d] # h
  BY DEF AddSession, FreshFd, OpenFds
<1>2. SessionOf(h) = NoConn
  BY <1>1 DEF SessionOf, HandlesUnique, TypeOK, CenterTypeOK
<1>3. /\ sessions' \subseteq sessions \cup {c}
      /\ value' = value
  BY <1>2 DEF AddSession
<1>4. /\ fd' = [fd EXCEPT ![c] = h]
      /\ centerEnd' = [centerEnd EXCEPT ![c] = "open"]
      /\ centerEnd[c] = "backlog"
      /\ UNCHANGED <<nConn, owner, clientEnd, up, down>>
      /\ UNCHANGED scriptVars
  BY DEF AddSession
<1>5. ConnTypeOK'
  BY <1>4 DEF TypeOK, ConnTypeOK, EndState
<1>6. CenterTypeOK'
  BY <1>3, <1>4 DEF TypeOK, CenterTypeOK, scriptVars, HandleOrNone
<1>7. ClientTypeOK'
  BY DEF TypeOK, ClientTypeOK, clientVars, historyVars
<1>8. (erased \subseteq NameOrNone)'
  BY <1>6, ErasedType
<1>9. MadeInOrder' /\ OpenHasHandle'
  BY <1>4 DEF MadeInOrder, OpenHasHandle, clientVars, TypeOK, ConnTypeOK, CenterTypeOK
<1>10. HandlesUnique'
  BY <1>1, <1>3, <1>4 DEF HandlesUnique, TypeOK, ConnTypeOK, CenterTypeOK
<1>11. OwnMessagesOnly'
  <2>1. \A d \in Conns : OwnMessages(d) \subseteq OwnMessages(d)'
    BY <1>4 DEF OwnMessages, TypeOK, ConnTypeOK, CenterTypeOK
  <2>2. \A d \in Conns : down'[d] \in Seq(OwnMessages(d)')
    BY <1>4, <2>1, SeqMonotone DEF OwnMessagesOnly, Downs
  <2> QED
    BY <1>4, <2>2 DEF OwnMessagesOnly, Downs
<1>12. OwnHandle'
  BY <1>4 DEF OwnHandle, clientVars, TypeOK, ConnTypeOK, CenterTypeOK, ClientTypeOK
<1> QED
  BY <1>5, <1>6, <1>7, <1>8, <1>9, <1>10, <1>11, <1>12 DEF TypeOK

LEMMA OnSessionErrorStep ==
    ASSUME IInv, NEW c \in Conns, OnSessionError(c),
           erased' = (erased \cup ErasedNames) \ AnnouncedNames,
           UNCHANGED clientVars, UNCHANGED historyVars
    PROVE  IInv'
<1> USE DEF IInv
<1> DEFINE m == RemoveNameHandle(value[c], fd[c])
<1>1. centerEnd[c] = "open" /\ fd[c] \in Handles
  BY DEF OnSessionError, OpenHasHandle
<1>2. m \in DownMessage /\ m.class # "MyHandle"
  BY <1>1 DEF RemoveNameHandle, DownMessage, TypeOK, CenterTypeOK
<1>3. down' \in Downs
  <2>1. ToOthers(sessions, fd[c], m) \in Downs
    BY <1>2, ToOthersType
  <2> HIDE DEF m
  <2>2. AfterSendDown(ToOthers(sessions, fd[c], m)) \in Downs
    BY <2>1, AfterSendDownType
  <2> USE DEF m
  <2> QED
    BY <2>2 DEF OnSessionError, OwnMessagesOnly
<1>4. /\ centerEnd' = [centerEnd EXCEPT ![c] = "closed"]
      /\ up' = [up EXCEPT ![c] = <<>>]
      /\ sessions' = {d \in sessions : fd[d] # fd[c]}
      /\ UNCHANGED <<nConn, owner, clientEnd, fd, value>>
      /\ UNCHANGED scriptVars
  BY DEF OnSessionError, Without
<1>5. ConnTypeOK'
  BY <1>3, <1>4, EmptySeq DEF TypeOK, ConnTypeOK, EndState, Downs
<1>6. CenterTypeOK'
  BY <1>4 DEF TypeOK, CenterTypeOK, scriptVars
<1>7. ClientTypeOK'
  BY DEF TypeOK, ClientTypeOK, clientVars, historyVars
<1>8. (erased \subseteq NameOrNone)'
  BY <1>6, ErasedType
<1>9. MadeInOrder' /\ OpenHasHandle' /\ HandlesUnique' /\ OwnHandle'
  <2>1. \A d \in Conns : centerEnd'[d] = IF d = c THEN "closed" ELSE centerEnd[d]
    BY <1>4 DEF TypeOK, ConnTypeOK
  <2>2. centerEnd[c] \notin {"none", "backlog"}
    BY <1>1
  <2>3. MadeInOrder' /\ OpenHasHandle'
    BY <1>4, <2>1, <2>2 DEF MadeInOrder, OpenHasHandle, clientVars
  <2>4. HandlesUnique'
    BY <1>4, <2>1 DEF HandlesUnique, TypeOK, CenterTypeOK
  <2>5. OwnHandle'
    BY <1>4, <2>1 DEF OwnHandle, clientVars, TypeOK, ClientTypeOK
  <2> QED
    BY <2>3, <2>4, <2>5
<1>10. OwnMessagesOnly'
  <2>1. \A d \in Conns : OwnMessages(d) \subseteq OwnMessages(d)'
    BY <1>4 DEF OwnMessages, TypeOK, ConnTypeOK
  <2>2. \A d \in Conns : down'[d] \in Seq(OwnMessages(d)')
    BY <1>3, <2>1, SeqMonotone DEF Downs
  <2> QED
    BY <1>3, <2>2 DEF OwnMessagesOnly, Downs
<1> QED
  BY <1>5, <1>6, <1>7, <1>8, <1>9, <1>10 DEF TypeOK

(* What Tick sends once a minute. *)
LEMMA SyncOutType ==
    ASSUME IInv, NEW valid \in SUBSET sessions
    PROVE  SyncOut(valid) \in Downs
<1> USE DEF IInv
<1> DEFINE gone == InOrder(sessions \ valid)
           removals == [i \in DOMAIN gone |-> RemoveNameHandle(value[gone[i]], fd[gone[i]])]
           o == SyncOut(valid)
<1>1. sessions \subseteq Conns /\ \A d \in sessions : fd[d] \in Handles
  BY DEF HandlesUnique, OpenHasHandle, TypeOK, CenterTypeOK
<1>2. \A c \in Conns : removals \in Seq(OwnMessages(c))
  <2> TAKE c \in Conns
  <2>1. gone \in Seq(sessions \ valid)
    BY <1>1, InOrderType
  <2>2. \A i \in DOMAIN gone : RemoveNameHandle(value[gone[i]], fd[gone[i]]) \in OwnMessages(c)
    <3> TAKE i \in DOMAIN gone
    <3>1. gone[i] \in sessions
      BY <2>1
    <3>2. value[gone[i]] \in NameOrNone /\ fd[gone[i]] \in Handles
      BY <1>1, <3>1 DEF TypeOK, CenterTypeOK
    <3> QED
      BY <3>2 DEF OwnMessages, DownMessage, RemoveNameHandle
  <2>3. DOMAIN gone = 1..Len(gone) /\ Len(gone) \in Nat
    BY <2>1
  <2> HIDE DEF gone
  <2> QED
    BY <2>2, <2>3
<1>3. \A c \in Conns : <<ClearNameHandleList>> \in Seq(OwnMessages(c))
  BY DEF ClearNameHandleList, OwnMessages, DownMessage
<1>4. \A c \in Conns : NameHandleList(valid) \in Seq(OwnMessages(c))
  BY <1>1, NameHandleListType
<1>5. \A c \in Conns : o[c] = IF c \in valid
                                THEN removals \o <<ClearNameHandleList>> \o NameHandleList(valid)
                                ELSE <<>>
  BY DEF SyncOut
<1>6. o = [c \in Conns |-> o[c]]
  BY DEF SyncOut
<1> HIDE DEF o, removals
<1>7. \A c \in Conns : o[c] \in Seq(OwnMessages(c))
  BY ZenonT(60), <1>2, <1>3, <1>4, <1>5, ConcatSeq, EmptySeq
<1> USE DEF o
<1> QED
  BY <1>6, <1>7, DownsIntro

LEMMA ResultOutType ==
    ASSUME IInv, NEW valid \in SUBSET sessions
    PROVE  ResultOut(valid) \in Downs
<1> USE DEF IInv
<1> DEFINE d == ResultTo(valid)
           m == Command(NoHandle, curSrc, Head(results))
<1>1. CASE results # <<>> /\ CanSend(d)
  <2>1. Head(results) \in Nat
    BY <1>1 DEF TypeOK, CenterTypeOK
  <2>2. m \in DownMessage /\ m.class # "MyHandle"
    BY <2>1 DEF Command, DownMessage, CommandType, HandleOrNone, TypeOK, CenterTypeOK
  <2>3. d \in Conns
    BY <1>1 DEF ResultTo, CanSend, TypeOK, CenterTypeOK
  <2> HIDE DEF m, d
  <2>4. <<m>> \in Seq(OwnMessages(d))
    BY <2>2, <2>3, PlainMessages
  <2>5. To(d, <<m>>) \in Downs
    BY <2>3, <2>4, ToType
  <2> USE DEF m, d
  <2> QED
    BY <1>1, <2>5 DEF ResultOut
<1>2. CASE ~(results # <<>> /\ CanSend(d))
  BY <1>2, SilenceType DEF ResultOut
<1> QED
  BY <1>1, <1>2

LEMMA TickStep ==
    ASSUME IInv, NEW due \in BOOLEAN, Tick(due),
           erased' \subseteq NameOrNone,
           UNCHANGED clientVars, UNCHANGED historyVars
    PROVE  IInv'
<1> USE DEF IInv
<1> DEFINE valid == IF due THEN sessions \ InvalidSessions ELSE sessions
           sync == IF due THEN SyncOut(valid) ELSE Silence
           out == [c \in Conns |-> sync[c] \o ResultOut(valid)[c]]
<1>1. valid \subseteq sessions
  OBVIOUS
<1>2. sync \in Downs /\ ResultOut(valid) \in Downs
  BY <1>1, SyncOutType, ResultOutType, SilenceType
<1>3. out \in Downs
  <2>1. \A c \in Conns : out[c] = sync[c] \o ResultOut(valid)[c]
    OBVIOUS
  <2>2. out = [c \in Conns |-> out[c]]
    OBVIOUS
  <2> HIDE DEF sync, out, valid
  <2>3. \A c \in Conns : out[c] \in Seq(OwnMessages(c))
    BY <1>2, <2>1, ConcatSeq DEF Downs
  <2> QED
    BY <2>2, <2>3, DownsIntro
<1>4. /\ sessions' = valid
      /\ down' = AfterSendDown(out)
      /\ results' = IF results # <<>> THEN Tail(results) ELSE results
      /\ UNCHANGED <<nConn, owner, clientEnd, centerEnd, up>>
      /\ UNCHANGED <<fd, value, curSrc, lines, lastLine>>
  BY DEF Tick
<1> HIDE DEF out, valid
<1>5. down' \in Downs
  BY <1>3, <1>4, AfterSendDownType
<1>6. ConnTypeOK'
  BY <1>4, <1>5 DEF TypeOK, ConnTypeOK, Downs
<1>7. CenterTypeOK'
  BY <1>1, <1>4 DEF TypeOK, CenterTypeOK
<1>8. ClientTypeOK'
  BY DEF TypeOK, ClientTypeOK, clientVars, historyVars
<1>9. MadeInOrder' /\ OpenHasHandle' /\ HandlesUnique' /\ OwnHandle'
  BY <1>1, <1>4 DEF MadeInOrder, OpenHasHandle, HandlesUnique, OwnHandle, clientVars
<1>10. OwnMessagesOnly'
  BY <1>4, <1>5 DEF OwnMessagesOnly, Downs, OwnMessages
<1> QED
  BY <1>6, <1>7, <1>8, <1>9, <1>10 DEF TypeOK

LEMMA ScriptRunStep ==
    ASSUME IInv, ScriptRun,
           erased' = (erased \cup ErasedNames) \ AnnouncedNames,
           UNCHANGED clientVars, UNCHANGED historyVars
    PROVE  IInv'
<1> USE DEF IInv
<1>1. lines' \in Seq(Nat)
  BY DEF ScriptRun, TypeOK, CenterTypeOK
<1>2. results' \in Seq(Nat)
  <2>1. Head(lines) \in Nat
    BY DEF ScriptRun, TypeOK, CenterTypeOK
  <2>2. Append(results, Head(lines)) \in Seq(Nat)
    BY <2>1 DEF TypeOK, CenterTypeOK
  <2>3. results' \in {Append(results, Head(lines)), results}
    BY DEF ScriptRun
  <2> QED
    BY <2>2, <2>3 DEF TypeOK, CenterTypeOK
<1>3. CenterTypeOK'
  BY <1>1, <1>2 DEF ScriptRun, TypeOK, CenterTypeOK
<1>4. (erased \subseteq NameOrNone)'
  BY <1>3, ErasedType
<1>5. ConnTypeOK' /\ ClientTypeOK'
  BY DEF ScriptRun, TypeOK, ConnTypeOK, ClientTypeOK, connVars, clientVars, historyVars
<1>6. MadeInOrder' /\ OpenHasHandle' /\ HandlesUnique' /\ OwnHandle' /\ OwnMessagesOnly'
  BY DEF ScriptRun, connVars, clientVars, MadeInOrder, OpenHasHandle, HandlesUnique,
         OwnHandle, OwnMessagesOnly, Downs, OwnMessages
<1> QED
  BY <1>3, <1>4, <1>5, <1>6 DEF TypeOK

LEMMA CenterRestartStep ==
    ASSUME IInv, CenterRestart,
           erased' = (erased \cup ErasedNames) \ AnnouncedNames,
           UNCHANGED clientVars, UNCHANGED historyVars
    PROVE  IInv'
<1> USE DEF IInv
<1>1. \A c \in Conns : /\ centerEnd[c] \in {"backlog", "open"} => centerEnd'[c] = "closed"
                       /\ centerEnd[c] \notin {"backlog", "open"} => centerEnd'[c] = centerEnd[c]
  BY DEF CenterRestart
<1>2. ConnTypeOK'
  BY EmptySeq DEF CenterRestart, TypeOK, ConnTypeOK, EndState
<1>3. CenterTypeOK'
  BY EmptySeq DEF CenterRestart, TypeOK, CenterTypeOK, HandleOrNone
<1>4. ClientTypeOK'
  BY DEF TypeOK, ClientTypeOK, clientVars, historyVars
<1>5. (erased \subseteq NameOrNone)'
  BY <1>3, ErasedType
<1>6. MadeInOrder' /\ OpenHasHandle' /\ HandlesUnique'
  BY <1>1 DEF CenterRestart, MadeInOrder, OpenHasHandle, HandlesUnique, clientVars,
              TypeOK, ConnTypeOK
<1>7. OwnHandle'
  BY <1>1 DEF CenterRestart, OwnHandle, clientVars, TypeOK, ConnTypeOK, ClientTypeOK
<1>8. OwnMessagesOnly'
  <2>1. \A d \in Conns : OwnMessages(d) \subseteq OwnMessages(d)'
    BY <1>1 DEF CenterRestart, OwnMessages, TypeOK, ConnTypeOK
  <2>2. down' = down
    BY DEF CenterRestart
  <2>3. \A d \in Conns : down[d] \in Seq(OwnMessages(d)')
    BY <2>1, SeqMonotone DEF OwnMessagesOnly, Downs
  <2> QED
    BY <2>2, <2>3 DEF OwnMessagesOnly, Downs
<1> QED
  BY <1>2, <1>3, <1>4, <1>5, <1>6, <1>7, <1>8 DEF TypeOK

(* Every step of the center. *)
LEMMA CenterSteps ==
    ASSUME IInv, CenterStep \/ SyncStep
    PROVE  IInv'
<1>1. CASE CenterStep
  <2> SUFFICES ASSUME CenterNext PROVE IInv'
    BY <1>1 DEF CenterStep
  <2> USE <1>1 DEF CenterStep
  <2>1. ASSUME NEW c \in Conns, NEW h \in Handles, AddSession(c, h) PROVE IInv'
    BY <2>1, AddSessionStep
  <2>2. ASSUME NEW c \in Conns, HandleMyName(c) PROVE IInv'
    BY <2>2, HandleMyNameStep
  <2>3. ASSUME NEW c \in Conns, HandleTransmit(c) PROVE IInv'
    BY <2>3, HandleTransmitStep
  <2>4. ASSUME NEW c \in Conns, HandleTransmitResult(c) PROVE IInv'
    BY <2>4, HandleTransmitResultStep
  <2>5. ASSUME NEW c \in Conns, HandleCommand(c) PROVE IInv'
    BY <2>5, HandleCommandStep
  <2>6. ASSUME NEW c \in Conns, OnSessionError(c) PROVE IInv'
    BY <2>6, OnSessionErrorStep
  <2>7. CASE Tick(FALSE)
    <3>1. CenterTypeOK'
      BY <2>7 DEF Tick, IInv, TypeOK, CenterTypeOK
    <3>2. erased' \subseteq NameOrNone
      BY <3>1, ErasedType DEF IInv
    <3> QED
      BY <2>7, <3>2, TickStep
  <2>8. CASE ScriptRun
    BY <2>8, ScriptRunStep
  <2>9. CASE CenterRestart
    BY <2>9, CenterRestartStep
  <2> QED
    BY <2>1, <2>2, <2>3, <2>4, <2>5, <2>6, <2>7, <2>8, <2>9 DEF CenterNext
<1>2. CASE SyncStep
  BY <1>2, TickStep DEF SyncStep
<1> QED
  BY <1>1, <1>2

-----------------------------------------------------------------------------
(* What is left to show of a step of a client that makes no connection. *)
LEMMA ClientKeeps ==
    ASSUME IInv, UNCHANGED centerVars, UNCHANGED erased, UNCHANGED <<nConn, centerEnd>>,
           ConnTypeOK', ClientTypeOK', down' \in Downs,
           \A p \in Clients : session'[p] \in {session[p], NoConn}, OwnHandle'
    PROVE  IInv'
<1> USE DEF IInv
<1>1. CenterTypeOK'
  BY DEF TypeOK, CenterTypeOK, centerVars
<1>2. OpenHasHandle' /\ HandlesUnique'
  BY DEF OpenHasHandle, HandlesUnique, centerVars
<1>3. MadeInOrder'
  <2>1. nConn \in Nat /\ nConn >= NoConn
    BY MaxConnAssumption DEF TypeOK, ConnTypeOK, NoConn
  <2>2. \A p \in Clients : session'[p] <= nConn
    BY <2>1 DEF MadeInOrder, NoConn
  <2> QED
    BY <2>2 DEF MadeInOrder
<1>4. OwnMessagesOnly'
  BY DEF OwnMessagesOnly, Downs, OwnMessages, centerVars
<1> QED
  BY <1>1, <1>2, <1>3, <1>4 DEF TypeOK

LEMMA ConnectorStep ==
    ASSUME IInv, NEW p \in Clients, UNCHANGED centerVars, UNCHANGED erased,
           TickConnect(p) \/ TickConnectThrows(p) \/ OnConnectFailed(p)
    PROVE  IInv'
<1> USE DEF IInv
<1>1. /\ \E x \in ConnectorState : connector' = [connector EXCEPT ![p] = x]
      /\ UNCHANGED <<session, myHandle, nameHandles, sequence>>
      /\ UNCHANGED connVars
      /\ UNCHANGED historyVars
  BY DEF TickConnect, TickConnectThrows, OnConnectFailed, ConnectorState, Finished
<1>2. ConnTypeOK' /\ UNCHANGED <<nConn, centerEnd>> /\ down' \in Downs
  BY <1>1 DEF TypeOK, ConnTypeOK, connVars, OwnMessagesOnly
<1>3. ClientTypeOK'
  BY <1>1 DEF TypeOK, ClientTypeOK, historyVars
<1>4. OwnHandle'
  BY <1>1 DEF OwnHandle, connVars, centerVars
<1> QED
  BY <1>1, <1>2, <1>3, <1>4, ClientKeeps

LEMMA OnConnectedStep ==
    ASSUME IInv, NEW p \in Clients, UNCHANGED centerVars, UNCHANGED erased, OnConnected(p)
    PROVE  IInv'
<1> USE DEF IInv
<1> DEFINE c == nConn + 1
<1>1. c \in Conns /\ centerEnd[c] = "none" /\ c > nConn
  BY MaxConnAssumption DEF OnConnected, Conns, MadeInOrder, TypeOK, ConnTypeOK
<1>2. /\ nConn' = c
      /\ owner' = [owner EXCEPT ![c] = p]
      /\ clientEnd' = [clientEnd EXCEPT ![c] = "open"]
      /\ centerEnd' = [centerEnd EXCEPT ![c] = "backlog"]
      /\ up' = [up EXCEPT ![c] = <<MyName(NameOf[p])>>]
      /\ session' = [session EXCEPT ![p] = c]
      /\ myHandle' = [myHandle EXCEPT ![p] = NoHandle]
      /\ sequence' = [sequence EXCEPT ![p] = 1]
      /\ connector' = [connector EXCEPT ![p] = "idle"]
      /\ UNCHANGED <<down, nameHandles>>
      /\ UNCHANGED historyVars
      /\ nConn < MaxConn
  BY DEF OnConnected, Finished
<1> HIDE DEF c
<1>3. <<MyName(NameOf[p])>> \in Seq(UpMessage)
  BY ClientAssumption DEF MyName, UpMessage
<1>4. nConn' \in 0..MaxConn
  BY <1>2, MaxConnAssumption DEF TypeOK, ConnTypeOK, c
<1>5. ConnTypeOK'
  BY <1>1, <1>2, <1>3, <1>4 DEF TypeOK, ConnTypeOK, EndState
<1>6. ClientTypeOK'
  BY <1>1, <1>2 DEF TypeOK, ClientTypeOK, ConnectorState, HandleOrNone, historyVars
<1>7. CenterTypeOK'
  BY DEF TypeOK, CenterTypeOK, centerVars
<1>8. \A d \in Conns : centerEnd'[d] = IF d = c THEN "backlog" ELSE centerEnd[d]
  BY <1>2 DEF TypeOK, ConnTypeOK
<1>9. OpenHasHandle' /\ HandlesUnique'
  BY <1>1, <1>8 DEF OpenHasHandle, HandlesUnique, centerVars, TypeOK, CenterTypeOK
<1>10. MadeInOrder'
  <2>1. \A d \in Conns : d > nConn' => centerEnd'[d] = "none"
    <3> TAKE d \in Conns
    <3> HAVE d > nConn'
    <3>1. d > nConn /\ d # c
      BY <1>2 DEF c, Conns, TypeOK, ConnTypeOK
    <3> QED
      BY <1>8, <3>1 DEF MadeInOrder
  <2>2. \A r \in Clients : session'[r] <= nConn'
    <3> TAKE r \in Clients
    <3>1. nConn \in Nat /\ nConn' = nConn + 1
      BY <1>2 DEF c, TypeOK, ConnTypeOK
    <3>2. session[r] \in Int /\ session[r] <= nConn
      BY DEF MadeInOrder, TypeOK, ClientTypeOK, Conns, NoConn
    <3>3. session'[r] = IF r = p THEN nConn' ELSE session[r]
      BY <1>2 DEF TypeOK, ClientTypeOK
    <3> QED
      BY <3>1, <3>2, <3>3
  <2> QED
    BY <2>1, <2>2 DEF MadeInOrder
<1>11. OwnMessagesOnly'
  <2>1. \A d \in Conns : OwnMessages(d) \subseteq OwnMessages(d)'
    BY <1>1, <1>8 DEF OwnMessages, centerVars
  <2>2. \A d \in Conns : down[d] \in Seq(OwnMessages(d)')
    BY <2>1, SeqMonotone DEF OwnMessagesOnly, Downs
  <2> QED
    BY <1>2, <2>2 DEF OwnMessagesOnly, Downs
<1>12. OwnHandle'
  <2> SUFFICES ASSUME NEW r \in Clients, myHandle'[r] # NoHandle
               PROVE  /\ session'[r] # NoConn
                      /\ centerEnd'[session'[r]] # "backlog"
                      /\ myHandle'[r] = fd'[session'[r]]
    BY DEF OwnHandle
  <2>1. r # p /\ session'[r] = session[r] /\ myHandle'[r] = myHandle[r]
    BY <1>2 DEF TypeOK, ClientTypeOK
  <2>2. session[r] \in Conns /\ session[r] <= nConn
    BY <2>1 DEF OwnHandle, TypeOK, ClientTypeOK, MadeInOrder
  <2>3. session[r] # c
    BY <2>2, <1>1 DEF Conns, c, TypeOK, ConnTypeOK
  <2> QED
    BY <1>8, <2>1, <2>2, <2>3 DEF OwnHandle, centerVars
<1> QED
  BY <1>5, <1>6, <1>7, <1>9, <1>10, <1>11, <1>12 DEF TypeOK

LEMMA SessionEndStep ==
    ASSUME IInv, NEW p \in Clients, UNCHANGED centerVars, UNCHANGED erased,
           OnClientSessionError(p) \/ Disconnect(p) \/ ClientRestart(p)
    PROVE  IInv'
<1> USE DEF IInv
<1>1. CASE OnClientSessionError(p) \/ Disconnect(p)
  <2>1. /\ session[p] \in Conns
        /\ clientEnd' = [clientEnd EXCEPT ![session[p]] = "closed"]
        /\ down' = [down EXCEPT ![session[p]] = <<>>]
        /\ session' = [session EXCEPT ![p] = NoConn]
        /\ myHandle' = [myHandle EXCEPT ![p] = NoHandle]
        /\ sequence' = [sequence EXCEPT ![p] = 1]
        /\ UNCHANGED <<nConn, owner, centerEnd, up>>
        /\ UNCHANGED <<connector, nameHandles>>
        /\ UNCHANGED historyVars
    BY <1>1 DEF OnClientSessionError, Disconnect, SetSessionNull, TypeOK, ClientTypeOK
  <2>2. down' \in Downs
    BY <2>1, EmptySeq DEF OwnMessagesOnly, Downs
  <2>3. ConnTypeOK'
    BY <2>1, <2>2 DEF TypeOK, ConnTypeOK, EndState, Downs
  <2>4. ClientTypeOK'
    BY <2>1 DEF TypeOK, ClientTypeOK, HandleOrNone, historyVars
  <2>5. \A r \in Clients : session'[r] \in {session[r], NoConn}
    BY <2>1 DEF TypeOK, ClientTypeOK
  <2>6. OwnHandle'
    BY <2>1 DEF OwnHandle, centerVars, TypeOK, ClientTypeOK
  <2> QED
    BY <2>1, <2>2, <2>3, <2>4, <2>5, <2>6, ClientKeeps
<1>2. CASE ClientRestart(p)
  <2>1. /\ clientEnd' = [c \in Conns |-> IF c = session[p] THEN "closed" ELSE clientEnd[c]]
        /\ down' = [c \in Conns |-> IF c = session[p] THEN <<>> ELSE down[c]]
        /\ session' = [session EXCEPT ![p] = NoConn]
        /\ connector' = [connector EXCEPT ![p] = "idle"]
        /\ myHandle' = [myHandle EXCEPT ![p] = NoHandle]
        /\ nameHandles' = [nameHandles EXCEPT ![p] = EmptyDirectory]
        /\ sequence' = [sequence EXCEPT ![p] = 1]
        /\ UNCHANGED <<nConn, owner, centerEnd, up>>
        /\ UNCHANGED historyVars
    BY <1>2 DEF ClientRestart
  <2>2. down' \in Downs
    BY <2>1, EmptySeq DEF OwnMessagesOnly, Downs
  <2>3. ConnTypeOK'
    BY <2>1, <2>2 DEF TypeOK, ConnTypeOK, EndState, Downs
  <2>4. ClientTypeOK'
    BY <2>1 DEF TypeOK, ClientTypeOK, HandleOrNone, ConnectorState, EmptyDirectory, historyVars
  <2>5. \A r \in Clients : session'[r] \in {session[r], NoConn}
    BY <2>1 DEF TypeOK, ClientTypeOK
  <2>6. OwnHandle'
    BY <2>1 DEF OwnHandle, centerVars, TypeOK, ClientTypeOK
  <2> QED
    BY <2>1, <2>2, <2>3, <2>4, <2>5, <2>6, ClientKeeps
<1> QED
  BY <1>1, <1>2

-----------------------------------------------------------------------------
(* Handling a message from the center. *)
LEMMA ConsumeType ==
    ASSUME IInv, NEW p \in Clients, session[p] # NoConn, down[session[p]] # <<>>,
           NEW reply \in Seq(UpMessage), Consume(p, reply)
    PROVE  /\ ConnTypeOK'
           /\ down' \in Downs
           /\ UNCHANGED <<nConn, centerEnd>>
<1> USE DEF IInv
<1> DEFINE c == session[p]
<1>1. c \in Conns
  BY DEF TypeOK, ClientTypeOK
<1>2. /\ down' = [down EXCEPT ![c] = Tail(@)]
      /\ up' = AfterSendUp(c, reply)
      /\ UNCHANGED <<nConn, owner, clientEnd, centerEnd>>
  BY DEF Consume
<1> HIDE DEF c
<1>3. down' \in Downs
  <2>1. down[c] \in Seq(OwnMessages(c)) /\ down[c] \in Seq(DownMessage) /\ down[c] # <<>>
    BY <1>1 DEF OwnMessagesOnly, Downs, c
  <2>2. Tail(down[c]) \in Seq(OwnMessages(c)) /\ Tail(down[c]) \in Seq(DownMessage)
    BY <2>1
  <2> QED
    BY <1>1, <1>2, <2>2 DEF OwnMessagesOnly, Downs
<1>4. up' \in [Conns -> Seq(UpMessage)]
  <2>1. up[c] \in Seq(UpMessage)
    BY <1>1 DEF TypeOK, ConnTypeOK
  <2>2. up[c] \o reply \in Seq(UpMessage)
    BY <2>1, ConcatSeq
  <2> QED
    BY <1>2, <2>2 DEF AfterSendUp, TypeOK, ConnTypeOK
<1> QED
  BY <1>2, <1>3, <1>4 DEF TypeOK, ConnTypeOK, Downs

LEMMA HeardType ==
    ASSUME IInv, NEW p \in Clients, NEW class, Hears(p, class)
    PROVE  /\ session[p] # NoConn /\ session[p] \in Conns /\ down[session[p]] # <<>>
           /\ Heard(p) \in OwnMessages(session[p])
           /\ Heard(p) \in DownMessage
           /\ Heard(p).class = class
<1>1. session[p] \in Conns
  BY DEF IInv, Hears, TypeOK, ClientTypeOK
<1>2. down[session[p]] \in Seq(OwnMessages(session[p])) /\ down[session[p]] # <<>>
  BY <1>1 DEF IInv, OwnMessagesOnly, Downs, Hears
<1>3. Heard(p) \in OwnMessages(session[p])
  BY <1>2 DEF Heard
<1> QED
  BY <1>1, <1>2, <1>3 DEF Hears, Heard, OwnMessages

LEMMA PutType ==
    ASSUME NEW dir \in [Names -> HandleOrNone], NEW n \in Names, NEW h \in HandleOrNone
    PROVE  Put(dir, n, h) \in [Names -> HandleOrNone]
BY DEF Put

LEMMA HandleMyHandleStep ==
    ASSUME IInv, NEW p \in Clients, HandleMyHandle(p), UNCHANGED centerVars, UNCHANGED erased
    PROVE  IInv'
<1>1. /\ session[p] \in Conns /\ session[p] # NoConn
      /\ Heard(p) \in OwnMessages(session[p]) /\ Heard(p).class = "MyHandle"
      /\ down[session[p]] # <<>>
  BY HeardType DEF HandleMyHandle
<1>2. Heard(p).handle = fd[session[p]] /\ centerEnd[session[p]] \in {"open", "closed"}
  BY <1>1 DEF OwnMessages
<1>3. Heard(p).handle \in Handles
  BY <1>1 DEF OwnMessages, DownMessage, TransmitType, TransmitResultType, CommandType
<1>4. /\ myHandle' = [myHandle EXCEPT ![p] = Heard(p).handle]
      /\ nameHandles' = [nameHandles EXCEPT ![p] = Put(@, NameOf[p], Heard(p).handle)]
      /\ UNCHANGED <<session, connector, sequence>>
      /\ UNCHANGED historyVars
  BY DEF HandleMyHandle
<1>5. ConnTypeOK' /\ down' \in Downs /\ UNCHANGED <<nConn, centerEnd>>
  BY <1>1, EmptySeq, ConsumeType DEF HandleMyHandle
<1>6. Put(nameHandles[p], NameOf[p], Heard(p).handle) \in [Names -> HandleOrNone]
  BY <1>3, PutType, ClientAssumption DEF IInv, TypeOK, ClientTypeOK, HandleOrNone
<1>7. ClientTypeOK'
  BY <1>3, <1>4, <1>6 DEF IInv, TypeOK, ClientTypeOK, HandleOrNone, historyVars
<1>8. OwnHandle'
  BY <1>1, <1>2, <1>4, <1>5 DEF IInv, OwnHandle, centerVars, TypeOK, ClientTypeOK
<1> QED
  BY <1>4, <1>5, <1>7, <1>8, ClientKeeps

(* The handlers that change at most the directory and the histories. *)
LEMMA OtherReceiveStep ==
    ASSUME IInv, NEW p \in Clients, UNCHANGED centerVars, UNCHANGED erased,
           NEW class, Hears(p, class), NEW reply \in Seq(UpMessage), Consume(p, reply),
           UNCHANGED <<session, myHandle>>, ClientTypeOK'
    PROVE  IInv'
<1>1. ConnTypeOK' /\ down' \in Downs /\ UNCHANGED <<nConn, centerEnd>>
  BY HeardType, ConsumeType
<1>2. OwnHandle'
  BY <1>1 DEF IInv, OwnHandle, centerVars
<1> QED
  BY <1>1, <1>2, ClientKeeps

LEMMA DirectoryStep ==
    ASSUME IInv, NEW p \in Clients, UNCHANGED centerVars, UNCHANGED erased,
           \/ HandleAddNameHandle(p)
           \/ HandleRemoveNameHandle(p)
    PROVE  IInv'
<1>1. ASSUME HandleAddNameHandle(p) PROVE IInv'
  <2>1. Heard(p) \in DownMessage /\ Heard(p).class = "AddNameHandle"
    BY <1>1, HeardType DEF HandleAddNameHandle
  <2>2. Heard(p).name \in Names /\ Heard(p).handle \in Handles
    BY <2>1 DEF DownMessage, TransmitType, TransmitResultType, CommandType
  <2>3. Put(nameHandles[p], Heard(p).name, Heard(p).handle) \in [Names -> HandleOrNone]
    BY <2>2, PutType DEF IInv, TypeOK, ClientTypeOK, HandleOrNone
  <2>4. ClientTypeOK'
    BY <1>1, <2>3 DEF HandleAddNameHandle, IInv, TypeOK, ClientTypeOK, historyVars
  <2> QED
    BY <1>1, <2>4, EmptySeq, OtherReceiveStep DEF HandleAddNameHandle
<1>2. ASSUME HandleRemoveNameHandle(p) PROVE IInv'
  <2>1. Forget(nameHandles[p], Heard(p).name) \in [Names -> HandleOrNone]
    BY DEF Forget, IInv, TypeOK, ClientTypeOK, HandleOrNone
  <2>2. ClientTypeOK'
    BY <1>2, <2>1 DEF HandleRemoveNameHandle, IInv, TypeOK, ClientTypeOK, historyVars
  <2> QED
    BY <1>2, <2>2, EmptySeq, OtherReceiveStep DEF HandleRemoveNameHandle
<1> QED
  BY <1>1, <1>2

LEMMA ApplicationStep ==
    ASSUME IInv, NEW p \in Clients, UNCHANGED centerVars, UNCHANGED erased,
           \/ IgnoreClearNameHandleList(p)
           \/ HandleDelivery(p)
           \/ HandleResult(p)
           \/ HandleClientCommand(p)
    PROVE  IInv'
<1>1. ASSUME IgnoreClearNameHandleList(p) \/ HandleClientCommand(p) PROVE IInv'
  <2>1. UNCHANGED clientVars /\ UNCHANGED historyVars
    BY <1>1 DEF IgnoreClearNameHandleList, HandleClientCommand
  <2>2. ClientTypeOK' /\ UNCHANGED <<session, myHandle>>
    BY <2>1 DEF IInv, TypeOK, ClientTypeOK, clientVars, historyVars
  <2> QED
    BY <1>1, <2>2, EmptySeq, OtherReceiveStep DEF IgnoreClearNameHandleList, HandleClientCommand
<1>2. ASSUME HandleDelivery(p) PROVE IInv'
  <2> DEFINE m == Heard(p)
             r == TransmitResult(m.seq, m.dest, m.src, TRUE, m.id)
  <2>1. m \in DownMessage /\ m.class = "Transmit" /\ session[p] \in Conns
    BY <1>2, HeardType DEF HandleDelivery
  <2>2. m \in TransmitType
    BY <2>1 DEF DownMessage, TransmitType, TransmitResultType, CommandType
  <2> HIDE DEF m
  <2>3. r \in UpMessage
    BY <2>2 DEF TransmitType, TransmitResult, TransmitResultType, UpMessage
  <2> HIDE DEF r
  <2>4. <<r>> \in Seq(UpMessage)
    BY <2>3
  <2> USE DEF r
  <2>5. [id |-> m.id, conn |-> session[p]] \in [id : Nat, conn : Conns]
    BY <2>1, <2>2 DEF TransmitType
  <2>6. delivered' \in Seq([id : Nat, conn : Conns])
    BY <1>2, <2>5 DEF HandleDelivery, m, IInv, TypeOK, ClientTypeOK
  <2>7. ClientTypeOK'
    BY <1>2, <2>6 DEF HandleDelivery, IInv, TypeOK, ClientTypeOK, clientVars
  <2>8. Consume(p, <<r>>) /\ Hears(p, "Transmit") /\ UNCHANGED <<session, myHandle>>
    BY <1>2 DEF HandleDelivery, m, clientVars
  <2> HIDE DEF r
  <2> QED
    BY <2>4, <2>7, <2>8, OtherReceiveStep
<1>3. ASSUME HandleResult(p) PROVE IInv'
  <2> DEFINE m == Heard(p)
             a == [id |-> m.of, conn |-> session[p], ok |-> m.ok]
  <2>1. m \in DownMessage /\ m.class = "TransmitResult" /\ session[p] \in Conns
    BY <1>3, HeardType DEF HandleResult
  <2>2. m \in TransmitResultType
    BY <2>1 DEF DownMessage, TransmitType, TransmitResultType, CommandType
  <2>3. a \in [id : Nat, conn : Conns, ok : BOOLEAN]
    BY <2>1, <2>2 DEF TransmitResultType
  <2>4. answered' = Append(answered, a)
    BY <1>3 DEF HandleResult
  <2> HIDE DEF a
  <2>5. answered' \in Seq([id : Nat, conn : Conns, ok : BOOLEAN])
    BY <2>3, <2>4 DEF IInv, TypeOK, ClientTypeOK
  <2>6. ClientTypeOK'
    BY <1>3, <2>5 DEF HandleResult, IInv, TypeOK, ClientTypeOK, clientVars
  <2> QED
    BY <1>3, <2>6, EmptySeq, OtherReceiveStep DEF HandleResult, clientVars
<1> QED
  BY <1>1, <1>2, <1>3

-----------------------------------------------------------------------------
(* The send functions write to the session and to the histories. *)
LEMMA SendUpType ==
    ASSUME IInv, NEW c \in Conns, NEW m \in UpMessage, up' = AfterSendUp(c, <<m>>),
           UNCHANGED <<nConn, owner, clientEnd, centerEnd, down>>
    PROVE  ConnTypeOK' /\ down' \in Downs
<1>1. up[c] \in Seq(UpMessage) /\ <<m>> \in Seq(UpMessage)
  BY DEF IInv, TypeOK, ConnTypeOK
<1>2. up[c] \o <<m>> \in Seq(UpMessage)
  BY <1>1, ConcatSeq
<1>3. up' \in [Conns -> Seq(UpMessage)]
  BY <1>2 DEF AfterSendUp, IInv, TypeOK, ConnTypeOK
<1> QED
  BY <1>3 DEF IInv, TypeOK, ConnTypeOK, OwnMessagesOnly

LEMMA SendTransmitStep ==
    ASSUME IInv, NEW p \in Clients, UNCHANGED centerVars, UNCHANGED erased,
           NEW dest \in HandleOrNone, NEW n \in NameOrNone, SendTransmit(p, dest, n)
    PROVE  IInv'
<1> DEFINE m == Transmit(sequence[p], myHandle[p], dest, Len(sent) + 1)
           e == [conn |-> session[p], seq |-> sequence[p], dest |-> dest, name |-> n]
<1>1. session[p] \in Conns /\ dest \in Handles
  BY DEF SendTransmit, TransmitIsValid, HandleOrNone, IInv, TypeOK, ClientTypeOK
<1>2. Len(sent) + 1 \in Nat /\ sequence[p] \in Nat /\ myHandle[p] \in HandleOrNone
  BY DEF IInv, TypeOK, ClientTypeOK
<1>3. m \in UpMessage
  BY <1>2 DEF Transmit, TransmitType, UpMessage
<1>4. e \in SentType
  BY <1>1, <1>2 DEF SentType
<1>5. /\ up' = AfterSendUp(session[p], <<m>>)
      /\ sent' = Append(sent, e)
      /\ sequence' = [sequence EXCEPT ![p] = @ + 1]
      /\ UNCHANGED <<nConn, owner, clientEnd, centerEnd, down>>
      /\ UNCHANGED <<session, connector, myHandle, nameHandles>>
      /\ UNCHANGED <<asked, delivered, answered>>
  BY DEF SendTransmit
<1> HIDE DEF m, e
<1>6. ConnTypeOK' /\ down' \in Downs
  BY <1>1, <1>3, <1>5, SendUpType
<1>7. sent' \in Seq(SentType)
  BY <1>4, <1>5 DEF IInv, TypeOK, ClientTypeOK
<1>8. ClientTypeOK'
  BY <1>5, <1>7 DEF IInv, TypeOK, ClientTypeOK
<1>9. OwnHandle'
  BY <1>5 DEF IInv, OwnHandle, centerVars
<1> QED
  BY <1>5, <1>6, <1>8, <1>9, ClientKeeps

LEMMA SendCommandStep ==
    ASSUME IInv, NEW p \in Clients, UNCHANGED centerVars, UNCHANGED erased,
           NEW dest \in HandleOrNone, SendCommandByHandle(p, dest)
    PROVE  IInv'
<1> DEFINE m == Command(myHandle[p], dest, Len(asked) + 1)
           e == [conn |-> session[p], src |-> myHandle[p], dest |-> dest]
<1>1. session[p] \in Conns /\ myHandle[p] \in HandleOrNone /\ Len(asked) + 1 \in Nat
  BY DEF SendCommandByHandle, IInv, TypeOK, ClientTypeOK
<1>2. m \in UpMessage
  BY <1>1 DEF Command, CommandType, UpMessage
<1>3. e \in AskedType
  BY <1>1 DEF AskedType
<1>4. /\ up' = AfterSendUp(session[p], <<m>>)
      /\ asked' = Append(asked, e)
      /\ UNCHANGED <<nConn, owner, clientEnd, centerEnd, down>>
      /\ UNCHANGED clientVars
      /\ UNCHANGED <<sent, delivered, answered>>
  BY DEF SendCommandByHandle
<1> HIDE DEF m, e
<1>5. ConnTypeOK' /\ down' \in Downs
  BY <1>1, <1>2, <1>4, SendUpType
<1>6. asked' \in Seq(AskedType)
  BY <1>3, <1>4 DEF IInv, TypeOK, ClientTypeOK
<1>7. ClientTypeOK'
  BY <1>4, <1>6 DEF IInv, TypeOK, ClientTypeOK, clientVars
<1>8. OwnHandle'
  BY <1>4 DEF IInv, OwnHandle, centerVars, clientVars
<1> QED
  BY <1>4, <1>5, <1>7, <1>8, ClientKeeps DEF clientVars

(* Every step of a client. *)
LEMMA ClientSteps ==
    ASSUME IInv, ClientStep
    PROVE  IInv'
<1>1. UNCHANGED centerVars /\ UNCHANGED erased
  BY DEF ClientStep
<1>2. PICK p \in Clients :
        \/ TickConnect(p) \/ TickConnectThrows(p) \/ OnConnectFailed(p)
        \/ OnConnected(p)
        \/ OnClientSessionError(p) \/ Disconnect(p) \/ ClientRestart(p)
        \/ Receive(p)
        \/ \E h \in HandleOrNone : SendByHandle(p, h) \/ SendCommandByHandle(p, h)
        \/ \E n \in Names : SendByName(p, n) \/ SendCommandByName(p, n)
  BY DEF ClientStep, ClientNext
<1>3. CASE TickConnect(p) \/ TickConnectThrows(p) \/ OnConnectFailed(p)
  BY <1>1, <1>3, ConnectorStep
<1>4. CASE OnConnected(p)
  BY <1>1, <1>4, OnConnectedStep
<1>5. CASE OnClientSessionError(p) \/ Disconnect(p) \/ ClientRestart(p)
  BY <1>1, <1>5, SessionEndStep
<1>6. CASE Receive(p)
  BY <1>1, <1>6, HandleMyHandleStep, DirectoryStep, ApplicationStep DEF Receive
<1>7. ASSUME NEW h \in HandleOrNone, SendByHandle(p, h) \/ SendCommandByHandle(p, h)
      PROVE  IInv'
  BY <1>1, <1>7, SendTransmitStep, SendCommandStep DEF SendByHandle, NameOrNone
<1>8. ASSUME NEW n \in Names, SendByName(p, n) \/ SendCommandByName(p, n)
      PROVE  IInv'
  <2>1. nameHandles[p][n] \in HandleOrNone
    BY DEF IInv, TypeOK, ClientTypeOK
  <2> QED
    BY <1>1, <1>8, <2>1, SendTransmitStep, SendCommandStep
    DEF SendByName, SendCommandByName, NameOrNone
<1> QED
  BY <1>2, <1>3, <1>4, <1>5, <1>6, <1>7, <1>8

-----------------------------------------------------------------------------
LEMMA InitIInv == Init => IInv
<1> SUFFICES ASSUME Init PROVE IInv
  OBVIOUS
<1> USE DEF Init, ConnInit, CenterInit, ClientInit
<1>1. ConnTypeOK
  BY MaxConnAssumption, EmptySeq DEF ConnTypeOK, EndState
<1>2. CenterTypeOK
  BY EmptySeq DEF CenterTypeOK, HandleOrNone, NameOrNone
<1>3. ClientTypeOK
  BY EmptySeq DEF ClientTypeOK, ConnectorState, HandleOrNone, EmptyDirectory
<1>4. MadeInOrder /\ OpenHasHandle /\ HandlesUnique /\ OwnHandle
  BY DEF MadeInOrder, OpenHasHandle, HandlesUnique, OwnHandle, NoConn
<1>5. OwnMessagesOnly
  BY EmptySeq DEF OwnMessagesOnly, Downs
<1> QED
  BY <1>1, <1>2, <1>3, <1>4, <1>5 DEF IInv, TypeOK

LEMMA StepIInv == IInv /\ [Next]_vars => IInv'
<1> SUFFICES ASSUME IInv, [Next]_vars PROVE IInv'
  OBVIOUS
<1>1. CASE CenterStep \/ SyncStep
  BY <1>1, CenterSteps
<1>2. CASE ClientStep
  BY <1>2, ClientSteps
<1>3. CASE UNCHANGED vars
  <2>1. TypeOK'
    BY <1>3 DEF vars, IInv, TypeOK, ConnTypeOK, CenterTypeOK, ClientTypeOK
  <2>2. MadeInOrder' /\ OpenHasHandle' /\ HandlesUnique' /\ OwnHandle' /\ OwnMessagesOnly'
    BY <1>3 DEF vars, IInv, MadeInOrder, OpenHasHandle, HandlesUnique, OwnHandle,
                OwnMessagesOnly, Downs, OwnMessages
  <2> QED
    BY <2>1, <2>2 DEF IInv
<1> QED
  BY <1>1, <1>2, <1>3 DEF Next

LEMMA InvariantIInv == Spec => []IInv
BY InitIInv, StepIInv, PTL DEF Spec

(* Every variable of the star has its type, whatever the number of clients *)
(* and whichever connections, processes and descriptors come and go.       *)
THEOREM TypeCorrect == Spec => []TypeOK
BY InvariantIInv, PTL DEF IInv

(* A descriptor names one open session of ServerCenter at a time, and the  *)
(* table m_Sessions never holds a session that is closed: AddSession,      *)
(* OnSessionError, the sweep of Tick and a restart keep them together.     *)
THEOREM UniqueHandles == Spec => []HandlesUnique
BY InvariantIInv, PTL DEF IInv

(* A client never sends under a handle of an earlier session: SetSession   *)
(* resets it, and a MyHandle that is under way is that of its connection.  *)
THEOREM OwnHandles == Spec => []OwnHandle
BY InvariantIInv, PTL DEF IInv

-----------------------------------------------------------------------------
(* What travels *)

(* Some connection has, or had, the descriptor h, and its client the name n. *)
Known(n, h) ==
    \E e \in Conns : fd[e] = h /\ owner[e] \in Clients /\ NameOf[owner[e]] = n

(* The transmit m is the one that was sent under its id, from the session  *)
(* whose descriptor it gives as the source.                                *)
TransmitAsSent(m) ==
    /\ m.id \in DOMAIN sent
    /\ m.dest = sent[m.id].dest
    /\ m.src = fd[sent[m.id].conn]

WasDelivered(id) == \E i \in DOMAIN delivered : delivered[i].id = id

(* A result goes to the source of its transmit; a success tells of one     *)
(* that was delivered.                                                     *)
ResultAsMeant(m) ==
    /\ m.of \in DOMAIN sent
    /\ m.dest = fd[sent[m.of].conn]
    /\ m.ok => WasDelivered(m.of)

(* The messages that may be on their way up connection c. *)
GoodUps(c) ==
    {m \in UpMessage :
        /\ m.class = "MyName" => owner[c] \in Clients /\ m.name = NameOf[owner[c]]
        /\ m.class = "Transmit" => TransmitAsSent(m)
        /\ m.class = "TransmitResult" => ResultAsMeant(m) /\ m.ok}

(* And down connection c. *)
GoodDowns(c) ==
    {m \in DownMessage :
        /\ m.class = "AddNameHandle" => Known(m.name, m.handle)
        /\ m.class = "Transmit" => TransmitAsSent(m) /\ m.dest = fd[c]
        /\ m.class = "TransmitResult" => ResultAsMeant(m) /\ (m.ok => m.dest = fd[c])}

GoodMessages ==
    \A c \in Conns : up[c] \in Seq(GoodUps(c)) /\ down[c] \in Seq(GoodDowns(c))

(* A connection has its owner from the start and a descriptor once it is   *)
(* accepted.                                                               *)
Owned ==
    /\ \A c \in Conns :
          /\ centerEnd[c] = "none" => owner[c] = NoClient
          /\ centerEnd[c] # "none" => owner[c] \in Clients
          /\ centerEnd[c] \in {"none", "backlog"} => fd[c] = NoHandle
    /\ \A p \in Clients : session[p] # NoConn => owner[session[p]] = p

(* The center knows a session by the name of its client. *)
ValuesTrue ==
    \A c \in Conns :
        value[c] # NoName => owner[c] \in Clients /\ value[c] = NameOf[owner[c]]

(* The directories tell of clients that had the descriptor. *)
DirectoriesTrue ==
    \A p \in Clients : \A n \in Names :
        nameHandles[p][n] # NoHandle => Known(n, nameHandles[p][n])

SentTrue ==
    \A i \in DOMAIN sent :
        /\ fd[sent[i].conn] # NoHandle
        /\ sent[i].name # NoName => Known(sent[i].name, sent[i].dest)

DeliveredTrue ==
    \A i \in DOMAIN delivered :
        /\ delivered[i].id \in DOMAIN sent
        /\ fd[delivered[i].conn] = sent[delivered[i].id].dest

AnsweredTrue ==
    \A i \in DOMAIN answered :
        /\ answered[i].id \in DOMAIN sent
        /\ answered[i].ok => /\ WasDelivered(answered[i].id)
                             /\ fd[answered[i].conn] = fd[sent[answered[i].id].conn]

(* m carries the data of transmit id, or the news that it failed. *)
Carries(m, id) ==
    \/ m.class = "Transmit" /\ m.id = id
    \/ m.class = "TransmitResult" /\ m.of = id /\ ~m.ok

(* Transmit id is at position i of the channel or the history k; c is the  *)
(* connection of a channel.                                                *)
Holds(k, c, i, id) ==
    \/ k = "up" /\ c \in Conns /\ i \in DOMAIN up[c] /\ Carries(up[c][i], id)
    \/ k = "down" /\ c \in Conns /\ i \in DOMAIN down[c] /\ Carries(down[c][i], id)
    \/ k = "delivered" /\ c = NoConn /\ i \in DOMAIN delivered /\ delivered[i].id = id
    \/ /\ k = "answered" /\ c = NoConn /\ i \in DOMAIN answered
       /\ answered[i].id = id /\ ~answered[i].ok

(* A transmit is at one place: on its way, delivered, or refused. *)
OnePlace ==
    \A id, k, c, i, l, d, j :
        Holds(k, c, i, id) /\ Holds(l, d, j, id) => k = l /\ c = d /\ i = j

(* The inductive invariant, on top of IInv. *)
MInv ==
    /\ IInv
    /\ Owned
    /\ ValuesTrue
    /\ DirectoriesTrue
    /\ SentTrue
    /\ DeliveredTrue
    /\ AnsweredTrue
    /\ GoodMessages
    /\ OnePlace

(* What no step takes back. *)
Grows ==
    /\ \A c \in Conns : owner[c] \in Clients => owner'[c] = owner[c]
    /\ \A c \in Conns : fd[c] # NoHandle => fd'[c] = fd[c]
    /\ \A i \in DOMAIN sent : i \in DOMAIN sent' /\ sent'[i] = sent[i]
    /\ \A i \in DOMAIN delivered : i \in DOMAIN delivered' /\ delivered'[i] = delivered[i]

-----------------------------------------------------------------------------
LEMMA SeqElements ==
    ASSUME NEW S, NEW s \in Seq(S)
    PROVE  \A i \in DOMAIN s : s[i] \in S
OBVIOUS

(* The records of the histories have their types. *)
LEMMA HistoryTypes ==
    ASSUME IInv
    PROVE  /\ \A i \in DOMAIN sent : sent[i] \in SentType /\ sent[i].conn \in Conns
                 /\ sent[i].dest \in Handles /\ sent[i].name \in NameOrNone
           /\ \A i \in DOMAIN delivered : delivered[i].conn \in Conns /\ delivered[i].id \in Nat
           /\ \A i \in DOMAIN answered :
                 /\ answered[i].conn \in Conns
                 /\ answered[i].id \in Nat
                 /\ answered[i].ok \in BOOLEAN
<1>1. \A i \in DOMAIN sent : sent[i] \in SentType
  BY SeqElements DEF IInv, TypeOK, ClientTypeOK
<1>2. \A i \in DOMAIN delivered : delivered[i] \in [id : Nat, conn : Conns]
  BY SeqElements DEF IInv, TypeOK, ClientTypeOK
<1>3. \A i \in DOMAIN answered : answered[i] \in [id : Nat, conn : Conns, ok : BOOLEAN]
  BY SeqElements DEF IInv, TypeOK, ClientTypeOK
<1> QED
  BY <1>1, <1>2, <1>3 DEF SentType

(* What was true of a message, of a name or of the history stays true. *)
LEMMA KnownStays ==
    ASSUME Grows, NEW n, NEW h, h # NoHandle, Known(n, h)
    PROVE  Known(n, h)'
BY DEF Grows, Known

LEMMA TransmitStays ==
    ASSUME IInv, SentTrue, Grows, NEW m, TransmitAsSent(m)
    PROVE  TransmitAsSent(m)'
<1>1. sent[m.id].conn \in Conns /\ fd[sent[m.id].conn] # NoHandle
  BY HistoryTypes DEF TransmitAsSent, SentTrue
<1> QED
  BY <1>1 DEF Grows, TransmitAsSent

LEMMA ResultStays ==
    ASSUME IInv, SentTrue, Grows, NEW m, ResultAsMeant(m)
    PROVE  ResultAsMeant(m)'
<1>1. sent[m.of].conn \in Conns /\ fd[sent[m.of].conn] # NoHandle
  BY HistoryTypes DEF ResultAsMeant, SentTrue
<1>2. WasDelivered(m.of) => WasDelivered(m.of)'
  BY DEF Grows, WasDelivered
<1> QED
  BY <1>1, <1>2 DEF Grows, ResultAsMeant

LEMMA GoodUpsStay ==
    ASSUME IInv, SentTrue, Grows, NEW c \in Conns
    PROVE  GoodUps(c) \subseteq GoodUps(c)'
<1> SUFFICES ASSUME NEW m \in GoodUps(c) PROVE m \in GoodUps(c)'
  OBVIOUS
<1>1. m.class = "Transmit" => TransmitAsSent(m)'
  BY TransmitStays DEF GoodUps
<1>2. m.class = "TransmitResult" => ResultAsMeant(m)'
  BY ResultStays DEF GoodUps
<1> QED
  BY <1>1, <1>2 DEF GoodUps, Grows

(* Destinations are descriptors. *)
LEMMA DestIsHandle ==
    ASSUME IInv, SentTrue, NEW m
    PROVE  /\ TransmitAsSent(m) => m.dest \in Handles /\ m.dest # NoHandle
           /\ ResultAsMeant(m) => m.dest # NoHandle
BY HandlesAssumption, HistoryTypes DEF TransmitAsSent, ResultAsMeant, SentTrue

LEMMA GoodDownsStay ==
    ASSUME IInv, SentTrue, Grows, NEW c \in Conns
    PROVE  GoodDowns(c) \subseteq GoodDowns(c)'
<1> SUFFICES ASSUME NEW m \in GoodDowns(c) PROVE m \in GoodDowns(c)'
  OBVIOUS
<1>1. m.class = "AddNameHandle" => Known(m.name, m.handle)'
  <2> HAVE m.class = "AddNameHandle"
  <2>1. m.handle \in Handles /\ Known(m.name, m.handle)
    BY DEF GoodDowns, DownMessage, TransmitType, TransmitResultType, CommandType
  <2> QED
    BY <2>1, HandlesAssumption, KnownStays
<1>2. m.class = "Transmit" => TransmitAsSent(m)' /\ m.dest = fd'[c]
  BY TransmitStays, DestIsHandle DEF GoodDowns, Grows
<1>3. m.class = "TransmitResult" => ResultAsMeant(m)' /\ (m.ok => m.dest = fd'[c])
  BY ResultStays, DestIsHandle DEF GoodDowns, Grows
<1> QED
  BY <1>1, <1>2, <1>3 DEF GoodDowns

(* Each record of a history stays true, so a history does that does not    *)
(* grow.                                                                   *)
LEMMA RecordsStay ==
    ASSUME MInv, Grows
    PROVE  /\ \A i \in DOMAIN sent :
                 /\ fd'[sent[i].conn] # NoHandle
                 /\ sent[i].name # NoName => Known(sent[i].name, sent[i].dest)'
           /\ \A i \in DOMAIN delivered :
                 /\ delivered[i].id \in DOMAIN sent'
                 /\ fd'[delivered[i].conn] = sent'[delivered[i].id].dest
           /\ \A i \in DOMAIN answered :
                 /\ answered[i].id \in DOMAIN sent'
                 /\ answered[i].ok =>
                       /\ \E j \in DOMAIN delivered' : delivered'[j].id = answered[i].id
                       /\ fd'[answered[i].conn] = fd'[sent'[answered[i].id].conn]
<1> USE DEF MInv
<1>1. ASSUME NEW i \in DOMAIN sent
      PROVE  /\ fd'[sent[i].conn] # NoHandle
             /\ sent[i].name # NoName => Known(sent[i].name, sent[i].dest)'
  <2>1. sent[i].conn \in Conns /\ sent[i].dest # NoHandle
    BY HistoryTypes, HandlesAssumption
  <2>2. Known(sent[i].name, sent[i].dest) => Known(sent[i].name, sent[i].dest)'
    <3> DEFINE n == sent[i].name
               h == sent[i].dest
    <3>1. ASSUME Known(n, h) PROVE \E e \in Conns : /\ fd'[e] = h /\ owner'[e] \in Clients
                                                     /\ NameOf[owner'[e]] = n
      BY <2>1, <3>1 DEF Known, Grows
    <3> QED
      BY <2>1, <3>1 DEF Known, Grows
  <2> QED
    BY <2>1, <2>2 DEF SentTrue, Grows
<1>2. \A i \in DOMAIN delivered :
         /\ delivered[i].id \in DOMAIN sent'
         /\ fd'[delivered[i].conn] = sent'[delivered[i].id].dest
  BY HistoryTypes, HandlesAssumption DEF DeliveredTrue, Grows
<1>3. \A i \in DOMAIN answered :
         /\ answered[i].id \in DOMAIN sent'
         /\ answered[i].ok =>
               /\ \E j \in DOMAIN delivered' : delivered'[j].id = answered[i].id
               /\ fd'[answered[i].conn] = fd'[sent'[answered[i].id].conn]
  BY HistoryTypes DEF AnsweredTrue, SentTrue, WasDelivered, Grows
<1> QED
  BY <1>1, <1>2, <1>3

LEMMA HistoryStays ==
    ASSUME MInv, Grows
    PROVE  /\ UNCHANGED sent => SentTrue'
           /\ UNCHANGED delivered => DeliveredTrue'
           /\ UNCHANGED answered => AnsweredTrue'
<1>1. UNCHANGED sent => SentTrue'
  BY RecordsStay DEF SentTrue, Known
<1>2. UNCHANGED delivered => DeliveredTrue'
  BY RecordsStay DEF DeliveredTrue
<1>3. UNCHANGED answered => AnsweredTrue'
  BY RecordsStay DEF AnsweredTrue, WasDelivered
<1> QED
  BY <1>1, <1>2, <1>3

LEMMA DirectoriesStay ==
    ASSUME DirectoriesTrue, Grows, UNCHANGED nameHandles
    PROVE  DirectoriesTrue'
BY DEF DirectoriesTrue, Known, Grows

-----------------------------------------------------------------------------
(* A step of the center opens, closes and names connections in this way. *)
EndsMove ==
    /\ owner' = owner
    /\ \A c \in Conns :
          \/ centerEnd'[c] = centerEnd[c] /\ fd'[c] = fd[c]
          \/ centerEnd[c] = "backlog" /\ centerEnd'[c] = "open"
          \/ centerEnd[c] \in {"backlog", "open"} /\ centerEnd'[c] = "closed" /\ fd'[c] = fd[c]

LEMMA CenterMovesEnds ==
    ASSUME IInv, CenterStep \/ SyncStep
    PROVE  EndsMove
<1> USE DEF IInv, TypeOK, ConnTypeOK, CenterTypeOK
<1>1. CASE SyncStep
  BY <1>1 DEF SyncStep, Tick, EndsMove
<1>2. CASE CenterStep
  <2>1. ASSUME NEW c \in Conns, NEW h \in Handles, AddSession(c, h) PROVE EndsMove
    BY <2>1 DEF AddSession, EndsMove
  <2>2. ASSUME NEW c \in Conns, HandleMyName(c) PROVE EndsMove
    BY <2>2 DEF HandleMyName, Answer, EndsMove
  <2>3. ASSUME NEW c \in Conns, HandleTransmit(c) \/ HandleTransmitResult(c) PROVE EndsMove
    BY <2>3 DEF HandleTransmit, HandleTransmitResult, Answer, centerVars, EndsMove
  <2>4. ASSUME NEW c \in Conns, HandleCommand(c) PROVE EndsMove
    BY <2>4 DEF HandleCommand, Answer, EndsMove
  <2>5. ASSUME NEW c \in Conns, OnSessionError(c) PROVE EndsMove
    BY <2>5 DEF OnSessionError, EndsMove
  <2>6. CASE Tick(FALSE)
    BY <2>6 DEF Tick, EndsMove
  <2>7. CASE ScriptRun
    BY <2>7 DEF ScriptRun, connVars, EndsMove
  <2>8. CASE CenterRestart
    BY <2>8 DEF CenterRestart, EndsMove
  <2> QED
    BY <1>2, <2>1, <2>2, <2>3, <2>4, <2>5, <2>6, <2>7, <2>8 DEF CenterStep, CenterNext
<1> QED
  BY <1>1, <1>2

LEMMA CenterGrows ==
    ASSUME IInv, Owned, CenterStep \/ SyncStep
    PROVE  Owned' /\ Grows
<1>1. EndsMove
  BY CenterMovesEnds
<1>2. UNCHANGED <<session, sent, delivered>>
  BY DEF CenterStep, SyncStep, clientVars, historyVars
<1>3. Owned'
  BY <1>1, <1>2 DEF Owned, EndsMove
<1>4. Grows
  BY <1>1, <1>2 DEF Owned, EndsMove, Grows
<1> QED
  BY <1>3, <1>4

LEMMA AppendKeeps ==
    ASSUME NEW S, NEW s \in Seq(S), NEW e \in S
    PROVE  \A i \in DOMAIN s : i \in DOMAIN Append(s, e) /\ Append(s, e)[i] = s[i]
OBVIOUS

(* A step of a client that makes no connection. *)
LEMMA SameConnections ==
    ASSUME IInv, Owned, UNCHANGED <<owner, centerEnd, fd>>,
           \A p \in Clients : session'[p] \in {session[p], NoConn},
           \/ sent' = sent
           \/ \E e \in SentType : sent' = Append(sent, e),
           \/ delivered' = delivered
           \/ \E e \in [id : Nat, conn : Conns] : delivered' = Append(delivered, e)
    PROVE  Owned' /\ Grows
<1>1. sent \in Seq(SentType) /\ delivered \in Seq([id : Nat, conn : Conns])
  BY DEF IInv, TypeOK, ClientTypeOK
<1>2. \A i \in DOMAIN sent : i \in DOMAIN sent' /\ sent'[i] = sent[i]
  BY <1>1, AppendKeeps
<1>3. \A i \in DOMAIN delivered : i \in DOMAIN delivered' /\ delivered'[i] = delivered[i]
  BY <1>1, AppendKeeps
<1> QED
  BY <1>2, <1>3 DEF Owned, Grows

LEMMA ConnectedGrows ==
    ASSUME IInv, Owned, NEW p \in Clients, OnConnected(p), UNCHANGED centerVars
    PROVE  Owned' /\ Grows
<1> DEFINE c == nConn + 1
<1>1. c \in Conns /\ centerEnd[c] = "none"
  BY MaxConnAssumption DEF OnConnected, Conns, IInv, MadeInOrder, TypeOK, ConnTypeOK
<1>2. /\ owner' = [owner EXCEPT ![c] = p]
      /\ centerEnd' = [centerEnd EXCEPT ![c] = "backlog"]
      /\ session' = [session EXCEPT ![p] = c]
      /\ UNCHANGED historyVars
  BY DEF OnConnected
<1> HIDE DEF c
<1>3. owner[c] \notin Clients /\ fd[c] = NoHandle
  BY <1>1, ClientsAssumption DEF Owned
<1>4. /\ \A d \in Conns : owner'[d] = IF d = c THEN p ELSE owner[d]
      /\ \A d \in Conns : centerEnd'[d] = IF d = c THEN "backlog" ELSE centerEnd[d]
      /\ \A r \in Clients : session'[r] = IF r = p THEN c ELSE session[r]
      /\ \A r \in Clients : session[r] \in Conns \cup {NoConn}
  BY <1>2 DEF IInv, TypeOK, ConnTypeOK, ClientTypeOK
<1>5. Owned'
  BY <1>1, <1>3, <1>4 DEF Owned, centerVars
<1>6. Grows
  BY <1>2, <1>3, <1>4 DEF Grows, centerVars, historyVars
<1> QED
  BY <1>5, <1>6

-----------------------------------------------------------------------------
(* Position i was position Before(k, c, i, ks, cs) if the step has read    *)
(* the first message of the channel ks of connection cs.                   *)
Before(k, c, i, ks, cs) == IF k = ks /\ c = cs THEN i + 1 ELSE i

(* Each transmit is where it was before. *)
Unmoved(ks, cs) ==
    \A id, k, c, i :
        Holds(k, c, i, id)' => i \in Nat /\ Holds(k, c, Before(k, c, i, ks, cs), id)

(* Transmit id0 is at position i0 of k0, c0 and nowhere else; the others   *)
(* are where they were before.                                             *)
OnlyMoved(ks, cs, k0, c0, i0, id0) ==
    \A id, k, c, i :
        Holds(k, c, i, id)' =>
            \/ k = k0 /\ c = c0 /\ i = i0 /\ id = id0
            \/ id # id0 /\ i \in Nat /\ Holds(k, c, Before(k, c, i, ks, cs), id)

LEMMA NothingMoves ==
    ASSUME OnePlace, NEW ks, NEW cs, Unmoved(ks, cs)
    PROVE  OnePlace'
<1> SUFFICES ASSUME NEW id, NEW k, NEW c, NEW i, NEW l, NEW d, NEW j,
                    Holds(k, c, i, id)', Holds(l, d, j, id)'
             PROVE  k = l /\ c = d /\ i = j
  BY DEF OnePlace
<1>1. /\ i \in Nat /\ Holds(k, c, Before(k, c, i, ks, cs), id)
      /\ j \in Nat /\ Holds(l, d, Before(l, d, j, ks, cs), id)
  BY DEF Unmoved
<1>2. k = l /\ c = d /\ Before(k, c, i, ks, cs) = Before(l, d, j, ks, cs)
  BY <1>1 DEF OnePlace
<1> QED
  BY <1>1, <1>2 DEF Before

LEMMA OneMoves ==
    ASSUME OnePlace, NEW ks, NEW cs, NEW k0, NEW c0, NEW i0, NEW id0,
           OnlyMoved(ks, cs, k0, c0, i0, id0)
    PROVE  OnePlace'
<1> SUFFICES ASSUME NEW id, NEW k, NEW c, NEW i, NEW l, NEW d, NEW j,
                    Holds(k, c, i, id)', Holds(l, d, j, id)'
             PROVE  k = l /\ c = d /\ i = j
  BY DEF OnePlace
<1>1. CASE id = id0
  BY <1>1 DEF OnlyMoved
<1>2. CASE id # id0
  <2>1. /\ i \in Nat /\ Holds(k, c, Before(k, c, i, ks, cs), id)
        /\ j \in Nat /\ Holds(l, d, Before(l, d, j, ks, cs), id)
    BY <1>2 DEF OnlyMoved
  <2>2. k = l /\ c = d /\ Before(k, c, i, ks, cs) = Before(l, d, j, ks, cs)
    BY <2>1 DEF OnePlace
  <2> QED
    BY <2>1, <2>2 DEF Before
<1> QED
  BY <1>1, <1>2

LEMMA NotRead ==
    ASSUME NEW k, NEW c, NEW i, NEW id, Holds(k, c, i, id)'
    PROVE  Before(k, c, i, "none", NoConn) = i
BY DEF Holds, Before

LEMMA TailElements ==
    ASSUME NEW S, NEW s \in Seq(S), s # <<>>
    PROVE  /\ Tail(s) \in Seq(S)
           /\ \A i \in DOMAIN Tail(s) : i \in Nat /\ i # 0 /\ i + 1 \in DOMAIN s /\ Tail(s)[i] = s[i + 1]
OBVIOUS

LEMMA ConcatElements ==
    ASSUME NEW S, NEW s \in Seq(S), NEW t \in Seq(S)
    PROVE  \A i \in DOMAIN (s \o t) :
               /\ i \in Nat
               /\ \/ i \in DOMAIN s /\ (s \o t)[i] = s[i]
                  \/ \E j \in DOMAIN t : i = Len(s) + j /\ (s \o t)[i] = t[j]
OBVIOUS

(* Messages that neither carry a transmit nor tell of its failure. *)
IsPlain(m) == m.class # "Transmit" /\ (m.class = "TransmitResult" => m.ok)

PlainDowns(c) == {m \in GoodDowns(c) : IsPlain(m)}

GoodOuts == {o \in [Conns -> Seq(DownMessage)] : \A c \in Conns : o[c] \in Seq(GoodDowns(c))}
PlainOuts == {o \in [Conns -> Seq(DownMessage)] : \A c \in Conns : o[c] \in Seq(PlainDowns(c))}

LEMMA PlainIsGood == PlainOuts \subseteq GoodOuts
<1>1. \A c \in Conns : Seq(PlainDowns(c)) \subseteq Seq(GoodDowns(c))
  BY SeqMonotone DEF PlainDowns
<1> QED
  BY <1>1 DEF PlainOuts, GoodOuts

LEMMA PlainOutsIntro ==
    ASSUME NEW o, o = [c \in Conns |-> o[c]], \A c \in Conns : o[c] \in Seq(PlainDowns(c))
    PROVE  o \in PlainOuts
<1>1. \A c \in Conns : Seq(PlainDowns(c)) \subseteq Seq(DownMessage)
  BY SeqMonotone DEF PlainDowns, GoodDowns
<1> QED
  BY <1>1 DEF PlainOuts

(* The center writes messages that are good. *)
LEMMA DownsGood ==
    ASSUME MInv, Grows, NEW o \in GoodOuts, down' = AfterSendDown(o)
    PROVE  \A c \in Conns : down'[c] \in Seq(GoodDowns(c)')
<1> TAKE c \in Conns
<1>1. Seq(GoodDowns(c)) \subseteq Seq(GoodDowns(c)')
  BY GoodDownsStay, SeqMonotone DEF MInv
<1>2. down[c] \in Seq(GoodDowns(c)) /\ o[c] \in Seq(GoodDowns(c))
  BY DEF MInv, GoodMessages, GoodOuts
<1>3. down'[c] \in Seq(GoodDowns(c))
  BY <1>2, ConcatSeq DEF AfterSendDown
<1> QED
  BY <1>1, <1>3

(* Where the messages of a channel come from that the center writes to. *)
LEMMA DownPositions ==
    ASSUME MInv, NEW o \in GoodOuts, down' = AfterSendDown(o), NEW c \in Conns
    PROVE  \A i \in DOMAIN down'[c] :
               /\ i \in Nat
               /\ \/ i \in DOMAIN down[c] /\ down'[c][i] = down[c][i]
                  \/ \E j \in DOMAIN o[c] : i = Len(down[c]) + j /\ down'[c][i] = o[c][j]
<1> DEFINE G == GoodDowns(c)
           s == down[c]
           t == o[c]
<1>1. s \in Seq(G) /\ t \in Seq(G)
  BY DEF MInv, GoodMessages, GoodOuts
<1>2. down'[c] = IF clientEnd[c] = "closed" THEN s ELSE s \o t
  BY DEF AfterSendDown
<1> HIDE DEF G, s, t
<1>3. \A i \in DOMAIN (s \o t) :
         /\ i \in Nat
         /\ \/ i \in DOMAIN s /\ (s \o t)[i] = s[i]
            \/ \E j \in DOMAIN t : i = Len(s) + j /\ (s \o t)[i] = t[j]
  BY <1>1, ConcatElements
<1>4. \A i \in DOMAIN s : i \in Nat
  BY <1>1
<1> QED
  BY ZenonT(60), <1>2, <1>3, <1>4 DEF s, t

(* What the center writes that is plain moves no transmit. *)
LEMMA DownsPlain ==
    ASSUME MInv, NEW o \in PlainOuts, down' = AfterSendDown(o), NEW c \in Conns
    PROVE  \A i \in DOMAIN down'[c] : \A id :
               Carries(down'[c][i], id) =>
                   i \in Nat /\ i \in DOMAIN down[c] /\ Carries(down[c][i], id)
<1>1. o \in GoodOuts /\ o[c] \in Seq(PlainDowns(c))
  BY PlainIsGood DEF PlainOuts
<1>2. \A j \in DOMAIN o[c] : IsPlain(o[c][j])
  BY <1>1, SeqElements DEF PlainDowns
<1>3. \A i \in DOMAIN down'[c] :
         /\ i \in Nat
         /\ \/ i \in DOMAIN down[c] /\ down'[c][i] = down[c][i]
            \/ \E j \in DOMAIN o[c] : down'[c][i] = o[c][j]
  BY <1>1, DownPositions
<1> QED
  BY <1>2, <1>3 DEF Carries, IsPlain

(* What happens up the connection that the center reads from. *)
LEMMA UpsRead ==
    ASSUME MInv, Grows, NEW c \in Conns, NEW class, Reads(c, class), NEW o, Answer(c, o)
    PROVE  /\ Head(up[c]) \in GoodUps(c) /\ Head(up[c]).class = class
           /\ up[c] # <<>> /\ 1 \in DOMAIN up[c] /\ Head(up[c]) = up[c][1]
           /\ \A d \in Conns : up'[d] \in Seq(GoodUps(d)')
           /\ \A d \in Conns : \A i \in DOMAIN up'[d] :
                 IF d = c THEN i \in Nat /\ i # 0 /\ i + 1 \in DOMAIN up[d] /\ up'[d][i] = up[d][i + 1]
                          ELSE i \in Nat /\ i \in DOMAIN up[d] /\ up'[d][i] = up[d][i]
<1>1. \A d \in Conns : up[d] \in Seq(GoodUps(d))
  BY DEF MInv, GoodMessages
<1>2. up[c] # <<>> /\ Head(up[c]).class = class
  BY DEF Reads
<1>3. \A d \in Conns : up'[d] = IF d = c THEN Tail(up[c]) ELSE up[d]
  BY DEF Answer, MInv, IInv, TypeOK, ConnTypeOK
<1>4. \A d \in Conns : Seq(GoodUps(d)) \subseteq Seq(GoodUps(d)')
  BY GoodUpsStay, SeqMonotone DEF MInv
<1>5. Head(up[c]) \in GoodUps(c) /\ 1 \in DOMAIN up[c] /\ Head(up[c]) = up[c][1]
  BY <1>1, <1>2
<1>6. /\ Tail(up[c]) \in Seq(GoodUps(c))
      /\ \A i \in DOMAIN Tail(up[c]) : i \in Nat /\ i # 0 /\ i + 1 \in DOMAIN up[c]
                                         /\ Tail(up[c])[i] = up[c][i + 1]
  BY <1>1, <1>2, TailElements
<1>7. \A d \in Conns : up'[d] \in Seq(GoodUps(d)')
  BY <1>1, <1>3, <1>4, <1>6
<1>8. \A d \in Conns : \A i \in DOMAIN up[d] : i \in Nat
  BY <1>1
<1> QED
  BY <1>2, <1>3, <1>5, <1>6, <1>7, <1>8

-----------------------------------------------------------------------------
(* A handler of the center that answers with plain messages. *)
LEMMA PlainAnswer ==
    ASSUME MInv, IInv', Owned', Grows, NEW c \in Conns, NEW class, Reads(c, class),
           NEW o \in PlainOuts, Answer(c, o), ValuesTrue',
           UNCHANGED clientVars, UNCHANGED historyVars
    PROVE  MInv'
<1>1. down' = AfterSendDown(o) /\ o \in GoodOuts
  BY PlainIsGood DEF Answer
<1>2. GoodMessages'
  BY <1>1, DownsGood, UpsRead DEF GoodMessages
<1>3. SentTrue' /\ DeliveredTrue' /\ AnsweredTrue' /\ DirectoriesTrue'
  BY HistoryStays, DirectoriesStay DEF MInv, clientVars, historyVars
<1>4. OnePlace'
  <2> SUFFICES Unmoved("up", c)
    BY NothingMoves DEF MInv
  <2> SUFFICES ASSUME NEW id, NEW k, NEW d, NEW i, Holds(k, d, i, id)'
               PROVE  i \in Nat /\ Holds(k, d, Before(k, d, i, "up", c), id)
    BY DEF Unmoved
  <2> USE DEF Before
  <2>1. CASE k = "up" /\ d \in Conns /\ i \in DOMAIN up'[d] /\ Carries(up'[d][i], id)
    BY <2>1, UpsRead DEF Holds
  <2>2. CASE k = "down" /\ d \in Conns /\ i \in DOMAIN down'[d] /\ Carries(down'[d][i], id)
    BY <1>1, <2>2, DownsPlain DEF Holds
  <2>3. CASE k \notin {"up", "down"}
    <3>1. delivered \in Seq([id : Nat, conn : Conns])
          /\ answered \in Seq([id : Nat, conn : Conns, ok : BOOLEAN])
      BY DEF MInv, IInv, TypeOK, ClientTypeOK
    <3> QED
      BY <2>3, <3>1 DEF Holds, historyVars
  <2> QED
    BY <2>1, <2>2, <2>3 DEF Holds
<1> QED
  BY <1>2, <1>3, <1>4 DEF MInv

LEMMA SilencePlain == Silence \in PlainOuts
<1>1. \A c \in Conns : Silence[c] = <<>>
  BY DEF Silence
<1>2. Silence = [c \in Conns |-> Silence[c]]
  BY DEF Silence
<1> QED
  BY <1>1, <1>2, EmptySeq, PlainOutsIntro

LEMMA ToGood ==
    ASSUME NEW c \in Conns, NEW m \in GoodDowns(c)
    PROVE  /\ To(c, <<m>>) \in GoodOuts
           /\ IsPlain(m) => To(c, <<m>>) \in PlainOuts
           /\ \A d \in Conns : To(c, <<m>>)[d] = IF d = c THEN <<m>> ELSE <<>>
<1> DEFINE o == To(c, <<m>>)
<1>1. \A d \in Conns : o[d] = IF d = c THEN <<m>> ELSE <<>>
  BY DEF To, Silence
<1>2. o = [d \in Conns |-> o[d]]
  BY DEF To, Silence
<1>3. <<m>> \in Seq(GoodDowns(c)) /\ <<m>> \in Seq(DownMessage)
  BY DEF GoodDowns
<1> HIDE DEF o
<1>4. o \in GoodOuts
  BY <1>1, <1>2, <1>3, EmptySeq DEF GoodOuts
<1>5. ASSUME IsPlain(m) PROVE o \in PlainOuts
  <2>1. <<m>> \in Seq(PlainDowns(c))
    BY <1>5 DEF PlainDowns
  <2> QED
    BY <1>1, <1>2, <2>1, EmptySeq, PlainOutsIntro
<1> QED
  BY <1>1, <1>4, <1>5 DEF o

LEMMA ToOthersPlain ==
    ASSUME NEW S, NEW h, NEW m, \A c \in Conns : m \in PlainDowns(c)
    PROVE  ToOthers(S, h, m) \in PlainOuts
<1> DEFINE o == ToOthers(S, h, m)
<1>1. \A c \in Conns : o[c] = IF c \in S /\ fd[c] # h THEN <<m>> ELSE <<>>
  BY DEF ToOthers
<1>2. o = [c \in Conns |-> o[c]]
  BY DEF ToOthers
<1>3. \A c \in Conns : <<m>> \in Seq(PlainDowns(c))
  OBVIOUS
<1>4. \A c \in Conns : o[c] \in Seq(PlainDowns(c))
  BY <1>1, <1>3, EmptySeq
<1> QED
  BY <1>2, <1>4, PlainOutsIntro

(* The list tells the names of the clients. *)
LEMMA NameHandleListPlain ==
    ASSUME IInv, ValuesTrue, NEW S \in SUBSET sessions, NEW d \in Conns
    PROVE  NameHandleList(S) \in Seq(PlainDowns(d))
<1> DEFINE T == {c \in S : value[c] # NoName}
           q == InOrder(T)
<1>1. T \in SUBSET Conns /\ \A c \in sessions : fd[c] \in Handles
  BY DEF IInv, HandlesUnique, OpenHasHandle, TypeOK, CenterTypeOK
<1>2. q \in Seq(T)
  BY <1>1, InOrderType
<1>3. \A i \in DOMAIN q : AddNameHandle(value[q[i]], fd[q[i]]) \in PlainDowns(d)
  <2> TAKE i \in DOMAIN q
  <2>1. q[i] \in T
    BY <1>2
  <2>2. q[i] \in Conns /\ value[q[i]] \in Names /\ fd[q[i]] \in Handles
    BY <1>1, <2>1 DEF IInv, TypeOK, CenterTypeOK, NameOrNone
  <2>3. Known(value[q[i]], fd[q[i]])
    BY <2>1, <2>2 DEF ValuesTrue, Known
  <2> QED
    BY <2>2, <2>3 DEF PlainDowns, GoodDowns, DownMessage, AddNameHandle, IsPlain
<1>4. DOMAIN q = 1..Len(q) /\ Len(q) \in Nat
  BY <1>2
<1> HIDE DEF q
<1>5. [i \in DOMAIN q |-> AddNameHandle(value[q[i]], fd[q[i]])] \in Seq(PlainDowns(d))
  BY <1>3, <1>4
<1> QED
  BY <1>5 DEF NameHandleList, q

LEMMA NameKeeps ==
    ASSUME MInv, IInv', Owned', Grows, NEW c \in Conns, HandleMyName(c),
           UNCHANGED clientVars, UNCHANGED historyVars
    PROVE  MInv'
<1> DEFINE n == Head(up[c]).name
<1>1. /\ n \in Names /\ owner[c] \in Clients /\ n = NameOf[owner[c]]
      /\ Reads(c, "MyName") /\ owner' = owner
  <2>1. Reads(c, "MyName") /\ \E o : Answer(c, o)
    BY DEF HandleMyName
  <2>2. Head(up[c]) \in GoodUps(c) /\ Head(up[c]).class = "MyName"
    BY <2>1, UpsRead
  <2> QED
    BY <2>1, <2>2 DEF GoodUps, UpMessage, TransmitType, TransmitResultType, CommandType, Answer
<1>2. CASE c \in sessions
  <2> DEFINE others == ToOthers(sessions, fd[c], AddNameHandle(n, fd[c]))
             o == [others EXCEPT ![c] = Welcome(c)]
  <2>1. fd[c] \in Handles
    BY <1>1 DEF Reads, MInv, IInv, OpenHasHandle
  <2>2. \A d \in Conns : AddNameHandle(n, fd[c]) \in PlainDowns(d)
    <3>1. Known(n, fd[c])
      BY <1>1 DEF Known
    <3> QED
      BY <1>1, <2>1, <3>1 DEF AddNameHandle, PlainDowns, GoodDowns, DownMessage, IsPlain
  <2> HIDE DEF n
  <2>3. others \in PlainOuts
    BY <2>2, ToOthersPlain
  <2>4. <<MyHandle(fd[c])>> \in Seq(PlainDowns(c))
    BY <2>1 DEF MyHandle, PlainDowns, GoodDowns, DownMessage, IsPlain
  <2>5. NameHandleList(sessions) \in Seq(PlainDowns(c))
    BY NameHandleListPlain DEF MInv
  <2>6. Welcome(c) \in Seq(PlainDowns(c)) /\ Welcome(c) \in Seq(DownMessage)
    <3>1. Welcome(c) \in Seq(PlainDowns(c))
      BY <2>4, <2>5, ConcatSeq DEF Welcome
    <3>2. Seq(PlainDowns(c)) \subseteq Seq(DownMessage)
      BY SeqMonotone DEF PlainDowns, GoodDowns
    <3> QED
      BY <3>1, <3>2
  <2> HIDE DEF others
  <2>7. o \in PlainOuts
    BY <2>3, <2>6 DEF PlainOuts
  <2>8. Answer(c, o) /\ value' = [value EXCEPT ![c] = n]
    BY <1>2 DEF HandleMyName, others, n
  <2>9. ValuesTrue'
    BY <1>1, <2>8 DEF ValuesTrue, MInv, IInv, TypeOK, CenterTypeOK
  <2> QED
    BY <1>1, <2>7, <2>8, <2>9, PlainAnswer
<1>3. CASE c \notin sessions
  <2>1. Answer(c, Silence) /\ value' = value
    BY <1>3 DEF HandleMyName
  <2>2. ValuesTrue'
    BY <1>1, <2>1 DEF ValuesTrue, MInv
  <2> QED
    BY <1>1, <2>1, <2>2, SilencePlain, PlainAnswer
<1> QED
  BY <1>2, <1>3

(* The connection the center has for a descriptor has that descriptor. *)
LEMMA SessionOfHandle ==
    ASSUME IInv, NEW h, CanSend(SessionOf(h))
    PROVE  SessionOf(h) \in Conns /\ fd[SessionOf(h)] = h
BY DEF CanSend, SessionOf, IInv, TypeOK, CenterTypeOK

LEMMA ResultForwarded ==
    ASSUME MInv, IInv', Owned', Grows, NEW c \in Conns, HandleTransmitResult(c),
           UNCHANGED clientVars, UNCHANGED historyVars
    PROVE  MInv'
<1> DEFINE m == Head(up[c])
           d == SessionOf(m.dest)
           o == IF CanSend(d) THEN To(d, <<m>>) ELSE Silence
<1>1. Reads(c, "TransmitResult") /\ Answer(c, o) /\ value' = value /\ owner' = owner
  BY DEF HandleTransmitResult, centerVars, Answer
<1>2. m \in GoodUps(c) /\ m.class = "TransmitResult"
  BY <1>1, UpsRead
<1>3. m \in DownMessage /\ ResultAsMeant(m) /\ m.ok
  BY <1>2 DEF GoodUps, UpMessage, DownMessage
<1> HIDE DEF m
<1>4. CanSend(d) => d \in Conns /\ fd[d] = m.dest
  BY SessionOfHandle DEF MInv
<1> HIDE DEF d
<1>5. CanSend(d) => d \in Conns /\ m \in GoodDowns(d) /\ IsPlain(m)
  BY <1>2, <1>3, <1>4 DEF GoodDowns, IsPlain
<1>6. o \in PlainOuts
  BY <1>5, ToGood, SilencePlain
<1>7. ValuesTrue'
  BY <1>1 DEF ValuesTrue, MInv
<1> HIDE DEF o
<1> QED
  BY <1>1, <1>6, <1>7, PlainAnswer

LEMMA CommandForwarded ==
    ASSUME MInv, IInv', Owned', Grows, NEW c \in Conns, HandleCommand(c),
           UNCHANGED clientVars, UNCHANGED historyVars
    PROVE  MInv'
<1> DEFINE m == Head(up[c])
           d == SessionOf(m.dest)
           o == IF m.dest # NoHandle /\ CanSend(d) THEN To(d, <<m>>) ELSE Silence
<1>1. Reads(c, "Command") /\ Answer(c, o) /\ value' = value /\ owner' = owner
  BY DEF HandleCommand, Answer
<1>2. m \in GoodUps(c) /\ m.class = "Command"
  BY <1>1, UpsRead
<1>3. m \in DownMessage
  BY <1>2 DEF GoodUps, UpMessage, DownMessage
<1> HIDE DEF m
<1>4. CanSend(d) => d \in Conns
  BY SessionOfHandle DEF MInv
<1> HIDE DEF d
<1>5. CanSend(d) => d \in Conns /\ m \in GoodDowns(d) /\ IsPlain(m)
  BY <1>2, <1>3, <1>4 DEF GoodDowns, IsPlain
<1>6. o \in PlainOuts
  BY <1>5, ToGood, SilencePlain
<1>7. ValuesTrue'
  BY <1>1 DEF ValuesTrue, MInv
<1> HIDE DEF o
<1> QED
  BY <1>1, <1>6, <1>7, PlainAnswer

(* HandleTransmit moves the one transmit it has read: down to the session  *)
(* of its destination, or back as a refusal.                               *)
LEMMA TransmitForwarded ==
    ASSUME MInv, IInv', Owned', Grows, NEW c \in Conns, HandleTransmit(c),
           UNCHANGED clientVars, UNCHANGED historyVars
    PROVE  MInv'
<1> DEFINE m == Head(up[c])
           o == ForwardOrRefuse(c, m)
<1>1. Reads(c, "Transmit") /\ Answer(c, o) /\ value' = value /\ owner' = owner
  BY DEF HandleTransmit, centerVars, Answer
<1>2. m \in GoodUps(c) /\ m.class = "Transmit" /\ 1 \in DOMAIN up[c] /\ m = up[c][1]
  BY <1>1, UpsRead
<1>3. m \in DownMessage /\ m \in TransmitType /\ TransmitAsSent(m)
  BY <1>2 DEF GoodUps, UpMessage, DownMessage, TransmitType, TransmitResultType, CommandType
<1>4. Holds("up", c, 1, m.id)
  BY <1>2 DEF Holds, Carries
<1> HIDE DEF m
<1>5. PICK d, r :
          /\ d \in Conns /\ r \in GoodDowns(d) /\ o = To(d, <<r>>)
          /\ \A id : Carries(r, id) => id = m.id
  <2>1. CASE CanSend(SessionOf(m.dest))
    <3> DEFINE s == SessionOf(m.dest)
    <3>1. s \in Conns /\ fd[s] = m.dest
      BY <2>1, SessionOfHandle DEF MInv
    <3>2. m \in GoodDowns(s)
      BY <1>2, <1>3, <3>1 DEF GoodDowns
    <3>3. \A id : Carries(m, id) => id = m.id
      BY <1>2 DEF Carries
    <3> QED
      BY <2>1, <3>1, <3>2, <3>3 DEF ForwardOrRefuse
  <2>2. CASE ~CanSend(SessionOf(m.dest))
    <3> DEFINE r == TransmitResult(m.seq, NoHandle, m.src, FALSE, m.id)
    <3>1. r \in TransmitResultType /\ r.class = "TransmitResult" /\ r.of = m.id /\ ~r.ok
          /\ r.dest = m.src
      BY <1>3 DEF TransmitType, TransmitResult, TransmitResultType, HandleOrNone
    <3> HIDE DEF r
    <3>2. ResultAsMeant(r)
      BY <1>3, <3>1 DEF TransmitAsSent, ResultAsMeant
    <3>3. r \in GoodDowns(c)
      BY <3>1, <3>2 DEF GoodDowns, DownMessage
    <3>4. o = To(c, <<r>>)
      BY <2>2 DEF ForwardOrRefuse, Refuse, r
    <3>5. \A id : Carries(r, id) => id = m.id
      BY <3>1 DEF Carries
    <3> QED
      BY <3>3, <3>4, <3>5
  <2> QED
    BY <2>1, <2>2
<1>6. /\ o \in GoodOuts
      /\ \A e \in Conns : o[e] = IF e = d THEN <<r>> ELSE <<>>
  BY <1>5, ToGood
<1>7. down' = AfterSendDown(o)
  BY <1>1 DEF Answer
<1> HIDE DEF o
<1>8. GoodMessages'
  BY <1>1, <1>6, <1>7, DownsGood, UpsRead DEF GoodMessages
<1>9. SentTrue' /\ DeliveredTrue' /\ AnsweredTrue' /\ DirectoriesTrue' /\ ValuesTrue'
  BY <1>1, HistoryStays, DirectoriesStay DEF MInv, clientVars, historyVars, ValuesTrue
<1>10. OnePlace'
  <2> PICK iq : iq = Len(down[d]) + 1
    OBVIOUS
  <2> SUFFICES OnlyMoved("up", c, "down", d, iq, m.id)
    BY OneMoves DEF MInv
  <2> SUFFICES ASSUME NEW id, NEW k, NEW e, NEW i, Holds(k, e, i, id)'
               PROVE  \/ k = "down" /\ e = d /\ i = iq /\ id = m.id
                      \/ /\ id # m.id /\ i \in Nat
                         /\ Holds(k, e, Before(k, e, i, "up", c), id)
    BY DEF OnlyMoved
  <2> USE DEF Before
  <2>1. ASSUME Holds(k, e, Before(k, e, i, "up", c), m.id)
        PROVE  k = "up" /\ e = c /\ i + 1 = 1
    BY <1>4, <2>1 DEF MInv, OnePlace
  <2>2. CASE k = "up" /\ e \in Conns /\ i \in DOMAIN up'[e] /\ Carries(up'[e][i], id)
    <3>1. i \in Nat /\ (e = c => i # 0) /\ Holds(k, e, Before(k, e, i, "up", c), id)
      BY <1>1, <2>2, UpsRead DEF Holds
    <3> QED
      BY <2>1, <3>1
  <2>3. CASE k = "down" /\ e \in Conns /\ i \in DOMAIN down'[e] /\ Carries(down'[e][i], id)
    <3>1. /\ i \in Nat
          /\ \/ i \in DOMAIN down[e] /\ down'[e][i] = down[e][i]
             \/ \E j \in DOMAIN o[e] : i = Len(down[e]) + j /\ down'[e][i] = o[e][j]
      BY <1>6, <1>7, <2>3, DownPositions
    <3>2. CASE i \in DOMAIN down[e] /\ down'[e][i] = down[e][i]
      BY <2>1, <2>3, <3>1, <3>2 DEF Holds
    <3>3. CASE \E j \in DOMAIN o[e] : i = Len(down[e]) + j /\ down'[e][i] = o[e][j]
      <4>1. e = d /\ i = Len(down[d]) + 1 /\ down'[e][i] = r
        BY <1>5, <1>6, <2>3, <3>3
      <4> QED
        BY <1>5, <2>3, <4>1
    <3> QED
      BY <3>1, <3>2, <3>3
  <2>4. CASE k \notin {"up", "down"}
    <3>1. delivered \in Seq([id : Nat, conn : Conns])
          /\ answered \in Seq([id : Nat, conn : Conns, ok : BOOLEAN])
      BY DEF MInv, IInv, TypeOK, ClientTypeOK
    <3>2. i \in Nat /\ Holds(k, e, i, id)
      BY <2>4, <3>1 DEF Holds, historyVars
    <3> QED
      BY <2>1, <2>4, <3>2
  <2> QED
    BY <2>2, <2>3, <2>4 DEF Holds
<1> QED
  BY <1>8, <1>9, <1>10 DEF MInv

(* The other steps of the center write plain messages at most, and lose    *)
(* messages at most.                                                       *)
LEMMA CenterLoses ==
    ASSUME MInv, IInv', Owned', Grows,
           \A c \in Conns : up'[c] \in {up[c], <<>>},
           down' = down \/ \E o \in PlainOuts : down' = AfterSendDown(o),
           UNCHANGED <<value, owner>>,
           UNCHANGED clientVars, UNCHANGED historyVars
    PROVE  MInv'
<1>1. \A c \in Conns : Seq(GoodUps(c)) \subseteq Seq(GoodUps(c)')
  BY GoodUpsStay, SeqMonotone DEF MInv
<1>2. \A c \in Conns : Seq(GoodDowns(c)) \subseteq Seq(GoodDowns(c)')
  BY GoodDownsStay, SeqMonotone DEF MInv
<1>3. \A c \in Conns : up[c] \in Seq(GoodUps(c)) /\ down[c] \in Seq(GoodDowns(c))
  BY DEF MInv, GoodMessages
<1>4. \A c \in Conns : up'[c] \in Seq(GoodUps(c)')
  BY <1>1, <1>3, EmptySeq
<1>5. \A c \in Conns : down'[c] \in Seq(GoodDowns(c)')
  BY <1>2, <1>3, DownsGood, PlainIsGood
<1>6. SentTrue' /\ DeliveredTrue' /\ AnsweredTrue' /\ DirectoriesTrue' /\ ValuesTrue'
  BY HistoryStays, DirectoriesStay DEF MInv, clientVars, historyVars, ValuesTrue
<1>7. OnePlace'
  <2> SUFFICES Unmoved("none", NoConn)
    BY NothingMoves DEF MInv
  <2> SUFFICES ASSUME NEW id, NEW k, NEW d, NEW i, Holds(k, d, i, id)'
               PROVE  i \in Nat /\ Holds(k, d, i, id)
    BY NotRead DEF Unmoved
  <2>1. CASE k = "up" /\ d \in Conns /\ i \in DOMAIN up'[d] /\ Carries(up'[d][i], id)
    <3>1. up'[d] = up[d] /\ i \in Nat
      BY <1>3, <2>1
    <3> QED
      BY <2>1, <3>1 DEF Holds
  <2>2. CASE k = "down" /\ d \in Conns /\ i \in DOMAIN down'[d] /\ Carries(down'[d][i], id)
    <3>1. i \in Nat /\ i \in DOMAIN down[d] /\ Carries(down[d][i], id)
      <4>1. CASE down' = down
        <5>1. down[d] \in Seq(GoodDowns(d))
          BY <1>3, <2>2
        <5> QED
          BY <2>2, <4>1, <5>1
      <4>2. ASSUME NEW o \in PlainOuts, down' = AfterSendDown(o)
            PROVE  i \in Nat /\ i \in DOMAIN down[d] /\ Carries(down[d][i], id)
        BY <2>2, <4>2, DownsPlain
      <4> QED
        BY <4>1, <4>2
    <3> QED
      BY <2>2, <3>1 DEF Holds
  <2>3. CASE k \notin {"up", "down"}
    <3>1. delivered \in Seq([id : Nat, conn : Conns])
          /\ answered \in Seq([id : Nat, conn : Conns, ok : BOOLEAN])
      BY DEF MInv, IInv, TypeOK, ClientTypeOK
    <3> QED
      BY <2>3, <3>1 DEF Holds, historyVars
  <2> QED
    BY <2>1, <2>2, <2>3 DEF Holds
<1> QED
  BY <1>4, <1>5, <1>6, <1>7 DEF MInv, GoodMessages

LEMMA AddSessionKeepsValues ==
    ASSUME IInv, NEW c \in Conns, NEW h \in Handles, AddSession(c, h)
    PROVE  value' = value
<1>1. \A d \in Conns : centerEnd[d] = "open" => fd[d] # h
  BY DEF AddSession, FreshFd, OpenFds
<1>2. SessionOf(h) = NoConn
  BY <1>1 DEF SessionOf, IInv, HandlesUnique, TypeOK, CenterTypeOK
<1> QED
  BY <1>2 DEF AddSession

LEMMA SessionErrorLoses ==
    ASSUME MInv, NEW c \in Conns, OnSessionError(c)
    PROVE  /\ \A d \in Conns : up'[d] \in {up[d], <<>>}
           /\ down' = down \/ \E o \in PlainOuts : down' = AfterSendDown(o)
<1> DEFINE m == RemoveNameHandle(value[c], fd[c])
<1>1. \A d \in Conns : up'[d] \in {up[d], <<>>}
  BY DEF OnSessionError, MInv, IInv, TypeOK, ConnTypeOK
<1>2. value[c] \in NameOrNone /\ fd[c] \in Handles
  BY DEF OnSessionError, MInv, IInv, OpenHasHandle, TypeOK, CenterTypeOK
<1>3. \A d \in Conns : m \in PlainDowns(d)
  BY <1>2 DEF PlainDowns, GoodDowns, DownMessage, RemoveNameHandle, IsPlain
<1> HIDE DEF m
<1>4. ToOthers(sessions, fd[c], m) \in PlainOuts
  BY <1>3, ToOthersPlain
<1>5. down' \in {down, AfterSendDown(ToOthers(sessions, fd[c], m))}
  BY DEF OnSessionError, m
<1> QED
  BY <1>1, <1>4, <1>5

LEMMA SyncOutPlain ==
    ASSUME MInv, NEW valid \in SUBSET sessions
    PROVE  SyncOut(valid) \in PlainOuts
<1> DEFINE gone == InOrder(sessions \ valid)
           removals == [i \in DOMAIN gone |-> RemoveNameHandle(value[gone[i]], fd[gone[i]])]
           o == SyncOut(valid)
<1>1. sessions \subseteq Conns /\ \A d \in sessions : fd[d] \in Handles
  BY DEF MInv, IInv, HandlesUnique, OpenHasHandle, TypeOK, CenterTypeOK
<1>2. \A c \in Conns : removals \in Seq(PlainDowns(c))
  <2> TAKE c \in Conns
  <2>1. gone \in Seq(sessions \ valid)
    BY <1>1, InOrderType
  <2>2. \A i \in DOMAIN gone : RemoveNameHandle(value[gone[i]], fd[gone[i]]) \in PlainDowns(c)
    <3> TAKE i \in DOMAIN gone
    <3>1. gone[i] \in sessions
      BY <2>1
    <3>2. value[gone[i]] \in NameOrNone /\ fd[gone[i]] \in Handles
      BY <1>1, <3>1 DEF MInv, IInv, TypeOK, CenterTypeOK
    <3> QED
      BY <3>2 DEF PlainDowns, GoodDowns, DownMessage, RemoveNameHandle, IsPlain
  <2>3. DOMAIN gone = 1..Len(gone) /\ Len(gone) \in Nat
    BY <2>1
  <2> HIDE DEF gone
  <2> QED
    BY <2>2, <2>3
<1>3. \A c \in Conns : <<ClearNameHandleList>> \in Seq(PlainDowns(c))
  BY DEF ClearNameHandleList, PlainDowns, GoodDowns, DownMessage, IsPlain
<1>4. \A c \in Conns : NameHandleList(valid) \in Seq(PlainDowns(c))
  BY NameHandleListPlain DEF MInv
<1>5. \A c \in Conns : o[c] = IF c \in valid
                                THEN removals \o <<ClearNameHandleList>> \o NameHandleList(valid)
                                ELSE <<>>
  BY DEF SyncOut
<1>6. o = [c \in Conns |-> o[c]]
  BY DEF SyncOut
<1> HIDE DEF o, removals
<1>7. \A c \in Conns : o[c] \in Seq(PlainDowns(c))
  BY ZenonT(60), <1>2, <1>3, <1>4, <1>5, ConcatSeq, EmptySeq
<1> USE DEF o
<1> QED
  BY <1>6, <1>7, PlainOutsIntro

LEMMA ResultOutPlain ==
    ASSUME IInv, NEW valid \in SUBSET sessions
    PROVE  ResultOut(valid) \in PlainOuts
<1> DEFINE d == ResultTo(valid)
           m == Command(NoHandle, curSrc, Head(results))
<1>1. CASE results # <<>> /\ CanSend(d)
  <2>1. Head(results) \in Nat
    BY <1>1 DEF IInv, TypeOK, CenterTypeOK
  <2>2. d \in Conns
    BY <1>1 DEF ResultTo, CanSend, IInv, TypeOK, CenterTypeOK
  <2>3. \A c \in Conns : m \in GoodDowns(c) /\ IsPlain(m)
    BY <2>1 DEF Command, GoodDowns, DownMessage, CommandType, HandleOrNone, IsPlain,
                IInv, TypeOK, CenterTypeOK
  <2> HIDE DEF m, d
  <2>4. To(d, <<m>>) \in PlainOuts
    BY <2>2, <2>3, ToGood
  <2> USE DEF m, d
  <2> QED
    BY <1>1, <2>4 DEF ResultOut
<1>2. CASE ~(results # <<>> /\ CanSend(d))
  BY <1>2, SilencePlain DEF ResultOut
<1> QED
  BY <1>1, <1>2

LEMMA TickPlain ==
    ASSUME MInv, NEW due \in BOOLEAN, Tick(due)
    PROVE  \E o \in PlainOuts : down' = AfterSendDown(o)
<1> DEFINE valid == IF due THEN sessions \ InvalidSessions ELSE sessions
           sync == IF due THEN SyncOut(valid) ELSE Silence
           o == [c \in Conns |-> sync[c] \o ResultOut(valid)[c]]
<1>1. sync \in PlainOuts /\ ResultOut(valid) \in PlainOuts
  BY SyncOutPlain, ResultOutPlain, SilencePlain DEF MInv
<1>2. o \in PlainOuts
  <2>1. \A c \in Conns : o[c] = sync[c] \o ResultOut(valid)[c]
    OBVIOUS
  <2>2. o = [c \in Conns |-> o[c]]
    OBVIOUS
  <2> HIDE DEF sync, o, valid
  <2>3. \A c \in Conns : o[c] \in Seq(PlainDowns(c))
    BY <1>1, <2>1, ConcatSeq DEF PlainOuts
  <2> QED
    BY <2>2, <2>3, PlainOutsIntro
<1>3. down' = AfterSendDown(o)
  BY DEF Tick
<1> HIDE DEF o
<1> QED
  BY <1>2, <1>3

(* Every step of the center. *)
LEMMA CenterKeepsMInv ==
    ASSUME MInv, IInv', CenterStep \/ SyncStep
    PROVE  MInv'
<1>1. UNCHANGED clientVars /\ UNCHANGED historyVars
  BY DEF CenterStep, SyncStep
<1>2. Owned' /\ Grows
  BY CenterGrows DEF MInv
<1>3. ASSUME NEW due \in BOOLEAN, Tick(due) PROVE MInv'
  <2>1. UNCHANGED <<up, value, owner>>
    BY <1>3 DEF Tick
  <2> QED
    BY <1>1, <1>2, <1>3, <2>1, TickPlain, CenterLoses
<1>4. CASE SyncStep
  BY <1>3, <1>4 DEF SyncStep
<1>5. CASE CenterStep
  <2>1. ASSUME NEW c \in Conns, NEW h \in Handles, AddSession(c, h) PROVE MInv'
    <3>1. UNCHANGED <<up, down, owner>> /\ value' = value
      BY <2>1, AddSessionKeepsValues DEF AddSession, MInv
    <3> QED
      BY <1>1, <1>2, <3>1, CenterLoses
  <2>2. ASSUME NEW c \in Conns, HandleMyName(c) PROVE MInv'
    BY <1>1, <1>2, <2>2, NameKeeps
  <2>3. ASSUME NEW c \in Conns, HandleTransmit(c) PROVE MInv'
    BY <1>1, <1>2, <2>3, TransmitForwarded
  <2>4. ASSUME NEW c \in Conns, HandleTransmitResult(c) PROVE MInv'
    BY <1>1, <1>2, <2>4, ResultForwarded
  <2>5. ASSUME NEW c \in Conns, HandleCommand(c) PROVE MInv'
    BY <1>1, <1>2, <2>5, CommandForwarded
  <2>6. ASSUME NEW c \in Conns, OnSessionError(c) PROVE MInv'
    <3>1. UNCHANGED <<value, owner>>
      BY <2>6 DEF OnSessionError
    <3> QED
      BY <1>1, <1>2, <2>6, <3>1, SessionErrorLoses, CenterLoses
  <2>7. CASE Tick(FALSE)
    BY <1>3, <2>7
  <2>8. CASE ScriptRun
    <3>1. UNCHANGED <<up, down, value, owner>>
      BY <2>8 DEF ScriptRun, connVars
    <3> QED
      BY <1>1, <1>2, <3>1, CenterLoses
  <2>9. CASE CenterRestart
    <3>1. UNCHANGED <<down, value, owner>> /\ \A c \in Conns : up'[c] = <<>>
      BY <2>9 DEF CenterRestart
    <3> QED
      BY <1>1, <1>2, <3>1, CenterLoses
  <2> QED
    BY <1>5, <2>1, <2>2, <2>3, <2>4, <2>5, <2>6, <2>7, <2>8, <2>9 DEF CenterStep, CenterNext
<1> QED
  BY <1>4, <1>5

-----------------------------------------------------------------------------
(* What happens down the connection that a client reads from. *)
LEMMA DownsRead ==
    ASSUME MInv, Grows, NEW p \in Clients, NEW class, Hears(p, class), NEW r, Consume(p, r)
    PROVE  /\ session[p] \in Conns /\ session[p] # NoConn /\ owner[session[p]] = p
           /\ Heard(p) \in GoodDowns(session[p]) /\ Heard(p).class = class
           /\ 1 \in DOMAIN down[session[p]] /\ Heard(p) = down[session[p]][1]
           /\ \A d \in Conns : down'[d] \in Seq(GoodDowns(d)')
           /\ \A d \in Conns : \A i \in DOMAIN down'[d] :
                 IF d = session[p]
                   THEN i \in Nat /\ i # 0 /\ i + 1 \in DOMAIN down[d]
                          /\ down'[d][i] = down[d][i + 1]
                   ELSE i \in Nat /\ i \in DOMAIN down[d] /\ down'[d][i] = down[d][i]
<1> DEFINE c == session[p]
<1>1. c \in Conns /\ c # NoConn /\ down[c] # <<>> /\ Heard(p).class = class
  BY HeardType DEF MInv
<1>2. owner[c] = p
  BY <1>1 DEF MInv, Owned
<1>3. \A d \in Conns : down[d] \in Seq(GoodDowns(d))
  BY DEF MInv, GoodMessages
<1>4. \A d \in Conns : down'[d] = IF d = c THEN Tail(down[c]) ELSE down[d]
  BY DEF Consume, MInv, IInv, TypeOK, ConnTypeOK
<1>5. \A d \in Conns : Seq(GoodDowns(d)) \subseteq Seq(GoodDowns(d)')
  BY GoodDownsStay, SeqMonotone DEF MInv
<1>6. Heard(p) = Head(down[c])
  BY DEF Heard
<1> HIDE DEF c
<1>7. Heard(p) \in GoodDowns(c) /\ 1 \in DOMAIN down[c] /\ Heard(p) = down[c][1]
  BY <1>1, <1>3, <1>6
<1>8. /\ Tail(down[c]) \in Seq(GoodDowns(c))
      /\ \A i \in DOMAIN Tail(down[c]) : i \in Nat /\ i # 0 /\ i + 1 \in DOMAIN down[c]
                                           /\ Tail(down[c])[i] = down[c][i + 1]
  BY <1>1, <1>3, TailElements
<1>9. \A d \in Conns : down'[d] \in Seq(GoodDowns(d)')
  BY <1>1, <1>3, <1>4, <1>5, <1>8
<1>10. \A d \in Conns : \A i \in DOMAIN down[d] : i \in Nat
  BY <1>3
<1>11. \A d \in Conns : \A i \in DOMAIN down'[d] :
          IF d = c THEN i \in Nat /\ i # 0 /\ i + 1 \in DOMAIN down[d] /\ down'[d][i] = down[d][i + 1]
                   ELSE i \in Nat /\ i \in DOMAIN down[d] /\ down'[d][i] = down[d][i]
  BY <1>4, <1>8, <1>10
<1> QED
  BY <1>1, <1>2, <1>7, <1>9, <1>11 DEF c

(* What happens up the connection that a client writes to. *)
LEMMA UpsGood ==
    ASSUME MInv, Grows, NEW c \in Conns, NEW r \in Seq(GoodUps(c)'), up' = AfterSendUp(c, r)
    PROVE  \A d \in Conns : up'[d] \in Seq(GoodUps(d)')
<1>1. \A d \in Conns : Seq(GoodUps(d)) \subseteq Seq(GoodUps(d)')
  BY GoodUpsStay, SeqMonotone DEF MInv
<1>2. \A d \in Conns : up[d] \in Seq(GoodUps(d)')
  BY <1>1 DEF MInv, GoodMessages
<1>3. up[c] \o r \in Seq(GoodUps(c)')
  BY <1>2, ConcatSeq
<1> QED
  BY <1>2, <1>3 DEF AfterSendUp, MInv, IInv, TypeOK, ConnTypeOK

LEMMA UpPositions ==
    ASSUME IInv, NEW c \in Conns, NEW r \in Seq(UpMessage), up' = AfterSendUp(c, r),
           NEW d \in Conns
    PROVE  \A i \in DOMAIN up'[d] :
               /\ i \in Nat
               /\ \/ i \in DOMAIN up[d] /\ up'[d][i] = up[d][i]
                  \/ d = c /\ \E j \in DOMAIN r : i = Len(up[d]) + j /\ up'[d][i] = r[j]
<1> DEFINE s == up[d]
<1>1. s \in Seq(UpMessage)
  BY DEF IInv, TypeOK, ConnTypeOK
<1>2. up'[d] = s \/ (d = c /\ up'[d] = s \o r)
  BY DEF AfterSendUp, IInv, TypeOK, ConnTypeOK
<1> HIDE DEF s
<1>3. \A i \in DOMAIN (s \o r) :
         /\ i \in Nat
         /\ \/ i \in DOMAIN s /\ (s \o r)[i] = s[i]
            \/ \E j \in DOMAIN r : i = Len(s) + j /\ (s \o r)[i] = r[j]
  BY <1>1, ConcatElements
<1>4. \A i \in DOMAIN s : i \in Nat
  BY <1>1
<1> QED
  BY <1>2, <1>3, <1>4 DEF s

(* A plain reply moves nothing, and reading moves what was read only. *)
LEMMA ConsumedHolds ==
    ASSUME MInv, Grows, NEW p \in Clients, NEW class, Hears(p, class),
           NEW r \in Seq(UpMessage), \A j \in DOMAIN r : IsPlain(r[j]), Consume(p, r),
           NEW id, NEW k \in {"up", "down"}, NEW d, NEW i, Holds(k, d, i, id)'
    PROVE  /\ i \in Nat /\ (k = "down" /\ d = session[p] => i # 0)
           /\ Holds(k, d, Before(k, d, i, "down", session[p]), id)
<1>1. CASE k = "down" /\ d \in Conns /\ i \in DOMAIN down'[d] /\ Carries(down'[d][i], id)
  BY <1>1, DownsRead DEF Holds, Before
<1>2. CASE k = "up" /\ d \in Conns /\ i \in DOMAIN up'[d] /\ Carries(up'[d][i], id)
  <2>1. session[p] \in Conns /\ up' = AfterSendUp(session[p], r)
    BY DownsRead DEF Consume
  <2>2. /\ i \in Nat
        /\ \/ i \in DOMAIN up[d] /\ up'[d][i] = up[d][i]
           \/ \E j \in DOMAIN r : up'[d][i] = r[j]
    BY <1>2, <2>1, UpPositions DEF MInv
  <2> QED
    BY <1>2, <2>2 DEF Holds, Before, Carries, IsPlain
<1> QED
  BY <1>1, <1>2 DEF Holds

LEMMA SameHistoryHolds ==
    ASSUME IInv, NEW k, k \notin {"up", "down"}, NEW d, NEW i, NEW id, NEW c,
           Holds(k, d, i, id)',
           k = "delivered" => delivered' = delivered,
           k = "answered" => answered' = answered
    PROVE  i \in Nat /\ Holds(k, d, Before(k, d, i, "down", c), id)
<1>1. delivered \in Seq([id : Nat, conn : Conns])
      /\ answered \in Seq([id : Nat, conn : Conns, ok : BOOLEAN])
  BY DEF IInv, TypeOK, ClientTypeOK
<1> QED
  BY <1>1 DEF Holds, Before

(* The handlers of a client that only look at the message. *)
LEMMA PlainRead ==
    ASSUME MInv, IInv', Owned', Grows, NEW p \in Clients, NEW class, Hears(p, class),
           Consume(p, <<>>), ~(class = "Transmit"), ~(class = "TransmitResult"),
           UNCHANGED <<owner, value>>, UNCHANGED historyVars, DirectoriesTrue'
    PROVE  MInv'
<1>1. session[p] \in Conns /\ up' = AfterSendUp(session[p], <<>>)
  BY DownsRead DEF Consume
<1>2. GoodMessages'
  BY <1>1, EmptySeq, UpsGood, DownsRead DEF GoodMessages
<1>3. SentTrue' /\ DeliveredTrue' /\ AnsweredTrue' /\ ValuesTrue'
  BY HistoryStays DEF MInv, historyVars, ValuesTrue
<1>4. OnePlace'
  <2> SUFFICES Unmoved("down", session[p])
    BY NothingMoves DEF MInv
  <2> SUFFICES ASSUME NEW id, NEW k, NEW d, NEW i, Holds(k, d, i, id)'
               PROVE  i \in Nat /\ Holds(k, d, Before(k, d, i, "down", session[p]), id)
    BY DEF Unmoved
  <2>1. CASE k \in {"up", "down"}
    <3>1. <<>> \in Seq(UpMessage) /\ \A j \in DOMAIN <<>> : IsPlain(<<>>[j])
      OBVIOUS
    <3> QED
      BY <2>1, <3>1, ConsumedHolds
  <2>2. CASE k \notin {"up", "down"}
    BY <2>2, SameHistoryHolds DEF MInv, historyVars
  <2> QED
    BY <2>1, <2>2
<1> QED
  BY <1>2, <1>3, <1>4 DEF MInv

LEMMA PutTrue ==
    ASSUME NEW dir, NEW n, NEW h, NEW m,
           dir \in [Names -> HandleOrNone], n \in Names, m \in Names,
           Put(dir, n, h)[m] # NoHandle
    PROVE  Put(dir, n, h)[m] = dir[m] \/ (m = n /\ Put(dir, n, h)[m] = h)
BY DEF Put

LEMMA DirectoryKeeps ==
    ASSUME MInv, IInv', Owned', Grows, NEW p \in Clients,
           UNCHANGED centerVars,
           HandleMyHandle(p) \/ HandleAddNameHandle(p) \/ HandleRemoveNameHandle(p)
    PROVE  MInv'
<1> USE DEF MInv
<1>1. \A q \in Clients : nameHandles[q] \in [Names -> HandleOrNone]
  BY DEF IInv, TypeOK, ClientTypeOK
<1>2. DirectoriesTrue => \A q \in Clients : \A n \in Names :
         nameHandles[q][n] # NoHandle =>
             \E e \in Conns : /\ fd'[e] = nameHandles[q][n] /\ owner'[e] \in Clients
                              /\ NameOf[owner'[e]] = n
  BY DEF DirectoriesTrue, Known, Grows
<1>3. ASSUME NEW n \in Names, NEW h \in Handles,
             nameHandles' = [nameHandles EXCEPT ![p] = Put(@, n, h)],
             \E e \in Conns : fd[e] = h /\ owner[e] \in Clients /\ NameOf[owner[e]] = n
      PROVE  DirectoriesTrue'
  <2>1. \E e \in Conns : fd'[e] = h /\ owner'[e] \in Clients /\ NameOf[owner'[e]] = n
    BY <1>3, HandlesAssumption DEF Grows
  <2>2. \A q \in Clients : nameHandles'[q] = IF q = p THEN Put(nameHandles[p], n, h)
                                                      ELSE nameHandles[q]
    BY <1>3 DEF IInv, TypeOK, ClientTypeOK
  <2> SUFFICES ASSUME NEW q \in Clients, NEW m \in Names, nameHandles'[q][m] # NoHandle
               PROVE  \E e \in Conns : /\ fd'[e] = nameHandles'[q][m]
                                       /\ owner'[e] \in Clients /\ NameOf[owner'[e]] = m
    BY DEF DirectoriesTrue, Known
  <2>3. nameHandles'[q][m] = nameHandles[q][m] \/ (m = n /\ nameHandles'[q][m] = h)
    BY <1>1, <2>2, PutTrue
  <2> QED
    BY <1>2, <2>1, <2>3
<1>4. UNCHANGED <<owner, value>>
  BY DEF Consume, centerVars, HandleMyHandle, HandleAddNameHandle, HandleRemoveNameHandle
<1>5. CASE HandleMyHandle(p)
  <2>1. Hears(p, "MyHandle") /\ Consume(p, <<>>) /\ UNCHANGED historyVars
        /\ nameHandles' = [nameHandles EXCEPT ![p] = Put(@, NameOf[p], Heard(p).handle)]
    BY <1>5 DEF HandleMyHandle
  <2>2. /\ session[p] \in Conns /\ owner[session[p]] = p
        /\ Heard(p) \in OwnMessages(session[p]) /\ Heard(p).class = "MyHandle"
    BY <2>1, HeardType, DownsRead
  <2>3. Heard(p).handle = fd[session[p]] /\ Heard(p).handle \in Handles
    BY <2>2 DEF OwnMessages, DownMessage, TransmitType, TransmitResultType, CommandType
  <2>4. NameOf[p] \in Names
    BY ClientAssumption
  <2>5. DirectoriesTrue'
    BY <1>3, <2>1, <2>2, <2>3, <2>4
  <2> QED
    BY <1>4, <2>1, <2>5, PlainRead
<1>6. CASE HandleAddNameHandle(p)
  <2>1. Hears(p, "AddNameHandle") /\ Consume(p, <<>>) /\ UNCHANGED historyVars
        /\ nameHandles' = [nameHandles EXCEPT ![p] = Put(@, Heard(p).name, Heard(p).handle)]
    BY <1>6 DEF HandleAddNameHandle
  <2>2. Heard(p) \in GoodDowns(session[p]) /\ Heard(p).class = "AddNameHandle"
    BY <2>1, DownsRead
  <2>3. Heard(p).name \in Names /\ Heard(p).handle \in Handles
        /\ Known(Heard(p).name, Heard(p).handle)
    BY <2>2 DEF GoodDowns, DownMessage, TransmitType, TransmitResultType, CommandType
  <2>4. DirectoriesTrue'
    BY <1>3, <2>1, <2>3 DEF Known
  <2> QED
    BY <1>4, <2>1, <2>4, PlainRead
<1>7. CASE HandleRemoveNameHandle(p)
  <2>1. Hears(p, "RemoveNameHandle") /\ Consume(p, <<>>) /\ UNCHANGED historyVars
        /\ nameHandles' = [nameHandles EXCEPT ![p] = Forget(@, Heard(p).name)]
    BY <1>7 DEF HandleRemoveNameHandle
  <2>2. \A q \in Clients : \A m \in Names : nameHandles'[q][m] \in {NoHandle, nameHandles[q][m]}
    BY <1>1, <2>1 DEF Forget, IInv, TypeOK, ClientTypeOK
  <2>3. DirectoriesTrue'
    BY <1>2, <2>2 DEF DirectoriesTrue, Known
  <2> QED
    BY <1>4, <2>1, <2>3, PlainRead
<1> QED
  BY <1>5, <1>6, <1>7

(* HandleTransmit of the client: the transmit it has read is delivered. *)
LEMMA DeliveryKeeps ==
    ASSUME MInv, IInv', Owned', Grows, NEW p \in Clients,
           UNCHANGED centerVars, HandleDelivery(p)
    PROVE  MInv'
<1> PICK c, m : c = session[p] /\ m = Heard(p)
  OBVIOUS
<1> DEFINE r == TransmitResult(m.seq, m.dest, m.src, TRUE, m.id)
           e == [id |-> m.id, conn |-> c]
<1>1. Hears(p, "Transmit") /\ Consume(p, <<r>>) /\ delivered' = Append(delivered, e)
      /\ UNCHANGED clientVars /\ UNCHANGED <<sent, asked, answered>>
      /\ UNCHANGED <<owner, value>>
  BY DEF HandleDelivery, Consume, centerVars
<1>2. /\ c \in Conns /\ m \in GoodDowns(c) /\ m.class = "Transmit"
      /\ 1 \in DOMAIN down[c] /\ m = down[c][1]
      /\ \A d \in Conns : down'[d] \in Seq(GoodDowns(d)')
  BY <1>1, DownsRead
<1>3. m \in TransmitType /\ TransmitAsSent(m) /\ m.dest = fd[c]
  BY <1>2 DEF GoodDowns, DownMessage, TransmitType, TransmitResultType, CommandType
<1>4. Holds("down", c, 1, m.id)
  BY <1>2 DEF Holds, Carries
<1>5. up' = AfterSendUp(c, <<r>>)
  BY <1>1 DEF Consume
<1>6. delivered \in Seq([id : Nat, conn : Conns]) /\ e \in [id : Nat, conn : Conns]
  BY <1>2, <1>3 DEF MInv, IInv, TypeOK, ClientTypeOK, TransmitType
<1>7. e.id = m.id /\ e.conn = c
  OBVIOUS
<1> HIDE DEF e
<1>8. /\ DOMAIN delivered' = DOMAIN delivered \cup {Len(delivered) + 1}
      /\ delivered'[Len(delivered) + 1] = e
      /\ \A i \in DOMAIN delivered : delivered'[i] = delivered[i]
      /\ DOMAIN delivered' \subseteq Nat
  BY <1>1, <1>6
<1>9. \E i \in DOMAIN delivered' : delivered'[i].id = m.id
  BY <1>7, <1>8
<1>10. r \in TransmitResultType /\ r.class = "TransmitResult" /\ r.ok /\ r.of = m.id
       /\ r.dest = m.src
  BY <1>3 DEF TransmitType, TransmitResult, TransmitResultType
<1> HIDE DEF r
<1>11. <<r>> \in Seq(UpMessage) /\ <<r>> \in Seq(GoodUps(c)')
       /\ \A j \in DOMAIN <<r>> : IsPlain(<<r>>[j])
  <2>1. /\ r.of \in DOMAIN sent' /\ r.dest = fd'[sent'[r.of].conn]
        /\ \E i \in DOMAIN delivered' : delivered'[i].id = r.of
    BY <1>1, <1>3, <1>9, <1>10 DEF TransmitAsSent, centerVars
  <2>2. r \in UpMessage /\ r \in GoodUps(c)' /\ IsPlain(r)
    BY <1>10, <2>1 DEF UpMessage, GoodUps, ResultAsMeant, WasDelivered, IsPlain
  <2> QED
    BY <2>2
<1>12. GoodMessages'
  BY <1>2, <1>5, <1>11, UpsGood DEF GoodMessages
<1>13. DeliveredTrue'
  <2>1. m.id \in DOMAIN sent' /\ fd'[c] = sent'[m.id].dest
    BY <1>1, <1>3 DEF TransmitAsSent, centerVars
  <2> QED
    BY <1>7, <1>8, <2>1, RecordsStay DEF DeliveredTrue
<1>14. SentTrue' /\ AnsweredTrue' /\ ValuesTrue' /\ DirectoriesTrue'
  BY <1>1, HistoryStays, DirectoriesStay DEF MInv, ValuesTrue, clientVars
<1>15. OnePlace'
  <2> PICK i0 : i0 = Len(delivered) + 1
    OBVIOUS
  <2> SUFFICES OnlyMoved("down", c, "delivered", NoConn, i0, m.id)
    BY OneMoves DEF MInv
  <2> SUFFICES ASSUME NEW id, NEW k, NEW d, NEW i, Holds(k, d, i, id)'
               PROVE  \/ k = "delivered" /\ d = NoConn /\ i = i0 /\ id = m.id
                      \/ /\ id # m.id /\ i \in Nat
                         /\ Holds(k, d, Before(k, d, i, "down", c), id)
    BY DEF OnlyMoved
  <2>1. ASSUME Holds(k, d, Before(k, d, i, "down", c), m.id)
        PROVE  k = "down" /\ d = c /\ i + 1 = 1
    BY <1>4, <2>1 DEF MInv, OnePlace, Before
  <2>2. CASE k \in {"up", "down"}
    <3>1. /\ i \in Nat /\ (k = "down" /\ d = c => i # 0)
          /\ Holds(k, d, Before(k, d, i, "down", c), id)
      BY <1>1, <1>11, <2>2, ConsumedHolds
    <3> QED
      BY <2>1, <3>1
  <2>3. CASE k \notin {"up", "down"} /\ i \in DOMAIN delivered'
             /\ k = "delivered" /\ d = NoConn /\ delivered'[i].id = id
    <3>1. CASE i = i0
      BY <1>7, <1>8, <2>3, <3>1
    <3>2. CASE i # i0
      <4>1. i \in Nat /\ Holds(k, d, Before(k, d, i, "down", c), id)
        BY <1>8, <2>3, <3>2 DEF Holds, Before
      <4> QED
        BY <2>1, <2>3, <4>1
    <3> QED
      BY <3>1, <3>2
  <2>4. CASE k \notin {"up", "down", "delivered"}
    <3>1. i \in Nat /\ Holds(k, d, Before(k, d, i, "down", c), id)
      BY <1>1, <2>4, SameHistoryHolds DEF MInv
    <3> QED
      BY <2>1, <2>4, <3>1
  <2> QED
    BY <2>2, <2>3, <2>4 DEF Holds
<1> QED
  BY <1>12, <1>13, <1>14, <1>15 DEF MInv

(* HandleTransmitResult of the client. *)
LEMMA ResultKeeps ==
    ASSUME MInv, IInv', Owned', Grows, NEW p \in Clients,
           UNCHANGED centerVars, HandleResult(p)
    PROVE  MInv'
<1> PICK c, m : c = session[p] /\ m = Heard(p)
  OBVIOUS
<1> DEFINE a == [id |-> m.of, conn |-> c, ok |-> m.ok]
<1>1. Hears(p, "TransmitResult") /\ Consume(p, <<>>) /\ answered' = Append(answered, a)
      /\ UNCHANGED clientVars /\ UNCHANGED <<sent, asked, delivered>>
      /\ UNCHANGED <<owner, value>>
  BY DEF HandleResult, Consume, centerVars
<1>2. /\ c \in Conns /\ m \in GoodDowns(c) /\ m.class = "TransmitResult"
      /\ 1 \in DOMAIN down[c] /\ m = down[c][1]
      /\ \A d \in Conns : down'[d] \in Seq(GoodDowns(d)')
  BY <1>1, DownsRead
<1>3. m \in TransmitResultType /\ ResultAsMeant(m) /\ (m.ok => m.dest = fd[c])
  BY <1>2 DEF GoodDowns, DownMessage, TransmitType, TransmitResultType, CommandType
<1>4. ~m.ok => Holds("down", c, 1, m.of)
  BY <1>2 DEF Holds, Carries
<1>5. up' = AfterSendUp(c, <<>>)
  BY <1>1 DEF Consume
<1>6. <<>> \in Seq(UpMessage) /\ (\A j \in DOMAIN <<>> : IsPlain(<<>>[j]))
  OBVIOUS
<1>7. /\ answered \in Seq([id : Nat, conn : Conns, ok : BOOLEAN])
      /\ a \in [id : Nat, conn : Conns, ok : BOOLEAN]
  BY <1>2, <1>3 DEF MInv, IInv, TypeOK, ClientTypeOK, TransmitResultType
<1>8. a.id = m.of /\ a.conn = c /\ a.ok = m.ok
  OBVIOUS
<1> HIDE DEF a
<1>9. /\ DOMAIN answered' = DOMAIN answered \cup {Len(answered) + 1}
      /\ answered'[Len(answered) + 1] = a
      /\ \A i \in DOMAIN answered : answered'[i] = answered[i]
      /\ DOMAIN answered' \subseteq Nat
  BY <1>1, <1>7
<1>10. GoodMessages'
  BY <1>2, <1>5, EmptySeq, UpsGood DEF GoodMessages
<1>11. AnsweredTrue'
  <2>1. /\ m.of \in DOMAIN sent'
        /\ m.ok => /\ \E j \in DOMAIN delivered' : delivered'[j].id = m.of
                   /\ fd'[c] = fd'[sent'[m.of].conn]
    BY <1>1, <1>3 DEF ResultAsMeant, WasDelivered, centerVars
  <2> QED
    BY <1>8, <1>9, <2>1, RecordsStay DEF AnsweredTrue, WasDelivered
<1>12. SentTrue' /\ DeliveredTrue' /\ ValuesTrue' /\ DirectoriesTrue'
  BY <1>1, HistoryStays, DirectoriesStay DEF MInv, ValuesTrue, clientVars
<1>13. \A id, k, d, i :
          /\ k \in {"up", "down"} /\ Holds(k, d, i, id)'
          => /\ i \in Nat /\ (k = "down" /\ d = c => i # 0)
             /\ Holds(k, d, Before(k, d, i, "down", c), id)
  BY <1>1, <1>6, ConsumedHolds
<1>14. OnePlace'
  <2> PICK i0 : i0 = Len(answered) + 1
    OBVIOUS
  <2>1. CASE m.ok
    <3> SUFFICES Unmoved("down", c)
      BY NothingMoves DEF MInv
    <3> SUFFICES ASSUME NEW id, NEW k, NEW d, NEW i, Holds(k, d, i, id)'
                 PROVE  i \in Nat /\ Holds(k, d, Before(k, d, i, "down", c), id)
      BY DEF Unmoved
    <3>1. CASE k \in {"up", "down"}
      BY <1>13, <3>1
    <3>2. CASE k \notin {"up", "down", "answered"}
      BY <1>1, <3>2, SameHistoryHolds DEF MInv
    <3>3. CASE k = "answered" /\ d = NoConn /\ i \in DOMAIN answered'
               /\ answered'[i].id = id /\ ~answered'[i].ok
      BY <1>8, <1>9, <2>1, <3>3 DEF Holds, Before
    <3> QED
      BY <3>1, <3>2, <3>3 DEF Holds
  <2>2. CASE ~m.ok
    <3> SUFFICES OnlyMoved("down", c, "answered", NoConn, i0, m.of)
      BY OneMoves DEF MInv
    <3> SUFFICES ASSUME NEW id, NEW k, NEW d, NEW i, Holds(k, d, i, id)'
                 PROVE  \/ k = "answered" /\ d = NoConn /\ i = i0 /\ id = m.of
                        \/ /\ id # m.of /\ i \in Nat
                           /\ Holds(k, d, Before(k, d, i, "down", c), id)
      BY DEF OnlyMoved
    <3>1. ASSUME Holds(k, d, Before(k, d, i, "down", c), m.of)
          PROVE  k = "down" /\ d = c /\ i + 1 = 1
      BY <1>4, <2>2, <3>1 DEF MInv, OnePlace, Before
    <3>2. CASE k \in {"up", "down"}
      <4>1. /\ i \in Nat /\ (k = "down" /\ d = c => i # 0)
            /\ Holds(k, d, Before(k, d, i, "down", c), id)
        BY <1>13, <3>2
      <4> QED
        BY <3>1, <4>1
    <3>3. CASE k = "answered" /\ d = NoConn /\ i \in DOMAIN answered'
               /\ answered'[i].id = id /\ ~answered'[i].ok
      <4>1. CASE i = i0
        BY <1>8, <1>9, <3>3, <4>1
      <4>2. CASE i # i0
        <5>1. i \in Nat /\ Holds(k, d, Before(k, d, i, "down", c), id)
          BY <1>9, <3>3, <4>2 DEF Holds, Before
        <5> QED
          BY <3>1, <3>3, <5>1
      <4> QED
        BY <4>1, <4>2
    <3>4. CASE k \notin {"up", "down", "answered"}
      <4>1. i \in Nat /\ Holds(k, d, Before(k, d, i, "down", c), id)
        BY <1>1, <3>4, SameHistoryHolds DEF MInv
      <4> QED
        BY <3>1, <3>4, <4>1
    <3> QED
      BY <3>2, <3>3, <3>4 DEF Holds
  <2> QED
    BY <2>1, <2>2
<1> QED
  BY <1>10, <1>11, <1>12, <1>14 DEF MInv

-----------------------------------------------------------------------------
(* Every place of a transmit is of one that was sent. *)
LEMMA PlacesOfSent ==
    ASSUME MInv, NEW k, NEW c, NEW i, NEW id, Holds(k, c, i, id)
    PROVE  id \in DOMAIN sent
<1>1. CASE k = "up" /\ c \in Conns /\ i \in DOMAIN up[c] /\ Carries(up[c][i], id)
  <2>1. up[c][i] \in GoodUps(c)
    BY <1>1, SeqElements DEF MInv, GoodMessages
  <2> QED
    BY <1>1, <2>1 DEF GoodUps, Carries, TransmitAsSent, ResultAsMeant
<1>2. CASE k = "down" /\ c \in Conns /\ i \in DOMAIN down[c] /\ Carries(down[c][i], id)
  <2>1. down[c][i] \in GoodDowns(c)
    BY <1>2, SeqElements DEF MInv, GoodMessages
  <2> QED
    BY <1>2, <2>1 DEF GoodDowns, Carries, TransmitAsSent, ResultAsMeant
<1>3. CASE k \notin {"up", "down"}
  BY <1>3 DEF Holds, MInv, DeliveredTrue, AnsweredTrue
<1> QED
  BY <1>1, <1>2, <1>3 DEF Holds

(* A client writes a message that is not about a transmit under way. *)
LEMMA WrittenHolds ==
    ASSUME IInv, NEW c \in Conns, NEW m \in UpMessage, up' = AfterSendUp(c, <<m>>),
           down' = down, UNCHANGED <<delivered, answered>>,
           NEW k, NEW d, NEW i, NEW id, Holds(k, d, i, id)'
    PROVE  \/ i \in Nat /\ Holds(k, d, i, id)
           \/ k = "up" /\ d = c /\ i = Len(up[c]) + 1 /\ Carries(m, id)
<1>1. CASE k = "up" /\ d \in Conns /\ i \in DOMAIN up'[d] /\ Carries(up'[d][i], id)
  <2> PICK r : r = <<m>>
    OBVIOUS
  <2>1. r \in Seq(UpMessage) /\ DOMAIN r = {1} /\ r[1] = m /\ up' = AfterSendUp(c, r)
    OBVIOUS
  <2>2. \A j \in DOMAIN up'[d] :
           /\ j \in Nat
           /\ \/ j \in DOMAIN up[d] /\ up'[d][j] = up[d][j]
              \/ d = c /\ \E l \in DOMAIN r : j = Len(up[d]) + l /\ up'[d][j] = r[l]
    <3>1. r \in Seq(UpMessage) /\ up' = AfterSendUp(c, r) /\ d \in Conns
      BY <1>1, <2>1
    <3> QED
      BY ZenonT(60), <3>1, UpPositions
  <2>3. CASE i \in DOMAIN up[d] /\ up'[d][i] = up[d][i]
    <3>1. Holds(k, d, i, id)
      BY <1>1, <2>3 DEF Holds
    <3> QED
      BY <1>1, <2>2, <3>1
  <2>4. CASE d = c /\ \E l \in DOMAIN r : i = Len(up[d]) + l /\ up'[d][i] = r[l]
    BY <1>1, <2>1, <2>4
  <2> QED
    BY <1>1, <2>2, <2>3, <2>4
<1>2. CASE k # "up"
  <2>1. /\ delivered \in Seq([id : Nat, conn : Conns])
        /\ answered \in Seq([id : Nat, conn : Conns, ok : BOOLEAN])
        /\ \A e \in Conns : down[e] \in Seq(DownMessage)
    BY DEF IInv, TypeOK, ConnTypeOK, ClientTypeOK
  <2> QED
    BY <1>2, <2>1 DEF Holds
<1> QED
  BY <1>1, <1>2 DEF Holds

LEMMA SendTransmitKeeps ==
    ASSUME MInv, IInv', NEW p \in Clients, UNCHANGED centerVars,
           NEW dest \in HandleOrNone, NEW n \in NameOrNone, SendTransmit(p, dest, n),
           n # NoName /\ dest # NoHandle => Known(n, dest)
    PROVE  MInv'
<1> PICK c, new : c = session[p] /\ new = Len(sent) + 1
  OBVIOUS
<1> DEFINE m == Transmit(sequence[p], myHandle[p], dest, new)
           e == [conn |-> c, seq |-> sequence[p], dest |-> dest, name |-> n]
<1>1. /\ c \in Conns /\ dest \in Handles /\ myHandle[p] # NoHandle /\ dest # NoHandle
      /\ new \in Nat /\ sequence[p] \in Nat /\ myHandle[p] \in HandleOrNone
  BY DEF SendTransmit, TransmitIsValid, HandleOrNone, MInv, IInv, TypeOK, ClientTypeOK
<1>2. /\ m \in UpMessage /\ m.class = "Transmit" /\ m.id = new /\ m.dest = dest
      /\ m.src = myHandle[p]
  BY <1>1 DEF Transmit, TransmitType, UpMessage
<1>3. e \in SentType /\ e.conn = c /\ e.dest = dest /\ e.name = n
  BY <1>1 DEF SentType
<1>4. /\ up' = AfterSendUp(c, <<m>>)
      /\ sent' = Append(sent, e)
      /\ UNCHANGED <<owner, centerEnd, down, session, nameHandles, asked, delivered, answered>>
      /\ UNCHANGED <<fd, value>>
  BY DEF SendTransmit, centerVars
<1> HIDE DEF m, e
<1>5. Owned' /\ Grows
  BY <1>3, <1>4, SameConnections DEF MInv
<1>6. fd[c] = myHandle[p]
  BY <1>1 DEF MInv, IInv, OwnHandle
<1>7. sent \in Seq(SentType)
  BY DEF MInv, IInv, TypeOK, ClientTypeOK
<1>8. /\ DOMAIN sent' = DOMAIN sent \cup {new}
      /\ sent'[new] = e
      /\ new \notin DOMAIN sent
      /\ \A i \in DOMAIN sent : sent'[i] = sent[i]
  BY <1>3, <1>4, <1>7
<1>9. SentTrue'
  <2>1. fd'[e.conn] # NoHandle
    BY <1>1, <1>3, <1>4, <1>6
  <2>2. e.name # NoName => \E x \in Conns : /\ fd'[x] = e.dest /\ owner'[x] \in Clients
                                            /\ NameOf[owner'[x]] = e.name
    BY <1>1, <1>3, <1>4 DEF Known
  <2> QED
    BY <1>5, <1>8, <2>1, <2>2, RecordsStay DEF SentTrue, Known
<1>10. GoodMessages'
  <2>1. m \in GoodUps(c)'
    BY <1>2, <1>3, <1>4, <1>6, <1>8 DEF GoodUps, TransmitAsSent
  <2>2. <<m>> \in Seq(GoodUps(c)')
    BY <2>1
  <2>3. \A d \in Conns : up'[d] \in Seq(GoodUps(d)')
    BY <1>1, <1>4, <1>5, <2>2, UpsGood
  <2>4. \A d \in Conns : Seq(GoodDowns(d)) \subseteq Seq(GoodDowns(d)')
    BY <1>5, GoodDownsStay, SeqMonotone DEF MInv
  <2> QED
    BY <1>4, <2>3, <2>4 DEF GoodMessages, MInv
<1>11. DeliveredTrue' /\ AnsweredTrue' /\ ValuesTrue' /\ DirectoriesTrue'
  BY <1>4, <1>5, HistoryStays, DirectoriesStay DEF MInv, ValuesTrue
<1>12. OnePlace'
  <2> PICK i0 : i0 = Len(up[c]) + 1
    OBVIOUS
  <2> SUFFICES OnlyMoved("none", NoConn, "up", c, i0, new)
    BY OneMoves DEF MInv
  <2> SUFFICES ASSUME NEW id, NEW k, NEW d, NEW i, Holds(k, d, i, id)'
               PROVE  \/ k = "up" /\ d = c /\ i = i0 /\ id = new
                      \/ id # new /\ i \in Nat /\ Holds(k, d, i, id)
    BY NotRead DEF OnlyMoved
  <2>1. \/ i \in Nat /\ Holds(k, d, i, id)
        \/ k = "up" /\ d = c /\ i = Len(up[c]) + 1 /\ Carries(m, id)
    BY <1>1, <1>2, <1>4, WrittenHolds DEF MInv
  <2>2. Holds(k, d, i, id) => id # new
    BY <1>8, PlacesOfSent
  <2> QED
    BY <1>2, <2>1, <2>2 DEF Carries
<1> QED
  BY <1>5, <1>9, <1>10, <1>11, <1>12 DEF MInv

LEMMA SendCommandKeeps ==
    ASSUME MInv, IInv', NEW p \in Clients, UNCHANGED centerVars,
           NEW dest \in HandleOrNone, SendCommandByHandle(p, dest)
    PROVE  MInv'
<1> PICK c : c = session[p]
  OBVIOUS
<1> DEFINE m == Command(myHandle[p], dest, Len(asked) + 1)
<1>1. c \in Conns /\ myHandle[p] \in HandleOrNone /\ Len(asked) + 1 \in Nat
  BY DEF SendCommandByHandle, MInv, IInv, TypeOK, ClientTypeOK
<1>2. m \in UpMessage /\ m.class = "Command"
  BY <1>1 DEF Command, CommandType, UpMessage
<1>3. /\ up' = AfterSendUp(c, <<m>>)
      /\ UNCHANGED <<owner, centerEnd, down, session, nameHandles, sent, delivered, answered>>
      /\ UNCHANGED <<fd, value>>
  BY DEF SendCommandByHandle, clientVars, centerVars
<1> HIDE DEF m
<1>4. Owned' /\ Grows
  BY <1>3, SameConnections DEF MInv
<1>5. GoodMessages'
  <2>1. m \in GoodUps(c)'
    BY <1>2 DEF GoodUps
  <2>2. <<m>> \in Seq(GoodUps(c)')
    BY <2>1
  <2>3. \A d \in Conns : up'[d] \in Seq(GoodUps(d)')
    BY <1>1, <1>3, <1>4, <2>2, UpsGood
  <2>4. \A d \in Conns : Seq(GoodDowns(d)) \subseteq Seq(GoodDowns(d)')
    BY <1>4, GoodDownsStay, SeqMonotone DEF MInv
  <2> QED
    BY <1>3, <2>3, <2>4 DEF GoodMessages, MInv
<1>6. SentTrue' /\ DeliveredTrue' /\ AnsweredTrue' /\ ValuesTrue' /\ DirectoriesTrue'
  BY <1>3, <1>4, HistoryStays, DirectoriesStay DEF MInv, ValuesTrue
<1>7. OnePlace'
  <2> SUFFICES Unmoved("none", NoConn)
    BY NothingMoves DEF MInv
  <2> SUFFICES ASSUME NEW id, NEW k, NEW d, NEW i, Holds(k, d, i, id)'
               PROVE  i \in Nat /\ Holds(k, d, i, id)
    BY NotRead DEF Unmoved
  <2>1. \/ i \in Nat /\ Holds(k, d, i, id)
        \/ k = "up" /\ d = c /\ i = Len(up[c]) + 1 /\ Carries(m, id)
    BY <1>1, <1>2, <1>3, WrittenHolds DEF MInv
  <2> QED
    BY <1>2, <2>1 DEF Carries
<1> QED
  BY <1>4, <1>5, <1>6, <1>7 DEF MInv

(* Connecting and losing the session: the name is on its way up the new    *)
(* connection, what was on its way down the old one is lost.               *)
LEMMA ChannelsLose ==
    ASSUME MInv, IInv', Owned', Grows,
           \A c \in Conns : \/ up'[c] = up[c]
                            \/ \E m \in GoodUps(c)' : m.class = "MyName" /\ up'[c] = <<m>>,
           \A c \in Conns : down'[c] \in {down[c], <<>>},
           UNCHANGED centerVars, UNCHANGED historyVars, ValuesTrue', DirectoriesTrue'
    PROVE  MInv'
<1>1. \A c \in Conns : up[c] \in Seq(GoodUps(c)) /\ down[c] \in Seq(GoodDowns(c))
  BY DEF MInv, GoodMessages
<1>2. \A c \in Conns : Seq(GoodUps(c)) \subseteq Seq(GoodUps(c)')
  BY GoodUpsStay, SeqMonotone DEF MInv
<1>3. \A c \in Conns : Seq(GoodDowns(c)) \subseteq Seq(GoodDowns(c)')
  BY GoodDownsStay, SeqMonotone DEF MInv
<1>4. \A c \in Conns : \A m \in GoodUps(c)' : <<m>> \in Seq(GoodUps(c)')
  OBVIOUS
<1>5. GoodMessages'
  BY <1>1, <1>2, <1>3, <1>4, EmptySeq DEF GoodMessages
<1>6. SentTrue' /\ DeliveredTrue' /\ AnsweredTrue'
  BY HistoryStays DEF historyVars
<1>7. OnePlace'
  <2> SUFFICES Unmoved("none", NoConn)
    BY NothingMoves DEF MInv
  <2> SUFFICES ASSUME NEW id, NEW k, NEW d, NEW i, Holds(k, d, i, id)'
               PROVE  i \in Nat /\ Holds(k, d, i, id)
    BY NotRead DEF Unmoved
  <2>1. CASE k = "up" /\ d \in Conns /\ i \in DOMAIN up'[d] /\ Carries(up'[d][i], id)
    <3>1. \A m : DOMAIN <<m>> = {1} /\ <<m>>[1] = m
      OBVIOUS
    <3>2. up'[d] = up[d]
      BY <2>1, <3>1 DEF Carries
    <3>3. i \in Nat
      BY <1>1, <2>1, <3>2
    <3> QED
      BY <2>1, <3>2, <3>3 DEF Holds
  <2>2. CASE k = "down" /\ d \in Conns /\ i \in DOMAIN down'[d] /\ Carries(down'[d][i], id)
    <3>1. down'[d] = down[d] /\ i \in Nat
      BY <1>1, <2>2
    <3> QED
      BY <2>2, <3>1 DEF Holds
  <2>3. CASE k \notin {"up", "down"}
    <3>1. delivered \in Seq([id : Nat, conn : Conns])
          /\ answered \in Seq([id : Nat, conn : Conns, ok : BOOLEAN])
      BY DEF MInv, IInv, TypeOK, ClientTypeOK
    <3> QED
      BY <2>3, <3>1 DEF Holds, historyVars
  <2> QED
    BY <2>1, <2>2, <2>3 DEF Holds
<1> QED
  BY <1>5, <1>6, <1>7 DEF MInv

LEMMA ConnectedKeeps ==
    ASSUME MInv, IInv', NEW p \in Clients, UNCHANGED centerVars, OnConnected(p)
    PROVE  MInv'
<1> PICK c : c = nConn + 1
  OBVIOUS
<1>1. Owned' /\ Grows
  BY ConnectedGrows DEF MInv
<1>2. c \in Conns
  BY MaxConnAssumption DEF OnConnected, Conns, MInv, IInv, TypeOK, ConnTypeOK
<1>3. /\ owner' = [owner EXCEPT ![c] = p]
      /\ up' = [up EXCEPT ![c] = <<MyName(NameOf[p])>>]
      /\ UNCHANGED <<down, nameHandles>>
      /\ UNCHANGED historyVars
  BY DEF OnConnected
<1>4. owner'[c] = p /\ \A d \in Conns : up'[d] = IF d = c THEN <<MyName(NameOf[p])>> ELSE up[d]
  BY <1>2, <1>3 DEF MInv, IInv, TypeOK, ConnTypeOK
<1>5. MyName(NameOf[p]) \in GoodUps(c)' /\ MyName(NameOf[p]).class = "MyName"
  BY <1>4, ClientAssumption DEF MyName, UpMessage, GoodUps
<1>6. \A d \in Conns : \/ up'[d] = up[d]
                       \/ \E m \in GoodUps(d)' : m.class = "MyName" /\ up'[d] = <<m>>
  BY <1>4, <1>5
<1>7. ValuesTrue' /\ DirectoriesTrue'
  BY <1>1, <1>3, DirectoriesStay DEF MInv, ValuesTrue, Grows, centerVars
<1> QED
  BY <1>1, <1>3, <1>6, <1>7, ChannelsLose

LEMMA EndKeeps ==
    ASSUME MInv, IInv', NEW p \in Clients, UNCHANGED centerVars,
           \/ TickConnect(p) \/ TickConnectThrows(p) \/ OnConnectFailed(p)
           \/ OnClientSessionError(p) \/ Disconnect(p) \/ ClientRestart(p)
    PROVE  MInv'
<1>1. /\ UNCHANGED <<owner, centerEnd, up>> /\ UNCHANGED historyVars
      /\ \A q \in Clients : session'[q] \in {session[q], NoConn}
      /\ \A c \in Conns : down'[c] \in {down[c], <<>>}
      /\ \A q \in Clients : nameHandles'[q] \in {nameHandles[q], EmptyDirectory}
  <2> USE DEF MInv, IInv, TypeOK, ConnTypeOK, ClientTypeOK
  <2>1. CASE TickConnect(p) \/ TickConnectThrows(p) \/ OnConnectFailed(p)
    BY <2>1 DEF TickConnect, TickConnectThrows, OnConnectFailed, connVars
  <2>2. CASE OnClientSessionError(p) \/ Disconnect(p)
    BY <2>2 DEF OnClientSessionError, Disconnect, SetSessionNull
  <2>3. CASE ClientRestart(p)
    BY <2>3 DEF ClientRestart
  <2> QED
    BY <2>1, <2>2, <2>3
<1>2. Owned' /\ Grows
  BY <1>1, SameConnections DEF MInv, historyVars, centerVars
<1>3. DirectoriesTrue'
  BY <1>1 DEF MInv, DirectoriesTrue, Known, EmptyDirectory, centerVars
<1>4. ValuesTrue'
  BY <1>1 DEF MInv, ValuesTrue, centerVars
<1> QED
  BY <1>1, <1>2, <1>3, <1>4, ChannelsLose

(* Every step of a client. *)
LEMMA ClientKeepsMInv ==
    ASSUME MInv, IInv', ClientStep
    PROVE  MInv'
<1>1. UNCHANGED centerVars
  BY DEF ClientStep
<1>2. PICK p \in Clients :
        \/ TickConnect(p) \/ TickConnectThrows(p) \/ OnConnectFailed(p)
        \/ OnClientSessionError(p) \/ Disconnect(p) \/ ClientRestart(p)
        \/ OnConnected(p)
        \/ Receive(p)
        \/ \E h \in HandleOrNone : SendByHandle(p, h) \/ SendCommandByHandle(p, h)
        \/ \E n \in Names : SendByName(p, n) \/ SendCommandByName(p, n)
  BY DEF ClientStep, ClientNext
<1>3. CASE \/ TickConnect(p) \/ TickConnectThrows(p) \/ OnConnectFailed(p)
           \/ OnClientSessionError(p) \/ Disconnect(p) \/ ClientRestart(p)
  BY <1>1, <1>3, EndKeeps
<1>4. CASE OnConnected(p)
  BY <1>1, <1>4, ConnectedKeeps
<1>5. CASE Receive(p)
  <2>1. Owned' /\ Grows
    <3>1. UNCHANGED <<owner, centerEnd, fd, session, sent>>
      BY <1>1, <1>5 DEF Receive, HandleMyHandle, HandleAddNameHandle, HandleRemoveNameHandle,
           IgnoreClearNameHandleList, HandleDelivery, HandleResult, HandleClientCommand,
           Consume, centerVars, clientVars, historyVars
    <3>2. \/ delivered' = delivered
          \/ \E e \in [id : Nat, conn : Conns] : delivered' = Append(delivered, e)
      <4>1. CASE HandleDelivery(p)
        <5> PICK e : e = [id |-> Heard(p).id, conn |-> session[p]]
          OBVIOUS
        <5>1. Heard(p) \in DownMessage /\ Heard(p).class = "Transmit" /\ session[p] \in Conns
          BY <4>1, HeardType DEF HandleDelivery, MInv
        <5>2. Heard(p) \in TransmitType
          BY <5>1 DEF DownMessage, TransmitType, TransmitResultType, CommandType
        <5>3. e \in [id : Nat, conn : Conns]
          BY <5>1, <5>2 DEF TransmitType
        <5> QED
          BY <4>1, <5>3 DEF HandleDelivery
      <4>2. CASE ~HandleDelivery(p)
        BY <1>5, <4>2 DEF Receive, HandleMyHandle, HandleAddNameHandle, HandleRemoveNameHandle,
             IgnoreClearNameHandleList, HandleResult, HandleClientCommand, historyVars
      <4> QED
        BY <4>1, <4>2
    <3> QED
      BY <3>1, <3>2, SameConnections DEF MInv
  <2>2. CASE HandleMyHandle(p) \/ HandleAddNameHandle(p) \/ HandleRemoveNameHandle(p)
    BY <1>1, <2>1, <2>2, DirectoryKeeps
  <2>3. CASE IgnoreClearNameHandleList(p) \/ HandleClientCommand(p)
    <3>1. /\ Consume(p, <<>>) /\ UNCHANGED clientVars /\ UNCHANGED historyVars
          /\ Hears(p, "ClearNameHandleList") \/ Hears(p, "Command")
      BY <2>3 DEF IgnoreClearNameHandleList, HandleClientCommand
    <3>2. DirectoriesTrue'
      BY <2>1, <3>1, DirectoriesStay DEF MInv, clientVars
    <3>3. UNCHANGED <<owner, value>>
      BY <1>1, <3>1 DEF Consume, centerVars
    <3> QED
      BY <2>1, <3>1, <3>2, <3>3, PlainRead
  <2>4. CASE HandleDelivery(p)
    BY <1>1, <2>1, <2>4, DeliveryKeeps
  <2>5. CASE HandleResult(p)
    BY <1>1, <2>1, <2>5, ResultKeeps
  <2> QED
    BY <1>5, <2>2, <2>3, <2>4, <2>5 DEF Receive
<1>6. ASSUME NEW h \in HandleOrNone, SendByHandle(p, h) PROVE MInv'
  BY <1>1, <1>6, SendTransmitKeeps DEF SendByHandle, NameOrNone
<1>7. ASSUME NEW h \in HandleOrNone, SendCommandByHandle(p, h) PROVE MInv'
  BY <1>1, <1>7, SendCommandKeeps
<1>8. ASSUME NEW n \in Names, SendByName(p, n) \/ SendCommandByName(p, n) PROVE MInv'
  <2> PICK h : h = nameHandles[p][n]
    OBVIOUS
  <2>1. h \in HandleOrNone /\ (h # NoHandle => Known(n, h)) /\ n \in NameOrNone
    BY DEF MInv, DirectoriesTrue, IInv, TypeOK, ClientTypeOK, NameOrNone
  <2>2. SendTransmit(p, h, n) \/ SendCommandByHandle(p, h)
    BY <1>8 DEF SendByName, SendCommandByName
  <2> QED
    BY <1>1, <2>1, <2>2, SendTransmitKeeps, SendCommandKeeps
<1> QED
  BY <1>2, <1>3, <1>4, <1>5, <1>6, <1>7, <1>8

-----------------------------------------------------------------------------
LEMMA InitMInv == Init => MInv
<1> SUFFICES ASSUME Init PROVE MInv
  OBVIOUS
<1>1. IInv
  BY InitIInv
<1> USE DEF Init, ConnInit, CenterInit, ClientInit
<1>2. Owned /\ ValuesTrue
  BY DEF Owned, ValuesTrue
<1>3. DirectoriesTrue /\ SentTrue /\ DeliveredTrue /\ AnsweredTrue
  BY DEF DirectoriesTrue, SentTrue, DeliveredTrue, AnsweredTrue, EmptyDirectory
<1>4. GoodMessages
  BY EmptySeq DEF GoodMessages
<1>5. OnePlace
  BY DEF OnePlace, Holds
<1> QED
  BY <1>1, <1>2, <1>3, <1>4, <1>5 DEF MInv

LEMMA StepMInv == MInv /\ [Next]_vars => MInv'
<1> SUFFICES ASSUME MInv, [Next]_vars PROVE MInv'
  OBVIOUS
<1>1. IInv'
  BY StepIInv DEF MInv
<1>2. CASE CenterStep \/ SyncStep
  BY <1>1, <1>2, CenterKeepsMInv
<1>3. CASE ClientStep
  BY <1>1, <1>3, ClientKeepsMInv
<1>4. CASE UNCHANGED vars
  <2> USE DEF MInv
  <2>1. /\ UNCHANGED <<up, down, owner, fd, centerEnd, session, value, nameHandles>>
        /\ UNCHANGED <<sent, delivered, answered>>
    BY <1>4 DEF vars
  <2>2. Grows
    BY <2>1 DEF Grows
  <2>3. Owned' /\ ValuesTrue' /\ DirectoriesTrue'
    BY <2>1 DEF Owned, ValuesTrue, DirectoriesTrue, Known
  <2>4. SentTrue' /\ DeliveredTrue' /\ AnsweredTrue'
    BY <2>1, <2>2, HistoryStays
  <2>5. GoodMessages'
    <3> SUFFICES ASSUME NEW c \in Conns
                 PROVE  up'[c] \in Seq(GoodUps(c)') /\ down'[c] \in Seq(GoodDowns(c)')
      BY DEF GoodMessages
    <3>1. up[c] \in Seq(GoodUps(c)) /\ down[c] \in Seq(GoodDowns(c))
      BY DEF GoodMessages
    <3>2. GoodUps(c) \subseteq GoodUps(c)' /\ GoodDowns(c) \subseteq GoodDowns(c)'
      BY <2>2, GoodUpsStay, GoodDownsStay
    <3> QED
      BY <2>1, <3>1, <3>2, SeqMonotone
  <2>6. OnePlace'
    <3>1. \A id, k, c, i : Holds(k, c, i, id)' => Holds(k, c, i, id)
      BY <2>1 DEF Holds, Carries
    <3> QED
      BY <3>1 DEF OnePlace
  <2> QED
    BY <1>1, <2>3, <2>4, <2>5, <2>6
<1> QED
  BY <1>2, <1>3, <1>4 DEF Next

LEMMA InvariantMInv == Spec => []MInv
BY InitMInv, StepMInv, PTL DEF Spec

-----------------------------------------------------------------------------
LEMMA AtMostOneElement ==
    ASSUME NEW S, \A x, y \in S : x = y
    PROVE  Cardinality(S) \in {0, 1} /\ (Cardinality(S) = 1 <=> S # {})
<1>1. CASE S = {}
  BY <1>1, FS_EmptySet
<1>2. CASE S # {}
  <2>1. PICK x \in S : TRUE
    BY <1>2
  <2>2. S = {x}
    BY <2>1
  <2> QED
    BY <2>2, FS_Singleton
<1> QED
  BY <1>1, <1>2

(* The sets that AtMostOnce counts have one element between them. *)
LEMMA OnePlaceCounts ==
    ASSUME OnePlace, NEW id
    PROVE  InFlight(id) + Refusals(id) + Deliveries(id) <= 1 /\ Deliveries(id) \in {0, 1}
<1> DEFINE U == UNION {{<<c, i>> : i \in {j \in DOMAIN up[c] :
                          up[c][j].class = "Transmit" /\ up[c][j].id = id}} : c \in Conns}
           D == UNION {{<<c, i>> : i \in {j \in DOMAIN down[c] :
                          down[c][j].class = "Transmit" /\ down[c][j].id = id}} : c \in Conns}
           F == UNION {{<<c, i>> : i \in {j \in DOMAIN down[c] :
                          /\ down[c][j].class = "TransmitResult" /\ down[c][j].of = id
                          /\ ~down[c][j].ok}} : c \in Conns}
           A == {i \in DOMAIN answered : answered[i].id = id /\ ~answered[i].ok}
           E == {i \in DOMAIN delivered : delivered[i].id = id}
<1>1. /\ InFlight(id) = Cardinality(U) + Cardinality(D)
      /\ Refusals(id) = Cardinality(F) + Cardinality(A)
      /\ Deliveries(id) = Cardinality(E)
  BY DEF InFlight, Refusals, Deliveries, Positions
<1>2. \A x \in U : \E c, i : x = <<c, i>> /\ Holds("up", c, i, id)
  BY DEF Holds, Carries
<1>3. \A x \in D : \E c, i : x = <<c, i>> /\ Holds("down", c, i, id) /\ down[c][i].class = "Transmit"
  BY DEF Holds, Carries
<1>4. \A x \in F : \E c, i : x = <<c, i>> /\ Holds("down", c, i, id)
                               /\ down[c][i].class = "TransmitResult"
  BY DEF Holds, Carries
<1>5. \A i \in A : Holds("answered", NoConn, i, id)
  BY DEF Holds
<1>6. \A i \in E : Holds("delivered", NoConn, i, id)
  BY DEF Holds
<1> HIDE DEF U, D, F, A, E
<1>7. /\ \A x, y \in U : x = y
      /\ \A x, y \in D : x = y
      /\ \A x, y \in F : x = y
      /\ \A x, y \in A : x = y
      /\ \A x, y \in E : x = y
  BY <1>2, <1>3, <1>4, <1>5, <1>6 DEF OnePlace
<1>8. /\ U # {} => D = {} /\ F = {} /\ A = {} /\ E = {}
      /\ D # {} => F = {} /\ A = {} /\ E = {}
      /\ F # {} => A = {} /\ E = {}
      /\ A # {} => E = {}
  BY <1>2, <1>3, <1>4, <1>5, <1>6 DEF OnePlace
<1>9. /\ Cardinality(U) \in {0, 1} /\ (Cardinality(U) = 1 <=> U # {})
      /\ Cardinality(D) \in {0, 1} /\ (Cardinality(D) = 1 <=> D # {})
      /\ Cardinality(F) \in {0, 1} /\ (Cardinality(F) = 1 <=> F # {})
      /\ Cardinality(A) \in {0, 1} /\ (Cardinality(A) = 1 <=> A # {})
      /\ Cardinality(E) \in {0, 1} /\ (Cardinality(E) = 1 <=> E # {})
  BY <1>7, AtMostOneElement
<1> QED
  BY <1>1, <1>8, <1>9

(* However many clients, sessions, restarts and failures there are, the    *)
(* data that SendByHandle or SendByName took is given to HandleMessage at  *)
(* most once, and never after or before HandleMessageResult has been told  *)
(* that it failed: HandleTransmit of ServerCenter forwards or refuses, and *)
(* the handler of the client consumes what it delivers.                    *)
THEOREM DeliveredAtMostOnce == Spec => []AtMostOnce
<1>1. MInv => AtMostOnce
  BY OnePlaceCounts DEF MInv, AtMostOnce
<1> QED
  BY <1>1, InvariantMInv, PTL

(* A success given to HandleMessageResult is that of a transmit that the   *)
(* receiver's HandleMessage has seen, and it comes to the session that     *)
(* sent it unless the center had given its descriptor out again.           *)
THEOREM AnswersAreTruthful == Spec => []AcksAreTruthful
<1>1. MInv => AcksAreTruthful
  <2> SUFFICES ASSUME MInv, NEW i \in DOMAIN answered, answered[i].ok
               PROVE  /\ Deliveries(answered[i].id) = 1
                      /\ sent[answered[i].id].conn = answered[i].conn \/ Reused(fd[answered[i].conn])
    BY DEF AcksAreTruthful
  <2> DEFINE a == answered[i]
  <2>1. /\ a.id \in DOMAIN sent /\ WasDelivered(a.id)
        /\ fd[a.conn] = fd[sent[a.id].conn]
    BY DEF MInv, AnsweredTrue
  <2>2. Deliveries(a.id) = 1
    <3> DEFINE E == {j \in DOMAIN delivered : delivered[j].id = a.id}
    <3>1. \A x, y \in E : x = y
      BY DEF MInv, OnePlace, Holds
    <3>2. E # {}
      BY <2>1 DEF WasDelivered
    <3> HIDE DEF E
    <3>3. Cardinality(E) = 1
      BY <3>1, <3>2, AtMostOneElement
    <3> QED
      BY <3>3 DEF Deliveries, E
  <2>3. a.conn \in Conns /\ sent[a.id].conn \in Conns
    BY <2>1, HistoryTypes DEF MInv
  <2> QED
    BY <2>1, <2>2, <2>3 DEF Reused
<1> QED
  BY <1>1, InvariantMInv, PTL

(* A transmit that was sent by name is delivered to a client of that name, *)
(* unless the center had given the descriptor of the name out again: the   *)
(* directories never hold a descriptor that no client of the name had.     *)
THEOREM DeliveredByName == Spec => []NamedDelivery
<1>1. MInv => NamedDelivery
  <2> SUFFICES ASSUME MInv, NEW i \in DOMAIN delivered, sent[delivered[i].id].name # NoName
               PROVE  \/ NameOf[owner[delivered[i].conn]] = sent[delivered[i].id].name
                      \/ Reused(fd[delivered[i].conn])
    BY DEF NamedDelivery
  <2>1. /\ delivered[i].id \in DOMAIN sent /\ delivered[i].conn \in Conns
        /\ fd[delivered[i].conn] = sent[delivered[i].id].dest
    BY HistoryTypes DEF MInv, DeliveredTrue
  <2>2. Known(sent[delivered[i].id].name, sent[delivered[i].id].dest)
    BY <2>1 DEF MInv, SentTrue
  <2> QED
    BY <2>1, <2>2 DEF Known, Reused
<1> QED
  BY <1>1, InvariantMInv, PTL

-----------------------------------------------------------------------------
(* A command that is under way is the one that was asked under its id. *)
CommandAsAsked(m) ==
    m.class = "Command" => m.of \in DOMAIN asked /\ m.src = asked[m.of].src

CommandsAsAsked == \A c \in Conns : \A i \in DOMAIN up[c] : CommandAsAsked(up[c][i])

(* The source of a command is the descriptor of the session it was sent    *)
(* from, if the client had been told that already.                         *)
AskedTrue ==
    \A i \in DOMAIN asked :
        asked[i].src # NoHandle => fd[asked[i].conn] = asked[i].src

(* The script thread has ids of commands only, and m_CurSrc is the source  *)
(* of the newest.                                                          *)
QueuesTrue == lines \in Seq(Nat \ {0}) /\ results \in Seq(Nat \ {0})
NewestAsked == lastLine # 0 => lastLine \in DOMAIN asked /\ curSrc = asked[lastLine].src

(* The inductive invariant, on top of MInv. *)
RInv ==
    /\ MInv
    /\ CommandsAsAsked
    /\ AskedTrue
    /\ QueuesTrue
    /\ NewestAsked

AskedGrows == \A i \in DOMAIN asked : i \in DOMAIN asked' /\ asked'[i] = asked[i]

(* What a step writes to the center, besides what was there. *)
UpsFrom ==
    \A c \in Conns : \A i \in DOMAIN up'[c] :
        \/ \E j \in DOMAIN up[c] : up'[c][i] = up[c][j]
        \/ \E m : up'[c][i] = m /\ CommandAsAsked(m)'

LEMMA AskedTypes ==
    ASSUME IInv
    PROVE  \A i \in DOMAIN asked : asked[i].conn \in Conns /\ asked[i].src \in HandleOrNone
<1>1. \A i \in DOMAIN asked : asked[i] \in AskedType
  BY SeqElements DEF IInv, TypeOK, ClientTypeOK
<1> QED
  BY <1>1 DEF AskedType

LEMMA CommandsStay ==
    ASSUME CommandsAsAsked, AskedGrows, UpsFrom
    PROVE  CommandsAsAsked'
<1>1. \A m : CommandAsAsked(m) => CommandAsAsked(m)'
  BY DEF CommandAsAsked, AskedGrows
<1> QED
  BY <1>1 DEF CommandsAsAsked, UpsFrom

(* The steps that the script thread has no part in and that ask nothing. *)
LEMMA NothingAsked ==
    ASSUME RInv, MInv', UNCHANGED asked, UNCHANGED scriptVars, UpsFrom,
           \A c \in Conns : fd[c] # NoHandle => fd'[c] = fd[c]
    PROVE  RInv'
<1>1. CommandsAsAsked'
  BY CommandsStay DEF RInv, AskedGrows
<1>2. AskedTrue'
  BY AskedTypes DEF RInv, MInv, AskedTrue
<1>3. QueuesTrue' /\ NewestAsked'
  BY DEF RInv, QueuesTrue, NewestAsked, scriptVars
<1> QED
  BY <1>1, <1>2, <1>3 DEF RInv

LEMMA ReadUpsFrom ==
    ASSUME MInv, Grows, NEW c \in Conns, NEW class, Reads(c, class), NEW o, Answer(c, o)
    PROVE  UpsFrom
BY UpsRead DEF UpsFrom

LEMMA SameUpsFrom == ASSUME UNCHANGED up PROVE UpsFrom
BY DEF UpsFrom

(* HandleCommand: the command is as it was asked, so is the source kept.   *)
LEMMA HandleCommandAsks ==
    ASSUME RInv, MInv', Grows, NEW c \in Conns, HandleCommand(c), UNCHANGED historyVars
    PROVE  RInv'
<1> PICK m : m = Head(up[c])
  OBVIOUS
<1>1. Reads(c, "Command") /\ \E o : Answer(c, o)
  BY DEF HandleCommand
<1>2. UpsFrom
  BY <1>1, ReadUpsFrom DEF RInv
<1>3. /\ 1 \in DOMAIN up[c] /\ m = up[c][1]
      /\ m.class = "Command"
  BY <1>1, UpsRead DEF RInv
<1>4. m.of \in DOMAIN asked /\ m.src = asked[m.of].src
  BY <1>3 DEF RInv, CommandsAsAsked, CommandAsAsked
<1>5. asked \in Seq(AskedType) /\ m.of \in Nat \ {0}
  BY <1>4 DEF RInv, MInv, IInv, TypeOK, ClientTypeOK
<1>6. /\ UNCHANGED results
      /\ \/ UNCHANGED scriptVars
         \/ /\ curSrc' = m.src /\ lastLine' = m.of
            /\ lines' \in {lines, Append(lines, m.of)}
  BY DEF HandleCommand, scriptVars
<1>7. QueuesTrue'
  <2>1. lines \in Seq(Nat \ {0}) => Append(lines, m.of) \in Seq(Nat \ {0})
    BY <1>5
  <2> QED
    BY <1>6, <2>1 DEF RInv, QueuesTrue, scriptVars
<1>8. NewestAsked'
  BY <1>4, <1>6 DEF RInv, NewestAsked, scriptVars, historyVars
<1>9. CommandsAsAsked'
  BY <1>2, CommandsStay DEF RInv, AskedGrows, historyVars
<1>10. AskedTrue'
  BY AskedTypes DEF RInv, MInv, AskedTrue, Grows, historyVars
<1> QED
  BY <1>7, <1>8, <1>9, <1>10 DEF RInv

(* The steps of the center and of its script thread. *)
LEMMA CenterKeepsRInv ==
    ASSUME RInv, MInv', CenterStep \/ SyncStep
    PROVE  RInv'
<1>1. UNCHANGED asked /\ UNCHANGED historyVars
  BY DEF CenterStep, SyncStep, historyVars
<1>2. Grows /\ \A c \in Conns : fd[c] # NoHandle => fd'[c] = fd[c]
  BY CenterGrows DEF RInv, MInv, Grows
<1>3. CommandsAsAsked /\ AskedTrue /\ QueuesTrue /\ NewestAsked
  BY DEF RInv
<1>4. AskedTrue'
  BY <1>1, <1>2, <1>3, AskedTypes DEF RInv, MInv, AskedTrue
<1>5. UpsFrom => CommandsAsAsked'
  BY <1>1, <1>3, CommandsStay DEF AskedGrows
<1>6. ASSUME NEW due \in BOOLEAN, Tick(due) PROVE RInv'
  <2>1. UNCHANGED <<up, curSrc, lines, lastLine>> /\ results' \in {results, Tail(results)}
          /\ (results' = Tail(results) => results = <<>> \/ results # <<>>)
    BY <1>6 DEF Tick
  <2>2. results' = IF results # <<>> THEN Tail(results) ELSE results
    BY <1>6 DEF Tick
  <2>3. QueuesTrue'
    BY <1>3, <2>1, <2>2, TailElements DEF QueuesTrue
  <2>4. NewestAsked'
    BY <1>1, <1>3, <2>1 DEF NewestAsked
  <2> QED
    BY <1>4, <1>5, <2>1, <2>3, <2>4, SameUpsFrom DEF RInv
<1>7. CASE SyncStep
  BY <1>6, <1>7 DEF SyncStep
<1>8. CASE CenterStep
  <2>1. ASSUME NEW c \in Conns, NEW h \in Handles, AddSession(c, h) PROVE RInv'
    <3>1. UNCHANGED up /\ UNCHANGED scriptVars
      BY <2>1 DEF AddSession
    <3> QED
      BY <1>1, <1>2, <3>1, SameUpsFrom, NothingAsked
  <2>2. ASSUME NEW c \in Conns,
               HandleMyName(c) \/ HandleTransmit(c) \/ HandleTransmitResult(c)
        PROVE  RInv'
    <3>1. /\ UNCHANGED scriptVars
          /\ \E class, o : Reads(c, class) /\ Answer(c, o)
      BY <2>2 DEF HandleMyName, HandleTransmit, HandleTransmitResult, centerVars, scriptVars
    <3> QED
      BY <1>1, <1>2, <3>1, ReadUpsFrom, NothingAsked DEF RInv
  <2>3. ASSUME NEW c \in Conns, HandleCommand(c) PROVE RInv'
    BY <1>1, <1>2, <2>3, HandleCommandAsks
  <2>4. ASSUME NEW c \in Conns, OnSessionError(c) PROVE RInv'
    <3>1. UNCHANGED scriptVars /\ \A d \in Conns : up'[d] \in {up[d], <<>>}
      BY <2>4, SessionErrorLoses DEF OnSessionError, RInv
    <3>2. UpsFrom
      BY <3>1 DEF UpsFrom
    <3> QED
      BY <1>1, <1>2, <3>1, <3>2, NothingAsked
  <2>5. CASE Tick(FALSE)
    BY <1>6, <2>5
  <2>6. CASE ScriptRun
    <3>1. /\ UNCHANGED <<up, curSrc, lastLine>> /\ lines # <<>> /\ lines' = Tail(lines)
          /\ results' \in {results, Append(results, Head(lines))}
      BY <2>6 DEF ScriptRun, connVars
    <3>2. Tail(lines) \in Seq(Nat \ {0}) /\ Head(lines) \in Nat \ {0}
      BY <1>3, <3>1 DEF QueuesTrue
    <3>3. QueuesTrue'
      <4>1. results \in Seq(Nat \ {0}) => Append(results, Head(lines)) \in Seq(Nat \ {0})
        BY <3>2
      <4> QED
        BY <1>3, <3>1, <3>2, <4>1 DEF QueuesTrue
    <3>4. NewestAsked'
      BY <1>1, <1>3, <3>1 DEF NewestAsked
    <3> QED
      BY <1>4, <1>5, <3>1, <3>3, <3>4, SameUpsFrom DEF RInv
  <2>7. CASE CenterRestart
    <3>1. /\ \A c \in Conns : up'[c] = <<>>
          /\ lines' = <<>> /\ results' = <<>> /\ lastLine' = 0
      BY <2>7 DEF CenterRestart
    <3>2. UpsFrom
      BY <3>1 DEF UpsFrom
    <3>3. QueuesTrue' /\ NewestAsked'
      BY <3>1, EmptySeq DEF QueuesTrue, NewestAsked
    <3> QED
      BY <1>4, <1>5, <3>2, <3>3 DEF RInv
  <2> QED
    BY <1>8, <2>1, <2>2, <2>3, <2>4, <2>5, <2>6, <2>7 DEF CenterStep, CenterNext
<1> QED
  BY <1>7, <1>8

LEMMA OneElement ==
    ASSUME NEW S, NEW m \in S
    PROVE  <<m>> \in Seq(S) /\ \A j \in DOMAIN <<m>> : <<m>>[j] = m
OBVIOUS

(* The steps of a client: what it sends and whether it connects. *)
LEMMA ClientWrites ==
    ASSUME IInv, NEW c \in Conns, NEW r \in Seq(UpMessage), up' = AfterSendUp(c, r),
           \A j \in DOMAIN r : \E m : r[j] = m /\ CommandAsAsked(m)'
    PROVE  UpsFrom
BY UpPositions DEF UpsFrom

LEMMA SendCommandAsks ==
    ASSUME RInv, MInv', NEW p \in Clients, UNCHANGED centerVars,
           NEW dest \in HandleOrNone, SendCommandByHandle(p, dest)
    PROVE  RInv'
<1> PICK c, new : c = session[p] /\ new = Len(asked) + 1
  OBVIOUS
<1> PICK m : m = Command(myHandle[p], dest, new)
  OBVIOUS
<1> DEFINE e == [conn |-> c, src |-> myHandle[p], dest |-> dest]
<1>1. /\ c \in Conns /\ myHandle[p] \in HandleOrNone /\ new \in Nat
      /\ asked \in Seq(AskedType)
  BY DEF SendCommandByHandle, RInv, MInv, IInv, TypeOK, ClientTypeOK
<1>2. m \in UpMessage /\ m.class = "Command" /\ m.of = new /\ m.src = myHandle[p]
  BY <1>1 DEF Command, CommandType, UpMessage
<1>3. e \in AskedType /\ e.conn = c /\ e.src = myHandle[p]
  BY <1>1 DEF AskedType
<1>4. up' = AfterSendUp(c, <<m>>) /\ asked' = Append(asked, e)
  BY DEF SendCommandByHandle
<1> HIDE DEF e
<1>5. /\ DOMAIN asked' = DOMAIN asked \cup {new}
      /\ asked'[new] = e
      /\ \A i \in DOMAIN asked : i # new /\ asked'[i] = asked[i]
  BY <1>1, <1>3, <1>4
<1>6. CommandsAsAsked'
  <2>1. CommandAsAsked(m)'
    BY <1>2, <1>3, <1>5 DEF CommandAsAsked
  <2>2. <<m>> \in Seq(UpMessage) /\ \A j \in DOMAIN <<m>> : <<m>>[j] = m
    BY <1>2, OneElement
  <2>3. UpsFrom
    BY <1>1, <1>4, <2>1, <2>2, ClientWrites DEF RInv, MInv
  <2> QED
    BY <1>5, <2>3, CommandsStay DEF RInv, AskedGrows
<1>7. AskedTrue'
  <2>1. e.src # NoHandle => fd[e.conn] = e.src
    BY <1>3 DEF RInv, MInv, IInv, OwnHandle
  <2> QED
    BY <1>5, <2>1 DEF RInv, AskedTrue, centerVars
<1>8. QueuesTrue' /\ NewestAsked'
  BY <1>5 DEF RInv, QueuesTrue, NewestAsked, centerVars
<1> QED
  BY <1>6, <1>7, <1>8 DEF RInv

LEMMA ClientKeepsRInv ==
    ASSUME RInv, MInv', ClientStep
    PROVE  RInv'
<1>1. /\ UNCHANGED centerVars /\ UNCHANGED fd /\ UNCHANGED scriptVars
      /\ \A c \in Conns : fd[c] # NoHandle => fd'[c] = fd[c]
  BY DEF ClientStep, centerVars, scriptVars
<1>2. PICK p \in Clients :
        \/ TickConnect(p) \/ TickConnectThrows(p) \/ OnConnectFailed(p)
        \/ OnClientSessionError(p) \/ Disconnect(p) \/ ClientRestart(p)
        \/ OnConnected(p)
        \/ Receive(p)
        \/ \E h \in HandleOrNone : SendByHandle(p, h) \/ SendCommandByHandle(p, h)
        \/ \E n \in Names : SendByName(p, n) \/ SendCommandByName(p, n)
  BY DEF ClientStep, ClientNext
<1>3. UNCHANGED asked /\ UpsFrom => RInv'
  BY <1>1, NothingAsked
<1>4. CASE \/ TickConnect(p) \/ TickConnectThrows(p) \/ OnConnectFailed(p)
           \/ OnClientSessionError(p) \/ Disconnect(p) \/ ClientRestart(p)
  <2>1. UNCHANGED <<up, asked>>
    BY <1>4 DEF TickConnect, TickConnectThrows, OnConnectFailed, OnClientSessionError,
         Disconnect, SetSessionNull, ClientRestart, connVars, historyVars
  <2> QED
    BY <1>3, <2>1, SameUpsFrom
<1>5. CASE OnConnected(p)
  <2>1. /\ up' = [up EXCEPT ![nConn + 1] = <<MyName(NameOf[p])>>] /\ UNCHANGED asked
    BY <1>5 DEF OnConnected, historyVars
  <2>2. MyName(NameOf[p]).class = "MyName"
    BY DEF MyName
  <2>3. CommandAsAsked(MyName(NameOf[p]))'
    BY <2>2 DEF CommandAsAsked
  <2>4. \A c \in Conns : up'[c] = up[c] \/ up'[c] = <<MyName(NameOf[p])>>
    BY <2>1 DEF RInv, MInv, IInv, TypeOK, ConnTypeOK
  <2>5. UpsFrom
    BY <2>3, <2>4 DEF UpsFrom
  <2> QED
    BY <1>3, <2>1, <2>5
<1>6. CASE Receive(p)
  <2>1. UNCHANGED asked /\ session[p] \in Conns
    BY <1>6, HeardType DEF Receive, HandleMyHandle, HandleAddNameHandle, HandleRemoveNameHandle,
         IgnoreClearNameHandleList, HandleDelivery, HandleResult, HandleClientCommand,
         historyVars, RInv, MInv
  <2>2. CASE HandleDelivery(p)
    <3> PICK m : m = TransmitResult(Heard(p).seq, Heard(p).dest, Heard(p).src, TRUE, Heard(p).id)
      OBVIOUS
    <3>1. Heard(p) \in DownMessage /\ Heard(p).class = "Transmit"
      BY <2>2, HeardType DEF HandleDelivery, RInv, MInv
    <3>2. Heard(p) \in TransmitType
      BY <3>1 DEF DownMessage, TransmitType, TransmitResultType, CommandType
    <3>3. m \in UpMessage /\ m.class = "TransmitResult"
      BY <3>2 DEF TransmitType, TransmitResult, TransmitResultType, UpMessage
    <3>4. CommandAsAsked(m)'
      BY <3>3 DEF CommandAsAsked
    <3>5. <<m>> \in Seq(UpMessage) /\ \A j \in DOMAIN <<m>> : <<m>>[j] = m
      BY <3>3, OneElement
    <3>6. up' = AfterSendUp(session[p], <<m>>)
      BY <2>2 DEF HandleDelivery, Consume
    <3> QED
      BY <1>3, <2>1, <3>4, <3>5, <3>6, ClientWrites DEF RInv, MInv
  <2>3. CASE ~HandleDelivery(p)
    <3>1. up' = AfterSendUp(session[p], <<>>)
      BY <1>6, <2>3 DEF Receive, HandleMyHandle, HandleAddNameHandle, HandleRemoveNameHandle,
           IgnoreClearNameHandleList, HandleResult, HandleClientCommand, Consume
    <3>2. <<>> \in Seq(UpMessage) /\ DOMAIN <<>> = {}
      OBVIOUS
    <3> QED
      BY <1>3, <2>1, <3>1, <3>2, ClientWrites DEF RInv, MInv
  <2> QED
    BY <2>2, <2>3
<1>7. ASSUME NEW h \in HandleOrNone, NEW n \in NameOrNone, SendTransmit(p, h, n) PROVE RInv'
  <2> PICK m : m = Transmit(sequence[p], myHandle[p], h, Len(sent) + 1)
    OBVIOUS
  <2>1. session[p] \in Conns /\ UNCHANGED asked /\ up' = AfterSendUp(session[p], <<m>>)
    BY <1>7 DEF SendTransmit, RInv, MInv, IInv, TypeOK, ClientTypeOK
  <2>2. m \in UpMessage /\ m.class = "Transmit"
    BY DEF RInv, MInv, IInv, TypeOK, ClientTypeOK, Transmit, TransmitType, UpMessage
  <2>3. CommandAsAsked(m)'
    BY <2>2 DEF CommandAsAsked
  <2>4. <<m>> \in Seq(UpMessage) /\ \A j \in DOMAIN <<m>> : <<m>>[j] = m
    BY <2>2, OneElement
  <2> QED
    BY <1>3, <2>1, <2>3, <2>4, ClientWrites DEF RInv, MInv
<1>8. ASSUME NEW h \in HandleOrNone, SendByHandle(p, h) \/ SendCommandByHandle(p, h) PROVE RInv'
  BY <1>1, <1>7, <1>8, SendCommandAsks DEF SendByHandle, NameOrNone
<1>9. ASSUME NEW n \in Names, SendByName(p, n) \/ SendCommandByName(p, n) PROVE RInv'
  <2>1. nameHandles[p][n] \in HandleOrNone /\ n \in NameOrNone
    BY DEF RInv, MInv, IInv, TypeOK, ClientTypeOK, NameOrNone
  <2> QED
    BY <1>1, <1>7, <1>9, <2>1, SendCommandAsks DEF SendByName, SendCommandByName
<1> QED
  BY <1>2, <1>4, <1>5, <1>6, <1>8, <1>9

LEMMA InitRInv == Init => RInv
<1> SUFFICES ASSUME Init PROVE RInv
  OBVIOUS
<1>1. MInv
  BY InitMInv
<1>2. \A c \in Conns : up[c] = <<>>
  BY DEF Init, ConnInit
<1>3. asked = <<>> /\ lines = <<>> /\ results = <<>> /\ lastLine = 0
  BY DEF Init, CenterInit, ClientInit
<1> QED
  BY <1>1, <1>2, <1>3, EmptySeq DEF RInv, CommandsAsAsked, AskedTrue, QueuesTrue, NewestAsked

LEMMA StepRInv == RInv /\ [Next]_vars => RInv'
<1> SUFFICES ASSUME RInv, [Next]_vars PROVE RInv'
  OBVIOUS
<1>1. MInv'
  BY StepMInv DEF RInv
<1>2. CASE UNCHANGED vars
  <2>1. UNCHANGED <<up, asked, fd, curSrc, lines, results, lastLine>>
    BY <1>2 DEF vars
  <2> QED
    BY <1>1, <2>1, SameUpsFrom, NothingAsked DEF scriptVars
<1> QED
  BY <1>1, <1>2, CenterKeepsRInv, ClientKeepsRInv DEF Next

LEMMA InvariantRInv == Spec => []RInv
BY InitRInv, StepRInv, PTL DEF Spec

-----------------------------------------------------------------------------
NoCommands == {m \in DownMessage : m.class # "Command"}

(* The lists that a sync sends hold no commands. *)
LEMMA NameHandleListQuiet ==
    ASSUME IInv, NEW S \in SUBSET sessions
    PROVE  NameHandleList(S) \in Seq(NoCommands)
<1> DEFINE T == {c \in S : value[c] # NoName}
           q == InOrder(T)
<1>1. /\ sessions \subseteq Conns /\ \A d \in sessions : fd[d] \in Handles
      /\ value \in [Conns -> NameOrNone]
  BY DEF IInv, HandlesUnique, OpenHasHandle, TypeOK, CenterTypeOK
<1>2. q \in Seq(T)
  BY <1>1, InOrderType
<1>3. \A i \in DOMAIN q : AddNameHandle(value[q[i]], fd[q[i]]) \in NoCommands
  BY <1>1, <1>2, SeqElements DEF NoCommands, DownMessage, AddNameHandle, NameOrNone
<1>4. DOMAIN q = 1..Len(q) /\ Len(q) \in Nat
  BY <1>2
<1> HIDE DEF q
<1>5. [i \in DOMAIN q |-> AddNameHandle(value[q[i]], fd[q[i]])] \in Seq(NoCommands)
  BY <1>3, <1>4
<1> QED
  BY <1>5 DEF NameHandleList, q

LEMMA SyncOutQuiet ==
    ASSUME IInv, NEW valid \in SUBSET sessions, NEW c \in Conns
    PROVE  SyncOut(valid)[c] \in Seq(NoCommands)
<1> DEFINE gone == InOrder(sessions \ valid)
           removals == [i \in DOMAIN gone |-> RemoveNameHandle(value[gone[i]], fd[gone[i]])]
<1>1. /\ sessions \subseteq Conns /\ \A d \in sessions : fd[d] \in Handles
      /\ value \in [Conns -> NameOrNone]
  BY DEF IInv, HandlesUnique, OpenHasHandle, TypeOK, CenterTypeOK
<1>2. gone \in Seq(sessions \ valid)
  BY <1>1, InOrderType
<1>3. \A i \in DOMAIN gone : RemoveNameHandle(value[gone[i]], fd[gone[i]]) \in NoCommands
  BY <1>1, <1>2, SeqElements DEF NoCommands, DownMessage, RemoveNameHandle
<1>4. DOMAIN gone = 1..Len(gone) /\ Len(gone) \in Nat
  BY <1>2
<1>5. SyncOut(valid)[c] = IF c \in valid
                            THEN removals \o <<ClearNameHandleList>> \o NameHandleList(valid)
                            ELSE <<>>
  BY DEF SyncOut
<1> HIDE DEF gone
<1>6. removals \in Seq(NoCommands)
  BY <1>3, <1>4
<1>7. <<ClearNameHandleList>> \in Seq(NoCommands)
  BY DEF ClearNameHandleList, NoCommands, DownMessage
<1> HIDE DEF removals
<1> QED
  BY <1>5, <1>6, <1>7, NameHandleListQuiet, ConcatSeq, EmptySeq

LEMMA LastOfConcat ==
    ASSUME NEW S, NEW s \in Seq(S), NEW T, NEW t \in Seq(T),
           Len(s \o t) > Len(s)
    PROVE  /\ t # <<>> /\ Len(t) \in DOMAIN t
           /\ (s \o t)[Len(s \o t)] = t[Len(t)]
OBVIOUS

LEMMA QuietEnd ==
    ASSUME NEW s \in Seq(DownMessage), NEW t \in Seq(NoCommands),
           NEW u \in {s, s \o t}, Len(u) > Len(s)
    PROVE  u[Len(u)].class # "Command"
<1>1. u # s
  <2>1. Len(s) \in Nat
    OBVIOUS
  <2> QED
    BY <2>1
<1>2. Len(t) \in DOMAIN t /\ u[Len(u)] = t[Len(t)]
  BY <1>1, LastOfConcat
<1>3. t[Len(t)] \in NoCommands
  BY <1>2, SeqElements
<1> QED
  BY <1>2, <1>3 DEF NoCommands

(* What a tick writes last on a connection is a command only if a result   *)
(* was sent, to the session that has m_CurSrc.                             *)
LEMMA TickWrites ==
    ASSUME IInv, NEW due \in BOOLEAN, Tick(due), NEW c \in Conns,
           Len(down'[c]) > Len(down[c]), down'[c][Len(down'[c])].class = "Command"
    PROVE  curSrc # NoHandle /\ fd[c] = curSrc
<1> PICK valid : valid = IF due THEN sessions \ InvalidSessions ELSE sessions
  OBVIOUS
<1> PICK sync : sync = IF due THEN SyncOut(valid) ELSE Silence
  OBVIOUS
<1>1. valid \in SUBSET sessions
  OBVIOUS
<1>2. sync[c] \in Seq(NoCommands)
  BY <1>1, SyncOutQuiet, EmptySeq DEF Silence
<1>3. ResultOut(valid)[c] \in Seq(DownMessage) /\ down[c] \in Seq(DownMessage)
  BY <1>1, ResultOutType DEF Downs, IInv, TypeOK, ConnTypeOK
<1>4. down' = AfterSendDown([b \in Conns |-> sync[b] \o ResultOut(valid)[b]])
  BY DEF Tick
<1>5. down'[c] = IF clientEnd[c] = "closed" THEN down[c]
                                            ELSE down[c] \o (sync[c] \o ResultOut(valid)[c])
  BY <1>4 DEF AfterSendDown
<1> PICK r : r = ResultOut(valid)[c]
  OBVIOUS
<1>6. r # <<>>
  <2> SUFFICES ASSUME r = <<>> PROVE FALSE
    OBVIOUS
  <2>1. \A t \in Seq(NoCommands) : t \o <<>> = t
    OBVIOUS
  <2>2. down'[c] = IF clientEnd[c] = "closed" THEN down[c] ELSE down[c] \o sync[c]
    BY <1>2, <1>5, <2>1
  <2> QED
    BY <1>2, <1>3, <2>2, QuietEnd
<1>7. c = ResultTo(valid) /\ CanSend(ResultTo(valid))
  BY <1>6 DEF ResultOut, Silence, To
<1>8. SessionOf(curSrc) = c /\ c \in sessions
  BY <1>1, <1>7 DEF ResultTo, CanSend
<1> QED
  BY <1>7, <1>8, SessionOfHandle, HandlesAssumption DEF IInv, HandlesUnique, OpenHasHandle

(* HandleCommand keeps one m_CurSrc, which the next command overwrites:    *)
(* still the result of the command that came last goes to the session that *)
(* sent it, or to nobody, or to the new user of its descriptor, whatever   *)
(* is restarted in between.                                                *)
THEOREM ResultsReachTheAsker == Spec => ResultReachesAsker
<1> DEFINE Step ==
      \A c \in Conns :
          /\ results # <<>>
          /\ results' = Tail(results)
          /\ lastLine = Head(results)
          /\ Len(down'[c]) > Len(down[c])
          /\ down'[c][Len(down'[c])].class = "Command"
          => asked[lastLine].conn = c \/ Reused(fd[c])
<1>1. ASSUME RInv, [Next]_vars PROVE Step
  <2> SUFFICES ASSUME NEW c \in Conns, results # <<>>, results' = Tail(results),
                      lastLine = Head(results), Len(down'[c]) > Len(down[c]),
                      down'[c][Len(down'[c])].class = "Command"
               PROVE  asked[lastLine].conn = c \/ Reused(fd[c])
    OBVIOUS
  <2>1. results \in Seq(Nat \ {0})
    BY <1>1 DEF RInv, QueuesTrue
  <2>2. results' # results /\ \A e \in Nat : results' # Append(results, e)
    BY <2>1
  <2>3. down' # down
    <3>1. Len(down[c]) \in Nat
      BY <1>1 DEF RInv, MInv, IInv, TypeOK, ConnTypeOK
    <3> QED
      BY <3>1
  <2>4. \E due \in BOOLEAN : Tick(due)
    <3>1. CASE ScriptRun
      <4>1. results' \in {results, Append(results, Head(lines))} /\ lines # <<>>
        BY <3>1 DEF ScriptRun
      <4>2. Head(lines) \in Nat
        BY <1>1, <4>1 DEF RInv, QueuesTrue
      <4> QED
        BY <2>2, <4>1, <4>2
    <3>2. CASE CenterRestart
      BY <2>3, <3>2 DEF CenterRestart
    <3>3. CASE ClientStep
      BY <2>2, <3>3 DEF ClientStep, centerVars
    <3>4. CASE UNCHANGED vars
      BY <2>2, <3>4 DEF vars
    <3>5. ASSUME NEW d \in Conns,
                 \/ \E h \in Handles : AddSession(d, h)
                 \/ HandleMyName(d) \/ HandleTransmit(d) \/ HandleTransmitResult(d)
                 \/ HandleCommand(d) \/ OnSessionError(d)
          PROVE  FALSE
      BY <2>2, <3>5 DEF AddSession, HandleMyName, HandleTransmit, HandleTransmitResult,
           HandleCommand, OnSessionError, centerVars, scriptVars
    <3> QED
      BY <1>1, <3>1, <3>2, <3>3, <3>4, <3>5 DEF Next, CenterStep, CenterNext, SyncStep
  <2>5. curSrc # NoHandle /\ fd[c] = curSrc
    BY <1>1, <2>4, TickWrites DEF RInv, MInv
  <2>6. lastLine # 0
    BY <2>1
  <2>7. lastLine \in DOMAIN asked /\ curSrc = asked[lastLine].src
    BY <1>1, <2>6 DEF RInv, NewestAsked
  <2>8. fd[asked[lastLine].conn] = fd[c] /\ asked[lastLine].conn \in Conns
    BY <1>1, <2>5, <2>7, AskedTypes DEF RInv, MInv, AskedTrue
  <2> QED
    BY <2>8 DEF Reused
<1>2. RInv /\ [Next]_vars => [Step]_vars
  BY <1>1
<1> QED
  BY <1>2, InvariantRInv, PTL DEF Spec, ResultReachesAsker
-----------------------------------------------------------------------------
(* InOrder(S) lists S: every finite set of connections has an ascending    *)
(* enumeration, the rank of a connection being the number of those of S    *)
(* that are not larger.                                                    *)
LEMMA AscendingExists ==
    ASSUME NEW S \in SUBSET Conns
    PROVE  Ascending(S) # {}
<1> DEFINE n == Cardinality(S)
           upTo(c) == {d \in S : d <= c}
           rank == [c \in S |-> Cardinality(upTo(c))]
<1>1. S \subseteq Nat /\ IsFiniteSet(S) /\ n \in Nat
  BY MaxConnAssumption, ConnsFinite DEF Conns
<1>2. ASSUME NEW c \in S
      PROVE  /\ IsFiniteSet(upTo(c)) /\ Cardinality(upTo(c)) \in Nat
             /\ Cardinality(upTo(c)) <= n /\ Cardinality(upTo(c)) # 0
  <2>1. upTo(c) \in SUBSET S /\ c \in upTo(c)
    BY <1>1, <1>2
  <2> QED
    BY <1>1, <2>1, FS_Subset, FS_CardinalityType, FS_EmptySet
<1>3. rank \in [S -> 1..n]
  BY <1>1, <1>2
<1>4. ASSUME NEW c \in S, NEW d \in S, c < d PROVE rank[c] < rank[d]
  <2>1. upTo(c) \in SUBSET upTo(d)
    <3>1. \A e \in S : e <= c => e <= d
      BY <1>1, <1>4
    <3> QED
      BY <3>1
  <2>2. d \in upTo(d) /\ d \notin upTo(c)
    BY <1>1, <1>4
  <2>3. Cardinality(upTo(c)) <= Cardinality(upTo(d)) /\ Cardinality(upTo(c)) # Cardinality(upTo(d))
    BY <1>2, <2>1, <2>2, FS_Subset
  <2> QED
    BY <1>2, <2>3
<1> HIDE DEF rank
<1>5. \A c, d \in S : rank[c] = rank[d] => c = d
  <2> SUFFICES ASSUME NEW c \in S, NEW d \in S, c # d PROVE rank[c] # rank[d]
    OBVIOUS
  <2>1. rank[c] \in Nat /\ rank[d] \in Nat
    BY <1>1, <1>3
  <2>2. c < d \/ d < c
    BY <1>1
  <2> QED
    BY <1>4, <2>1, <2>2
<1>6. rank \in Surjection(S, 1..n)
  <2>1. rank \in Injection(S, 1..n)
    BY <1>3, <1>5 DEF Injection, IsInjective
  <2>2. IsFiniteSet(1..n) /\ Cardinality(1..n) = n
    BY <1>1, FS_Interval
  <2> QED
    BY <2>1, <2>2, FS_Injection
<1>7. \A i \in 1..n : \E c \in S : rank[c] = i
  BY <1>6 DEF Surjection
<1> DEFINE q == [i \in 1..n |-> CHOOSE c \in S : rank[c] = i]
<1>8. \A i \in 1..n : q[i] \in S /\ rank[q[i]] = i
  BY <1>7
<1>9. q \in [1..n -> S]
  BY <1>8
<1> HIDE DEF q
<1>10. ASSUME NEW i \in 1..n, NEW j \in 1..n, i < j PROVE q[i] < q[j]
  <2>1. q[i] \in Nat /\ q[j] \in Nat /\ rank[q[i]] = i /\ rank[q[j]] = j /\ q[i] \in S /\ q[j] \in S
    BY <1>1, <1>8
  <2>2. q[j] < q[i] => j < i
    BY <1>4, <2>1
  <2>3. i \in Nat /\ j \in Nat
    BY <1>1
  <2> QED
    BY <1>10, <2>1, <2>2, <2>3
<1>11. q \in Ascending(S)
  <2>1. DOMAIN q = 1..n
    BY <1>9
  <2> QED
    BY <1>9, <1>10, <2>1 DEF Ascending
<1> QED
  BY <1>11

LEMMA InOrderLists ==
    ASSUME NEW S \in SUBSET Conns
    PROVE  /\ InOrder(S) \in Seq(S)
           /\ \A c \in S : \E i \in DOMAIN InOrder(S) : InOrder(S)[i] = c
           /\ \A i, j \in DOMAIN InOrder(S) : InOrder(S)[i] = InOrder(S)[j] => i = j
<1> PICK q : q = InOrder(S)
  OBVIOUS
<1> PICK n : n = Cardinality(S)
  OBVIOUS
<1>1. S \subseteq Nat /\ IsFiniteSet(S) /\ n \in Nat
  BY MaxConnAssumption, ConnsFinite DEF Conns
<1>2. q \in [1..n -> S] /\ \A i, j \in DOMAIN q : i < j => q[i] < q[j]
  BY AscendingExists DEF InOrder, Ascending
<1>3. ASSUME NEW i \in 1..n, NEW j \in 1..n, i # j PROVE q[i] # q[j]
  <2>1. i \in Nat /\ j \in Nat /\ DOMAIN q = 1..n /\ q[i] \in S /\ q[j] \in S
    BY <1>1, <1>2
  <2>2. i < j \/ j < i
    BY <1>3, <2>1
  <2>3. q[i] < q[j] \/ q[j] < q[i]
    BY <1>2, <2>1, <2>2
  <2>4. q[i] \in Nat /\ q[j] \in Nat
    BY <1>1, <2>1
  <2> QED
    BY <2>3, <2>4
<1>4. q \in Surjection(1..n, S)
  <2>1. \A i, j \in DOMAIN q : q[i] = q[j] => i = j
    BY <1>2, <1>3
  <2>2. q \in Injection(1..n, S)
    <3>1. q \in [1..n -> S] /\ IsInjective(q)
      BY <1>2, <2>1 DEF IsInjective
    <3> QED
      BY <3>1 DEF Injection
  <2>3. Cardinality(1..n) = n
    BY <1>1, FS_Interval
  <2> QED
    BY <1>1, <2>2, <2>3, FS_Injection
<1> QED
  BY <1>2, <1>3, <1>4, InOrderType DEF Surjection

-----------------------------------------------------------------------------
(* What messages tell a client about a name. *)
LEMMA TailSays ==
    ASSUME NEW p, NEW n, NEW h, NEW s \in Seq(DownMessage), s # <<>>
    PROVE  /\ LastSays(p, s, n, h) =>
                  \/ LastSays(p, Tail(s), n, h)
                  \/ Silent(p, Tail(s), n) /\ Mentions(p, Head(s), n) /\ Says(Head(s)) = h
           /\ Silent(p, s, n) => Silent(p, Tail(s), n) /\ ~Mentions(p, Head(s), n)
<1> PICK t : t = Tail(s)
  OBVIOUS
<1>1. \A i \in DOMAIN t : i \in Nat /\ i # 0 /\ i + 1 \in DOMAIN s /\ t[i] = s[i + 1]
  BY TailElements
<1>2. 1 \in DOMAIN s /\ Head(s) = s[1] /\ DOMAIN s \subseteq Nat \ {0}
  OBVIOUS
<1>3. \A i \in DOMAIN s : i = 1 \/ (i - 1 \in DOMAIN t /\ t[i - 1] = s[i])
  OBVIOUS
<1>4. ASSUME LastSays(p, s, n, h), ~LastSays(p, t, n, h)
      PROVE  Silent(p, t, n) /\ Mentions(p, Head(s), n) /\ Says(Head(s)) = h
  <2> PICK i \in DOMAIN s : /\ Mentions(p, s[i], n) /\ Says(s[i]) = h
                            /\ \A j \in DOMAIN s : Mentions(p, s[j], n) => j <= i
    BY <1>4 DEF LastSays
  <2>1. i = 1
    <3> SUFFICES ASSUME i # 1 PROVE FALSE
      OBVIOUS
    <3>1. i \in Nat /\ i - 1 \in DOMAIN t /\ t[i - 1] = s[i]
      BY <1>2, <1>3
    <3>2. \A j \in DOMAIN t : Mentions(p, t[j], n) => j <= i - 1
      <4> TAKE j \in DOMAIN t
      <4> HAVE Mentions(p, t[j], n)
      <4>1. j \in Nat /\ j + 1 \in DOMAIN s /\ t[j] = s[j + 1]
        BY <1>1
      <4>2. j + 1 <= i
        BY <4>1
      <4> QED
        BY <3>1, <4>1, <4>2
    <3>3. LastSays(p, t, n, h)
      BY <3>1, <3>2 DEF LastSays
    <3> QED
      BY <1>4, <3>3
  <2>2. Silent(p, t, n)
    <3> SUFFICES ASSUME NEW j \in DOMAIN t, Mentions(p, t[j], n) PROVE FALSE
      BY DEF Silent
    <3>1. j \in Nat /\ j # 0 /\ j + 1 \in DOMAIN s /\ t[j] = s[j + 1]
      BY <1>1
    <3>2. j + 1 <= 1
      BY <2>1, <3>1
    <3> QED
      BY <3>1, <3>2
  <2> QED
    BY <1>2, <2>1, <2>2
<1>5. Silent(p, s, n) => Silent(p, t, n) /\ ~Mentions(p, Head(s), n)
  BY <1>1, <1>2 DEF Silent
<1> QED
  BY <1>4, <1>5

LEMMA ConcatSays ==
    ASSUME NEW p, NEW n, NEW h, NEW s \in Seq(DownMessage), NEW t \in Seq(DownMessage)
    PROVE  /\ LastSays(p, t, n, h) => LastSays(p, s \o t, n, h)
           /\ Silent(p, t, n) /\ LastSays(p, s, n, h) => LastSays(p, s \o t, n, h)
           /\ Silent(p, t, n) /\ Silent(p, s, n) => Silent(p, s \o t, n)
<1> PICK u : u = s \o t
  OBVIOUS
<1>1. \A i \in DOMAIN u : /\ i \in Nat
                          /\ \/ i \in DOMAIN s /\ u[i] = s[i]
                             \/ \E j \in DOMAIN t : i = Len(s) + j /\ u[i] = t[j]
  BY ConcatElements
<1>2. /\ \A i \in DOMAIN s : i \in Nat /\ i <= Len(s) /\ i \in DOMAIN u /\ u[i] = s[i]
      /\ Len(s) \in Nat
      /\ \A j \in DOMAIN t : j \in Nat /\ Len(s) + j \in DOMAIN u /\ u[Len(s) + j] = t[j]
  OBVIOUS
<1>3. ASSUME LastSays(p, t, n, h) PROVE LastSays(p, u, n, h)
  <2> PICK k \in DOMAIN t : /\ Mentions(p, t[k], n) /\ Says(t[k]) = h
                            /\ \A j \in DOMAIN t : Mentions(p, t[j], n) => j <= k
    BY <1>3 DEF LastSays
  <2>1. \A i \in DOMAIN u : Mentions(p, u[i], n) => i <= Len(s) + k
    <3> TAKE i \in DOMAIN u
    <3> HAVE Mentions(p, u[i], n)
    <3>1. CASE i \in DOMAIN s
      BY <1>2, <3>1
    <3>2. ASSUME NEW j \in DOMAIN t, i = Len(s) + j, u[i] = t[j] PROVE i <= Len(s) + k
      <4>1. j <= k /\ j \in Nat /\ k \in Nat /\ Len(s) \in Nat
        BY <1>2, <3>2
      <4> QED
        BY <3>2, <4>1
    <3> QED
      BY <1>1, <3>1, <3>2
  <2> QED
    BY <1>2, <2>1 DEF LastSays
<1>4. ASSUME Silent(p, t, n), LastSays(p, s, n, h) PROVE LastSays(p, u, n, h)
  BY <1>1, <1>2, <1>4 DEF LastSays, Silent
<1>5. Silent(p, t, n) /\ Silent(p, s, n) => Silent(p, u, n)
  BY <1>1 DEF Silent
<1> QED
  BY <1>3, <1>4, <1>5

(* What the list of the names in S tells: the handle of a name that one    *)
(* session of S has, nothing of a name that none has.                      *)
LEMMA NameHandleListSays ==
    ASSUME NEW p, NEW S \in SUBSET Conns, NEW n, n # NoName
    PROVE  /\ \A d \in S : value[d] = n /\ (\A e \in S : value[e] = n => e = d)
                  => LastSays(p, NameHandleList(S), n, fd[d])
           /\ (\A e \in S : value[e] # n) => Silent(p, NameHandleList(S), n)
<1> PICK T : T = {c \in S : value[c] # NoName}
  OBVIOUS
<1> PICK q : q = InOrder(T)
  OBVIOUS
<1> PICK list : list = NameHandleList(S)
  OBVIOUS
<1>1. /\ q \in Seq(T)
      /\ \A c \in T : \E i \in DOMAIN q : q[i] = c
      /\ \A i, j \in DOMAIN q : q[i] = q[j] => i = j
  BY ZenonT(60), InOrderLists
<1>2. DOMAIN list = DOMAIN q /\ \A i \in DOMAIN q : list[i] = AddNameHandle(value[q[i]], fd[q[i]])
  BY DEF NameHandleList
<1>3. \A i \in DOMAIN q : /\ q[i] \in T /\ i \in Nat
                          /\ Mentions(p, list[i], n) <=> value[q[i]] = n
                          /\ Says(list[i]) = fd[q[i]]
  <2>1. \A i \in DOMAIN q : q[i] \in T /\ i \in Nat
    BY <1>1
  <2> QED
    BY <1>2, <2>1 DEF Mentions, Says, AddNameHandle
<1>4. ASSUME NEW d \in S, value[d] = n, \A e \in S : value[e] = n => e = d
      PROVE  LastSays(p, list, n, fd[d])
  <2> PICK i \in DOMAIN q : q[i] = d
    BY <1>1, <1>4
  <2>1. \A j \in DOMAIN q : Mentions(p, list[j], n) => j = i
    BY <1>1, <1>3, <1>4
  <2>2. Mentions(p, list[i], n) /\ Says(list[i]) = fd[d] /\ i <= i
    BY <1>3, <1>4
  <2> QED
    BY <1>2, <2>1, <2>2 DEF LastSays
<1>5. (\A e \in S : value[e] # n) => Silent(p, list, n)
  BY <1>2, <1>3 DEF Silent
<1> QED
  BY <1>4, <1>5

(* Messages that are no news of names. *)
NoNews == {m \in DownMessage : m.class \notin {"MyHandle", "AddNameHandle", "RemoveNameHandle"}}

LEMMA NoNewsSilent ==
    ASSUME NEW s \in Seq(NoNews), NEW p, NEW n
    PROVE  Silent(p, s, n)
BY SeqElements DEF Silent, Mentions, NoNews

-----------------------------------------------------------------------------
(* A connection gets its name when it is accepted at the earliest, and the *)
(* session of a client is open at its end.                                 *)
NamedLate == \A c \in Conns : centerEnd[c] \in {"none", "backlog"} => value[c] = NoName
SessionsLive == \A p \in Clients : session[p] # NoConn => clientEnd[session[p]] = "open"

(* d has the name that p is to be able to resolve. *)
Followed(p, d) ==
    /\ session[p] \in sessions
    /\ value[session[p]] # NoName
    /\ d \in sessions
    /\ value[d] # NoName
    /\ \A e \in sessions : value[e] = value[d] => e = d
    /\ value[d] \notin erased

Tracks ==
    \A p \in Clients : \A d, n, h :
        Followed(p, d) /\ n = value[d] /\ h = fd[d] => WillResolve(p, n, h)

(* The inductive invariant, on top of MInv. *)
DInv ==
    /\ MInv
    /\ NamedLate
    /\ SessionsLive
    /\ Tracks

LEMMA ResolvesNext ==
    ASSUME NEW p, NEW n, NEW h,
           \/ LastSays(p, down'[session'[p]], n, h)
           \/ Silent(p, down'[session'[p]], n) /\ nameHandles'[p][n] = h
    PROVE  WillResolve(p, n, h)'
<1>1. LastSays(p, down'[session'[p]], n, h) => LastSays(p, down[session[p]], n, h)'
  BY DEF LastSays, Mentions, Says
<1>2. Silent(p, down'[session'[p]], n) => Silent(p, down[session[p]], n)'
  BY DEF Silent, Mentions
<1> QED
  BY <1>1, <1>2 DEF WillResolve

(* What the center writes leaves p with h for n if it says so last, or is  *)
(* silent and p was to have h for n already.                               *)
LEMMA SentResolves ==
    ASSUME IInv, SessionsLive, NEW p \in Clients, session[p] \in sessions,
           NEW o, o[session[p]] \in Seq(DownMessage), down' = AfterSendDown(o),
           UNCHANGED <<session, nameHandles>>, NEW n, NEW h,
           \/ LastSays(p, o[session[p]], n, h)
           \/ Silent(p, o[session[p]], n) /\ WillResolve(p, n, h)
    PROVE  WillResolve(p, n, h)'
<1> PICK c : c = session[p]
  OBVIOUS
<1>1. c \in Conns /\ down[c] \in Seq(DownMessage)
  BY DEF IInv, TypeOK, ConnTypeOK, CenterTypeOK
<1>2. c # NoConn
  BY <1>1, MaxConnAssumption DEF Conns, NoConn
<1> PICK s : s = down'[c]
  OBVIOUS
<1>3. s = down[c] \o o[c] /\ down'[session'[p]] = s
  BY <1>1, <1>2 DEF AfterSendDown, SessionsLive
<1>4. LastSays(p, s, n, h) \/ (Silent(p, s, n) /\ nameHandles'[p][n] = h)
  BY <1>1, <1>3, ConcatSays DEF WillResolve
<1> QED
  BY <1>3, <1>4, ResolvesNext

(* A step that changes no name and no session has nothing to announce. *)
LEMMA NothingErased ==
    ASSUME CenterStep, UNCHANGED value, sessions \subseteq sessions'
    PROVE  erased' = erased
BY DEF CenterStep, ErasedNames, AnnouncedNames

(* The steps of the center that are no news of names. *)
LEMMA NoNewsTracks ==
    ASSUME DInv, UNCHANGED <<sessions, fd, value, erased, session, nameHandles>>,
           NEW o, down' = AfterSendDown(o), \A c \in Conns : o[c] \in Seq(NoNews)
    PROVE  Tracks'
<1> SUFFICES ASSUME NEW p \in Clients, NEW d, NEW n, NEW h,
                    Followed(p, d)', n = value'[d], h = fd'[d]
             PROVE  WillResolve(p, n, h)'
  BY DEF Tracks
<1>1. Followed(p, d)
  BY DEF Followed
<1>2. WillResolve(p, n, h)
  BY <1>1 DEF DInv, Tracks
<1>3. session[p] \in sessions /\ session[p] \in Conns
  BY <1>1 DEF Followed, DInv, MInv, IInv, TypeOK, CenterTypeOK
<1>4. o[session[p]] \in Seq(NoNews) /\ Seq(NoNews) \subseteq Seq(DownMessage)
  BY <1>3, SeqMonotone DEF NoNews
<1> QED
  BY <1>2, <1>3, <1>4, NoNewsSilent, SentResolves DEF DInv, MInv

(* The steps of the center that write nothing and keep or add sessions     *)
(* without a name.                                                         *)
LEMMA QuietTracks ==
    ASSUME DInv, UNCHANGED <<down, value, erased, session, nameHandles>>,
           \A c \in sessions' : \/ c \in sessions /\ fd'[c] = fd[c]
                                \/ value[c] = NoName,
           sessions \subseteq sessions'
    PROVE  Tracks'
<1> SUFFICES ASSUME NEW p \in Clients, NEW d, NEW n, NEW h,
                    Followed(p, d)', n = value'[d], h = fd'[d]
             PROVE  WillResolve(p, n, h)'
  BY DEF Tracks
<1>1. Followed(p, d) /\ fd'[d] = fd[d]
  BY DEF Followed
<1>2. WillResolve(p, n, h)
  BY <1>1 DEF DInv, Tracks
<1> QED
  BY <1>2, ResolvesNext DEF WillResolve

LEMMA OneSays ==
    ASSUME NEW p, NEW n, NEW m
    PROVE  /\ Mentions(p, m, n) => LastSays(p, <<m>>, n, Says(m))
           /\ ~Mentions(p, m, n) => Silent(p, <<m>>, n)
<1>1. DOMAIN <<m>> = {1} /\ <<m>>[1] = m /\ 1 <= 1
  OBVIOUS
<1> QED
  BY <1>1 DEF LastSays, Silent

LEMMA AddSessionTracks ==
    ASSUME DInv, NEW c \in Conns, NEW h \in Handles, AddSession(c, h), CenterStep
    PROVE  Tracks'
<1>1. value' = value
  BY AddSessionKeepsValues DEF DInv, MInv
<1>2. /\ sessions' \in {sessions, sessions \cup {c}} /\ fd' = [fd EXCEPT ![c] = h]
      /\ UNCHANGED down /\ centerEnd[c] = "backlog"
  <2>1. SessionOf(h) = NoConn
    BY DEF AddSession, FreshFd, OpenFds, SessionOf, DInv, MInv, IInv, HandlesUnique,
           TypeOK, CenterTypeOK
  <2> QED
    BY <2>1 DEF AddSession
<1>3. c \notin sessions /\ value[c] = NoName
  BY <1>2 DEF DInv, NamedLate, MInv, IInv, HandlesUnique
<1>4. UNCHANGED <<session, nameHandles, erased>>
  BY <1>1, <1>2, NothingErased DEF CenterStep, clientVars
<1>5. \A d \in sessions : fd'[d] = fd[d]
  BY <1>2, <1>3 DEF DInv, MInv, IInv, TypeOK, CenterTypeOK
<1> QED
  BY <1>1, <1>2, <1>3, <1>4, <1>5, QuietTracks

(* HandleMyName: the others are told the name, the client itself all names *)
(* there are.                                                              *)
LEMMA MyNameTracks ==
    ASSUME DInv, NEW c \in Conns, HandleMyName(c), CenterStep, c \in sessions, Grows
    PROVE  Tracks'
<1> USE DEF DInv
<1> PICK m : m = Head(up[c]).name
  OBVIOUS
<1> PICK o : o = [ToOthers(sessions, fd[c], AddNameHandle(m, fd[c])) EXCEPT ![c] = Welcome(c)]
  OBVIOUS
<1>1. /\ value' = [value EXCEPT ![c] = m] /\ down' = AfterSendDown(o)
      /\ UNCHANGED <<sessions, fd>> /\ UNCHANGED <<session, nameHandles>>
      /\ Reads(c, "MyName") /\ \E x : Answer(c, x)
  BY DEF HandleMyName, Answer, CenterStep, clientVars
<1>2. m \in Names /\ m = NameOf[owner[c]]
  <2>1. Head(up[c]) \in GoodUps(c) /\ Head(up[c]).class = "MyName"
    BY <1>1, UpsRead
  <2> QED
    BY <2>1 DEF GoodUps, UpMessage, TransmitType, TransmitResultType, CommandType
<1>3. /\ \A d \in sessions : d \in Conns /\ centerEnd[d] = "open" /\ fd[d] \in Handles
      /\ \A d \in Conns : value'[d] = IF d = c THEN m ELSE value[d]
      /\ value[c] \in {NoName, m} /\ m # NoName
  BY <1>1, <1>2, NamesAssumption
     DEF MInv, IInv, HandlesUnique, OpenHasHandle, ValuesTrue, TypeOK, CenterTypeOK
<1>4. \A d \in sessions : d # c => o[d] = <<AddNameHandle(m, fd[c])>>
  BY <1>3 DEF ToOthers, MInv, IInv, HandlesUnique
<1>5. o[c] = <<MyHandle(fd[c])>> \o NameHandleList(sessions)
  BY DEF ToOthers, Welcome
<1>6. /\ <<MyHandle(fd[c])>> \in Seq(DownMessage)
      /\ <<AddNameHandle(m, fd[c])>> \in Seq(DownMessage)
      /\ NameHandleList(sessions) \in Seq(DownMessage)
  <2>1. MyHandle(fd[c]) \in DownMessage /\ AddNameHandle(m, fd[c]) \in DownMessage
    BY <1>2, <1>3 DEF MyHandle, AddNameHandle, DownMessage
  <2>2. NameHandleList(sessions) \in Seq(OwnMessages(c))
    BY <1>3, NameHandleListType DEF MInv, IInv, TypeOK, CenterTypeOK
  <2>3. Seq(OwnMessages(c)) \subseteq Seq(DownMessage)
    BY SeqMonotone DEF OwnMessages
  <2> QED
    BY <2>1, <2>2, <2>3, OneElement
<1>7. \A n : n \in erased /\ n # m => n \in erased'
  BY <1>1, <1>3 DEF CenterStep, ErasedNames, AnnouncedNames
<1> SUFFICES ASSUME NEW p \in Clients, NEW d, NEW n, NEW h,
                    Followed(p, d)', n = value'[d], h = fd'[d]
             PROVE  WillResolve(p, n, h)'
  BY DEF Tracks
<1> PICK b : b = session[p]
  OBVIOUS
<1>8. /\ b \in sessions /\ d \in sessions /\ n # NoName /\ h = fd[d]
      /\ \A e \in sessions : value'[e] = n => e = d
      /\ n \notin erased'
  BY <1>1 DEF Followed
<1>9. o[b] \in Seq(DownMessage)
  <2>1. <<MyHandle(fd[c])>> \o NameHandleList(sessions) \in Seq(DownMessage)
    BY <1>6, ConcatSeq
  <2> QED
    BY <1>4, <1>5, <1>6, <1>8, <2>1
<1>10. SessionsLive /\ IInv
  BY DEF MInv
<1>11. CASE b = c
  <2>1. owner[c] = p
    <3>1. c # NoConn
      BY MaxConnAssumption DEF Conns, NoConn
    <3> QED
      BY <1>11, <3>1 DEF MInv, Owned
  <2>2. LastSays(p, o[b], n, h)
    <3>1. CASE d # c
      <4>1. value[d] = n /\ \A e \in sessions : value[e] = n => e = d
        BY <1>3, <1>8, <3>1
      <4>2. LastSays(p, NameHandleList(sessions), n, h)
        BY <1>3, <1>8, <4>1, NameHandleListSays
      <4> QED
        BY <1>5, <1>6, <1>11, <4>2, ConcatSays
    <3>2. CASE d = c
      <4>1. n = m /\ NameOf[p] = n
        BY <1>2, <1>3, <2>1, <3>2
      <4>2. Mentions(p, MyHandle(fd[c]), n) /\ Says(MyHandle(fd[c])) = h
        BY <1>8, <3>2, <4>1 DEF Mentions, Says, MyHandle
      <4>3. LastSays(p, <<MyHandle(fd[c])>>, n, h)
        BY <4>2, OneSays
      <4>4. \A e \in sessions : value[e] = n => e = c
        BY <1>3, <1>8, <3>2
      <4>5. \/ LastSays(p, NameHandleList(sessions), n, h)
            \/ Silent(p, NameHandleList(sessions), n)
        BY <1>3, <1>8, <3>2, <4>4, NameHandleListSays
      <4> QED
        BY <1>5, <1>6, <1>11, <4>3, <4>5, ConcatSays
    <3> QED
      BY <3>1, <3>2
  <2> QED
    BY <1>1, <1>8, <1>9, <1>10, <2>2, SentResolves
<1>12. CASE b # c
  <2>1. o[b] = <<AddNameHandle(m, fd[c])>>
    BY <1>4, <1>8, <1>12
  <2>2. CASE d = c
    <3>1. Mentions(p, AddNameHandle(m, fd[c]), n) /\ Says(AddNameHandle(m, fd[c])) = h
      BY <1>3, <1>8, <2>2 DEF Mentions, Says, AddNameHandle
    <3>2. LastSays(p, o[b], n, h)
      BY <2>1, <3>1, OneSays
    <3> QED
      BY <1>1, <1>8, <1>9, <1>10, <3>2, SentResolves
  <2>3. CASE d # c
    <3>1. value[d] = n /\ n # m /\ value[b] = value'[b]
      BY <1>3, <1>8, <1>12, <2>3
    <3>2. Followed(p, d)
      <4>1. value[b] # NoName
        BY <3>1, <1>1 DEF Followed
      <4> QED
        BY <1>3, <1>7, <1>8, <3>1, <4>1 DEF Followed
    <3>3. WillResolve(p, n, h)
      BY <1>8, <3>1, <3>2 DEF Tracks
    <3>4. ~Mentions(p, AddNameHandle(m, fd[c]), n)
      BY <3>1 DEF Mentions, AddNameHandle
    <3>5. Silent(p, o[b], n)
      BY <2>1, <3>4, OneSays
    <3> QED
      BY <1>1, <1>8, <1>9, <1>10, <3>3, <3>5, SentResolves
  <2> QED
    BY <2>2, <2>3
<1> QED
  BY <1>11, <1>12

(* OnSessionError: the others are told that the name is gone.  A name that *)
(* another session has as well is one of the erased then.                  *)
LEMMA SessionErrorTracks ==
    ASSUME DInv, NEW c \in Conns, OnSessionError(c), CenterStep
    PROVE  Tracks'
<1> USE DEF DInv
<1>1. /\ centerEnd[c] = "open" /\ sessions' = {d \in sessions : fd[d] # fd[c]}
      /\ UNCHANGED <<fd, value, session, nameHandles>>
  BY DEF OnSessionError, Without, CenterStep, clientVars
<1>2. \A d \in sessions : d \in Conns /\ centerEnd[d] = "open" /\ fd[d] \in Handles
  BY DEF MInv, IInv, HandlesUnique, OpenHasHandle, TypeOK, CenterTypeOK
<1>3. sessions' = sessions \ {c}
  BY <1>1, <1>2 DEF MInv, IInv, HandlesUnique
<1>4. CASE c \notin sessions
  <2>1. sessions' = sessions /\ UNCHANGED down
    BY <1>3, <1>4 DEF OnSessionError
  <2>2. erased' = erased
    BY <1>1, <2>1, NothingErased
  <2> QED
    BY <1>1, <2>1, <2>2, QuietTracks
<1>5. CASE c \in sessions
  <2> PICK m : m = RemoveNameHandle(value[c], fd[c])
    OBVIOUS
  <2> PICK o : o = ToOthers(sessions, fd[c], m)
    OBVIOUS
  <2>1. down' = AfterSendDown(o)
    BY <1>5 DEF OnSessionError
  <2>2. \A d \in sessions' : o[d] = <<m>>
    BY <1>1, <1>2 DEF ToOthers
  <2>3. <<m>> \in Seq(DownMessage)
    <3>1. m \in DownMessage
      BY <1>2, <1>5 DEF MInv, IInv, TypeOK, CenterTypeOK, RemoveNameHandle, DownMessage
    <3> QED
      BY <3>1, OneElement
  <2>4. /\ \A d \in sessions' : value[d] = value[c] => value[c] \in erased'
        /\ \A n : n \in erased => n \in erased'
    BY <1>1, <1>3, <1>5 DEF CenterStep, ErasedNames, AnnouncedNames
  <2> SUFFICES ASSUME NEW p \in Clients, NEW d, NEW n, NEW h,
                      Followed(p, d)', n = value'[d], h = fd'[d]
               PROVE  WillResolve(p, n, h)'
    BY DEF Tracks
  <2>5. /\ session[p] \in sessions' /\ d \in sessions' /\ n = value[d] /\ h = fd[d]
        /\ \A e \in sessions' : value[e] = n => e = d
        /\ n \notin erased' /\ n # NoName /\ value[session[p]] # NoName
    BY <1>1 DEF Followed
  <2>6. n # value[c]
    BY <2>4, <2>5
  <2>7. Followed(p, d)
    BY <1>3, <2>4, <2>5, <2>6 DEF Followed
  <2>8. WillResolve(p, n, h)
    BY <2>5, <2>7 DEF Tracks
  <2>9. Silent(p, o[session[p]], n)
    <3>1. ~Mentions(p, m, n)
      BY <2>6 DEF Mentions, RemoveNameHandle
    <3> QED
      BY <2>2, <2>5, <3>1, OneSays
  <2>10. session[p] \in sessions /\ o[session[p]] \in Seq(DownMessage)
    BY <1>3, <2>2, <2>3, <2>5
  <2> QED
    BY <1>1, <2>1, <2>8, <2>9, <2>10, SentResolves DEF MInv
<1> QED
  BY <1>4, <1>5

LEMMA ToNoNews ==
    ASSUME NEW d, NEW m \in NoNews, NEW c \in Conns
    PROVE  To(d, <<m>>)[c] \in Seq(NoNews)
<1>1. <<m>> \in Seq(NoNews)
  BY OneElement
<1> QED
  BY <1>1, EmptySeq DEF To, Silence

LEMMA ResultOutNoNews ==
    ASSUME IInv, NEW valid, NEW c \in Conns
    PROVE  ResultOut(valid)[c] \in Seq(NoNews)
<1>1. CASE ResultOut(valid) = Silence
  BY <1>1, EmptySeq DEF Silence
<1>2. CASE ResultOut(valid) # Silence
  <2> PICK d, m : d = ResultTo(valid) /\ m = Command(NoHandle, curSrc, Head(results))
    OBVIOUS
  <2>1. results # <<>> /\ ResultOut(valid) = To(d, <<m>>)
    BY <1>2 DEF ResultOut
  <2>2. Head(results) \in Nat /\ curSrc \in HandleOrNone
    BY <2>1 DEF IInv, TypeOK, CenterTypeOK
  <2>3. m \in NoNews
    BY <2>2 DEF Command, CommandType, NoNews, DownMessage, HandleOrNone
  <2> QED
    BY <2>1, <2>3, ToNoNews
<1> QED
  BY <1>1, <1>2

LEMMA FunctionIsSeq ==
    ASSUME NEW S, NEW n \in Nat, NEW f \in [1..n -> S]
    PROVE  f \in Seq(S)
OBVIOUS

(* The sync tells everyone all names there are. *)
LEMMA SyncTracks ==
    ASSUME DInv, SyncStep
    PROVE  Tracks'
<1> USE DEF DInv
<1>1. \A d \in sessions : d \in Conns /\ centerEnd[d] = "open" /\ fd[d] \in Handles
  BY DEF MInv, IInv, HandlesUnique, OpenHasHandle, TypeOK, CenterTypeOK
<1>2. sessions \ InvalidSessions = sessions
  BY <1>1 DEF InvalidSessions
<1> PICK sync, result : sync = SyncOut(sessions) /\ result = ResultOut(sessions)
  OBVIOUS
<1> PICK o : o = [c \in Conns |-> sync[c] \o result[c]]
  OBVIOUS
<1>3. /\ sessions' = sessions /\ down' = AfterSendDown(o)
      /\ UNCHANGED <<fd, value, session, nameHandles>>
  BY <1>2 DEF SyncStep, Tick, clientVars
<1> PICK gone : gone = InOrder(sessions \ sessions)
  OBVIOUS
<1> PICK first : first = [i \in DOMAIN gone |-> RemoveNameHandle(value[gone[i]], fd[gone[i]])]
                           \o <<ClearNameHandleList>>
  OBVIOUS
<1> PICK list : list = NameHandleList(sessions)
  OBVIOUS
<1>4. \A c \in sessions : sync[c] = first \o list
  BY <1>1 DEF SyncOut
<1>5. first \in Seq(DownMessage)
  <2> PICK removals : removals = [i \in DOMAIN gone |-> RemoveNameHandle(value[gone[i]], fd[gone[i]])]
    OBVIOUS
  <2>1. gone \in Seq({})
    BY InOrderType
  <2>2. DOMAIN gone = 1..Len(gone) /\ Len(gone) \in Nat
    BY <2>1
  <2>3. removals \in Seq(DownMessage)
    <3>1. \A i \in DOMAIN gone : RemoveNameHandle(value[gone[i]], fd[gone[i]]) \in DownMessage
      BY <2>1, SeqElements
    <3> PICK n : n = Len(gone)
      OBVIOUS
    <3>2. DOMAIN removals = 1..n /\ \A i \in 1..n : removals[i] \in DownMessage
      BY <2>2, <3>1
    <3>3. removals = [i \in 1..n |-> removals[i]]
      BY <3>2
    <3>4. removals \in [1..n -> DownMessage] /\ n \in Nat
      BY <2>2, <3>2, <3>3
    <3> QED
      BY <3>4, FunctionIsSeq
  <2>4. <<ClearNameHandleList>> \in Seq(DownMessage)
    BY DEF ClearNameHandleList, DownMessage
  <2> QED
    BY <2>3, <2>4, ConcatSeq
<1>6. list \in Seq(DownMessage)
  <2>1. NameHandleList(sessions) \in Seq(NoCommands)
    BY NameHandleListQuiet DEF MInv
  <2> QED
    BY <2>1, SeqMonotone DEF NoCommands
<1>7. \A c \in Conns : result[c] \in Seq(NoNews)
  BY ResultOutNoNews DEF MInv
<1> SUFFICES ASSUME NEW p \in Clients, NEW d, NEW n, NEW h,
                    Followed(p, d)', n = value'[d], h = fd'[d]
             PROVE  WillResolve(p, n, h)'
  BY DEF Tracks
<1> PICK c : c = session[p]
  OBVIOUS
<1>8. /\ c \in sessions /\ c \in Conns /\ d \in sessions /\ n # NoName /\ h = fd[d] /\ value[d] = n
      /\ \A e \in sessions : value[e] = n => e = d
  BY <1>1, <1>3 DEF Followed
<1>9. LastSays(p, list, n, h)
  BY <1>1, <1>8, NameHandleListSays
<1> PICK r : r = result[c]
  OBVIOUS
<1>10. r \in Seq(DownMessage) /\ Silent(p, r, n)
  <2>1. r \in Seq(NoNews)
    BY <1>7, <1>8
  <2> QED
    BY <2>1, NoNewsSilent, SeqMonotone DEF NoNews
<1>11. o[c] = (first \o list) \o r
  BY <1>4, <1>8
<1>12. LastSays(p, o[c], n, h) /\ o[c] \in Seq(DownMessage)
  <2>1. first \o list \in Seq(DownMessage) /\ LastSays(p, first \o list, n, h)
    BY <1>5, <1>6, <1>9, ConcatSays, ConcatSeq
  <2> QED
    BY ZenonT(60), <1>10, <1>11, <2>1, ConcatSays, ConcatSeq
<1> QED
  BY <1>3, <1>8, <1>12, SentResolves DEF MInv

(* Every step of the center and of its script thread. *)
LEMMA CenterTracks ==
    ASSUME DInv, MInv', CenterStep
    PROVE  Tracks'
<1> USE DEF DInv
<1>1. UNCHANGED <<session, nameHandles>> /\ Grows
  BY CenterGrows DEF CenterStep, clientVars, MInv
<1>2. ASSUME UNCHANGED <<sessions, fd, value>>, NEW o, down' = AfterSendDown(o),
             \A c \in Conns : o[c] \in Seq(NoNews)
      PROVE  Tracks'
  <2>1. erased' = erased
    BY <1>2, NothingErased
  <2> QED
    BY <1>1, <1>2, <2>1, NoNewsTracks
<1>3. \A c \in Conns : Silence[c] \in Seq(NoNews)
  BY EmptySeq DEF Silence
<1>4. ASSUME NEW c \in Conns, NEW class \in {"Transmit", "TransmitResult", "Command"},
             Reads(c, class)
      PROVE  Head(up[c]) \in NoNews
  <2>1. up[c] \in Seq(UpMessage) /\ up[c] # <<>> /\ Head(up[c]).class = class
    BY <1>4 DEF Reads, MInv, IInv, TypeOK, ConnTypeOK
  <2>2. Head(up[c]) \in UpMessage
    BY <2>1
  <2> QED
    BY <2>1, <2>2 DEF NoNews, UpMessage, DownMessage, TransmitType, TransmitResultType, CommandType
<1>5. ASSUME NEW c \in Conns, NEW h \in Handles, AddSession(c, h) PROVE Tracks'
  BY <1>5, AddSessionTracks
<1>6. ASSUME NEW c \in Conns, HandleMyName(c) PROVE Tracks'
  <2>1. CASE c \in sessions
    BY <1>1, <1>6, <2>1, MyNameTracks
  <2>2. CASE c \notin sessions
    <3>1. UNCHANGED <<sessions, fd, value>> /\ down' = AfterSendDown(Silence)
      BY <1>6, <2>2 DEF HandleMyName, Answer
    <3> QED
      BY <1>2, <1>3, <3>1
  <2> QED
    BY <2>1, <2>2
<1>7. ASSUME NEW c \in Conns, HandleTransmit(c) PROVE Tracks'
  <2> PICK m, d : m = Head(up[c]) /\ d = SessionOf(m.dest)
    OBVIOUS
  <2> PICK fail : fail = TransmitResult(m.seq, NoHandle, m.src, FALSE, m.id)
    OBVIOUS
  <2>1. m \in NoNews /\ m.class = "Transmit"
    BY <1>4, <1>7 DEF HandleTransmit, Reads
  <2>2. fail \in NoNews
    <3>1. m \in TransmitType
      BY <2>1 DEF NoNews, DownMessage, TransmitType, TransmitResultType, CommandType
    <3> QED
      BY <3>1 DEF TransmitType, TransmitResult, TransmitResultType, NoNews, DownMessage, HandleOrNone
  <2>3. ForwardOrRefuse(c, m) \in {To(d, <<m>>), To(c, <<fail>>)}
    BY DEF ForwardOrRefuse, Refuse
  <2>4. UNCHANGED <<sessions, fd, value>> /\ down' = AfterSendDown(ForwardOrRefuse(c, m))
    BY <1>7 DEF HandleTransmit, Answer, centerVars
  <2>5. \A b \in Conns : ForwardOrRefuse(c, m)[b] \in Seq(NoNews)
    BY <2>1, <2>2, <2>3, ToNoNews
  <2> QED
    BY <1>2, <2>4, <2>5
<1>8. ASSUME NEW c \in Conns, HandleTransmitResult(c) \/ HandleCommand(c) PROVE Tracks'
  <2> PICK m, d : m = Head(up[c]) /\ d = SessionOf(m.dest)
    OBVIOUS
  <2>1. m \in NoNews
    BY <1>4, <1>8 DEF HandleTransmitResult, HandleCommand
  <2>2. UNCHANGED <<sessions, fd, value>>
        /\ (down' = AfterSendDown(Silence) \/ down' = AfterSendDown(To(d, <<m>>)))
    BY <1>8 DEF HandleTransmitResult, HandleCommand, Answer, centerVars
  <2> QED
    BY <1>2, <1>3, <2>1, <2>2, ToNoNews
<1>9. ASSUME NEW c \in Conns, OnSessionError(c) PROVE Tracks'
  BY <1>9, SessionErrorTracks
<1>10. CASE Tick(FALSE)
  <2> PICK o : o = [c \in Conns |-> Silence[c] \o ResultOut(sessions)[c]]
    OBVIOUS
  <2>1. UNCHANGED <<sessions, fd, value>> /\ down' = AfterSendDown(o)
    BY <1>10 DEF Tick
  <2>2. \A c \in Conns : ResultOut(sessions)[c] \in Seq(NoNews)
    BY ResultOutNoNews DEF MInv
  <2>3. \A c \in Conns : o[c] \in Seq(NoNews)
    BY <1>3, <2>2, ConcatSeq
  <2> QED
    BY <1>2, <2>1, <2>3
<1>11. CASE ScriptRun
  <2>1. UNCHANGED <<sessions, fd, value, down>>
    BY <1>11 DEF ScriptRun, connVars
  <2> QED
    BY <1>1, <2>1, NothingErased, QuietTracks
<1>12. CASE CenterRestart
  BY <1>12 DEF CenterRestart, Tracks, Followed
<1> QED
  BY <1>5, <1>6, <1>7, <1>8, <1>9, <1>10, <1>11, <1>12 DEF CenterStep, CenterNext

(* The sync step and the other steps of the center keep names and sessions *)
(* where they belong.                                                      *)
LEMMA CenterNamesLate ==
    ASSUME DInv, CenterStep \/ SyncStep
    PROVE  NamedLate' /\ SessionsLive'
<1> USE DEF DInv, MInv
<1>1. /\ \A c \in Conns : centerEnd'[c] \in {"none", "backlog"} => centerEnd'[c] = centerEnd[c]
      /\ UNCHANGED session
  BY CenterMovesEnds DEF EndsMove, CenterStep, SyncStep, clientVars
<1>2. clientEnd' = clientEnd
  BY DEF CenterStep, SyncStep, CenterNext, AddSession, HandleMyName, HandleTransmit,
         HandleTransmitResult, HandleCommand, OnSessionError, Tick, ScriptRun, CenterRestart,
         Answer, connVars
<1>3. \A c \in Conns : value'[c] = value[c] \/ centerEnd[c] = "open"
  <2>1. ASSUME NEW b \in Conns, HandleMyName(b), NEW c \in Conns
        PROVE  value'[c] = value[c] \/ centerEnd[c] = "open"
    BY <2>1 DEF HandleMyName, Reads, IInv, TypeOK, CenterTypeOK
  <2>2. ASSUME NEW b \in Conns, NEW h \in Handles, AddSession(b, h)
        PROVE  value' = value
    BY <2>2, AddSessionKeepsValues
  <2>3. ASSUME NEW b \in Conns,
               \/ HandleTransmit(b) \/ HandleTransmitResult(b) \/ HandleCommand(b)
               \/ OnSessionError(b)
        PROVE  value' = value
    BY <2>3 DEF HandleTransmit, HandleTransmitResult, HandleCommand, OnSessionError, centerVars
  <2>4. ASSUME Tick(TRUE) \/ Tick(FALSE) \/ ScriptRun \/ CenterRestart
        PROVE  value' = value
    BY <2>4 DEF Tick, ScriptRun, CenterRestart
  <2> QED
    BY <2>1, <2>2, <2>3, <2>4 DEF CenterStep, SyncStep, CenterNext
<1>4. NamedLate'
  BY <1>1, <1>3 DEF NamedLate
<1>5. SessionsLive'
  BY <1>1, <1>2 DEF SessionsLive
<1> QED
  BY <1>4, <1>5

-----------------------------------------------------------------------------
(* A step of a client keeps Tracks if every client that stays connected    *)
(* can still resolve what it could.                                        *)
LEMMA ResolvesKept ==
    ASSUME DInv, UNCHANGED <<sessions, fd, value, erased>>,
           \A q \in Clients : session'[q] \in sessions =>
               /\ session'[q] = session[q]
               /\ \A n \in Names : \A h : WillResolve(q, n, h) => WillResolve(q, n, h)'
    PROVE  Tracks'
<1> SUFFICES ASSUME NEW q \in Clients, NEW d, NEW n, NEW h,
                    Followed(q, d)', n = value'[d], h = fd'[d]
             PROVE  WillResolve(q, n, h)'
  BY DEF Tracks
<1>1. session'[q] \in sessions /\ session'[q] = session[q]
  BY DEF Followed
<1>2. Followed(q, d) /\ n = value[d] /\ h = fd[d] /\ n \in Names
  <2>1. Followed(q, d) /\ n = value[d] /\ h = fd[d]
    BY <1>1 DEF Followed
  <2>2. value[d] \in NameOrNone /\ value[d] # NoName
    BY <2>1 DEF Followed, DInv, MInv, IInv, TypeOK, CenterTypeOK
  <2> QED
    BY <2>1, <2>2 DEF NameOrNone
<1>3. WillResolve(q, n, h)
  BY <1>2 DEF DInv, Tracks
<1> QED
  BY <1>1, <1>2, <1>3

LEMMA SameResolves ==
    ASSUME NEW q, NEW n, NEW h, WillResolve(q, n, h),
           down'[session'[q]] = down[session[q]], nameHandles'[q][n] = nameHandles[q][n]
    PROVE  WillResolve(q, n, h)'
BY ResolvesNext DEF WillResolve

(* No entry is refused when the directory has room for all names. *)
LEMMA PutFits ==
    ASSUME NamesFit, NEW dir \in [Names -> HandleOrNone], NEW n \in Names, NEW h
    PROVE  Put(dir, n, h) = [dir EXCEPT ![n] = h]
<1> DEFINE used == {m \in Names : dir[m] # NoHandle}
<1>1. CASE dir[n] # NoHandle
  BY <1>1 DEF Put
<1>2. CASE dir[n] = NoHandle
  <2>1. used \in SUBSET (Names \ {n})
    BY <1>2
  <2>2. /\ IsFiniteSet(Names) /\ Cardinality(Names) \in Nat /\ MaxNames \in Nat
        /\ Cardinality(Names) <= MaxNames
    BY FS_CardinalityType, ClientAssumption DEF NamesFit
  <2>3. IsFiniteSet(Names \ {n}) /\ Cardinality(Names \ {n}) = Cardinality(Names) - 1
    BY <2>2, FS_RemoveElement
  <2>4. Cardinality(used) <= Cardinality(Names) - 1 /\ Cardinality(used) \in Nat
    BY <2>1, <2>3, FS_Subset, FS_CardinalityType
  <2>5. Cardinality(used) < MaxNames
    BY <2>2, <2>4
  <2> QED
    BY <2>5 DEF Put
<1> QED
  BY <1>1, <1>2

(* What a client does with a message that mentions names or none. *)
Learns(p) ==
    /\ \A q \in Clients : q # p => nameHandles'[q] = nameHandles[q]
    /\ \A n \in Names :
          nameHandles'[p][n] = IF Mentions(p, Heard(p), n) THEN Says(Heard(p))
                                                           ELSE nameHandles[p][n]

LEMMA ReceiveLearns ==
    ASSUME IInv, NamesFit, NEW p \in Clients, Receive(p)
    PROVE  /\ session[p] # NoConn /\ session[p] \in Conns /\ down[session[p]] # <<>>
           /\ UNCHANGED session /\ UNCHANGED clientEnd /\ UNCHANGED centerEnd
           /\ down' = [down EXCEPT ![session[p]] = Tail(@)]
           /\ Learns(p)
<1>1. nameHandles \in [Clients -> [Names -> HandleOrNone]] /\ NameOf[p] \in Names
  BY ClientAssumption DEF IInv, TypeOK, ClientTypeOK
<1>2. session[p] # NoConn /\ session[p] \in Conns /\ down[session[p]] # <<>>
  BY DEF Receive, HandleMyHandle, HandleAddNameHandle, HandleRemoveNameHandle,
         IgnoreClearNameHandleList, HandleDelivery, HandleResult, HandleClientCommand,
         Hears, IInv, TypeOK, ClientTypeOK
<1>3. /\ UNCHANGED session /\ UNCHANGED clientEnd /\ UNCHANGED centerEnd
      /\ down' = [down EXCEPT ![session[p]] = Tail(@)]
  BY DEF Receive, HandleMyHandle, HandleAddNameHandle, HandleRemoveNameHandle,
         IgnoreClearNameHandleList, HandleDelivery, HandleResult, HandleClientCommand,
         Consume, clientVars
<1>4. ASSUME NEW n \in Names, NEW h, nameHandles' = [nameHandles EXCEPT ![p] = Put(@, n, h)],
             \A m \in Names : Mentions(p, Heard(p), m) <=> m = n, Says(Heard(p)) = h
      PROVE  Learns(p)
  <2>1. nameHandles[p] \in [Names -> HandleOrNone]
    BY <1>1
  <2>2. nameHandles'[p] = [nameHandles[p] EXCEPT ![n] = h]
    BY <1>1, <1>4, <2>1, PutFits
  <2> QED
    BY <1>1, <1>4, <2>1, <2>2 DEF Learns
<1>5. ASSUME HandleMyHandle(p) PROVE Learns(p)
  <2>1. Heard(p).class = "MyHandle"
        /\ nameHandles' = [nameHandles EXCEPT ![p] = Put(@, NameOf[p], Heard(p).handle)]
    BY <1>5 DEF HandleMyHandle, Hears, Heard
  <2>2. /\ \A m \in Names : Mentions(p, Heard(p), m) <=> m = NameOf[p]
        /\ Says(Heard(p)) = Heard(p).handle
    BY <2>1 DEF Mentions, Says
  <2> QED
    BY <1>1, <1>4, <2>1, <2>2
<1>6. ASSUME HandleAddNameHandle(p) PROVE Learns(p)
  <2>1. Heard(p).class = "AddNameHandle"
        /\ nameHandles' = [nameHandles EXCEPT ![p] = Put(@, Heard(p).name, Heard(p).handle)]
    BY <1>6 DEF HandleAddNameHandle, Hears, Heard
  <2>2. Heard(p).name \in Names
    <3>1. Heard(p) \in DownMessage
      BY <1>6, HeardType DEF HandleAddNameHandle
    <3> QED
      BY <2>1, <3>1 DEF DownMessage, TransmitType, TransmitResultType, CommandType
  <2>3. /\ \A m \in Names : Mentions(p, Heard(p), m) <=> m = Heard(p).name
        /\ Says(Heard(p)) = Heard(p).handle
    BY <2>1 DEF Mentions, Says
  <2> QED
    BY <1>4, <2>1, <2>2, <2>3
<1>7. ASSUME HandleRemoveNameHandle(p) PROVE Learns(p)
  <2>1. Heard(p).class = "RemoveNameHandle"
        /\ nameHandles' = [nameHandles EXCEPT ![p] = Forget(@, Heard(p).name)]
    BY <1>7 DEF HandleRemoveNameHandle, Hears, Heard
  <2>2. /\ \A m \in Names : Mentions(p, Heard(p), m) <=> m = Heard(p).name
        /\ Says(Heard(p)) = NoHandle
    BY <2>1 DEF Mentions, Says
  <2>3. \A m \in Names : nameHandles'[p][m] = IF m = Heard(p).name THEN NoHandle
                                                                   ELSE nameHandles[p][m]
    BY <1>1, <2>1 DEF Forget
  <2>4. \A q \in Clients : q # p => nameHandles'[q] = nameHandles[q]
    BY <2>1
  <2> QED
    BY <2>2, <2>3, <2>4 DEF Learns
<1>8. ASSUME NEW class \in {"ClearNameHandleList", "Transmit", "TransmitResult", "Command"},
             Hears(p, class), UNCHANGED nameHandles
      PROVE  Learns(p)
  BY <1>8 DEF Learns, Mentions, Hears, Heard
<1>9. ASSUME \/ IgnoreClearNameHandleList(p) \/ HandleDelivery(p) \/ HandleResult(p)
             \/ HandleClientCommand(p)
      PROVE  Learns(p)
  <2>1. UNCHANGED nameHandles
    BY <1>9 DEF IgnoreClearNameHandleList, HandleDelivery, HandleResult,
                HandleClientCommand, clientVars
  <2>2. \E class \in {"ClearNameHandleList", "Transmit", "TransmitResult", "Command"} :
            Hears(p, class)
    BY <1>9 DEF IgnoreClearNameHandleList, HandleDelivery, HandleResult, HandleClientCommand
  <2> QED
    BY <1>8, <2>1, <2>2
<1> QED
  BY <1>2, <1>3, <1>5, <1>6, <1>7, <1>9 DEF Receive

(* Two clients never read from the same connection. *)
LEMMA OtherSession ==
    ASSUME Owned, NEW p \in Clients, NEW q \in Clients, q # p,
           session[p] # NoConn, session[q] # NoConn
    PROVE  session[q] # session[p]
BY DEF Owned

LEMMA ReceiveTracks ==
    ASSUME DInv, NamesFit, NEW p \in Clients, Receive(p), UNCHANGED centerVars, UNCHANGED erased
    PROVE  NamedLate' /\ SessionsLive' /\ Tracks'
<1> USE DEF DInv, MInv
<1>1. /\ session[p] # NoConn /\ session[p] \in Conns /\ down[session[p]] # <<>>
      /\ UNCHANGED session /\ UNCHANGED clientEnd /\ UNCHANGED centerEnd
      /\ down' = [down EXCEPT ![session[p]] = Tail(@)]
      /\ Learns(p)
  BY ReceiveLearns
<1>2. NamedLate' /\ SessionsLive'
  BY <1>1 DEF NamedLate, SessionsLive, centerVars
<1>3. down \in [Conns -> Seq(DownMessage)] /\ session \in [Clients -> Conns \cup {NoConn}]
  BY DEF IInv, TypeOK, ConnTypeOK, ClientTypeOK
<1>4. ASSUME NEW n \in Names, NEW h, WillResolve(p, n, h)
      PROVE  WillResolve(p, n, h)'
  <2> PICK s : s = down[session[p]]
    OBVIOUS
  <2>1. s \in Seq(DownMessage) /\ s # <<>> /\ Heard(p) = Head(s) /\ down'[session'[p]] = Tail(s)
    BY <1>1, <1>3 DEF Heard
  <2>2. LastSays(p, s, n, h) \/ (Silent(p, s, n) /\ nameHandles[p][n] = h)
    BY <1>4 DEF WillResolve
  <2>3. LastSays(p, Tail(s), n, h) \/ (Silent(p, Tail(s), n) /\ nameHandles'[p][n] = h)
    BY <1>1, <2>1, <2>2, TailSays DEF Learns
  <2> QED
    BY <2>1, <2>3, ResolvesNext
<1>5. ASSUME NEW q \in Clients, q # p, session'[q] \in sessions, NEW n \in Names, NEW h,
             WillResolve(q, n, h)
      PROVE  WillResolve(q, n, h)'
  <2>1. session[q] \in Conns /\ session[q] # NoConn
    <3>1. session[q] \in Conns
      BY <1>1, <1>5 DEF IInv, TypeOK, CenterTypeOK
    <3> QED
      BY <3>1, MaxConnAssumption DEF Conns, NoConn
  <2>2. session[q] # session[p]
    BY <1>1, <1>5, <2>1, OtherSession
  <2>3. down'[session'[q]] = down[session[q]] /\ nameHandles'[q] = nameHandles[q]
    BY <1>1, <1>3, <1>5, <2>1, <2>2 DEF Learns
  <2> QED
    BY <1>5, <2>3, SameResolves
<1>6. Tracks'
  BY <1>1, <1>4, <1>5, ResolvesKept DEF centerVars
<1> QED
  BY <1>2, <1>6

(* Calls of the API and of the connector that leave the session alone. *)
LEMMA CallTracks ==
    ASSUME DInv, UNCHANGED <<session, nameHandles, down, clientEnd, centerEnd>>,
           UNCHANGED centerVars, UNCHANGED erased
    PROVE  NamedLate' /\ SessionsLive' /\ Tracks'
<1>1. NamedLate' /\ SessionsLive'
  BY DEF DInv, NamedLate, SessionsLive, centerVars
<1>2. Tracks'
  BY SameResolves, ResolvesKept DEF centerVars
<1> QED
  BY <1>1, <1>2

LEMMA SessionEndTracks ==
    ASSUME DInv, NEW p \in Clients, UNCHANGED centerVars, UNCHANGED erased,
           OnClientSessionError(p) \/ Disconnect(p) \/ ClientRestart(p)
    PROVE  NamedLate' /\ SessionsLive' /\ Tracks'
<1> USE DEF DInv, MInv
<1>1. down \in [Conns -> Seq(DownMessage)] /\ session \in [Clients -> Conns \cup {NoConn}]
      /\ clientEnd \in [Conns -> EndState] /\ nameHandles \in [Clients -> [Names -> HandleOrNone]]
  BY DEF IInv, TypeOK, ConnTypeOK, ClientTypeOK
<1>2. /\ session' = [session EXCEPT ![p] = NoConn]
      /\ \A c \in Conns : c # session[p] => clientEnd'[c] = clientEnd[c] /\ down'[c] = down[c]
      /\ \A q \in Clients : q # p => nameHandles'[q] = nameHandles[q]
      /\ UNCHANGED centerEnd
  BY <1>1 DEF OnClientSessionError, Disconnect, ClientRestart, SetSessionNull
<1>3. \A q \in Clients : session'[q] # NoConn =>
          q # p /\ session'[q] = session[q] /\ session[q] \in Conns /\ session[q] # session[p]
  <2> SUFFICES ASSUME NEW q \in Clients, session'[q] # NoConn
               PROVE  q # p /\ session'[q] = session[q] /\ session[q] \in Conns
                      /\ session[q] # session[p]
    OBVIOUS
  <2>1. q # p /\ session'[q] = session[q] /\ session[q] \in Conns
    BY <1>1, <1>2
  <2> QED
    BY <2>1, OtherSession
<1>4. NamedLate'
  BY <1>2 DEF NamedLate, centerVars
<1>5. SessionsLive'
  BY <1>2, <1>3 DEF SessionsLive
<1>6. NoConn \notin sessions
  BY MaxConnAssumption DEF Conns, NoConn, IInv, TypeOK, CenterTypeOK
<1>7. Tracks'
  <2>1. ASSUME NEW q \in Clients, session'[q] \in sessions
        PROVE  /\ session'[q] = session[q] /\ down'[session'[q]] = down[session[q]]
               /\ nameHandles'[q] = nameHandles[q]
    BY <1>2, <1>3, <1>6, <2>1
  <2> QED
    BY <2>1, SameResolves, ResolvesKept DEF centerVars
<1> QED
  BY <1>4, <1>5, <1>7

(* A new connection is not accepted yet, so its client is owed nothing. *)
LEMMA ConnectedTracks ==
    ASSUME DInv, NEW p \in Clients, OnConnected(p), UNCHANGED centerVars, UNCHANGED erased
    PROVE  NamedLate' /\ SessionsLive' /\ Tracks'
<1> USE DEF DInv, MInv
<1> PICK c : c = nConn + 1
  OBVIOUS
<1>1. c \in Conns /\ centerEnd[c] = "none"
  BY MaxConnAssumption DEF OnConnected, Conns, IInv, MadeInOrder, TypeOK, ConnTypeOK
<1>2. /\ clientEnd' = [clientEnd EXCEPT ![c] = "open"]
      /\ centerEnd' = [centerEnd EXCEPT ![c] = "backlog"]
      /\ session' = [session EXCEPT ![p] = c]
      /\ UNCHANGED <<down, nameHandles>>
  BY DEF OnConnected
<1>3. session \in [Clients -> Conns \cup {NoConn}] /\ clientEnd \in [Conns -> EndState]
      /\ centerEnd \in [Conns -> EndState]
  BY DEF IInv, TypeOK, ConnTypeOK, ClientTypeOK
<1>4. NamedLate'
  BY <1>1, <1>2, <1>3 DEF NamedLate, centerVars
<1>5. SessionsLive'
  BY <1>1, <1>2, <1>3 DEF SessionsLive
<1>6. c \notin sessions
  BY <1>1 DEF IInv, HandlesUnique
<1>7. Tracks'
  <2>1. \A q \in Clients : session'[q] \in sessions => session'[q] = session[q]
    BY <1>2, <1>3, <1>6
  <2> QED
    BY <1>2, <2>1, SameResolves, ResolvesKept DEF centerVars
<1> QED
  BY <1>4, <1>5, <1>7

LEMMA ClientTracks ==
    ASSUME DInv, NamesFit, ClientStep
    PROVE  NamedLate' /\ SessionsLive' /\ Tracks'
<1>1. UNCHANGED centerVars /\ UNCHANGED erased
  BY DEF ClientStep
<1> PICK p \in Clients :
        \/ TickConnect(p) \/ TickConnectThrows(p) \/ OnConnectFailed(p)
        \/ OnConnected(p)
        \/ OnClientSessionError(p) \/ Disconnect(p) \/ ClientRestart(p)
        \/ Receive(p)
        \/ \E h \in HandleOrNone : SendByHandle(p, h) \/ SendCommandByHandle(p, h)
        \/ \E n \in Names : SendByName(p, n) \/ SendCommandByName(p, n)
  BY DEF ClientStep, ClientNext
<1>2. CASE TickConnect(p) \/ TickConnectThrows(p) \/ OnConnectFailed(p)
  <2>1. UNCHANGED <<session, nameHandles, down, clientEnd, centerEnd>>
    BY <1>2 DEF TickConnect, TickConnectThrows, OnConnectFailed, connVars
  <2> QED
    BY <1>1, <2>1, CallTracks
<1>3. CASE \/ \E h \in HandleOrNone : SendByHandle(p, h) \/ SendCommandByHandle(p, h)
           \/ \E n \in Names : SendByName(p, n) \/ SendCommandByName(p, n)
  <2>1. UNCHANGED <<session, nameHandles, down, clientEnd, centerEnd>>
    BY <1>3 DEF SendByHandle, SendByName, SendTransmit, SendCommandByName,
                SendCommandByHandle, clientVars
  <2> QED
    BY <1>1, <2>1, CallTracks
<1> QED
  BY <1>1, <1>2, <1>3, ConnectedTracks, SessionEndTracks, ReceiveTracks

-----------------------------------------------------------------------------
LEMMA InitDInv == Init => DInv
<1> SUFFICES ASSUME Init PROVE DInv
  OBVIOUS
<1>1. MInv
  BY InitMInv
<1>2. NamedLate
  BY DEF NamedLate, Init, CenterInit
<1>3. SessionsLive
  BY DEF SessionsLive, Init, ClientInit
<1>4. Tracks
  BY DEF Tracks, Followed, Init, CenterInit
<1> QED
  BY <1>1, <1>2, <1>3, <1>4 DEF DInv

LEMMA StepDInv ==
    ASSUME NamesFit
    PROVE  DInv /\ [Next]_vars => DInv'
<1> SUFFICES ASSUME DInv, [Next]_vars PROVE DInv'
  OBVIOUS
<1>1. MInv'
  BY StepMInv DEF DInv
<1>2. CASE CenterStep
  BY <1>1, <1>2, CenterNamesLate, CenterTracks DEF DInv
<1>3. CASE SyncStep
  BY <1>1, <1>3, CenterNamesLate, SyncTracks DEF DInv
<1>4. CASE ClientStep
  BY <1>1, <1>4, ClientTracks DEF DInv
<1>5. CASE UNCHANGED vars
  <2>1. UNCHANGED <<session, nameHandles, down, clientEnd, centerEnd>>
        /\ UNCHANGED centerVars /\ UNCHANGED erased
    BY <1>5 DEF vars, centerVars
  <2> QED
    BY <1>1, <2>1, CallTracks DEF DInv
<1> QED
  BY <1>2, <1>3, <1>4, <1>5 DEF Next

LEMMA DInvTracks == DInv => DirectoryTracksCenter
<1> SUFFICES ASSUME DInv, NEW p \in Clients, NEW d \in sessions,
                    session[p] \in sessions, value[session[p]] # NoName, value[d] # NoName,
                    \A e \in sessions : value[e] = value[d] => e = d,
                    value[d] \notin erased
             PROVE  WillResolve(p, value[d], fd[d])
  BY DEF DirectoryTracksCenter
<1> QED
  BY DEF DInv, Tracks, Followed

(* A client that has told its name will resolve the name of every session  *)
(* of the center to the right descriptor once it has handled what is under *)
(* way (HandleMyName, OnSessionError, BroadcastNameHandleList), whatever   *)
(* sessions, clients and the center itself go through; with the exceptions *)
(* DirectoryTracksCenter names.                                            *)
THEOREM DirectoriesFollow == Spec => []DirectoryTracksCenter
<1>1. CASE NamesFit
  <2>1. Spec => []DInv
    BY <1>1, InitDInv, StepDInv, PTL DEF Spec
  <2> QED
    BY <2>1, DInvTracks, PTL
<1>2. CASE ~NamesFit
  <2>1. DirectoryTracksCenter
    BY <1>2 DEF DirectoryTracksCenter
  <2> QED
    BY <2>1, PTL
<1> QED
  BY <1>1, <1>2
=============================================================================
