------------------------------ MODULE CenterHub ------------------------------
(***************************************************************************)
(* A process that uses CenterHubLibrary (main.cpp and                      *)
(* Communication/SessionManager.cpp): one session manager for each world   *)
(* of the configuration, each with a session to a center of its own.  The  *)
(* application calls the library from one thread, and calls it again from  *)
(* the callbacks the library makes; `stack' is what that thread is in the  *)
(* middle of.  Handles, directories and transmits are as in CenterClient,  *)
(* whose code a session manager repeats; here a session only has the       *)
(* handle that its center sends it.                                        *)
(***************************************************************************)
EXTENDS Integers, Sequences, FiniteSets, SequencesExt

CONSTANTS
    Worlds, Addresses, Names,
    Configs,      \* what config.scp may hold: sequences of Entry
    Missing,      \* a worldid or a name that the configuration does not have
    MaxManagers,  \* capacity of g_SessionManagers
    MaxConn,      \* bound: sessions in a behaviour
    MaxReloads,   \* bound: calls of ReloadConfigScript in a behaviour
    MaxDepth      \* bound: callbacks in which the application calls the library again

VARIABLES
    file,       \* the entries of ./config/config.scp
    config,     \* the entries read last: ip0, port0, worldid0, name0, ip1, ...
    managed,    \* worlds with a session manager, in the order of g_SessionManagers
    address,    \* m_Ip and m_Port of each
    name,       \* m_MyselfInfo.m_Name of each
    myHandle,   \* m_MyselfInfo.m_Handle of each
    connector,  \* "idle": m_ConnectFinish is TRUE; "pending": a connect is under way;
                \* "thrown": m_ConnectFinish is FALSE for ever
    target,     \* the address of the connect under way
    session,    \* m_Session of each, a number of a connection or None
    conns,      \* every connection made: where to, its owner, what became of it
    stack,      \* calls under way, the innermost last
    reloads,    \* number of reloads
    told,       \* own names the application has been told of and not been told the end of
    late,       \* history: worlds reloaded while a connect was under way
    renamed     \* history: worlds renamed by a reload while they had a session

Entry == [world : Worlds \cup {Missing}, address : Addresses, name : Names \cup {Missing}]

ASSUME MissingAssumption == Missing \notin Worlds
ASSUME ConfigsAssumption ==
    \A c \in Configs :
        /\ c \in Seq(Entry)
        /\ \A i, j \in DOMAIN c : c[i].world = c[j].world /\ c[i].world # Missing => i = j

vars == <<file, config, managed, address, name, myHandle, connector, target,
          session, conns, stack, reloads, told, late, renamed>>
history == <<late, renamed>>
perWorld == <<address, name, myHandle, connector, target, session>>

None == 0
Complete(e) == e.world # Missing /\ e.name # Missing

Init ==
    /\ file \in Configs
    /\ config = <<>>
    /\ managed = <<>>
    /\ address = [w \in Worlds |-> Missing]
    /\ name = [w \in Worlds |-> Missing]
    /\ myHandle = [w \in Worlds |-> None]
    /\ connector = [w \in Worlds |-> "idle"]
    /\ target = [w \in Worlds |-> Missing]
    /\ session = [w \in Worlds |-> None]
    /\ conns = <<>>
    /\ stack = <<[call |-> "init"]>>
    /\ reloads = 0
    /\ told = [w \in Worlds |-> {}]
    /\ late = {}
    /\ renamed = {}

-----------------------------------------------------------------------------
(* The calls. *)
At(call) == stack # <<>> /\ Last(stack).call = call
Return == stack' = Front(stack)
Depth == Len(SelectSeq(stack, LAMBDA f : f.call = "application"))

(* The application may call the library: between two Ticks, or from a      *)
(* callback.                                                               *)
ApplicationRuns == stack = <<>> \/ (At("application") /\ Depth <= MaxDepth)

(* Mutant: the application is not told. *)
DropSessionSilently(w, n, calls) ==
    /\ stack' = Append(calls, [call |-> "drop", world |-> w])
    /\ UNCHANGED told
(* SetSession(NULL) on w, called by calls: the application is told first,  *)
(* that the name n is gone.                                                *)
DropSession(w, n, calls) ==
    IF session[w] # None
      THEN /\ stack' = calls \o <<[call |-> "drop", world |-> w], [call |-> "application"]>>
           /\ told' = [told EXCEPT ![w] = @ \ {n}]
      ELSE /\ stack' = Append(calls, [call |-> "drop", world |-> w])
           /\ UNCHANGED told

(* Someone edits the file. *)
Edit ==
    /\ stack = <<>>
    /\ reloads < MaxReloads
    /\ file' \in Configs
    /\ UNCHANGED <<config, managed, perWorld, conns, stack, reloads, told, history>>

(* ReloadConfigState: the old entries go first, so that a file that cannot *)
(* be read leaves none; then ResetSessionManagers reads centernum.         *)
Load(calls) ==
    /\ \E read \in {file, <<>>} :
         /\ config' = read
         /\ stack' = Append(calls, [call |-> "reset", next |-> 1, num |-> Len(read)])
    /\ reloads' = reloads + 1

Start ==
    /\ At("init")
    /\ Load(<<>>)
    /\ UNCHANGED <<file, managed, perWorld, conns, told, history>>

ReloadConfigScript ==
    /\ ApplicationRuns
    /\ reloads < MaxReloads
    /\ Load(stack)
    /\ UNCHANGED <<file, managed, perWorld, conns, told, history>>

(* One turn of the loop of ResetSessionManagers: entry number `next' as    *)
(* GetConfig gives it now, which another reload may have replaced since    *)
(* the loop began.                                                         *)
Now(i) == IF i <= Len(config) THEN config[i] ELSE [world |-> Missing, name |-> Missing]
Turn == Front(stack) \o <<[Last(stack) EXCEPT !.next = @ + 1]>>

Configure(e) ==
    /\ address' = [address EXCEPT ![e.world] = e.address]
    /\ name' = [name EXCEPT ![e.world] = e.name]

ResetSkips ==
    /\ At("reset")
    /\ LET f == Last(stack)
       IN  f.next <= f.num /\ ~Complete(Now(f.next))
    /\ stack' = Turn
    /\ UNCHANGED <<file, config, managed, perWorld, conns, reloads, told, history>>

(* A world the table has no room for gets a manager that nothing refers to. *)
ResetAdds ==
    /\ At("reset")
    /\ LET f == Last(stack)
           e == Now(f.next)
       IN  /\ f.next <= f.num
           /\ Complete(e)
           /\ e.world \notin ToSet(managed)
           /\ IF Len(managed) < MaxManagers
                THEN /\ managed' = Append(managed, e.world)
                     /\ Configure(e)
                     /\ connector' = [connector EXCEPT ![e.world] = "idle"]
                ELSE UNCHANGED <<managed, address, name, connector>>
    /\ stack' = Turn
    /\ UNCHANGED <<file, config, myHandle, target, session, conns, reloads, told, history>>

(* Mutant: the session is left alone. *)
ResetKeepsSession ==
    /\ At("reset")
    /\ LET f == Last(stack)
           e == Now(f.next)
       IN  /\ f.next <= f.num
           /\ Complete(e)
           /\ e.world \in ToSet(managed)
           /\ Configure(e)
    /\ stack' = Turn
    /\ UNCHANGED <<file, config, managed, myHandle, connector, target, session, conns, reloads, told, history>>

ResetUpdates ==
    /\ At("reset")
    /\ LET f == Last(stack)
           e == Now(f.next)
       IN  /\ f.next <= f.num
           /\ Complete(e)
           /\ e.world \in ToSet(managed)
           /\ Configure(e)
           /\ DropSession(e.world, e.name, Turn)
           /\ late' = IF connector[e.world] = "pending" THEN late \cup {e.world} ELSE late
           /\ renamed' = IF session[e.world] # None /\ name[e.world] # e.name
                           THEN renamed \cup {e.world} ELSE renamed
    /\ UNCHANGED <<file, config, managed, myHandle, connector, target, session, conns, reloads>>

ResetEnds ==
    /\ At("reset")
    /\ Last(stack).next > Last(stack).num
    /\ Return
    /\ UNCHANGED <<file, config, managed, perWorld, conns, reloads, told, history>>

-----------------------------------------------------------------------------
(* SetSession(NULL) after the application was told: m_Session is read      *)
(* again, and deleted if it is still there.                                *)
Delete(c) == conns' = [conns EXCEPT ![c].deleted = @ + 1]

(* Mutant: m_Session is not reset. *)
DropKeepsPointer ==
    /\ At("drop")
    /\ LET w == Last(stack).world
       IN  /\ IF session[w] # None THEN Delete(session[w]) ELSE UNCHANGED conns
           /\ myHandle' = [myHandle EXCEPT ![w] = None]
    /\ Return
    /\ UNCHANGED <<file, config, managed, address, name, connector, target, session, reloads, told, history>>
Drop ==
    /\ At("drop")
    /\ LET w == Last(stack).world
       IN  /\ IF session[w] # None THEN Delete(session[w]) ELSE UNCHANGED conns
           /\ session' = [session EXCEPT ![w] = None]
           /\ myHandle' = [myHandle EXCEPT ![w] = None]
    /\ Return
    /\ UNCHANGED <<file, config, managed, address, name, connector, target, reloads, told, history>>

(* The application's callback returns. *)
CallbackReturns ==
    /\ At("application")
    /\ Return
    /\ UNCHANGED <<file, config, managed, perWorld, conns, reloads, told, history>>

Disconnect(w) ==
    /\ ApplicationRuns
    /\ w \in ToSet(managed)
    /\ session[w] # None
    /\ DropSession(w, name[w], stack)
    /\ UNCHANGED <<file, config, managed, perWorld, conns, reloads, history>>

-----------------------------------------------------------------------------
(* Tick, part by part: callbacks of the connections, then KeepConnection   *)
(* of each manager.                                                        *)
KeepConnection(w) ==
    /\ stack = <<>>
    /\ w \in ToSet(managed)
    /\ session[w] = None
    /\ connector[w] = "idle"
    /\ \E outcome \in {"pending", "thrown"} : connector' = [connector EXCEPT ![w] = outcome]
    /\ target' = [target EXCEPT ![w] = address[w]]
    /\ late' = late \ {w}
    /\ UNCHANGED <<file, config, managed, address, name, myHandle, session, conns, stack, reloads, told, renamed>>

(* OnConnectFinish with a session: SetSession registers it and sends the   *)
(* name the manager has by now, to the address it had when it connected.   *)
OnConnected(w) ==
    /\ stack = <<>>
    /\ connector[w] = "pending"
    /\ Len(conns) < MaxConn
    /\ conns' = Append(conns, [to |-> target[w], name |-> name[w], late |-> w \in late,
                               heard |-> FALSE, deleted |-> 0])
    /\ session' = [session EXCEPT ![w] = Len(conns) + 1]
    /\ myHandle' = [myHandle EXCEPT ![w] = None]
    /\ connector' = [connector EXCEPT ![w] = "idle"]
    /\ UNCHANGED <<file, config, managed, address, name, target, stack, reloads, told, history>>

(* Mutant: m_ConnectFinish stays FALSE. *)
OnConnectFailedStuck(w) ==
    /\ stack = <<>>
    /\ connector[w] = "pending"
    /\ connector' = [connector EXCEPT ![w] = "stuck"]
    /\ DropSession(w, name[w], <<>>)
    /\ UNCHANGED <<file, config, managed, address, name, myHandle, target, session, conns, reloads, history>>
OnConnectFailed(w) ==
    /\ stack = <<>>
    /\ connector[w] = "pending"
    /\ connector' = [connector EXCEPT ![w] = "idle"]
    /\ DropSession(w, name[w], <<>>)
    /\ UNCHANGED <<file, config, managed, address, name, myHandle, target, session, conns, reloads, history>>

OnSessionError(w) ==
    /\ stack = <<>>
    /\ session[w] # None
    /\ DropSession(w, name[w], <<>>)
    /\ UNCHANGED <<file, config, managed, perWorld, conns, reloads, history>>

(* HandleMyHandle: the center's answer to the name; the application is     *)
(* told.                                                                   *)
HandleMyHandle(w) ==
    /\ stack = <<>>
    /\ session[w] # None
    /\ ~conns[session[w]].heard
    /\ conns' = [conns EXCEPT ![session[w]].heard = TRUE]
    /\ myHandle' = [myHandle EXCEPT ![w] = session[w]]
    /\ stack' = <<[call |-> "application"]>>
    /\ told' = [told EXCEPT ![w] = @ \cup {name[w]}]
    /\ UNCHANGED <<file, config, managed, address, name, connector, target, session, reloads, history>>

(* Release deletes the managers without a word to the application; a       *)
(* pending connect goes with the event base.                               *)
Release ==
    /\ stack = <<>>
    /\ conns' = [c \in DOMAIN conns |->
                    IF \E w \in Worlds : session[w] = c
                      THEN [conns[c] EXCEPT !.deleted = @ + 1] ELSE conns[c]]
    /\ managed' = <<>>
    /\ session' = [w \in Worlds |-> None]
    /\ myHandle' = [w \in Worlds |-> None]
    /\ connector' = [w \in Worlds |-> "idle"]
    /\ stack' = <<[call |-> "released"]>>
    /\ UNCHANGED <<file, config, address, name, target, reloads, told, history>>

(* Init after Release: InitConfigState reads the configuration only the    *)
(* first time.                                                             *)
InitAgain ==
    /\ At("released")
    /\ reloads < MaxReloads
    /\ stack' = <<[call |-> "reset", next |-> 1, num |-> Len(config)]>>
    /\ told' = [w \in Worlds |-> {}]
    /\ reloads' = reloads + 1
    /\ UNCHANGED <<file, config, managed, perWorld, conns, history>>

Library == Start \/ ResetSkips \/ ResetAdds \/ ResetUpdates \/ ResetEnds \/ Drop \/ CallbackReturns

Next ==
    \/ Library
    \/ Edit
    \/ ReloadConfigScript
    \/ Release
    \/ InitAgain
    \/ \E w \in Worlds :
         \/ Disconnect(w)
         \/ KeepConnection(w)
         \/ OnConnected(w)
         \/ OnConnectFailed(w)
         \/ OnSessionError(w)
         \/ HandleMyHandle(w)

(* Calls return, the application ticks for ever, and an attempt to connect *)
(* ends; that a center can be reached now and then is assumed.             *)
Spec ==
    /\ Init /\ [][Next]_vars
    /\ WF_vars(Library)
    /\ \A w \in Worlds : WF_vars(KeepConnection(w)) /\ SF_vars(OnConnected(w))

-----------------------------------------------------------------------------
(* Every variable has its type. *)
Frame ==
    [call : {"init", "application", "released"}]
    \cup [call : {"reset"}, next : Nat \ {0}, num : Nat]
    \cup [call : {"drop"}, world : Worlds]
Conn == [to : Addresses \cup {Missing}, name : Names \cup {Missing},
         late : BOOLEAN, heard : BOOLEAN, deleted : Nat]
TypeOK ==
    /\ file \in Configs
    /\ config \in Configs \cup {<<>>}
    /\ managed \in Seq(Worlds)
    /\ address \in [Worlds -> Addresses \cup {Missing}]
    /\ target \in [Worlds -> Addresses \cup {Missing}]
    /\ name \in [Worlds -> Names \cup {Missing}]
    /\ myHandle \in [Worlds -> Nat]
    /\ session \in [Worlds -> Nat]
    /\ connector \in [Worlds -> {"idle", "pending", "thrown"}]
    /\ conns \in Seq(Conn)
    /\ stack \in Seq(Frame)
    /\ reloads \in Nat
    /\ told \in [Worlds -> SUBSET (Names \cup {Missing})]
    /\ late \in SUBSET Worlds
    /\ renamed \in SUBSET Worlds

(* However the application disconnects and reloads from the callbacks of a *)
(* session that is being dropped, every session is deleted once.           *)
DeletedOnce ==
    \A c \in DOMAIN conns :
        conns[c].deleted = IF \E w \in Worlds : session[w] = c THEN 0 ELSE 1

(* After a reload, and after one that a callback of a reload began, the    *)
(* configuration reaches the sessions: every manager has the address and   *)
(* the name the last configuration gives its world (a world has one entry  *)
(* in it), and a session was made to that address, but for those whose     *)
(* connect was under way during a reload, and under that name.             *)
ManagersFollowConfig ==
    \A i \in DOMAIN config :
        Complete(config[i]) /\ config[i].world \in ToSet(managed) =>
            /\ address[config[i].world] = config[i].address
            /\ name[config[i].world] = config[i].name
SessionsFollowManagers ==
    \A w \in Worlds : session[w] # None =>
        LET c == conns[session[w]]
        IN  c.name = name[w] /\ (c.to = address[w] \/ c.late)
SessionFollowsConfig ==
    stack = <<>> => ManagersFollowConfig /\ SessionsFollowManagers

(* The application has been told of a name of its own and not of its end   *)
(* only while there is a session with that name, unless a reload has       *)
(* renamed the world while it had a session: then it is told the end of    *)
(* the new name and never that of the old one.                             *)
EndsAreTold ==
    stack = <<>> =>
        \A w \in Worlds \ renamed : told[w] # {} =>
            told[w] = {name[w]} /\ session[w] # None /\ myHandle[w] = session[w]

(* A world without a session gets one again, unless Connect has thrown, or *)
(* the library is released (or the bound on connections is reached).       *)
EveryWorldConnects ==
    \A w \in Worlds :
        w \in ToSet(managed) ~>
            \/ session[w] # None \/ connector[w] = "thrown"
            \/ w \notin ToSet(managed) \/ Len(conns) = MaxConn
=============================================================================
