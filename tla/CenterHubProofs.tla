--------------------------- MODULE CenterHubProofs ---------------------------
(* Proofs about CenterHub, for any number of worlds and sessions, any      *)
(* configurations in which a world has one entry, and callbacks of any     *)
(* depth.                                                                  *)
EXTENDS CenterHub, SequenceTheorems, TLAPS

-----------------------------------------------------------------------------
(* The invariant. *)

(* What the stack of calls under way has to do with a world or an entry:   *)
(* the worlds that are being dropped, and the entries that a loop of       *)
(* ResetSessionManagers has still to look at.                              *)
DropOf(f) == IF f.call = "drop" THEN {f.world} ELSE {}
LoopOf(f) == IF f.call = "reset" THEN f.next .. f.num ELSE {}
Dropping(s) == UNION {DropOf(s[i]) : i \in 1..Len(s)}
Looping(s) == UNION {LoopOf(s[i]) : i \in 1..Len(s)}
Outermost == {"init", "released"}
Lone(s) == \A i \in 1..Len(s) : s[i].call \in Outermost => Len(s) = 1
StackInv == Lone(stack)

(* A connection has one owner, a manager that has none while it connects.  *)
SessionInv ==
    /\ \A w \in Worlds : session[w] <= Len(conns)
    /\ \A v, w \in Worlds : session[v] = session[w] /\ session[v] # None => v = w
    /\ \A w \in Worlds : connector[w] = "pending" => session[w] = None
    /\ \A w \in Worlds :
          connector[w] = "pending" \/ session[w] # None => w \in ToSet(managed)

(* EndsAreTold in the middle of calls: a world that is being dropped is    *)
(* one whose end was told.                                                 *)
ToldInv ==
    ~At("released") =>
        \A w \in Worlds \ renamed :
            /\ told[w] # {} =>
                  told[w] = {name[w]} /\ session[w] # None /\ myHandle[w] = session[w]
            /\ w \in Dropping(stack) => told[w] = {}

(* ManagersFollowConfig in the middle of calls: an entry is in force, or a *)
(* loop will come to it.                                                   *)
InForce(i) ==
    Complete(config[i]) /\ config[i].world \in ToSet(managed) =>
        /\ address[config[i].world] = config[i].address
        /\ name[config[i].world] = config[i].name
ConfigInv == \A i \in 1..Len(config) : InForce(i) \/ i \in Looping(stack)

(* SessionsFollowManagers in the middle of calls: a session follows its    *)
(* manager or is being dropped, and so will one that is being made.        *)
FollowInv ==
    /\ \A w \in Worlds : session[w] # None =>
          \/ w \in Dropping(stack)
          \/ /\ conns[session[w]].name = name[w]
             /\ conns[session[w]].to = address[w] \/ conns[session[w]].late
    /\ \A w \in Worlds : connector[w] = "pending" => target[w] = address[w] \/ w \in late

IInv ==
    /\ TypeOK /\ StackInv /\ SessionInv /\ DeletedOnce
    /\ ToldInv /\ ConfigInv /\ FollowInv

-----------------------------------------------------------------------------
(* The stack. *)

LEMMA FrontProperties ==
    ASSUME NEW S, NEW s \in Seq(S), s # <<>>
    PROVE  /\ Len(s) \in Nat \ {0}
           /\ Front(s) \in Seq(S)
           /\ Len(Front(s)) = Len(s) - 1
           /\ \A i \in 1..(Len(s) - 1) : Front(s)[i] = s[i]
           /\ Last(s) = s[Len(s)]
           /\ Last(s) \in S
<1>1. Len(s) \in Nat \ {0}
  BY EmptySeq, LenProperties
<1>2. /\ Last(s) = s[Len(s)]
      /\ Last(s) \in S
  BY <1>1, ElementOfSeq DEF Last
<1>3. /\ Front(s) \in Seq(S)
      /\ Len(Front(s)) = Len(s) - 1
      /\ \A i \in 1..(Len(s) - 1) : Front(s)[i] = s[i]
  <2>1. \A i \in 1..(Len(s) - 1) : s[i] \in S
    BY <1>1, ElementOfSeq
  <2>2. Front(s) = SubSeq(s, 1, Len(s) - 1)
    BY DEF Front
  <2>3. 1 \in Int /\ Len(s) - 1 \in Int
    BY <1>1
  <2>4. DEFINE n == Len(s) - 1
  <2>5. /\ n \in Nat
        /\ Front(s) = SubSeq(s, 1, n)
    BY <1>1, <2>2
  <2>6. \A i \in 1..n : s[i] \in S
    BY <2>1
  <2>7. ASSUME NEW m \in Nat, \A i \in 1..m : s[i] \in S
        PROVE  /\ SubSeq(s, 1, m) \in Seq(S)
               /\ Len(SubSeq(s, 1, m)) = m
               /\ \A i \in 1..m : SubSeq(s, 1, m)[i] = s[i]
    BY <2>7, SubSeqProperties
  <2>8. HIDE DEF n
  <2>9. /\ Front(s) \in Seq(S)
        /\ Len(Front(s)) = n
        /\ \A i \in 1..n : Front(s)[i] = s[i]
    BY <2>5, <2>6, <2>7
  <2>10. QED
    BY <2>9 DEF n
<1>4. QED
  BY <1>1, <1>2, <1>3

Push(s, f) == Append(s, f)

LEMMA PushProperties ==
    ASSUME NEW s \in Seq(Frame), Lone(s), s = <<>> \/ Last(s).call \notin Outermost,
           NEW f \in Frame, f.call \notin Outermost
    PROVE  /\ Push(s, f) \in Seq(Frame)
           /\ Push(s, f) # <<>>
           /\ Last(Push(s, f)) = f
           /\ Dropping(Push(s, f)) = Dropping(s) \cup DropOf(f)
           /\ Looping(Push(s, f)) = Looping(s) \cup LoopOf(f)
           /\ Lone(Push(s, f))
<1>1. /\ Append(s, f) \in Seq(Frame)
      /\ Len(Append(s, f)) = Len(s) + 1
      /\ Append(s, f)[Len(s) + 1] = f
      /\ \A i \in 1..Len(s) : Append(s, f)[i] = s[i]
      /\ Len(s) \in Nat
  OBVIOUS
<1>2. Last(Append(s, f)) = f /\ Append(s, f) # <<>>
  BY <1>1 DEF Last
<1>3. Dropping(Append(s, f)) = Dropping(s) \cup DropOf(f)
  BY <1>1 DEF Dropping
<1>4. Looping(Append(s, f)) = Looping(s) \cup LoopOf(f)
  BY <1>1 DEF Looping
<1>5. \A i \in 1..Len(s) : s[i].call \notin Outermost
  BY DEF Lone, Last
<1>6. Lone(Append(s, f))
  BY <1>1, <1>5 DEF Lone
<1>7. QED
  BY <1>1, <1>2, <1>3, <1>4, <1>6 DEF Push

LEMMA PopProperties ==
    ASSUME NEW s \in Seq(Frame), s # <<>>
    PROVE  /\ Front(s) \in Seq(Frame)
           /\ Dropping(s) = Dropping(Front(s)) \cup DropOf(Last(s))
           /\ Looping(s) = Looping(Front(s)) \cup LoopOf(Last(s))
           /\ Lone(s) => /\ Lone(Front(s))
                         /\ Front(s) # <<>> => Last(Front(s)).call \notin Outermost
<1>1. /\ Len(s) \in Nat \ {0}
      /\ Front(s) \in Seq(Frame)
      /\ Len(Front(s)) = Len(s) - 1
      /\ \A i \in 1..(Len(s) - 1) : Front(s)[i] = s[i]
      /\ Last(s) = s[Len(s)]
  BY FrontProperties
<1>2. Dropping(s) = Dropping(Front(s)) \cup DropOf(Last(s))
  BY <1>1 DEF Dropping
<1>3. Looping(s) = Looping(Front(s)) \cup LoopOf(Last(s))
  BY <1>1 DEF Looping
<1>4. ASSUME Lone(s)
      PROVE  /\ Lone(Front(s))
             /\ Front(s) # <<>> => Last(Front(s)).call \notin Outermost
  <2>1. \A i \in 1..(Len(s) - 1) : s[i].call \notin Outermost
    BY <1>1, <1>4 DEF Lone
  <2>2. Lone(Front(s))
    BY <1>1, <2>1 DEF Lone
  <2>3. ASSUME Front(s) # <<>>
        PROVE  Last(Front(s)).call \notin Outermost
    BY <1>1, <2>1, <2>3 DEF Last
  <2>4. QED
    BY <2>2, <2>3
<1>5. QED
  BY <1>1, <1>2, <1>3, <1>4

LEMMA ToSetOfAppend ==
    ASSUME NEW S, NEW s \in Seq(S), NEW e \in S
    PROVE  ToSet(Append(s, e)) = ToSet(s) \cup {e}
<1>1. /\ Append(s, e) \in Seq(S)
      /\ Len(Append(s, e)) = Len(s) + 1
      /\ Len(s) \in Nat
      /\ \A i \in 1..Len(s) : Append(s, e)[i] = s[i]
      /\ Append(s, e)[Len(s) + 1] = e
  OBVIOUS
<1>2. DOMAIN Append(s, e) = 1..(Len(s) + 1) /\ DOMAIN s = 1..Len(s)
  BY <1>1, LenProperties
<1>3. QED
  BY <1>1, <1>2 DEF ToSet

(* SetSession(NULL) pushes frames only, and takes n from what w was told. *)
LEMMA DropSessionProperties ==
    ASSUME TypeOK, NEW w \in Worlds, NEW n, NEW calls \in Seq(Frame), Lone(calls),
           calls = <<>> \/ Last(calls).call \notin Outermost,
           DropSession(w, n, calls)
    PROVE  /\ stack' \in Seq(Frame)
           /\ Lone(stack')
           /\ stack' # <<>>
           /\ Last(stack').call \in {"drop", "application"}
           /\ Dropping(stack') = Dropping(calls) \cup {w}
           /\ Looping(stack') = Looping(calls)
           /\ told' = [told EXCEPT ![w] = IF session[w] # None THEN @ \ {n} ELSE @]
<1>1. [call |-> "drop", world |-> w] \in Frame /\ [call |-> "application"] \in Frame
  BY DEF Frame
<1>2. DEFINE d == [call |-> "drop", world |-> w]
             a == [call |-> "application"]
             s == Push(calls, d)
<1>3. /\ DropOf(d) = {w} /\ LoopOf(d) = {} /\ DropOf(a) = {} /\ LoopOf(a) = {}
      /\ d.call = "drop" /\ a.call = "application"
      /\ d.call \notin Outermost /\ a.call \notin Outermost
  BY DEF DropOf, LoopOf, Outermost
<1>4. /\ s \in Seq(Frame) /\ s # <<>> /\ Last(s) = d
      /\ Dropping(s) = Dropping(calls) \cup {w}
      /\ Looping(s) = Looping(calls)
      /\ Lone(s)
  <2>1. d \in Frame
    BY <1>1
  <2> HIDE DEF d
  <2>2. /\ s \in Seq(Frame) /\ s # <<>> /\ Last(s) = d /\ Lone(s)
        /\ Dropping(s) = Dropping(calls) \cup DropOf(d)
        /\ Looping(s) = Looping(calls) \cup LoopOf(d)
    BY <1>3, <2>1, PushProperties
  <2>3. QED
    BY <1>3, <2>2
<1>5. /\ Push(s, a) \in Seq(Frame) /\ Push(s, a) # <<>> /\ Last(Push(s, a)) = a
      /\ Dropping(Push(s, a)) = Dropping(calls) \cup {w}
      /\ Looping(Push(s, a)) = Looping(calls)
      /\ Lone(Push(s, a))
  <2>1. a \in Frame
    BY <1>1
  <2> HIDE DEF s, a, d
  <2>2. /\ Push(s, a) \in Seq(Frame) /\ Push(s, a) # <<>> /\ Last(Push(s, a)) = a /\ Lone(Push(s, a))
        /\ Dropping(Push(s, a)) = Dropping(s) \cup DropOf(a)
        /\ Looping(Push(s, a)) = Looping(s) \cup LoopOf(a)
    BY <1>3, <1>4, <2>1, PushProperties
  <2>3. QED
    BY <1>3, <1>4, <2>2
<1>6. calls \o <<d, a>> = Push(s, a)
  <2>1. d \in Frame /\ a \in Frame
    BY <1>1
  <2> HIDE DEF d, a
  <2>2. QED
    BY <2>1 DEF Push
<1>7. CASE session[w] # None
  <2>1. stack' = Push(s, a) /\ told' = [told EXCEPT ![w] = @ \ {n}]
    BY <1>6, <1>7 DEF DropSession
  <2>2. QED
    BY <1>3, <1>5, <1>7, <2>1
<1>8. CASE session[w] = None
  <2>1. stack' = s /\ UNCHANGED told
    BY <1>8 DEF DropSession, Push
  <2>2. told' = [told EXCEPT ![w] = IF session[w] # None THEN @ \ {n} ELSE @]
    BY <1>8, <2>1 DEF TypeOK
  <2>3. QED
    BY <1>3, <1>4, <2>1, <2>2
<1>9. QED
  BY <1>7, <1>8

(* A turn of the loop leaves one entry less to look at. *)
LEMMA TurnProperties ==
    ASSUME TypeOK, StackInv, At("reset")
    PROVE  /\ Turn \in Seq(Frame)
           /\ Lone(Turn)
           /\ Turn # <<>>
           /\ Last(Turn).call = "reset"
           /\ Dropping(Turn) = Dropping(stack)
           /\ Looping(stack) \subseteq Looping(Turn) \cup {Last(stack).next}
           /\ Last(stack).next \in Nat \ {0} /\ Last(stack).num \in Nat
<1>1. /\ Last(stack) \in Frame /\ Last(stack).call = "reset" /\ stack # <<>>
      /\ stack \in Seq(Frame)
  BY FrontProperties DEF TypeOK, At
<1>2. Last(stack) \in [call : {"reset"}, next : Nat \ {0}, num : Nat]
  BY <1>1 DEF Frame
<1>3. DEFINE f == [Last(stack) EXCEPT !.next = @ + 1]
<1>4. /\ f \in Frame /\ f.call = "reset"
      /\ f.next = Last(stack).next + 1 /\ f.num = Last(stack).num
  BY <1>2 DEF Frame
<1>5. /\ Front(stack) \in Seq(Frame)
      /\ Dropping(stack) = Dropping(Front(stack)) \cup DropOf(Last(stack))
      /\ Looping(stack) = Looping(Front(stack)) \cup LoopOf(Last(stack))
      /\ Lone(Front(stack))
      /\ Front(stack) # <<>> => Last(Front(stack)).call \notin Outermost
  BY <1>1, PopProperties DEF StackInv
<1>6. DropOf(Last(stack)) = {} /\ DropOf(f) = {}
  BY <1>1, <1>4 DEF DropOf
<1>7. LoopOf(Last(stack)) \subseteq LoopOf(f) \cup {Last(stack).next}
  BY <1>2, <1>4 DEF LoopOf
<1>8. Turn = Push(Front(stack), f)
  <2>1. Turn = Front(stack) \o <<f>>
    BY DEF Turn
  <2>2. f \in Frame
    BY <1>4
  <2> HIDE DEF f
  <2>3. QED
    BY <1>5, <2>1, <2>2 DEF Push
<1>9. HIDE DEF f
<1>10. f.call \notin Outermost
  BY <1>4 DEF Outermost
<1>11. /\ Turn \in Seq(Frame) /\ Turn # <<>> /\ Last(Turn) = f /\ Lone(Turn)
       /\ Dropping(Turn) = Dropping(Front(stack)) \cup DropOf(f)
       /\ Looping(Turn) = Looping(Front(stack)) \cup LoopOf(f)
  BY <1>4, <1>5, <1>8, <1>10, PushProperties
<1>12. QED
  BY <1>2, <1>4, <1>5, <1>6, <1>7, <1>11

(* A call returns. *)
LEMMA ReturnProperties ==
    ASSUME TypeOK, StackInv, stack # <<>>, Return
    PROVE  /\ stack' \in Seq(Frame)
           /\ Lone(stack')
           /\ stack' # <<>> => Last(stack').call \notin Outermost
           /\ Dropping(stack) = Dropping(stack') \cup DropOf(Last(stack))
           /\ Looping(stack) = Looping(stack') \cup LoopOf(Last(stack))
           /\ Last(stack) \in Frame
BY PopProperties, FrontProperties DEF Return, TypeOK, StackInv

LEMMA ConfigProperties ==
    ASSUME NEW c \in Configs \cup {<<>>}
    PROVE  c \in Seq(Entry) /\ Len(c) \in Nat /\ DOMAIN c = 1..Len(c)
<1>1. CASE c \in Configs
  <2>1. c \in Seq(Entry)
    BY <1>1, ConfigsAssumption, Zenon
  <2>2. QED
    BY <2>1, LenProperties
<1>2. CASE c = <<>>
  BY <1>2, EmptySeq, LenProperties
<1>3. QED
  BY <1>1, <1>2

(* Reading the configuration begins a loop over all its entries. *)
LEMMA LoadProperties ==
    ASSUME TypeOK, NEW calls \in Seq(Frame), Lone(calls),
           calls = <<>> \/ Last(calls).call \notin Outermost,
           Load(calls)
    PROVE  /\ stack' \in Seq(Frame)
           /\ Lone(stack')
           /\ Last(stack').call = "reset"
           /\ Dropping(stack') = Dropping(calls)
           /\ Looping(stack') = Looping(calls) \cup 1..Len(config')
           /\ config' \in Configs \cup {<<>>}
           /\ reloads' \in Nat
<1>1. PICK read \in {file, <<>>} :
          /\ config' = read
          /\ stack' = Append(calls, [call |-> "reset", next |-> 1, num |-> Len(read)])
  BY DEF Load
<1>2. read \in Configs \cup {<<>>} /\ Len(read) \in Nat
  BY <1>1, ConfigProperties DEF TypeOK
<1>3. DEFINE f == [call |-> "reset", next |-> 1, num |-> Len(read)]
<1>4. f \in Frame /\ f.call \notin Outermost
  BY <1>2 DEF Frame, Outermost
<1>5. DropOf(f) = {} /\ LoopOf(f) = 1..Len(read) /\ f.call = "reset"
  BY DEF DropOf, LoopOf
<1>6. stack' = Push(calls, f)
  BY <1>1 DEF Push
<1>7. HIDE DEF f
<1>8. /\ Push(calls, f) \in Seq(Frame) /\ Last(Push(calls, f)) = f /\ Lone(Push(calls, f))
      /\ Dropping(Push(calls, f)) = Dropping(calls) \cup DropOf(f)
      /\ Looping(Push(calls, f)) = Looping(calls) \cup LoopOf(f)
  BY <1>4, PushProperties
<1>9. reloads' \in Nat
  BY DEF Load, TypeOK
<1>10. QED
  BY <1>1, <1>2, <1>5, <1>6, <1>8, <1>9

(* A complete entry that GetConfig gives is one of the configuration, and  *)
(* the only one of its world.                                              *)
LEMMA EntryProperties ==
    ASSUME TypeOK, NEW i \in Nat \ {0}, Complete(Now(i))
    PROVE  /\ i \in 1..Len(config)
           /\ Now(i) = config[i]
           /\ Now(i).world \in Worlds
           /\ Now(i).address \in Addresses
           /\ Now(i).name \in Names
           /\ \A j \in 1..Len(config) : config[j].world = Now(i).world => j = i
<1>1. config \in Seq(Entry) /\ Len(config) \in Nat /\ DOMAIN config = 1..Len(config)
  BY ConfigProperties DEF TypeOK
<1>2. i \in 1..Len(config) /\ Now(i) = config[i]
  <2>1. i <= Len(config)
    <3>1. SUFFICES ASSUME ~(i <= Len(config)) PROVE FALSE
      OBVIOUS
    <3>2. Now(i) = [world |-> Missing, name |-> Missing]
      BY <3>1 DEF Now
    <3>3. QED
      BY <3>2 DEF Complete
  <2>2. QED
    BY <1>1, <2>1 DEF Now
<1>3. Now(i) \in Entry /\ Now(i).world # Missing /\ Now(i).name # Missing
  BY <1>1, <1>2 DEF Complete
<1>4. \A j \in 1..Len(config) : config[j].world = Now(i).world => j = i
  <2>1. CASE config \in Configs
    BY <1>1, <1>2, <1>3, <2>1, ConfigsAssumption
  <2>2. CASE config = <<>>
    BY <1>2, <2>2
  <2>3. QED
    BY <2>1, <2>2 DEF TypeOK
<1>5. QED
  BY <1>2, <1>3, <1>4 DEF Entry

(* The application calls the library in no outermost call. *)
LEMMA ApplicationProperties ==
    ASSUME TypeOK, ApplicationRuns
    PROVE  /\ stack = <<>> \/ Last(stack).call \notin Outermost
           /\ ~At("released")
BY DEF ApplicationRuns, At, Outermost

LEMMA EmptyStack ==
    /\ <<>> \in Seq(Frame) /\ Lone(<<>>)
    /\ Dropping(<<>>) = {} /\ Looping(<<>>) = {}
BY DEF Lone, Dropping, Looping

-----------------------------------------------------------------------------
(* The initial state. *)

LEMMA InitHolds == Init => IInv
<1> SUFFICES ASSUME Init PROVE IInv
  OBVIOUS
<1>1. /\ stack \in Seq(Frame) /\ Len(stack) = 1 /\ stack[1].call = "init" /\ stack # <<>>
      /\ Last(stack) = stack[1]
  BY DEF Init, Frame, Last
<1>2. Dropping(stack) = {} /\ Looping(stack) = {}
  BY <1>1 DEF Dropping, DropOf, Looping, LoopOf
<1>3. TypeOK
  BY <1>1 DEF Init, TypeOK, None
<1>4. StackInv
  BY <1>1 DEF StackInv, Lone
<1>5. SessionInv /\ DeletedOnce
  BY DEF Init, SessionInv, DeletedOnce, None
<1>6. ToldInv /\ ConfigInv /\ FollowInv
  BY <1>2 DEF Init, ToldInv, ConfigInv, FollowInv, None
<1>7. QED
  BY <1>3, <1>4, <1>5, <1>6 DEF IInv

-----------------------------------------------------------------------------
(* The steps. *)

LEMMA StartKeeps ==
    ASSUME IInv, Start PROVE IInv'
<1>1. /\ TypeOK /\ StackInv /\ At("init") /\ Load(<<>>)
      /\ UNCHANGED <<file, managed, address, name, myHandle, connector, target, session, conns, told, late, renamed>>
  BY DEF IInv, Start, perWorld, history
<1>2. /\ stack' \in Seq(Frame) /\ Lone(stack') /\ Dropping(stack') = {}
      /\ Last(stack').call = "reset"
      /\ Looping(stack') = 1..Len(config')
      /\ config' \in Configs \cup {<<>>}
      /\ reloads' \in Nat
  BY <1>1, EmptyStack, LoadProperties
<1>3. Dropping(stack) = {}
  <2>1. Len(stack) = 1 /\ stack[1].call = "init"
    <3>1. stack # <<>> /\ Last(stack) = stack[Len(stack)] /\ Len(stack) \in Nat \ {0}
      BY <1>1, FrontProperties DEF TypeOK, At
    <3>2. stack[Len(stack)].call = "init"
      BY <1>1, <3>1 DEF At
    <3>3. QED
      BY <1>1, <3>1, <3>2 DEF StackInv, Lone, Outermost
  <2>2. QED
    BY <2>1 DEF Dropping, DropOf
<1>4. ~At("released") /\ ~At("released")'
  BY <1>1, <1>2 DEF At
<1>5. TypeOK'
  BY <1>1, <1>2 DEF TypeOK
<1>6. StackInv' /\ SessionInv' /\ DeletedOnce'
  BY <1>1, <1>2 DEF IInv, StackInv, SessionInv, DeletedOnce
<1>7. ToldInv'
  BY <1>1, <1>2, <1>4 DEF IInv, ToldInv
<1>8. ConfigInv'
  BY <1>2 DEF ConfigInv
<1>9. FollowInv'
  BY <1>1, <1>2, <1>3 DEF IInv, FollowInv
<1>10. QED
  BY <1>5, <1>6, <1>7, <1>8, <1>9 DEF IInv

LEMMA EditKeeps ==
    ASSUME IInv, Edit PROVE IInv'
<1>1. /\ file' \in Configs
      /\ UNCHANGED <<config, managed, address, name, myHandle, connector, target, session, conns, stack, reloads, told, late, renamed>>
  BY DEF Edit, perWorld, history
<1>2. TypeOK' /\ StackInv' /\ SessionInv' /\ DeletedOnce'
  BY <1>1 DEF IInv, TypeOK, StackInv, SessionInv, DeletedOnce
<1>3. ToldInv' /\ ConfigInv' /\ FollowInv'
  BY <1>1 DEF IInv, ToldInv, At, ConfigInv, InForce, FollowInv
<1>4. QED
  BY <1>2, <1>3 DEF IInv

LEMMA ReloadConfigScriptKeeps ==
    ASSUME IInv, ReloadConfigScript PROVE IInv'
<1>1. /\ TypeOK /\ StackInv /\ ApplicationRuns /\ Load(stack)
      /\ UNCHANGED <<file, managed, address, name, myHandle, connector, target, session, conns, told, late, renamed>>
  BY DEF IInv, ReloadConfigScript, perWorld, history
<1>2. /\ ~At("released")
      /\ stack' \in Seq(Frame) /\ Lone(stack') /\ Dropping(stack') = Dropping(stack)
      /\ Last(stack').call = "reset"
      /\ Looping(stack') = Looping(stack) \cup 1..Len(config')
      /\ config' \in Configs \cup {<<>>}
      /\ reloads' \in Nat
  BY <1>1, ApplicationProperties, LoadProperties DEF TypeOK, StackInv
<1>3. TypeOK'
  BY <1>1, <1>2 DEF TypeOK
<1>4. StackInv' /\ SessionInv' /\ DeletedOnce'
  BY <1>1, <1>2 DEF IInv, StackInv, SessionInv, DeletedOnce
<1>5. ToldInv'
  BY <1>1, <1>2 DEF IInv, ToldInv
<1>6. ConfigInv'
  BY <1>2 DEF ConfigInv
<1>7. FollowInv'
  BY <1>1, <1>2 DEF IInv, FollowInv
<1>8. QED
  BY <1>3, <1>4, <1>5, <1>6, <1>7 DEF IInv

LEMMA ResetSkipsKeeps ==
    ASSUME IInv, ResetSkips PROVE IInv'
<1>1. /\ TypeOK /\ StackInv /\ At("reset") /\ stack' = Turn
      /\ ~Complete(Now(Last(stack).next))
      /\ UNCHANGED <<file, config, managed, address, name, myHandle, connector, target, session, conns, reloads, told, late, renamed>>
  BY DEF IInv, ResetSkips, perWorld, history
<1>2. /\ stack' \in Seq(Frame) /\ Lone(stack') /\ Last(stack').call = "reset"
      /\ Dropping(stack') = Dropping(stack)
      /\ Looping(stack) \subseteq Looping(stack') \cup {Last(stack).next}
  BY <1>1, TurnProperties
<1>3. ~At("released")
  BY <1>1 DEF At
<1>4. TypeOK'
  BY <1>1, <1>2 DEF TypeOK
<1>5. StackInv' /\ SessionInv' /\ DeletedOnce'
  BY <1>1, <1>2 DEF IInv, StackInv, SessionInv, DeletedOnce
<1>6. ToldInv'
  BY <1>1, <1>2, <1>3 DEF IInv, ToldInv
<1>7. ConfigInv'
  <2>1. ASSUME NEW i \in 1..Len(config) PROVE InForce(i) \/ i \in Looping(stack')
    <3>1. CASE InForce(i)
      BY <3>1
    <3>2. CASE i = Last(stack).next
      BY <1>1, <3>2 DEF Now, InForce
    <3>3. CASE i \in Looping(stack) /\ i # Last(stack).next
      BY <1>2, <3>3
    <3>4. QED
      BY <3>1, <3>2, <3>3 DEF IInv, ConfigInv
  <2>2. QED
    BY <1>1, <2>1 DEF ConfigInv, InForce
<1>8. FollowInv'
  BY <1>1, <1>2 DEF IInv, FollowInv
<1>9. QED
  BY <1>4, <1>5, <1>6, <1>7, <1>8 DEF IInv

LEMMA ResetEndsKeeps ==
    ASSUME IInv, ResetEnds PROVE IInv'
<1>1. /\ TypeOK /\ StackInv /\ At("reset") /\ Return /\ stack # <<>>
      /\ Last(stack).call = "reset" /\ Last(stack).next > Last(stack).num
      /\ UNCHANGED <<file, config, managed, address, name, myHandle, connector, target, session, conns, reloads, told, late, renamed>>
  BY DEF IInv, ResetEnds, At, perWorld, history
<1>2. /\ stack' \in Seq(Frame) /\ Lone(stack') /\ (stack' # <<>> => Last(stack').call \notin Outermost)
      /\ Dropping(stack) = Dropping(stack') \cup DropOf(Last(stack))
      /\ Looping(stack) = Looping(stack') \cup LoopOf(Last(stack))
      /\ Last(stack) \in Frame
  BY <1>1, ReturnProperties
<1>3. DropOf(Last(stack)) = {} /\ LoopOf(Last(stack)) = {}
  BY <1>1, <1>2 DEF DropOf, LoopOf, Frame
<1>4. Dropping(stack') = Dropping(stack) /\ Looping(stack') = Looping(stack)
  BY <1>2, <1>3
<1>5. ~At("released")
  BY <1>1 DEF At
<1>6. TypeOK'
  BY <1>1, <1>2 DEF TypeOK
<1>7. StackInv' /\ SessionInv' /\ DeletedOnce'
  BY <1>1, <1>2 DEF IInv, StackInv, SessionInv, DeletedOnce
<1>8. ToldInv'
  BY <1>1, <1>4, <1>5 DEF IInv, ToldInv
<1>9. ConfigInv' /\ FollowInv'
  BY <1>1, <1>4 DEF IInv, ConfigInv, InForce, FollowInv
<1>10. QED
  BY <1>6, <1>7, <1>8, <1>9 DEF IInv

LEMMA CallbackReturnsKeeps ==
    ASSUME IInv, CallbackReturns PROVE IInv'
<1>1. /\ TypeOK /\ StackInv /\ Return /\ stack # <<>> /\ Last(stack).call = "application"
      /\ UNCHANGED <<file, config, managed, address, name, myHandle, connector, target, session, conns, reloads, told, late, renamed>>
  BY DEF IInv, CallbackReturns, At, perWorld, history
<1>2. /\ stack' \in Seq(Frame) /\ Lone(stack') /\ (stack' # <<>> => Last(stack').call \notin Outermost)
      /\ Dropping(stack) = Dropping(stack') \cup DropOf(Last(stack))
      /\ Looping(stack) = Looping(stack') \cup LoopOf(Last(stack))
  BY <1>1, ReturnProperties
<1>3. DropOf(Last(stack)) = {} /\ LoopOf(Last(stack)) = {}
  BY <1>1 DEF DropOf, LoopOf
<1>4. Dropping(stack') = Dropping(stack) /\ Looping(stack') = Looping(stack)
  BY <1>2, <1>3
<1>5. ~At("released")
  BY <1>1 DEF At
<1>6. TypeOK'
  BY <1>1, <1>2 DEF TypeOK
<1>7. StackInv' /\ SessionInv' /\ DeletedOnce'
  BY <1>1, <1>2 DEF IInv, StackInv, SessionInv, DeletedOnce
<1>8. ToldInv'
  BY <1>1, <1>4, <1>5 DEF IInv, ToldInv
<1>9. ConfigInv' /\ FollowInv'
  BY <1>1, <1>4 DEF IInv, ConfigInv, InForce, FollowInv
<1>10. QED
  BY <1>6, <1>7, <1>8, <1>9 DEF IInv

(* What SetSession(NULL) does on behalf of Disconnect, an error or a       *)
(* failed connect.                                                         *)
LEMMA DropSessionKeeps ==
    ASSUME IInv, NEW w \in Worlds, ApplicationRuns, DropSession(w, name[w], stack),
           connector' \in [Worlds -> {"idle", "pending", "thrown"}],
           \A v \in Worlds : connector'[v] = "pending" => connector[v] = "pending",
           UNCHANGED <<file, config, managed, address, name, myHandle, target, session, conns, reloads, late, renamed>>
    PROVE  IInv'
<1>1. TypeOK /\ StackInv /\ ~At("released")
  BY ApplicationProperties DEF IInv
<1>2. /\ stack' \in Seq(Frame) /\ Lone(stack')
      /\ Last(stack').call \in {"drop", "application"}
      /\ Dropping(stack') = Dropping(stack) \cup {w}
      /\ Looping(stack') = Looping(stack)
      /\ told' = [told EXCEPT ![w] = IF session[w] # None THEN @ \ {name[w]} ELSE @]
  BY <1>1, ApplicationProperties, DropSessionProperties DEF TypeOK, StackInv
<1>3. TypeOK'
  BY <1>1, <1>2 DEF TypeOK
<1>4. StackInv' /\ SessionInv' /\ DeletedOnce'
  BY <1>2 DEF IInv, StackInv, SessionInv, DeletedOnce
<1>5. ToldInv'
  <2>1. ASSUME NEW v \in Worlds \ renamed
        PROVE  /\ told'[v] # {} =>
                     told'[v] = {name[v]} /\ session[v] # None /\ myHandle[v] = session[v]
               /\ v \in Dropping(stack') => told'[v] = {}
    <3>1. /\ told[v] # {} =>
                told[v] = {name[v]} /\ session[v] # None /\ myHandle[v] = session[v]
          /\ v \in Dropping(stack) => told[v] = {}
      BY <1>1 DEF IInv, ToldInv
    <3>2. CASE v = w
      <4>1. told'[w] = IF session[w] # None THEN told[w] \ {name[w]} ELSE told[w]
        BY <1>1, <1>2 DEF TypeOK
      <4>2. told'[w] = {}
        BY <3>1, <3>2, <4>1
      <4>3. QED
        BY <3>2, <4>2
    <3>3. CASE v # w
      <4>1. told'[v] = told[v]
        BY <1>1, <1>2, <3>3 DEF TypeOK
      <4>2. QED
        BY <1>2, <3>1, <3>3, <4>1
    <3>4. QED
      BY <3>2, <3>3
  <2>2. QED
    BY <2>1 DEF ToldInv
<1>6. ConfigInv' /\ FollowInv'
  BY <1>2 DEF IInv, ConfigInv, InForce, FollowInv
<1>7. QED
  BY <1>3, <1>4, <1>5, <1>6 DEF IInv

LEMMA DisconnectKeeps ==
    ASSUME IInv, NEW w \in Worlds, Disconnect(w) PROVE IInv'
<1>1. /\ ApplicationRuns /\ DropSession(w, name[w], stack)
      /\ UNCHANGED <<file, config, managed, address, name, myHandle, connector, target, session, conns, reloads, late, renamed>>
  BY DEF Disconnect, perWorld, history
<1>2. QED
  BY <1>1, DropSessionKeeps DEF IInv, TypeOK

LEMMA OnSessionErrorKeeps ==
    ASSUME IInv, NEW w \in Worlds, OnSessionError(w) PROVE IInv'
<1>1. /\ ApplicationRuns /\ DropSession(w, name[w], stack)
      /\ UNCHANGED <<file, config, managed, address, name, myHandle, connector, target, session, conns, reloads, late, renamed>>
  BY DEF OnSessionError, ApplicationRuns, perWorld, history
<1>2. QED
  BY <1>1, DropSessionKeeps DEF IInv, TypeOK

LEMMA OnConnectFailedKeeps ==
    ASSUME IInv, NEW w \in Worlds, OnConnectFailed(w) PROVE IInv'
<1>1. /\ ApplicationRuns /\ DropSession(w, name[w], stack)
      /\ connector' = [connector EXCEPT ![w] = "idle"]
      /\ UNCHANGED <<file, config, managed, address, name, myHandle, target, session, conns, reloads, late, renamed>>
  BY DEF OnConnectFailed, ApplicationRuns, history
<1>2. /\ connector' \in [Worlds -> {"idle", "pending", "thrown"}]
      /\ \A v \in Worlds : connector'[v] = "pending" => connector[v] = "pending"
  BY <1>1 DEF IInv, TypeOK
<1>3. QED
  BY <1>1, <1>2, DropSessionKeeps

(* A manager is made for a world that has none, and so neither a session   *)
(* nor a connect under way.                                                *)
LEMMA ResetAddsKeeps ==
    ASSUME IInv, ResetAdds PROVE IInv'
<1> DEFINE e == Now(Last(stack).next)
<1>1. /\ TypeOK /\ StackInv /\ At("reset") /\ stack' = Turn
      /\ Complete(e) /\ e.world \notin ToSet(managed)
      /\ UNCHANGED <<file, config, myHandle, target, session, conns, reloads, told, late, renamed>>
  BY DEF IInv, ResetAdds, history
<1>2. \/ /\ managed' = Append(managed, e.world)
         /\ address' = [address EXCEPT ![e.world] = e.address]
         /\ name' = [name EXCEPT ![e.world] = e.name]
         /\ connector' = [connector EXCEPT ![e.world] = "idle"]
      \/ UNCHANGED <<managed, address, name, connector>>
  BY DEF ResetAdds, Configure
<1>3. /\ stack' \in Seq(Frame) /\ Lone(stack') /\ Last(stack').call = "reset"
      /\ Dropping(stack') = Dropping(stack)
      /\ Looping(stack) \subseteq Looping(stack') \cup {Last(stack).next}
      /\ Last(stack).next \in Nat \ {0}
  BY <1>1, TurnProperties
<1>4. /\ Last(stack).next \in 1..Len(config) /\ e = config[Last(stack).next]
      /\ e.world \in Worlds /\ e.address \in Addresses /\ e.name \in Names
      /\ \A j \in 1..Len(config) : config[j].world = e.world => j = Last(stack).next
  BY <1>1, <1>3, EntryProperties
<1>5. /\ managed' \in Seq(Worlds)
      /\ ToSet(managed) \subseteq ToSet(managed')
      /\ ToSet(managed') \subseteq ToSet(managed) \cup {e.world}
  <2>1. /\ managed \in Seq(Worlds)
        /\ ToSet(Append(managed, e.world)) = ToSet(managed) \cup {e.world}
        /\ Append(managed, e.world) \in Seq(Worlds)
    BY <1>1, <1>4, ToSetOfAppend, AppendProperties DEF TypeOK
  <2>2. managed' = Append(managed, e.world) \/ managed' = managed
    BY <1>2
  <2>3. QED
    BY <2>1, <2>2
<1>6. session[e.world] = None /\ connector[e.world] # "pending"
  BY <1>1, <1>4 DEF IInv, SessionInv
<1>7. ~At("released")
  BY <1>1 DEF At
<1> HIDE DEF e
<1>8. TypeOK'
  BY <1>1, <1>2, <1>3, <1>4, <1>5 DEF TypeOK
<1>9. StackInv' /\ DeletedOnce'
  BY <1>1, <1>3 DEF IInv, StackInv, DeletedOnce
<1>10. SessionInv'
  BY SMTT(30), <1>1, <1>2, <1>4, <1>5 DEF IInv, SessionInv, TypeOK
<1>11. ToldInv'
  BY SMTT(30), <1>1, <1>2, <1>3, <1>4, <1>6, <1>7 DEF IInv, ToldInv, TypeOK
<1>12. ConfigInv'
  <2>1. ASSUME NEW i \in 1..Len(config) PROVE InForce(i)' \/ i \in Looping(stack')
    <3>1. CASE i = Last(stack).next
      BY <1>1, <1>2, <1>4, <3>1 DEF InForce, TypeOK
    <3>2. CASE i # Last(stack).next /\ i \in Looping(stack)
      BY <1>3, <3>2
    <3>3. CASE i # Last(stack).next /\ InForce(i)
      <4>1. config[i].world # e.world
        BY <1>4, <3>3
      <4>2. config[i].world \in ToSet(managed)' => config[i].world \in ToSet(managed)
        BY <1>5, <4>1
      <4>3. Complete(config[i]) => config[i].world \in Worlds
        <5>1. config[i] \in Entry
          BY <1>1, ConfigProperties, ElementOfSeq DEF TypeOK
        <5>2. QED
          BY <5>1 DEF Complete, Entry
      <4>4. QED
        BY <1>1, <1>2, <3>3, <4>1, <4>2, <4>3 DEF InForce, TypeOK
    <3>4. QED
      BY <3>1, <3>2, <3>3 DEF IInv, ConfigInv
  <2>2. QED
    BY <1>1, <2>1 DEF ConfigInv
<1>13. FollowInv'
  <2>1. ASSUME NEW v \in Worlds, v # e.world
        PROVE  name'[v] = name[v] /\ address'[v] = address[v] /\ connector'[v] = connector[v]
    BY <1>1, <1>2, <1>4, <2>1 DEF TypeOK
  <2>2. connector'[e.world] # "pending"
    BY <1>1, <1>2, <1>4, <1>6 DEF TypeOK
  <2>3. QED
    BY <1>1, <1>3, <1>6, <2>1, <2>2 DEF IInv, FollowInv
<1>14. QED
  BY <1>8, <1>9, <1>10, <1>11, <1>12, <1>13 DEF IInv

(* A manager gets a new address and name, and the session made with the    *)
(* old ones is being dropped from then on.                                 *)
LEMMA ResetUpdatesKeeps ==
    ASSUME IInv, ResetUpdates PROVE IInv'
<1> DEFINE e == Now(Last(stack).next)
<1>1. /\ TypeOK /\ StackInv /\ At("reset")
      /\ Complete(e) /\ e.world \in ToSet(managed)
      /\ address' = [address EXCEPT ![e.world] = e.address]
      /\ name' = [name EXCEPT ![e.world] = e.name]
      /\ DropSession(e.world, e.name, Turn)
      /\ late' = IF connector[e.world] = "pending" THEN late \cup {e.world} ELSE late
      /\ renamed' = IF session[e.world] # None /\ name[e.world] # e.name
                      THEN renamed \cup {e.world} ELSE renamed
      /\ UNCHANGED <<file, config, managed, myHandle, connector, target, session, conns, reloads>>
  BY DEF IInv, ResetUpdates, Configure
<1>2. /\ Turn \in Seq(Frame) /\ Lone(Turn) /\ Last(Turn).call \notin Outermost
      /\ Dropping(Turn) = Dropping(stack)
      /\ Looping(stack) \subseteq Looping(Turn) \cup {Last(stack).next}
      /\ Last(stack).next \in Nat \ {0}
  BY <1>1, TurnProperties DEF Outermost
<1>3. /\ Last(stack).next \in 1..Len(config) /\ e = config[Last(stack).next]
      /\ e.world \in Worlds /\ e.address \in Addresses /\ e.name \in Names
      /\ \A j \in 1..Len(config) : config[j].world = e.world => j = Last(stack).next
  BY <1>1, <1>2, EntryProperties
<1> HIDE DEF e
<1>4. /\ stack' \in Seq(Frame) /\ Lone(stack')
      /\ Dropping(stack') = Dropping(stack) \cup {e.world}
      /\ Looping(stack') = Looping(Turn)
      /\ told' = [told EXCEPT ![e.world] = IF session[e.world] # None THEN @ \ {e.name} ELSE @]
  <2>1. /\ stack' \in Seq(Frame) /\ Lone(stack')
        /\ Dropping(stack') = Dropping(Turn) \cup {e.world}
        /\ Looping(stack') = Looping(Turn)
        /\ told' = [told EXCEPT ![e.world] = IF session[e.world] # None THEN @ \ {e.name} ELSE @]
    <3>1. Turn = <<>> \/ Last(Turn).call \notin Outermost
      BY <1>2
    <3>2. TypeOK /\ DropSession(e.world, e.name, Turn) /\ e.world \in Worlds
      BY <1>1, <1>3
    <3>3. Turn \in Seq(Frame) /\ Lone(Turn)
      BY <1>2
    <3>4. QED
      BY <3>1, <3>2, <3>3, DropSessionProperties, Zenon
  <2>2. QED
    BY <1>2, <2>1
<1>5. ~At("released")
  BY <1>1 DEF At
<1>6. \A v \in Worlds : v # e.world =>
          /\ name'[v] = name[v] /\ address'[v] = address[v] /\ told'[v] = told[v]
          /\ v \in late' <=> v \in late
          /\ v \in renamed' <=> v \in renamed
  BY <1>1, <1>3, <1>4 DEF TypeOK
<1>7. TypeOK'
  BY <1>1, <1>3, <1>4 DEF TypeOK
<1>8. StackInv' /\ SessionInv' /\ DeletedOnce'
  BY <1>1, <1>4 DEF IInv, StackInv, SessionInv, DeletedOnce
<1>9. ToldInv'
  <2>1. ASSUME NEW v \in Worlds \ renamed'
        PROVE  /\ told'[v] # {} =>
                     told'[v] = {name'[v]} /\ session[v] # None /\ myHandle[v] = session[v]
               /\ v \in Dropping(stack') => told'[v] = {}
    <3>1. v \notin renamed
      BY <1>1
    <3>2. /\ told[v] # {} =>
                told[v] = {name[v]} /\ session[v] # None /\ myHandle[v] = session[v]
          /\ v \in Dropping(stack) => told[v] = {}
      BY <1>5, <3>1 DEF IInv, ToldInv
    <3>3. CASE v # e.world
      BY <1>4, <1>6, <3>2, <3>3
    <3>4. CASE v = e.world
      <4>1. told'[v] = IF session[v] # None THEN told[v] \ {e.name} ELSE told[v]
        BY <1>1, <1>3, <1>4, <3>4 DEF TypeOK
      <4>2. session[v] # None => name[v] = e.name
        BY <1>1, <3>4
      <4>3. told'[v] = {}
        BY <3>2, <4>1, <4>2
      <4>4. QED
        BY <4>3
    <3>5. QED
      BY <3>3, <3>4
  <2>2. QED
    BY <1>1, <2>1 DEF ToldInv
<1>10. ConfigInv'
  <2>1. ASSUME NEW i \in 1..Len(config) PROVE InForce(i)' \/ i \in Looping(stack')
    <3>1. CASE i = Last(stack).next
      BY <1>1, <1>3, <3>1 DEF InForce, TypeOK
    <3>2. CASE i # Last(stack).next /\ i \in Looping(stack)
      BY <1>2, <1>4, <3>2
    <3>3. CASE i # Last(stack).next /\ InForce(i)
      <4>1. config[i].world # e.world
        BY <1>3, <3>3
      <4>2. config[i] \in Entry
        BY <1>1, ConfigProperties, ElementOfSeq DEF TypeOK
      <4>3. Complete(config[i]) => config[i].world \in Worlds
        BY <4>2 DEF Complete, Entry
      <4>4. QED
        BY <1>1, <1>6, <3>3, <4>1, <4>3 DEF InForce
    <3>4. QED
      BY <3>1, <3>2, <3>3 DEF IInv, ConfigInv
  <2>2. QED
    BY <1>1, <2>1 DEF ConfigInv
<1>11. FollowInv'
  <2>1. ASSUME NEW v \in Worlds, session[v] # None
        PROVE  \/ v \in Dropping(stack')
               \/ /\ conns[session[v]].name = name'[v]
                  /\ conns[session[v]].to = address'[v] \/ conns[session[v]].late
    BY <1>4, <1>6, <2>1 DEF IInv, FollowInv
  <2>2. ASSUME NEW v \in Worlds, connector[v] = "pending"
        PROVE  target[v] = address'[v] \/ v \in late'
    BY <1>1, <1>6, <2>2 DEF IInv, FollowInv
  <2>3. QED
    BY <1>1, <2>1, <2>2 DEF FollowInv
<1>12. QED
  BY <1>7, <1>8, <1>9, <1>10, <1>11 DEF IInv

(* The pointer is read again: what a call from the callback has dropped is *)
(* not deleted a second time.                                              *)
LEMMA DropKeeps ==
    ASSUME IInv, Drop PROVE IInv'
<1> DEFINE w == Last(stack).world
<1>1. /\ TypeOK /\ StackInv /\ stack # <<>> /\ Last(stack).call = "drop" /\ Return
      /\ IF session[w] # None THEN Delete(session[w]) ELSE UNCHANGED conns
      /\ session' = [session EXCEPT ![w] = None]
      /\ myHandle' = [myHandle EXCEPT ![w] = None]
      /\ UNCHANGED <<file, config, managed, address, name, connector, target, reloads, told, late, renamed>>
  BY DEF IInv, Drop, At, history
<1>2. /\ stack' \in Seq(Frame) /\ Lone(stack')
      /\ Dropping(stack) = Dropping(stack') \cup DropOf(Last(stack))
      /\ Looping(stack) = Looping(stack') \cup LoopOf(Last(stack))
      /\ Last(stack) \in Frame
  BY <1>1, ReturnProperties
<1>3. w \in Worlds /\ DropOf(Last(stack)) = {w} /\ LoopOf(Last(stack)) = {}
  BY <1>1, <1>2 DEF Frame, DropOf, LoopOf
<1> HIDE DEF w
<1>4. Looping(stack') = Looping(stack) /\ Dropping(stack) = Dropping(stack') \cup {w}
  BY <1>2, <1>3
<1>5. ~At("released")
  BY <1>1 DEF At
<1>6. session'[w] = None /\ \A v \in Worlds : v # w => session'[v] = session[v] /\ myHandle'[v] = myHandle[v]
  BY <1>1, <1>3 DEF TypeOK
<1>7. session' \in [Worlds -> Nat] /\ myHandle' \in [Worlds -> Nat]
  BY <1>1, <1>3 DEF TypeOK, None
<1>8. /\ conns' \in Seq(Conn) /\ Len(conns') = Len(conns)
      /\ \A c \in 1..Len(conns) :
            /\ conns'[c].name = conns[c].name /\ conns'[c].to = conns[c].to
            /\ conns'[c].late = conns[c].late
            /\ conns'[c].deleted = IF c = session[w] THEN conns[c].deleted + 1 ELSE conns[c].deleted
  <2>1. conns \in Seq(Conn) /\ Len(conns) \in Nat /\ DOMAIN conns = 1..Len(conns)
    BY <1>1, LenProperties DEF TypeOK
  <2>2. CASE session[w] = None
    BY <1>1, <2>1, <2>2 DEF None
  <2>3. CASE session[w] # None
    <3>1. session[w] \in 1..Len(conns)
      BY <1>1, <1>3, <2>3 DEF IInv, TypeOK, SessionInv, None
    <3>2. DEFINE c0 == session[w]
                 new == [conns[c0] EXCEPT !.deleted = @ + 1]
    <3>3. conns[c0] \in Conn
      BY <2>1, <3>1, ElementOfSeq
    <3>4. /\ new \in Conn /\ new.deleted = conns[c0].deleted + 1
          /\ new.name = conns[c0].name /\ new.to = conns[c0].to /\ new.late = conns[c0].late
      BY <3>3 DEF Conn
    <3>5. conns' = [conns EXCEPT ![c0] = new]
      BY <1>1, <2>3 DEF Delete
    <3>6. HIDE DEF new, c0
    <3>7. c0 \in 1..Len(conns)
      BY <3>1 DEF c0
    <3>8. /\ conns' \in Seq(Conn) /\ Len(conns') = Len(conns)
          /\ \A c \in 1..Len(conns) : conns'[c] = IF c = c0 THEN new ELSE conns[c]
      BY <2>1, <3>4, <3>5, <3>7, ExceptSeq
    <3>9. QED
      BY <3>4, <3>8 DEF c0
  <2>4. QED
    BY <2>2, <2>3
<1>9. TypeOK'
  BY <1>1, <1>2, <1>7, <1>8 DEF TypeOK
<1>10. StackInv'
  BY <1>2 DEF StackInv
<1>11. SessionInv'
  BY <1>1, <1>6, <1>8 DEF IInv, SessionInv, None, TypeOK
<1>12. DeletedOnce'
  <2>1. DOMAIN conns' = 1..Len(conns) /\ DOMAIN conns = 1..Len(conns)
    BY <1>1, <1>8, LenProperties DEF TypeOK
  <2>2. ASSUME NEW c \in 1..Len(conns)
        PROVE  conns'[c].deleted = IF \E v \in Worlds : session'[v] = c THEN 0 ELSE 1
    <3>1. conns[c].deleted = IF \E v \in Worlds : session[v] = c THEN 0 ELSE 1
      BY <2>1 DEF IInv, DeletedOnce
    <3>2. CASE c = session[w]
      <4>1. ~ \E v \in Worlds : session'[v] = c
        BY <1>3, <1>6, <3>2 DEF IInv, SessionInv, None
      <4>2. QED
        BY <1>3, <1>8, <3>1, <3>2, <4>1
    <3>3. CASE c # session[w]
      <4>1. (\E v \in Worlds : session'[v] = c) <=> (\E v \in Worlds : session[v] = c)
        BY <1>6, <3>3 DEF None
      <4>2. QED
        BY <1>8, <3>1, <3>3, <4>1
    <3>4. QED
      BY <3>2, <3>3
  <2>3. QED
    BY <2>1, <2>2 DEF DeletedOnce
<1>13. ToldInv'
  <2>1. ASSUME NEW v \in Worlds \ renamed
        PROVE  /\ told[v] # {} =>
                     told[v] = {name[v]} /\ session'[v] # None /\ myHandle'[v] = session'[v]
               /\ v \in Dropping(stack') => told[v] = {}
    <3>1. /\ told[v] # {} =>
                told[v] = {name[v]} /\ session[v] # None /\ myHandle[v] = session[v]
          /\ v \in Dropping(stack) => told[v] = {}
      BY <1>5 DEF IInv, ToldInv
    <3>2. CASE v = w
      BY <1>4, <3>1, <3>2
    <3>3. CASE v # w
      BY <1>4, <1>6, <3>1, <3>3
    <3>4. QED
      BY <3>2, <3>3
  <2>2. QED
    BY <1>1, <2>1 DEF ToldInv
<1>14. ConfigInv'
  BY <1>1, <1>4 DEF IInv, ConfigInv, InForce
<1>15. FollowInv'
  <2>1. ASSUME NEW v \in Worlds, session'[v] # None
        PROVE  \/ v \in Dropping(stack')
               \/ /\ conns'[session'[v]].name = name[v]
                  /\ conns'[session'[v]].to = address[v] \/ conns'[session'[v]].late
    <3>1. v # w /\ session'[v] = session[v]
      BY <1>6, <2>1
    <3>2. session[v] \in 1..Len(conns)
      BY <1>1, <2>1, <3>1 DEF IInv, TypeOK, SessionInv, None
    <3>3. \/ v \in Dropping(stack)
          \/ /\ conns[session[v]].name = name[v]
             /\ conns[session[v]].to = address[v] \/ conns[session[v]].late
      BY <2>1, <3>1 DEF IInv, FollowInv
    <3>4. QED
      BY <1>4, <1>8, <3>1, <3>2, <3>3
  <2>2. QED
    BY <1>1, <2>1 DEF IInv, FollowInv
<1>16. QED
  BY <1>9, <1>10, <1>11, <1>12, <1>13, <1>14, <1>15 DEF IInv

LEMMA KeepConnectionKeeps ==
    ASSUME IInv, NEW w \in Worlds, KeepConnection(w) PROVE IInv'
<1>1. /\ TypeOK /\ stack = <<>> /\ w \in ToSet(managed) /\ session[w] = None
      /\ target' = [target EXCEPT ![w] = address[w]]
      /\ late' = late \ {w}
      /\ UNCHANGED <<file, config, managed, address, name, myHandle, session, conns, stack, reloads, told, renamed>>
  BY DEF IInv, KeepConnection
<1>2. PICK outcome \in {"pending", "thrown"} : connector' = [connector EXCEPT ![w] = outcome]
  BY DEF KeepConnection
<1>3. TypeOK'
  BY <1>1, <1>2 DEF TypeOK
<1>4. StackInv' /\ SessionInv' /\ DeletedOnce'
  BY <1>1, <1>2 DEF IInv, TypeOK, StackInv, SessionInv, DeletedOnce
<1>5. ToldInv' /\ ConfigInv'
  BY <1>1 DEF IInv, ToldInv, At, ConfigInv, InForce
<1>6. FollowInv'
  <2>1. ASSUME NEW v \in Worlds, connector'[v] = "pending"
        PROVE  target'[v] = address[v] \/ v \in late'
    <3>1. CASE v = w
      BY <1>1, <3>1 DEF TypeOK
    <3>2. CASE v # w
      BY <1>1, <1>2, <2>1, <3>2 DEF IInv, TypeOK, FollowInv
    <3>3. QED
      BY <3>1, <3>2
  <2>2. QED
    BY <1>1, <2>1 DEF IInv, FollowInv
<1>7. QED
  BY <1>3, <1>4, <1>5, <1>6 DEF IInv

(* The new connection is made under the name the manager has, to the       *)
(* address it had when it began to connect.                                *)
LEMMA OnConnectedKeeps ==
    ASSUME IInv, NEW w \in Worlds, OnConnected(w) PROVE IInv'
<1> DEFINE new == [to |-> target[w], name |-> name[w], late |-> w \in late,
                   heard |-> FALSE, deleted |-> 0]
<1>1. /\ TypeOK /\ stack = <<>> /\ connector[w] = "pending"
      /\ conns' = Append(conns, new)
      /\ session' = [session EXCEPT ![w] = Len(conns) + 1]
      /\ myHandle' = [myHandle EXCEPT ![w] = None]
      /\ connector' = [connector EXCEPT ![w] = "idle"]
      /\ UNCHANGED <<file, config, managed, address, name, target, stack, reloads, told, late, renamed>>
  BY DEF IInv, OnConnected, history
<1>2. /\ new \in Conn /\ new.name = name[w] /\ new.to = target[w] /\ new.deleted = 0
      /\ new.late <=> w \in late
  <2>1. /\ target[w] \in Addresses \cup {Missing} /\ name[w] \in Names \cup {Missing}
        /\ (w \in late) \in BOOLEAN
    BY <1>1 DEF TypeOK
  <2>2. QED
    BY <2>1 DEF Conn
<1> HIDE DEF new
<1>3. /\ conns \in Seq(Conn) /\ Len(conns) \in Nat /\ DOMAIN conns = 1..Len(conns)
      /\ conns' \in Seq(Conn) /\ Len(conns') = Len(conns) + 1
      /\ DOMAIN conns' = 1..(Len(conns) + 1)
      /\ conns'[Len(conns) + 1] = new
      /\ \A c \in 1..Len(conns) : conns'[c] = conns[c]
  BY <1>1, <1>2, AppendProperties, LenProperties DEF TypeOK
<1>4. session[w] = None /\ w \in ToSet(managed) /\ \A v \in Worlds : session[v] <= Len(conns)
  BY <1>1 DEF IInv, SessionInv
<1>5. /\ session'[w] = Len(conns) + 1
      /\ \A v \in Worlds : v # w =>
            session'[v] = session[v] /\ myHandle'[v] = myHandle[v] /\ connector'[v] = connector[v]
      /\ connector'[w] = "idle"
      /\ \A v \in Worlds : session[v] \in Nat
  BY <1>1 DEF TypeOK
<1>6. TypeOK'
  BY <1>1, <1>3 DEF TypeOK, None
<1>7. StackInv'
  BY <1>1 DEF IInv, StackInv
<1>8. SessionInv'
  BY <1>1, <1>3, <1>4, <1>5 DEF IInv, SessionInv, None
<1>9. DeletedOnce'
  <2>1. ASSUME NEW c \in 1..(Len(conns) + 1)
        PROVE  conns'[c].deleted = IF \E v \in Worlds : session'[v] = c THEN 0 ELSE 1
    <3>1. CASE c = Len(conns) + 1
      BY <1>2, <1>3, <1>5, <3>1
    <3>2. CASE c \in 1..Len(conns)
      <4>1. (\E v \in Worlds : session'[v] = c) <=> (\E v \in Worlds : session[v] = c)
        BY <1>3, <1>4, <1>5, <3>2 DEF None
      <4>2. conns[c].deleted = IF \E v \in Worlds : session[v] = c THEN 0 ELSE 1
        BY <1>3, <3>2 DEF IInv, DeletedOnce
      <4>3. QED
        BY <1>3, <3>2, <4>1, <4>2
    <3>3. QED
      BY <1>3, <3>1, <3>2
  <2>2. QED
    BY <1>3, <2>1 DEF DeletedOnce
<1>10. ToldInv'
  <2>1. ~At("released")
    BY <1>1 DEF At
  <2>2. ASSUME NEW v \in Worlds \ renamed
        PROVE  /\ told[v] # {} =>
                     told[v] = {name[v]} /\ session'[v] # None /\ myHandle'[v] = session'[v]
               /\ v \in Dropping(stack) => told[v] = {}
    <3>1. /\ told[v] # {} =>
                told[v] = {name[v]} /\ session[v] # None /\ myHandle[v] = session[v]
          /\ v \in Dropping(stack) => told[v] = {}
      BY <2>1 DEF IInv, ToldInv
    <3>2. v = w => told[v] = {}
      BY <1>4, <3>1
    <3>3. QED
      BY <1>5, <3>1, <3>2
  <2>3. QED
    BY <1>1, <2>2 DEF ToldInv
<1>11. ConfigInv'
  BY <1>1 DEF IInv, ConfigInv, InForce
<1>12. FollowInv'
  <2>1. ASSUME NEW v \in Worlds, session'[v] # None
        PROVE  \/ v \in Dropping(stack)
               \/ /\ conns'[session'[v]].name = name[v]
                  /\ conns'[session'[v]].to = address[v] \/ conns'[session'[v]].late
    <3>1. CASE v = w
      <4>1. target[w] = address[w] \/ w \in late
        BY <1>1 DEF IInv, FollowInv
      <4>2. conns'[session'[v]] = new
        BY <1>3, <1>5, <3>1
      <4>3. QED
        BY <1>2, <3>1, <4>1, <4>2
    <3>2. CASE v # w
      <4>1. session'[v] = session[v] /\ session[v] \in 1..Len(conns)
        BY <1>3, <1>4, <1>5, <2>1, <3>2 DEF None
      <4>2. conns'[session'[v]] = conns[session[v]]
        BY <1>3, <4>1
      <4>3. QED
        BY <2>1, <4>1, <4>2 DEF IInv, FollowInv
    <3>3. QED
      BY <3>1, <3>2
  <2>2. ASSUME NEW v \in Worlds, connector'[v] = "pending"
        PROVE  target[v] = address[v] \/ v \in late
    BY <1>5, <2>2 DEF IInv, FollowInv
  <2>3. QED
    BY <1>1, <2>1, <2>2 DEF FollowInv
<1>13. QED
  BY <1>6, <1>7, <1>8, <1>9, <1>10, <1>11, <1>12 DEF IInv

(* The application is told of the name that the manager has now.           *)
LEMMA HandleMyHandleKeeps ==
    ASSUME IInv, NEW w \in Worlds, HandleMyHandle(w) PROVE IInv'
<1> DEFINE f == [call |-> "application"]
           c0 == session[w]
           new == [conns[c0] EXCEPT !.heard = TRUE]
<1>1. /\ TypeOK /\ stack = <<>> /\ session[w] # None
      /\ conns' = [conns EXCEPT ![c0] = new]
      /\ myHandle' = [myHandle EXCEPT ![w] = c0]
      /\ stack' = <<f>>
      /\ told' = [told EXCEPT ![w] = @ \cup {name[w]}]
      /\ UNCHANGED <<file, config, managed, address, name, connector, target, session, reloads, late, renamed>>
  BY DEF IInv, HandleMyHandle, history
<1>2. /\ conns \in Seq(Conn) /\ Len(conns) \in Nat /\ DOMAIN conns = 1..Len(conns)
      /\ c0 \in 1..Len(conns)
  BY <1>1, LenProperties DEF IInv, TypeOK, SessionInv, None
<1>3. conns[c0] \in Conn
  BY <1>2, ElementOfSeq
<1>4. /\ new \in Conn /\ new.deleted = conns[c0].deleted /\ new.name = conns[c0].name
      /\ new.to = conns[c0].to /\ new.late = conns[c0].late
  BY <1>3 DEF Conn
<1>5. /\ f \in Frame /\ f.call = "application" /\ f.call \notin Outermost
      /\ DropOf(f) = {} /\ LoopOf(f) = {}
  BY DEF Frame, Outermost, DropOf, LoopOf
<1> HIDE DEF f, c0, new
<1>6. /\ conns' \in Seq(Conn) /\ Len(conns') = Len(conns) /\ DOMAIN conns' = 1..Len(conns)
      /\ \A c \in 1..Len(conns) :
            /\ conns'[c].name = conns[c].name /\ conns'[c].to = conns[c].to
            /\ conns'[c].late = conns[c].late /\ conns'[c].deleted = conns[c].deleted
  <2>1. /\ conns' \in Seq(Conn) /\ Len(conns') = Len(conns)
        /\ \A c \in 1..Len(conns) : conns'[c] = IF c = c0 THEN new ELSE conns[c]
    BY <1>1, <1>2, <1>4, ExceptSeq
  <2>2. QED
    BY <1>2, <1>4, <2>1, LenProperties
<1>7. /\ stack' \in Seq(Frame) /\ Lone(stack') /\ Dropping(stack') = {} /\ Looping(stack') = {}
      /\ Last(stack') = f
  <2>1. stack' = Push(<<>>, f)
    BY <1>1 DEF Push
  <2>2. /\ Push(<<>>, f) \in Seq(Frame) /\ Lone(Push(<<>>, f)) /\ Last(Push(<<>>, f)) = f
        /\ Dropping(Push(<<>>, f)) = Dropping(<<>>) \cup DropOf(f)
        /\ Looping(Push(<<>>, f)) = Looping(<<>>) \cup LoopOf(f)
    BY <1>5, EmptyStack, PushProperties
  <2>3. QED
    BY <1>5, <2>1, <2>2, EmptyStack
<1>8. Dropping(stack) = {} /\ Looping(stack) = {}
  BY <1>1, EmptyStack
<1>9. TypeOK'
  BY <1>1, <1>2, <1>6, <1>7 DEF TypeOK
<1>10. StackInv' /\ SessionInv'
  BY <1>1, <1>6, <1>7 DEF IInv, StackInv, SessionInv
<1>11. DeletedOnce'
  BY <1>1, <1>2, <1>6 DEF IInv, DeletedOnce
<1>12. ToldInv'
  <2>1. ~At("released")
    BY <1>1 DEF At
  <2>2. ASSUME NEW v \in Worlds \ renamed
        PROVE  told'[v] # {} =>
                   told'[v] = {name[v]} /\ session[v] # None /\ myHandle'[v] = session[v]
    <3>1. told[v] # {} => told[v] = {name[v]} /\ session[v] # None /\ myHandle[v] = session[v]
      BY <2>1 DEF IInv, ToldInv
    <3>2. CASE v = w
      <4>1. told'[v] = told[v] \cup {name[v]} /\ myHandle'[v] = session[v]
        BY <1>1, <3>2 DEF TypeOK, c0
      <4>2. QED
        BY <1>1, <3>1, <3>2, <4>1
    <3>3. CASE v # w
      <4>1. told'[v] = told[v] /\ myHandle'[v] = myHandle[v]
        BY <1>1, <3>3 DEF TypeOK
      <4>2. QED
        BY <3>1, <4>1
    <3>4. QED
      BY <3>2, <3>3
  <2>3. QED
    BY <1>1, <1>7, <2>2 DEF ToldInv
<1>13. ConfigInv'
  BY <1>1, <1>7, <1>8 DEF IInv, ConfigInv, InForce
<1>14. FollowInv'
  <2>1. ASSUME NEW v \in Worlds, session[v] # None
        PROVE  /\ conns'[session[v]].name = name[v]
               /\ conns'[session[v]].to = address[v] \/ conns'[session[v]].late
    <3>1. session[v] \in 1..Len(conns)
      BY <1>1, <2>1 DEF IInv, TypeOK, SessionInv, None
    <3>2. QED
      BY <1>6, <1>8, <2>1, <3>1 DEF IInv, FollowInv
  <2>2. QED
    BY <1>1, <2>1 DEF IInv, FollowInv
<1>15. QED
  BY <1>9, <1>10, <1>11, <1>12, <1>13, <1>14 DEF IInv

(* Release leaves no session; what the application was told of is moot     *)
(* until it calls Init again.                                              *)
LEMMA ReleaseKeeps ==
    ASSUME IInv, Release PROVE IInv'
<1> DEFINE f == [call |-> "released"]
<1>1. /\ TypeOK /\ stack = <<>>
      /\ conns' = [c \in DOMAIN conns |->
                      IF \E w \in Worlds : session[w] = c
                        THEN [conns[c] EXCEPT !.deleted = @ + 1] ELSE conns[c]]
      /\ managed' = <<>>
      /\ session' = [w \in Worlds |-> None]
      /\ myHandle' = [w \in Worlds |-> None]
      /\ connector' = [w \in Worlds |-> "idle"]
      /\ stack' = <<f>>
      /\ UNCHANGED <<file, config, address, name, target, reloads, told, late, renamed>>
  BY DEF IInv, Release, history
<1>2. conns \in Seq(Conn) /\ Len(conns) \in Nat /\ DOMAIN conns = 1..Len(conns)
  BY <1>1, LenProperties DEF TypeOK
<1>3. ASSUME NEW c \in 1..Len(conns)
      PROVE  /\ conns'[c] \in Conn
             /\ conns'[c].deleted = 1
  <2>1. conns[c] \in Conn
    BY <1>2, ElementOfSeq
  <2>2. conns[c].deleted = IF \E w \in Worlds : session[w] = c THEN 0 ELSE 1
    BY <1>2 DEF IInv, DeletedOnce
  <2>3. CASE \E w \in Worlds : session[w] = c
    <3>1. conns'[c] = [conns[c] EXCEPT !.deleted = @ + 1]
      BY <1>1, <1>2, <2>3
    <3>2. QED
      BY <2>1, <2>2, <2>3, <3>1 DEF Conn
  <2>4. CASE ~ \E w \in Worlds : session[w] = c
    <3>1. conns'[c] = conns[c]
      BY <1>1, <1>2, <2>4
    <3>2. QED
      BY <2>1, <2>2, <2>4, <3>1
  <2>5. QED
    BY <2>3, <2>4
<1>4. DOMAIN conns' = 1..Len(conns) /\ conns' \in Seq(Conn)
  <2>1. conns' = [c \in 1..Len(conns) |-> conns'[c]]
    BY <1>1, <1>2
  <2>2. conns' \in [1..Len(conns) -> Conn]
    BY <1>3, <2>1
  <2>3. QED
    BY <1>2, <2>2, SeqDef
<1>5. f \in Frame /\ f.call = "released"
  BY DEF Frame
<1> HIDE DEF f
<1>6. /\ stack' \in Seq(Frame) /\ Len(stack') = 1 /\ stack'[1] = f /\ stack' # <<>>
      /\ Last(stack') = f
  BY <1>1, <1>5 DEF Last
<1>7. Looping(stack) = {}
  BY <1>1, EmptyStack
<1>8. TypeOK'
  BY <1>1, <1>4, <1>6 DEF TypeOK, None
<1>9. StackInv'
  BY <1>6 DEF StackInv, Lone
<1>10. SessionInv'
  <2>1. Len(conns') \in Nat
    BY <1>4, LenProperties
  <2>2. QED
    BY <1>1, <2>1 DEF SessionInv, None
<1>11. DeletedOnce'
  <2>1. ASSUME NEW c \in 1..Len(conns)
        PROVE  conns'[c].deleted = IF \E v \in Worlds : session'[v] = c THEN 0 ELSE 1
    <3>1. conns'[c].deleted = 1
      BY <1>3
    <3>2. ~ \E v \in Worlds : session'[v] = c
      BY <1>1, <1>2 DEF None
    <3>3. QED
      BY <3>1, <3>2
  <2>2. QED
    BY <1>4, <2>1 DEF DeletedOnce
<1>12. ToldInv'
  BY <1>5, <1>6 DEF ToldInv, At
<1>13. ConfigInv'
  <2>1. ToSet(managed') = {}
    BY <1>1 DEF ToSet
  <2>2. QED
    BY <1>1, <2>1 DEF ConfigInv, InForce
<1>14. FollowInv'
  BY <1>1 DEF FollowInv, None
<1>15. QED
  BY <1>8, <1>9, <1>10, <1>11, <1>12, <1>13, <1>14 DEF IInv

LEMMA InitAgainKeeps ==
    ASSUME IInv, InitAgain PROVE IInv'
<1> DEFINE f == [call |-> "reset", next |-> 1, num |-> Len(config)]
<1>1. /\ TypeOK /\ StackInv /\ At("released")
      /\ stack' = <<f>>
      /\ told' = [w \in Worlds |-> {}]
      /\ reloads' = reloads + 1
      /\ UNCHANGED <<file, config, managed, address, name, myHandle, connector, target, session, conns, late, renamed>>
  BY DEF IInv, InitAgain, perWorld, history
<1>2. Len(config) \in Nat
  BY <1>1, ConfigProperties DEF TypeOK
<1>3. /\ f \in Frame /\ f.call = "reset" /\ f.call \notin Outermost
      /\ DropOf(f) = {} /\ LoopOf(f) = 1..Len(config)
  BY <1>2 DEF Frame, Outermost, DropOf, LoopOf
<1> HIDE DEF f
<1>4. /\ stack' \in Seq(Frame) /\ Lone(stack') /\ Last(stack') = f
      /\ Dropping(stack') = {} /\ Looping(stack') = 1..Len(config)
  <2>1. stack' = Push(<<>>, f)
    BY <1>1 DEF Push
  <2>2. /\ Push(<<>>, f) \in Seq(Frame) /\ Lone(Push(<<>>, f)) /\ Last(Push(<<>>, f)) = f
        /\ Dropping(Push(<<>>, f)) = Dropping(<<>>) \cup DropOf(f)
        /\ Looping(Push(<<>>, f)) = Looping(<<>>) \cup LoopOf(f)
    BY <1>3, EmptyStack, PushProperties
  <2>3. QED
    BY <1>3, <2>1, <2>2, EmptyStack
<1>5. Dropping(stack) = {}
  <2>1. Len(stack) = 1 /\ stack[1].call = "released"
    <3>1. stack # <<>> /\ Last(stack) = stack[Len(stack)] /\ Len(stack) \in Nat \ {0}
      BY <1>1, FrontProperties DEF TypeOK, At
    <3>2. stack[Len(stack)].call = "released"
      BY <1>1, <3>1 DEF At
    <3>3. QED
      BY <1>1, <3>1, <3>2 DEF StackInv, Lone, Outermost
  <2>2. QED
    BY <2>1 DEF Dropping, DropOf
<1>6. TypeOK'
  BY <1>1, <1>4 DEF TypeOK
<1>7. StackInv' /\ SessionInv' /\ DeletedOnce'
  BY <1>1, <1>4 DEF IInv, StackInv, SessionInv, DeletedOnce
<1>8. ToldInv'
  BY <1>1, <1>4 DEF ToldInv
<1>9. ConfigInv'
  BY <1>1, <1>4 DEF ConfigInv
<1>10. FollowInv'
  BY <1>1, <1>4, <1>5 DEF IInv, FollowInv
<1>11. QED
  BY <1>6, <1>7, <1>8, <1>9, <1>10 DEF IInv

LEMMA StepKeeps == IInv /\ [Next]_vars => IInv'
<1> SUFFICES ASSUME IInv, [Next]_vars PROVE IInv'
  OBVIOUS
<1>1. CASE Library
  BY <1>1, StartKeeps, ResetSkipsKeeps, ResetAddsKeeps, ResetUpdatesKeeps, ResetEndsKeeps,
     DropKeeps, CallbackReturnsKeeps DEF Library
<1>2. CASE Edit
  BY <1>2, EditKeeps
<1>3. CASE ReloadConfigScript
  BY <1>3, ReloadConfigScriptKeeps
<1>4. CASE Release
  BY <1>4, ReleaseKeeps
<1>5. CASE InitAgain
  BY <1>5, InitAgainKeeps
<1>6. ASSUME NEW w \in Worlds,
             \/ Disconnect(w) \/ KeepConnection(w) \/ OnConnected(w)
             \/ OnConnectFailed(w) \/ OnSessionError(w) \/ HandleMyHandle(w)
      PROVE  IInv'
  BY <1>6, DisconnectKeeps, KeepConnectionKeeps, OnConnectedKeeps, OnConnectFailedKeeps,
     OnSessionErrorKeeps, HandleMyHandleKeeps
<1>7. CASE UNCHANGED vars
  <2>1. UNCHANGED <<file, config, managed, address, name, myHandle, connector, target,
                    session, conns, stack, reloads, told, late, renamed>>
    BY <1>7 DEF vars
  <2>2. TypeOK' /\ StackInv' /\ SessionInv' /\ DeletedOnce'
    BY <2>1 DEF IInv, TypeOK, StackInv, SessionInv, DeletedOnce
  <2>3. ToldInv' /\ ConfigInv' /\ FollowInv'
    BY <2>1 DEF IInv, ToldInv, At, ConfigInv, InForce, FollowInv
  <2>4. QED
    BY <2>2, <2>3 DEF IInv
<1>8. QED
  BY <1>1, <1>2, <1>3, <1>4, <1>5, <1>6, <1>7 DEF Next

-----------------------------------------------------------------------------
(* The theorems. *)

LEMMA Invariance == Spec => []IInv
BY InitHolds, StepKeeps, PTL DEF Spec

(* Every variable of the library keeps its type: the calls under way are   *)
(* those of main.cpp and SessionManager.cpp, whatever the depth to which   *)
(* the application calls the library again from its callbacks.             *)
THEOREM TypeCorrect == Spec => []TypeOK
BY Invariance, PTL DEF IInv

(* SetSession(NULL), entered again from the callback it makes, deletes     *)
(* every session once and a session in use never.                          *)
THEOREM EverySessionDeletedOnce == Spec => []DeletedOnce
BY Invariance, PTL DEF IInv

(* When ResetSessionManagers and the reloads made in its middle have       *)
(* returned, the managers follow the configuration and the sessions follow *)
(* the managers, but for an address that changed while a connect was under *)
(* way.                                                                    *)
THEOREM ConfigReachesSessions == Spec => []SessionFollowsConfig
<1>1. IInv => SessionFollowsConfig
  <2>1. SUFFICES ASSUME IInv, stack = <<>>
                 PROVE  ManagersFollowConfig /\ SessionsFollowManagers
    BY DEF SessionFollowsConfig
  <2>2. Dropping(stack) = {} /\ Looping(stack) = {}
    BY <2>1, EmptyStack
  <2>3. DOMAIN config = 1..Len(config)
    BY <2>1, ConfigProperties DEF IInv, TypeOK
  <2>4. ManagersFollowConfig
    BY <2>1, <2>2, <2>3 DEF IInv, ConfigInv, InForce, ManagersFollowConfig
  <2>5. SessionsFollowManagers
    BY <2>1, <2>2 DEF IInv, FollowInv, SessionsFollowManagers
  <2>6. QED
    BY <2>4, <2>5
<1>2. QED
  BY <1>1, Invariance, PTL

(* The application is told the end of every name it was told of, unless a  *)
(* reload renamed the world in between.                                    *)
THEOREM EndsTold == Spec => []EndsAreTold
<1>1. IInv => EndsAreTold
  <2>1. SUFFICES ASSUME IInv, stack = <<>>
                 PROVE  \A w \in Worlds \ renamed : told[w] # {} =>
                            told[w] = {name[w]} /\ session[w] # None /\ myHandle[w] = session[w]
    BY DEF EndsAreTold
  <2>2. ~At("released")
    BY <2>1 DEF At
  <2>3. QED
    BY <2>1, <2>2 DEF IInv, ToldInv
<1>2. QED
  BY <1>1, Invariance, PTL
=============================================================================
