----------------------------- MODULE NodeAddon ------------------------------
(***************************************************************************)
(* The node addon (node_center_client/main.cc): a network thread ticks the *)
(* client library and puts what it receives into a kfifo; the JavaScript   *)
(* thread takes it out in core_process_message, and starts and quits the   *)
(* network thread.                                                         *)
(*                                                                         *)
(* A message is its number in the order of PushCoreMessage; its payload is *)
(* as many bytes as pushed[m].  Each access to a variable that the other   *)
(* thread writes is a step of its own.  The application calls core_start   *)
(* only when no network thread is running, and core_process_message never  *)
(* from the callback that it is given.                                     *)
(***************************************************************************)
EXTENDS KFifo

CONSTANTS
    HeadSize,       \* sizeof(CoreMessageHead)
    MaxPacketSize,  \* c_MaxPacketSize
    PerTick,        \* c_MessageCountPerTick
    Lengths,        \* the lengths of the payloads that are received
    MaxPushes,      \* bound: messages that are received
    MaxStarts,      \* bound: calls of core_start
    MaxThrows       \* bound: callbacks that throw

ASSUME AddonAssumption ==
    /\ HeadSize \in Nat \ {0}
    /\ MaxPacketSize \in Nat
    /\ PerTick \in Nat \ {0}
    /\ Lengths \subseteq {n \in Nat : HeadSize + n <= Size}
    /\ MaxPushes \in Nat
    /\ MaxStarts \in Nat
    /\ MaxThrows \in Nat

VARIABLES
    g_IsRun,
    g_ThreadHandle, \* whether it is not NULL
    library,        \* the client library: "none", "live", "released"
    net,            \* where the network thread is
    js,             \* where the JavaScript thread is
    ct,             \* messages taken in this call of core_process_message
    pushed,         \* the lengths of the payloads received so far
    message,        \* what the JavaScript function is being called with
    accepted,       \* history: messages that are completely in the fifo
    settled,        \* history: messages handed over or discarded
    handed,         \* history: what the calls that returned were given
    starts,         \* counts core_start
    throws          \* counts callbacks that threw

NoMessage == [head |-> 0, payload |-> <<>>]

fifoVars == <<in_, out_, elements_>>
controlVars == <<g_IsRun, g_ThreadHandle, library, starts>>
takeVars == <<message, settled, handed, throws>>
vars == <<fifoVars, controlVars, net, js, ct, pushed, accepted, takeVars>>

Init ==
    /\ FifoInit
    /\ g_IsRun = TRUE
    /\ g_ThreadHandle = FALSE
    /\ library = "none"
    /\ net = "off"
    /\ js = "idle"
    /\ ct = 0
    /\ pushed = <<>>
    /\ accepted = 0
    /\ message = NoMessage
    /\ settled = 0
    /\ handed = <<>>
    /\ starts = 0
    /\ throws = 0

-----------------------------------------------------------------------------
(* Messages. *)

MessageSize(m) == HeadSize + pushed[m]
Bytes(m, first, last) == [k \in 1..(last - first) |-> <<m, first + k - 1>>]
HeadBytes(m) == Bytes(m, 0, HeadSize)
PayloadBytes(m) == Bytes(m, HeadSize, MessageSize(m))

(* The message that is being pushed. *)
Current == Len(pushed)

-----------------------------------------------------------------------------
(* The network thread: CenterClientTheadProcess, and PushCoreMessage from  *)
(* the handlers that Tick calls.                                           *)

NetTop ==
    /\ net = "top"
    /\ net' = IF g_IsRun THEN "tick" ELSE "ended"
    /\ UNCHANGED <<fifoVars, controlVars, js, ct, pushed, accepted, takeVars>>

NetTickEnds ==
    /\ net = "tick"
    /\ net' = "top"
    /\ UNCHANGED <<fifoVars, controlVars, js, ct, pushed, accepted, takeVars>>

NetReceives ==
    /\ net = "tick"
    /\ Len(pushed) < MaxPushes
    /\ \E n \in Lengths : pushed' = Append(pushed, n)
    /\ net' = "room"
    /\ UNCHANGED <<fifoVars, controlVars, js, ct, accepted, takeVars>>

(* while (space() < msgLen) MySleep(10).  put() compares again, and what   *)
(* does not fit is dropped without a word.                                 *)
NetHasRoom ==
    /\ net = "room"
    /\ Space >= MessageSize(Current)
    /\ net' = "copyHead"
    /\ UNCHANGED <<fifoVars, controlVars, js, ct, pushed, accepted, takeVars>>

NetCopiesHead ==
    /\ net = "copyHead"
    /\ IF HeadSize <= Space
         THEN CopyIn(HeadBytes(Current)) /\ net' = "headIn"
         ELSE UNCHANGED elements_ /\ net' = "copyPayload"
    /\ UNCHANGED <<in_, out_, controlVars, js, ct, pushed, accepted, takeVars>>

NetPutsHead ==
    /\ net = "headIn"
    /\ AdvanceIn(HeadSize)
    /\ net' = "copyPayload"
    /\ UNCHANGED <<out_, elements_, controlVars, js, ct, pushed, accepted, takeVars>>

NetCopiesPayload ==
    /\ net = "copyPayload"
    /\ IF pushed[Current] <= Space
         THEN CopyIn(PayloadBytes(Current)) /\ net' = "payloadIn"
         ELSE UNCHANGED elements_ /\ net' = "tick"
    /\ UNCHANGED <<in_, out_, controlVars, js, ct, pushed, accepted, takeVars>>

NetPutsPayload ==
    /\ net = "payloadIn"
    /\ AdvanceIn(pushed[Current])
    /\ accepted' = Current
    /\ net' = "tick"
    /\ UNCHANGED <<out_, elements_, controlVars, js, ct, pushed, takeVars>>

-----------------------------------------------------------------------------
(* The JavaScript thread: ProcessCoreMessage. *)

JsProcess ==
    /\ js = "idle"
    /\ js' = "look"
    /\ ct' = 0
    /\ UNCHANGED <<fifoVars, controlVars, net, pushed, accepted, takeVars>>

JsLook ==
    /\ js = "look"
    /\ js' = IF ct < PerTick /\ Length > HeadSize THEN "size" ELSE "idle"
    /\ UNCHANGED <<fifoVars, controlVars, net, ct, pushed, accepted, takeVars>>

(* The k-th byte from where out_ is. *)
ByteAt(k) == elements_[Cell(out_, k)]

(* The head at out_ is that of a message, or no head at all (0).  It is    *)
(* put together from both ends of the ring when it wraps around.           *)
HeadAt ==
    LET m == ByteAt(0)[1]
    IN  IF \A k \in 0..HeadSize-1 : ByteAt(k) = <<m, k>> THEN m ELSE 0

SizeAt == IF HeadAt = 0 THEN HeadSize ELSE MessageSize(HeadAt)

(* Mutant: the last byte of the message counts as missing. *)
JsSizeStrict ==
    /\ js = "size"
    /\ js' = IF SizeAt < Length THEN "call" ELSE "idle"
    /\ UNCHANGED <<fifoVars, controlVars, net, ct, pushed, accepted, takeVars>>

(* The head is in the fifo; the payload has to be too.  (It is, because    *)
(* more than a head was there, which is also why a message without payload *)
(* waits for the next one.)                                                *)
JsSize ==
    /\ js = "size"
    /\ js' = IF SizeAt <= Length THEN "call" ELSE "idle"
    /\ UNCHANGED <<fifoVars, controlVars, net, ct, pushed, accepted, takeVars>>

(* Mutant: the payload of a message that wraps around is not put together. *)
PayloadInPlace ==
    [k \in 1..(SizeAt - HeadSize) |->
        IF Cell(out_, 0) + HeadSize + k - 1 < Size
          THEN ByteAt(HeadSize + k - 1) ELSE NoByte]

(* The payload: in place when the head wraps around or nothing does, else  *)
(* copied together in g_PacketBuffer.                                      *)
PayloadAt == [k \in 1..(SizeAt - HeadSize) |-> ByteAt(HeadSize + k - 1)]

(* A message that wraps around after its head has to fit into the buffer.  *)
TooLarge ==
    /\ HeadSize <= SizeToWrapAround
    /\ SizeToWrapAround < SizeAt
    /\ SizeAt > MaxPacketSize

(* The function is called, or the message is too large for it. *)
JsCall ==
    /\ js = "call"
    /\ js' = IF TooLarge THEN "tooLarge" ELSE "called"
    /\ message' = IF TooLarge THEN message ELSE [head |-> HeadAt, payload |-> PayloadAt]
    /\ UNCHANGED <<fifoVars, controlVars, net, ct, pushed, accepted, settled, handed, throws>>

(* in_place_get_advance, when the function has returned. *)
JsAdvance ==
    /\ js \in {"called", "tooLarge"}
    /\ AdvanceOut(SizeAt)
    /\ ct' = ct + 1
    /\ settled' = settled + 1
    /\ handed' = IF js = "called" THEN Append(handed, message) ELSE handed
    /\ message' = NoMessage
    /\ js' = "look"
    /\ UNCHANGED <<in_, elements_, controlVars, net, pushed, accepted, throws>>

(* A function that throws is an exception in C++ (binding.gyp): it leaves  *)
(* core_process_message with the message still in the fifo.                *)
JsThrows ==
    /\ js = "called"
    /\ throws < MaxThrows
    /\ throws' = throws + 1
    /\ message' = NoMessage
    /\ js' = "idle"
    /\ UNCHANGED <<fifoVars, controlVars, net, ct, pushed, accepted, settled, handed>>

-----------------------------------------------------------------------------
(* core_start; g_IsRun keeps its value.  A network thread that is started  *)
(* after core_quit therefore ends at once.                                 *)
JsStart ==
    /\ js = "idle"
    /\ ~ g_ThreadHandle
    /\ starts < MaxStarts
    /\ starts' = starts + 1
    /\ library' = "live"
    /\ g_ThreadHandle' = TRUE
    /\ net' = "top"
    /\ UNCHANGED <<fifoVars, g_IsRun, js, ct, pushed, accepted, takeVars>>

(* Mutant: the flag is not lowered. *)
JsQuitKeepsRunning ==
    /\ js \in {"idle", "called"}
    /\ js' = IF ~ g_ThreadHandle THEN js ELSE IF js = "idle" THEN "join" ELSE "joinInCall"
    /\ UNCHANGED <<g_IsRun, fifoVars, g_ThreadHandle, library, starts, net, ct,
                   pushed, accepted, takeVars>>

(* core_quit, from the application or from the callback of a message: the  *)
(* flag is lowered and the thread joined.                                  *)
JsQuit ==
    /\ js \in {"idle", "called"}
    /\ g_IsRun' = FALSE
    /\ js' = IF ~ g_ThreadHandle THEN js ELSE IF js = "idle" THEN "join" ELSE "joinInCall"
    /\ UNCHANGED <<fifoVars, g_ThreadHandle, library, starts, net, ct,
                   pushed, accepted, takeVars>>

Joining == js \in {"join", "joinInCall"}

(* Mutant: the thread is not waited for. *)
JsJoinedAtOnce ==
    /\ Joining
    /\ g_ThreadHandle' = FALSE
    /\ library' = "released"
    /\ js' = IF js = "join" THEN "idle" ELSE "called"
    /\ UNCHANGED <<fifoVars, g_IsRun, starts, net, ct, pushed, accepted, takeVars>>

(* WaitForCenterClientExit after the join. *)
JsJoined ==
    /\ Joining
    /\ net = "ended"
    /\ g_ThreadHandle' = FALSE
    /\ library' = "released"
    /\ js' = IF js = "join" THEN "idle" ELSE "called"
    /\ UNCHANGED <<fifoVars, g_IsRun, starts, net, ct, pushed, accepted, takeVars>>

-----------------------------------------------------------------------------
NetStep ==
    \/ NetTop \/ NetTickEnds \/ NetReceives \/ NetHasRoom
    \/ NetCopiesHead \/ NetPutsHead \/ NetCopiesPayload \/ NetPutsPayload

JsStep == JsProcess \/ JsLook \/ JsSize \/ JsCall \/ JsAdvance \/ JsJoined

Next == NetStep \/ JsStep \/ JsStart \/ JsQuit \/ JsThrows

Spec == Init /\ [][Next]_vars

(* Both threads are scheduled and the application calls                    *)
(* core_process_message for ever; nothing makes it start or quit.          *)
FairSpec == Spec /\ WF_vars(NetStep) /\ WF_vars(JsStep)

-----------------------------------------------------------------------------
MessageType == [head : Nat, payload : Seq(Nat \X Nat)]

(* Every variable has its type; the fifo never holds more than it can. *)
TypeOK ==
    /\ FifoTypeOK
    /\ g_IsRun \in BOOLEAN /\ g_ThreadHandle \in BOOLEAN
    /\ library \in {"none", "live", "released"}
    /\ net \in {"off", "top", "tick", "room", "copyHead", "headIn", "copyPayload",
                "payloadIn", "ended"}
    /\ js \in {"idle", "look", "size", "call", "called", "tooLarge", "join",
              "joinInCall"}
    /\ ct \in 0..PerTick
    /\ pushed \in Seq(Nat) /\ accepted \in Nat /\ settled \in Nat
    /\ handed \in Seq(MessageType) /\ message \in MessageType
    /\ starts \in 0..MaxStarts /\ throws \in 0..MaxThrows

(* Through the fifo, whatever wraps around and however head and payload    *)
(* are seen apart, messages reach JavaScript once, whole and in order; the *)
(* call for a message is repeated only when it has thrown.                 *)
Waiting ==
    [i \in 1..(accepted - settled) |->
        [head |-> settled + i, payload |-> PayloadBytes(settled + i)]]

Abstract ==
    INSTANCE MessageQueue WITH queue <- Waiting, Largest <- MaxPacketSize - HeadSize
WholeAndInOrder == Abstract!Spec

(* Release() deletes the library's objects when no thread uses them. *)
ReleasedWhenUnused == library # "live" => net \in {"off", "ended"}

(* The one way to wait for ever: core_quit joins a network thread that     *)
(* waits for room which only core_process_message could make.              *)
Stuck == Joining /\ net = "room" /\ Space < MessageSize(Current)

(* core_quit returns, unless the fifo is too full for the message that the *)
(* network thread is pushing.                                              *)
QuitReturns == Joining ~> ~ Joining \/ Stuck

(* A message that is in the fifo reaches JavaScript, or is discarded for   *)
(* its size, when callbacks do not throw for ever.  One without payload    *)
(* has to wait for another message: the length of the fifo must exceed     *)
(* that of a head.                                                         *)
MessagesArrive ==
    \A m \in 1..MaxPushes :
        accepted >= m /\ (pushed[m] # 0 \/ accepted > m) ~> settled >= m \/ Stuck
=============================================================================
