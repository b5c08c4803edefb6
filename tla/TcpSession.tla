----------------------------- MODULE TcpSession -----------------------------
(***************************************************************************)
(* Life cycle of net_base::TcpSession (Common/NetBase/tcp_session.cc): the *)
(* session object its owner deletes, the reference-counted Impl that the   *)
(* libevent callbacks run on, and the bufferevent that Impl owns.          *)
(*                                                                         *)
(* libevent is external.  All that is used of it: callbacks of all         *)
(* bufferevents run one at a time on the thread of the event loop          *)
(* (BEV_OPT_DEFER_CALLBACKS), and none starts on a bufferevent after       *)
(* bufferevent_free.                                                       *)
(*                                                                         *)
(* C++ has no error value for a use of freed memory, so every dereference  *)
(* in the code is recorded: `fault' collects the kinds of illegal access.  *)
(***************************************************************************)
EXTENDS Integers, FiniteSets

CONSTANTS
    Sessions,    \* the TcpSession objects of one process
    NoSession,   \* not a session: the event loop runs no callback
    MaxFrames    \* bound: complete frames waiting in one input evbuffer

ASSUME NoSessionAssumption == NoSession \notin Sessions
ASSUME MaxFramesAssumption == MaxFrames \in Nat

VARIABLES
    session,   \* [Sessions -> state of the TcpSession object]
    impl,      \* [Sessions -> state of its Impl]
    refCnt,    \* [Sessions -> Int], Impl::ref_cnt
    implBev,   \* [Sessions -> BOOLEAN], Impl::bev # NULL
    bev,       \* [Sessions -> state of the bufferevent itself]
    hasCB,     \* [Sessions -> BOOLEAN], SetCB was given callbacks
    input,     \* [Sessions -> 0..MaxFrames], frames in the input evbuffer
    loop,      \* what the event loop is executing: [pc |-> ..., s |-> ...]
    fault      \* the illegal accesses made so far

vars == <<session, impl, refCnt, implBev, bev, hasCB, input, loop, fault>>

ObjectState == {"none", "live", "gone"}
LoopPc == {"poll", "recv", "event", "errorDone", "bevFreed"}
Fault == {"implUse", "bevUse", "bevDoubleFree", "negativeRef", "danglingSession"}

Idle == [pc |-> "poll", s |-> NoSession]

Init ==
    /\ session = [s \in Sessions |-> "none"]
    /\ impl = [s \in Sessions |-> "none"]
    /\ refCnt = [s \in Sessions |-> 0]
    /\ implBev = [s \in Sessions |-> FALSE]
    /\ bev = [s \in Sessions |-> "none"]
    /\ hasCB = [s \in Sessions |-> FALSE]
    /\ input = [s \in Sessions |-> 0]
    /\ loop = Idle
    /\ fault = {}

-----------------------------------------------------------------------------
(* The faults of a dereference of Impl and of the bufferevent. *)

ImplUse(s) == IF impl[s] = "live" THEN {} ELSE {"implUse"}
BevUse(s) == IF bev[s] = "live" THEN {} ELSE {"bevUse"}
BevFree(s) == IF bev[s] = "live" THEN {} ELSE {"bevDoubleFree"}

(* Mutant: a callback that does not take its reference. *)
IncRefForgotten(s) == UNCHANGED refCnt

(* Impl::inc_ref *)
IncRef(s) == refCnt' = [refCnt EXCEPT ![s] = @ + 1]

(* Mutant: Impl::~Impl leaves the bufferevent to event_cb. *)
DtorNeverFrees(pointsToBev) == FALSE

(* Impl::~Impl frees the bufferevent that Impl still points to. *)
DtorFrees(pointsToBev) == pointsToBev

(* Impl::dec_ref and, at zero, the destructor.  pointsToBev is the value   *)
(* of Impl::bev at the call.                                               *)
DecRef(s, pointsToBev) ==
    /\ refCnt' = [refCnt EXCEPT ![s] = @ - 1]
    /\ IF refCnt[s] = 1
         THEN /\ impl' = [impl EXCEPT ![s] = "gone"]
              /\ bev' = IF DtorFrees(pointsToBev) THEN [bev EXCEPT ![s] = "gone"] ELSE bev
         ELSE UNCHANGED <<impl, bev>>
    /\ fault' = fault \cup ImplUse(s)
                      \cup (IF refCnt[s] > 0 THEN {} ELSE {"negativeRef"})
                      \cup (IF refCnt[s] = 1 /\ DtorFrees(pointsToBev) THEN BevFree(s) ELSE {})

-----------------------------------------------------------------------------
(* TcpSession::TcpSession, called from the accept and connect callbacks of *)
(* the loop with a fresh bufferevent.  The memory of a destroyed session   *)
(* and Impl may be used again.                                             *)
Construct(s) ==
    /\ loop = Idle
    /\ session[s] # "live"
    /\ impl[s] # "live"
    /\ session' = [session EXCEPT ![s] = "live"]
    /\ impl' = [impl EXCEPT ![s] = "live"]
    /\ refCnt' = [refCnt EXCEPT ![s] = 1]
    /\ implBev' = [implBev EXCEPT ![s] = TRUE]
    /\ bev' = [bev EXCEPT ![s] = "live"]
    /\ hasCB' = [hasCB EXCEPT ![s] = FALSE]
    /\ input' = [input EXCEPT ![s] = 0]
    /\ UNCHANGED <<loop, fault>>

(* TcpSession::SetCB: reading is enabled together with the callbacks. *)
SetCB(s) ==
    /\ loop = Idle
    /\ session[s] = "live"
    /\ ~hasCB[s]
    /\ hasCB' = [hasCB EXCEPT ![s] = TRUE]
    /\ fault' = fault \cup ImplUse(s)
                      \cup (IF implBev[s] THEN BevUse(s) ELSE {})
    /\ UNCHANGED <<session, impl, refCnt, implBev, bev, input, loop>>

(* TcpSession::Send, and with it IsValid, GetFD and PeerInfo: each looks   *)
(* at Impl::bev and uses the bufferevent only when it is not NULL.  Called *)
(* by the owner between callbacks, or from a handler inside recv_cb.       *)
Send(s) ==
    /\ loop.pc \in {"poll", "recv"}
    /\ session[s] = "live"
    /\ fault' = fault \cup ImplUse(s)
                      \cup (IF implBev[s] THEN BevUse(s) ELSE {})
    /\ UNCHANGED <<session, impl, refCnt, implBev, bev, hasCB, input, loop>>

(* TcpSession::~TcpSession outside any callback: Disconnect(), Release(),  *)
(* or a Tick that finds the session invalid.                               *)
Delete(s) ==
    /\ loop = Idle
    /\ session[s] = "live"
    /\ session' = [session EXCEPT ![s] = "gone"]
    /\ DecRef(s, implBev[s])
    /\ UNCHANGED <<implBev, hasCB, input, loop>>

(* The loop reads a complete frame from the socket into the evbuffer. *)
Arrive(s) ==
    /\ loop = Idle
    /\ bev[s] = "live"
    /\ hasCB[s]
    /\ input[s] < MaxFrames
    /\ input' = [input EXCEPT ![s] = @ + 1]
    /\ UNCHANGED <<session, impl, refCnt, implBev, bev, hasCB, loop, fault>>

-----------------------------------------------------------------------------
(* recv_cb, line by line where the user's callback can interfere. *)

RecvBegin(s) ==
    /\ loop = Idle
    /\ bev[s] = "live"
    /\ hasCB[s]
    /\ IncRef(s)
    /\ loop' = [pc |-> "recv", s |-> s]
    /\ fault' = fault \cup ImplUse(s)
    /\ UNCHANGED <<session, impl, implBev, bev, hasCB, input>>

(* The tests on input_len: a whole frame is buffered. *)
FrameReady(s) == input[s] > 0

(* One turn of the loop: the callback is handed impl->session, and may     *)
(* itself delete the session (an application that calls Disconnect() from  *)
(* its message handler).  The frame is drained after the callback.         *)
RecvFrame(s) ==
    /\ loop = [pc |-> "recv", s |-> s]
    /\ FrameReady(s)
    /\ input' = [input EXCEPT ![s] = @ - 1]
    /\ \/ /\ fault' = fault \cup ImplUse(s) \cup BevUse(s)
                            \cup (IF session[s] = "live" THEN {} ELSE {"danglingSession"})
          /\ UNCHANGED <<session, impl, refCnt, bev>>
       \/ /\ session[s] = "live"
          /\ session' = [session EXCEPT ![s] = "gone"]
          /\ DecRef(s, implBev[s])
    /\ UNCHANGED <<implBev, hasCB, loop>>

RecvEnd(s) ==
    /\ loop = [pc |-> "recv", s |-> s]
    /\ ~FrameReady(s)
    /\ loop' = Idle
    /\ DecRef(s, implBev[s])
    /\ UNCHANGED <<session, implBev, hasCB, input>>

-----------------------------------------------------------------------------
(* event_cb in its four parts: the reference; the error callback, in which *)
(* every owner deletes the session (OnSessionError); bufferevent_free; the *)
(* reset of Impl::bev and the release.                                     *)

EventBegin(s) ==
    /\ loop = Idle
    /\ bev[s] = "live"
    /\ IncRef(s)
    /\ loop' = [pc |-> "event", s |-> s]
    /\ fault' = fault \cup ImplUse(s)
    /\ UNCHANGED <<session, impl, implBev, bev, hasCB, input>>

EventErrorCB(s) ==
    /\ loop = [pc |-> "event", s |-> s]
    /\ loop' = [pc |-> "errorDone", s |-> s]
    /\ IF hasCB[s]
         THEN /\ session' = [session EXCEPT ![s] = "gone"]
              /\ DecRef(s, implBev[s])
         ELSE /\ fault' = fault \cup ImplUse(s)
              /\ UNCHANGED <<session, impl, refCnt, bev>>
    /\ UNCHANGED <<implBev, hasCB, input>>

EventFreeBev(s) ==
    /\ loop = [pc |-> "errorDone", s |-> s]
    /\ loop' = [pc |-> "bevFreed", s |-> s]
    /\ bev' = [bev EXCEPT ![s] = "gone"]
    /\ fault' = fault \cup BevFree(s)
    /\ UNCHANGED <<session, impl, refCnt, implBev, hasCB, input>>

(* Mutant: Impl::bev keeps pointing to the freed bufferevent. *)
EventEndKeepsBev(s) ==
    /\ loop = [pc |-> "bevFreed", s |-> s]
    /\ loop' = Idle
    /\ DecRef(s, implBev[s])
    /\ UNCHANGED <<session, implBev, hasCB, input>>

EventEnd(s) ==
    /\ loop = [pc |-> "bevFreed", s |-> s]
    /\ loop' = Idle
    /\ implBev' = [implBev EXCEPT ![s] = FALSE]
    /\ DecRef(s, FALSE)
    /\ UNCHANGED <<session, hasCB, input>>

-----------------------------------------------------------------------------
Callback(s) ==
    \/ RecvFrame(s)
    \/ RecvEnd(s)
    \/ EventErrorCB(s)
    \/ EventFreeBev(s)
    \/ EventEnd(s)

Next ==
    \E s \in Sessions :
        \/ Construct(s)
        \/ SetCB(s)
        \/ Send(s)
        \/ Delete(s)
        \/ Arrive(s)
        \/ RecvBegin(s)
        \/ EventBegin(s)
        \/ Callback(s)

Spec == Init /\ [][Next]_vars

(* A callback that libevent has entered runs to its end. *)
FairSpec == Spec /\ WF_vars(\E s \in Sessions : Callback(s))

-----------------------------------------------------------------------------
(* Every variable has its type. *)
TypeOK ==
    /\ session \in [Sessions -> ObjectState]
    /\ impl \in [Sessions -> ObjectState]
    /\ refCnt \in [Sessions -> Int]
    /\ implBev \in [Sessions -> BOOLEAN]
    /\ bev \in [Sessions -> ObjectState]
    /\ hasCB \in [Sessions -> BOOLEAN]
    /\ input \in [Sessions -> Nat]
    /\ loop \in [pc : LoopPc, s : Sessions \cup {NoSession}]
    /\ loop.pc = "poll" <=> loop.s = NoSession
    /\ fault \subseteq Fault

(* What the comment on ref_cnt promises: although the owner deletes the    *)
(* session inside error_cb (or inside a receive callback), neither Impl    *)
(* nor the bufferevent is used after it was freed, the bufferevent is      *)
(* freed once, and the assert in dec_ref holds.  The one illegal access    *)
(* recv_cb can make is to hand a session that a callback has deleted to    *)
(* the next callback of the same batch of frames.                          *)
MemorySafe == fault \subseteq {"danglingSession"}

(* Whenever the loop is about to enter a callback, on a bufferevent that   *)
(* was not freed, impl->session is a live session: a dangling session is   *)
(* only ever the work of an earlier frame of the same recv_cb.             *)
CallbacksStartOnLiveSession ==
    \A s \in Sessions : loop = Idle /\ bev[s] = "live" => session[s] = "live"

(* A deleted session leaves nothing behind once the callback it was        *)
(* deleted in has returned: Impl is destroyed and the socket is closed.    *)
NothingLeaks ==
    \A s \in Sessions :
        loop = Idle /\ session[s] = "gone" => impl[s] = "gone" /\ bev[s] = "gone"

(* IsValid() of a session between callbacks tells whether its socket is    *)
(* still open: the sweep of the session managers' Tick relies on it.       *)
IsValidMeansOpen ==
    \A s \in Sessions :
        loop = Idle /\ session[s] = "live" => (implBev[s] <=> bev[s] = "live")
=============================================================================
