-------------------------- MODULE TcpSessionProofs --------------------------
(***************************************************************************)
(* Proofs about TcpSession for any number of sessions and buffered frames. *)
(*                                                                         *)
(* MemorySafe is not inductive: that no step makes an illegal access       *)
(* depends on what the reference count means.  IInv adds it: the count is  *)
(* one for the live session plus one for the callback that is running, and *)
(* Impl owns the bufferevent except between event_cb's bufferevent_free    *)
(* and the reset of Impl::bev.                                             *)
(***************************************************************************)
EXTENDS TcpSession, TLAPS

InCallback(s) == loop.s = s

SessionInv(s) ==
    /\ impl[s] = "live" <=> (session[s] = "live" \/ InCallback(s))
    /\ impl[s] = "live" =>
         refCnt[s] = (IF session[s] = "live" THEN 1 ELSE 0)
                       + (IF InCallback(s) THEN 1 ELSE 0)
    /\ InCallback(s) => implBev[s]
    /\ InCallback(s) /\ loop.pc = "event" => session[s] = "live"
    /\ bev[s] = "live" <=>
         (impl[s] = "live" /\ implBev[s] /\ ~(InCallback(s) /\ loop.pc = "bevFreed"))
    /\ session[s] # "none" => impl[s] # "none" /\ bev[s] # "none"

IInv ==
    /\ TypeOK
    /\ MemorySafe
    /\ \A s \in Sessions : SessionInv(s)

-----------------------------------------------------------------------------
LEMMA InitIInv == Init => IInv
BY NoSessionAssumption
   DEF Init, IInv, TypeOK, MemorySafe, SessionInv, InCallback, Idle, ObjectState, LoopPc, Fault

(* A step of one session leaves the others alone. *)
LEMMA StepIInv == IInv /\ [Next]_vars => IInv'
<1> SUFFICES ASSUME IInv, [Next]_vars PROVE IInv'
    OBVIOUS
<1> USE NoSessionAssumption, MaxFramesAssumption DEF ObjectState, LoopPc, Fault, Idle,
        DtorFrees, FrameReady
<1>1. CASE UNCHANGED vars
    BY <1>1 DEF vars, IInv, TypeOK, MemorySafe, SessionInv, InCallback
<1>2. ASSUME NEW s \in Sessions, Construct(s) PROVE IInv'
    BY <1>2 DEF Construct, IInv, TypeOK, MemorySafe, SessionInv, InCallback
<1>3. ASSUME NEW s \in Sessions, SetCB(s) PROVE IInv'
    BY <1>3 DEF SetCB, ImplUse, BevUse, IInv, TypeOK, MemorySafe, SessionInv, InCallback
<1>4. ASSUME NEW s \in Sessions, Send(s) PROVE IInv'
    BY <1>4 DEF Send, ImplUse, BevUse, IInv, TypeOK, MemorySafe, SessionInv, InCallback
<1>5. ASSUME NEW s \in Sessions, Delete(s) PROVE IInv'
    BY <1>5 DEF Delete, DecRef, ImplUse, BevFree, IInv, TypeOK, MemorySafe, SessionInv, InCallback
<1>6. ASSUME NEW s \in Sessions, Arrive(s) PROVE IInv'
    BY <1>6 DEF Arrive, IInv, TypeOK, MemorySafe, SessionInv, InCallback
<1>7. ASSUME NEW s \in Sessions, RecvBegin(s) PROVE IInv'
    BY <1>7 DEF RecvBegin, IncRef, ImplUse, IInv, TypeOK, MemorySafe, SessionInv, InCallback
<1>8. ASSUME NEW s \in Sessions, EventBegin(s) PROVE IInv'
    BY <1>8 DEF EventBegin, IncRef, ImplUse, IInv, TypeOK, MemorySafe, SessionInv, InCallback
<1>9. ASSUME NEW s \in Sessions, RecvFrame(s) PROVE IInv'
  <2>1. CASE /\ fault' = fault \cup ImplUse(s) \cup BevUse(s)
                          \cup (IF session[s] = "live" THEN {} ELSE {"danglingSession"})
             /\ UNCHANGED <<session, impl, refCnt, bev>>
    <3>1. impl[s] = "live" /\ bev[s] = "live"
      BY <1>9 DEF RecvFrame, IInv, TypeOK, SessionInv, InCallback
    <3>2. fault' \subseteq fault \cup {"danglingSession"}
      BY <2>1, <3>1 DEF ImplUse, BevUse
    <3>3. input' \in [Sessions -> Nat]
      BY <1>9 DEF RecvFrame, IInv, TypeOK
    <3>4. QED
      BY ZenonT(60), <1>9, <2>1, <3>2, <3>3 DEF RecvFrame, IInv, TypeOK, MemorySafe, SessionInv, InCallback
  <2>2. CASE session[s] = "live" /\ session' = [session EXCEPT ![s] = "gone"] /\ DecRef(s, implBev[s])
    <3>1. refCnt[s] = 2 /\ impl[s] = "live"
      BY <1>9 , <2>2 DEF RecvFrame, IInv, TypeOK, SessionInv, InCallback
    <3>2. /\ refCnt' = [refCnt EXCEPT ![s] = 1]
          /\ UNCHANGED <<impl, bev, fault>>
      BY <2>2, <3>1 DEF DecRef, ImplUse, IInv, TypeOK
    <3>3. QED
      BY <1>9, <2>2, <3>1, <3>2 DEF RecvFrame, IInv, TypeOK, MemorySafe, SessionInv, InCallback
  <2>3. QED
    BY <1>9, <2>1, <2>2 DEF RecvFrame
<1>10. ASSUME NEW s \in Sessions, RecvEnd(s) PROVE IInv'
    BY <1>10 DEF RecvEnd, DecRef, ImplUse, BevFree, IInv, TypeOK, MemorySafe, SessionInv, InCallback
<1>11. ASSUME NEW s \in Sessions, EventErrorCB(s) PROVE IInv'
  <2>1. impl[s] = "live" /\ session[s] = "live" /\ refCnt[s] = 2
    BY <1>11 DEF EventErrorCB, IInv, TypeOK, SessionInv, InCallback
  <2>2. UNCHANGED <<impl, bev, fault>>
    BY <1>11, <2>1 DEF EventErrorCB, DecRef, ImplUse, IInv, TypeOK
  <2>3. CASE hasCB[s]
    <3>1. refCnt' = [refCnt EXCEPT ![s] = 1] /\ session' = [session EXCEPT ![s] = "gone"]
      BY <1>11, <2>1, <2>3 DEF EventErrorCB, DecRef
    <3>2. QED
      BY <1>11, <2>1, <2>2, <3>1 DEF EventErrorCB, IInv, TypeOK, MemorySafe, SessionInv, InCallback
  <2>4. CASE ~hasCB[s]
    BY <1>11, <2>1, <2>2, <2>4 DEF EventErrorCB, IInv, TypeOK, MemorySafe, SessionInv, InCallback
  <2>5. QED
    BY <2>3, <2>4
<1>12. ASSUME NEW s \in Sessions, EventFreeBev(s) PROVE IInv'
    BY <1>12 DEF EventFreeBev, BevFree, IInv, TypeOK, MemorySafe, SessionInv, InCallback
<1>13. ASSUME NEW s \in Sessions, EventEnd(s) PROVE IInv'
    BY <1>13 DEF EventEnd, DecRef, ImplUse, BevFree, IInv, TypeOK, MemorySafe, SessionInv, InCallback
<1>14. QED
    BY <1>1, <1>2, <1>3, <1>4, <1>5, <1>6, <1>7, <1>8, <1>9, <1>10, <1>11, <1>12, <1>13
       DEF Next, Callback

LEMMA SpecIInv == Spec => []IInv
BY InitIInv, StepIInv, PTL DEF Spec

-----------------------------------------------------------------------------
(* Every variable of the model keeps its type: in particular ref_cnt is    *)
(* only read and written as a number and one callback runs at a time.      *)
THEOREM TypeCorrect == Spec => []TypeOK
<1>1. IInv => TypeOK
    BY DEF IInv
<1>2. QED
    BY SpecIInv, <1>1, PTL

(* The reference count does what its comment says for any number of        *)
(* sessions: no use after free and no double free of Impl or bufferevent.  *)
THEOREM MemorySafety == Spec => []MemorySafe
<1>1. IInv => MemorySafe
    BY DEF IInv
<1>2. QED
    BY SpecIInv, <1>1, PTL

(* recv_cb and event_cb are only ever entered on a live session. *)
THEOREM LiveCallbacks == Spec => []CallbacksStartOnLiveSession
<1>1. IInv => CallbacksStartOnLiveSession
    BY NoSessionAssumption
       DEF IInv, TypeOK, SessionInv, InCallback, CallbacksStartOnLiveSession, Idle
<1>2. QED
    BY SpecIInv, <1>1, PTL

(* Deleting a session never leaks its Impl or its socket. *)
THEOREM NoLeak == Spec => []NothingLeaks
<1>1. IInv => NothingLeaks
    BY NoSessionAssumption
       DEF IInv, TypeOK, SessionInv, InCallback, NothingLeaks, Idle, ObjectState
<1>2. QED
    BY SpecIInv, <1>1, PTL

(* IsValid() is exact whenever an owner can ask. *)
THEOREM ExactIsValid == Spec => []IsValidMeansOpen
<1>1. IInv => IsValidMeansOpen
    BY NoSessionAssumption
       DEF IInv, TypeOK, SessionInv, InCallback, IsValidMeansOpen, Idle
<1>2. QED
    BY SpecIInv, <1>1, PTL
=============================================================================
