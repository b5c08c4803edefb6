------------------------------- MODULE RingQueue -------------------------------
(***************************************************************************)
(* LockFreeRingedQueueT of Common/LockFree/RingQueue.h: a ring of machine  *)
(* words, where a thread first moves the tail (or the head) by a double    *)
(* word compare-and-swap of position and tag, and then exchanges the word. *)
(* Every load of a shared word, every compare-and-swap and every exchange  *)
(* is a step of its own.                                                   *)
(***************************************************************************)
EXTENDS Naturals, FiniteSets, Sequences

CONSTANTS Pushers, Poppers,
          Size,        \* what Init is called with: the ring has one cell more
          TagModulus,  \* 2^32 in the code
          MaxRetry,    \* s_c_MaxRetryCount
          SwapReports, \* compare_and_swap tells when it has swapped; in the 64-bit Windows
                       \* build it never does (Atomic.inl: 0 stands for success there)
          MaxPush,     \* bound: successful pushes of one pusher
          Invalid      \* InvalidValueV

ASSUME SizeAssumption == Size \in Nat \ {0} /\ MaxRetry \in Nat \ {0} /\ TagModulus \in Nat \ {0, 1}
ASSUME ThreadsAssumption == Pushers \cap Poppers = {} /\ MaxPush \in Nat /\ SwapReports \in BOOLEAN

Capacity == Size + 1
Threads == Pushers \cup Poppers
Values == Pushers \X (1..MaxPush)
Slots == 0..(Capacity - 1)

VARIABLES head, tail,  \* Pointer: position and tag
          data,        \* m_pData
          pc,          \* where in Push or Pop a thread is
          frame,       \* the locals of the call
          sent,        \* pushes that returned true
          got,         \* what Pop returned last
          excused      \* history: a reason to fail was there during the call

shared == <<head, tail, data>>
locals == <<pc, frame, sent, got>>
vars == <<head, tail, data, pc, frame, sent, got, excused>>

Start == [pos |-> 0, tag |-> 0]
NoFrame == [pos |-> 0, tag |-> 0, tries |-> 0]

Init ==
  /\ head = Start
  /\ tail = Start
  /\ data = [i \in Slots |-> Invalid]
  /\ pc = [t \in Threads |-> "idle"]
  /\ frame = [t \in Threads |-> NoFrame]
  /\ sent = [p \in Pushers |-> 0]
  /\ got = [c \in Poppers |-> Invalid]
  /\ excused = [t \in Threads |-> FALSE]

After(pos) == (pos + 1) % Capacity
Advance(f) == [pos |-> After(f.pos), tag |-> (f.tag + 1) % TagModulus]
\* Mutant: the compare-and-swap covers the position only.
IsAtPosition(pointer, f) == pointer.pos = f.pos
IsAt(pointer, f) == pointer.pos = f.pos /\ pointer.tag = f.tag

GoTo(t, where) == pc' = [pc EXCEPT ![t] = where]
Return(t) ==
  /\ GoTo(t, "idle")
  /\ frame' = [frame EXCEPT ![t] = NoFrame]

\* The value a pusher pushes in its present call.
Outgoing(p) == <<p, sent[p] + 1>>

--------------------------------------------------------------------------------
(* Push *)

PushCall(p) ==
  /\ pc[p] = "idle"
  /\ sent[p] < MaxPush
  /\ GoTo(p, "pushPos")
  /\ UNCHANGED <<shared, frame, sent, got>>

PushReadsPos(p) ==
  /\ pc[p] = "pushPos"
  /\ frame' = [frame EXCEPT ![p].pos = tail.pos]
  /\ GoTo(p, "pushTag")
  /\ UNCHANGED <<shared, sent, got>>

PushReadsTag(p) ==
  /\ pc[p] = "pushTag"
  /\ frame' = [frame EXCEPT ![p].tag = tail.tag]
  /\ GoTo(p, "pushRoom")
  /\ UNCHANGED <<shared, sent, got>>

PushReadsHead(p) ==
  /\ pc[p] = "pushRoom"
  /\ IF After(frame[p].pos) = head.pos
       THEN Return(p)
       ELSE GoTo(p, "pushSlot") /\ UNCHANGED frame
  /\ UNCHANGED <<shared, sent, got>>

PushReadsSlot(p) ==
  /\ pc[p] = "pushSlot"
  /\ IF data[frame[p].pos] # Invalid
       THEN Return(p)
       ELSE GoTo(p, "pushCas") /\ UNCHANGED frame
  /\ UNCHANGED <<shared, sent, got>>

Retries(t, again) ==
  IF frame[t].tries + 1 < MaxRetry
    THEN /\ frame' = [frame EXCEPT ![t].tries = @ + 1]
         /\ GoTo(t, again)
    ELSE Return(t)

PushSwaps(p) ==
  /\ pc[p] = "pushCas"
  /\ IsAt(tail, frame[p])
  /\ tail' = Advance(frame[p])
  /\ IF SwapReports THEN GoTo(p, "pushStore") /\ UNCHANGED frame
                    ELSE Retries(p, "pushPos")
  /\ UNCHANGED <<head, data, sent, got>>

PushSwapFails(p) ==
  /\ pc[p] = "pushCas"
  /\ ~IsAt(tail, frame[p])
  /\ Retries(p, "pushPos")
  /\ UNCHANGED <<shared, sent, got>>

PushStores(p) ==
  /\ pc[p] = "pushStore"
  /\ data' = [data EXCEPT ![frame[p].pos] = Outgoing(p)]
  /\ sent' = [sent EXCEPT ![p] = @ + 1]
  /\ Return(p)
  /\ UNCHANGED <<head, tail, got>>

--------------------------------------------------------------------------------
(* Pop *)

PopCall(c) ==
  /\ pc[c] = "idle"
  /\ GoTo(c, "popPos")
  /\ UNCHANGED <<shared, frame, sent, got>>

PopReadsPos(c) ==
  /\ pc[c] = "popPos"
  /\ frame' = [frame EXCEPT ![c].pos = head.pos]
  /\ GoTo(c, "popTag")
  /\ UNCHANGED <<shared, sent, got>>

PopReadsTag(c) ==
  /\ pc[c] = "popTag"
  /\ frame' = [frame EXCEPT ![c].tag = head.tag]
  /\ GoTo(c, "popSome")
  /\ UNCHANGED <<shared, sent, got>>

\* Mutant: Pop compares the tail with the cell after its own.
PopReadsTailEarly(c) ==
  /\ pc[c] = "popSome"
  /\ IF After(frame[c].pos) = tail.pos
       THEN Return(c)
       ELSE GoTo(c, "popSlot") /\ UNCHANGED frame
  /\ UNCHANGED <<shared, sent, got>>
PopReadsTail(c) ==
  /\ pc[c] = "popSome"
  /\ IF frame[c].pos = tail.pos
       THEN Return(c)
       ELSE GoTo(c, "popSlot") /\ UNCHANGED frame
  /\ UNCHANGED <<shared, sent, got>>

PopReadsSlot(c) ==
  /\ pc[c] = "popSlot"
  /\ IF data[frame[c].pos] = Invalid
       THEN Return(c)
       ELSE GoTo(c, "popCas") /\ UNCHANGED frame
  /\ UNCHANGED <<shared, sent, got>>

PopSwaps(c) ==
  /\ pc[c] = "popCas"
  /\ IsAt(head, frame[c])
  /\ head' = Advance(frame[c])
  /\ IF SwapReports THEN GoTo(c, "popTake") /\ UNCHANGED frame
                    ELSE Retries(c, "popPos")
  /\ UNCHANGED <<tail, data, sent, got>>

PopSwapFails(c) ==
  /\ pc[c] = "popCas"
  /\ ~IsAt(head, frame[c])
  /\ Retries(c, "popPos")
  /\ UNCHANGED <<shared, sent, got>>

PopTakes(c) ==
  /\ pc[c] = "popTake"
  /\ got' = [got EXCEPT ![c] = data[frame[c].pos]]
  /\ data' = [data EXCEPT ![frame[c].pos] = Invalid]
  /\ Return(c)
  /\ UNCHANGED <<head, tail, sent>>

--------------------------------------------------------------------------------
(* What a failure may be due to: the reasons that the comments in Push and Pop give, and *)
(* a call of another thread that succeeded in the meantime.                             *)

Full == After(tail.pos) = head.pos
Empty == head.pos = tail.pos
PopUnfinished == \E c \in Poppers : pc[c] = "popTake"
PushUnfinished == \E p \in Pushers : pc[p] = "pushStore"

Reason(t) == IF t \in Pushers THEN Full \/ PopUnfinished ELSE Empty \/ PushUnfinished
Overtaken(t) == IF t \in Pushers THEN tail' # tail ELSE head' # head

PushStep(p) ==
  \/ PushCall(p)       \/ PushReadsPos(p) \/ PushReadsTag(p)  \/ PushReadsHead(p)
  \/ PushReadsSlot(p)  \/ PushSwaps(p)    \/ PushSwapFails(p) \/ PushStores(p)
PopStep(c) ==
  \/ PopCall(c)        \/ PopReadsPos(c)  \/ PopReadsTag(c)   \/ PopReadsTail(c)
  \/ PopReadsSlot(c)   \/ PopSwaps(c)     \/ PopSwapFails(c)  \/ PopTakes(c)

NotesReasons ==
  excused' = [t \in Threads |-> pc'[t] # "idle" /\ (excused[t] \/ Reason(t)' \/ Overtaken(t))]

Next ==
  /\ (\E p \in Pushers : PushStep(p)) \/ (\E c \in Poppers : PopStep(c))
  /\ NotesReasons

Spec == Init /\ [][Next]_vars

--------------------------------------------------------------------------------
(* Properties *)

\* The cell of a push that has moved the tail and not stored yet counts as filled.
Content(i) ==
  IF \E p \in Pushers : pc[p] = "pushStore" /\ frame[p].pos = i
    THEN Outgoing(CHOOSE p \in Pushers : pc[p] = "pushStore" /\ frame[p].pos = i)
    ELSE data[i]
Waiting == (tail.pos + Capacity - head.pos) % Capacity
Contents == [i \in 1..Waiting |-> Content((head.pos + i - 1) % Capacity)]
InCall == [p \in Pushers |-> IF pc[p] \in {"idle", "pushStore"} THEN Invalid ELSE Outgoing(p)]
Accepted == [p \in Pushers |-> sent[p] + (IF pc[p] = "pushStore" THEN 1 ELSE 0)]
InHand == [c \in Poppers |-> IF pc[c] = "popTake" THEN data[frame[c].pos] ELSE got[c]]

Abstract == INSTANCE BoundedFifo
  WITH Capacity <- Size, NoValue <- Invalid,
       queue <- Contents, sending <- InCall, accepted <- Accepted, held <- InHand

\* Push and Pop of any number of threads work on one first-in-first-out queue of Size
\* values: the compare-and-swap is the moment at which a call takes effect, and what
\* the later exchange puts or finds is the value of that moment.
ImplementsFifo == Abstract!Spec

Fails(t) == pc[t] \notin {"idle", "pushStore", "popTake"} /\ pc'[t] = "idle"

\* A call that fails, after MaxRetry swaps too, had at some moment of the call one of the
\* reasons that the comments in Push and Pop give (a full queue or an unfinished pop, an
\* empty queue or an unfinished push) or was overtaken by a call that succeeded: threads
\* never make each other fail.
FailsForCause == [][\A t \in Threads : Fails(t) => excused[t]]_vars

================================================================================
