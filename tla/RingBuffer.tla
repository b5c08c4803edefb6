------------------------------ MODULE RingBuffer ------------------------------
(***************************************************************************)
(* LockFreeRingedBuffer of Common/LockFree/RingBuffer.h: messages of any   *)
(* length in a ring of bytes, with a second ring of Info records. A thread *)
(* moves the tail (or the head) first and copies the bytes afterwards; the *)
(* flag of the Info record says that the bytes of a message are there.     *)
(* Each load of a shared word, each compare-and-swap and each copy is a    *)
(* step; the stores of Info::Set and Info::Clear, which a reader can only  *)
(* tell apart by the flag they end with, are one step each.                *)
(***************************************************************************)
EXTENDS Integers, FiniteSets, Sequences

CONSTANTS Pushers, Poppers,
          MaxSize,     \* m_MaxSize, and m_MaxInfoNum too when it is below s_c_MaxInfoNum
          Sizes,       \* lengths of the messages
          Rooms,       \* sizes of the buffers that Pop is called with
          TagModulus,  \* width of m_Tag
          MaxRetry,    \* s_c_MaxRetryCount
          MaxPush,     \* bound: successful pushes of one pusher
          None

Threads == Pushers \cup Poppers
Messages == [from : Pushers, no : 1..MaxPush, size : Sizes]
Positions == 0..(MaxSize - 1)

VARIABLES head, tail,  \* Pointer: position in the bytes, in the records, and tag
          bytes,       \* m_pBuffer: a byte is its message and its offset there
          info,        \* m_pInfo: m_EndPos and m_Flag (m_StartPos is never read)
          pc, frame,   \* where a thread is, and the locals of its call
          sent,        \* pushes that returned PUSH_SUCESSFUL
          got,         \* the bytes that Pop returned last
          claim,       \* history: the message whose push claimed each record
          overrun      \* history: a push wrote over the bytes of an unfinished pop

shared == <<head, tail, bytes, info>>
vars == <<head, tail, bytes, info, pc, frame, sent, got, claim, overrun>>

Start == [buf |-> 0, pos |-> 0, tag |-> 0]
NoFrame == [at |-> Start, end |-> 0, size |-> 0, told |-> 0, tries |-> 0]
EmptyInfo == [end |-> 0, flag |-> FALSE]

Init ==
  /\ head = Start
  /\ tail = Start
  /\ bytes = [i \in Positions |-> None]
  /\ info = [i \in Positions |-> EmptyInfo]
  /\ pc = [t \in Threads |-> "idle"]
  /\ frame = [t \in Threads |-> NoFrame]
  /\ sent = [p \in Pushers |-> 0]
  /\ got = [c \in Poppers |-> <<>>]
  /\ claim = [i \in Positions |-> None]
  /\ overrun = [c \in Poppers |-> FALSE]

Distance(from, to) == (to + MaxSize - from) % MaxSize
\* Mutant: the byte that tells full from empty is given away.
GetAllFreeSize(tailBuf, headBuf) == MaxSize - Distance(headBuf, tailBuf)
GetFreeSize(tailBuf, headBuf) == MaxSize - Distance(headBuf, tailBuf) - 1
Advance(pointer, newBuf) ==
  [buf |-> newBuf, pos |-> (pointer.pos + 1) % MaxSize, tag |-> (pointer.tag + 1) % TagModulus]

\* The bytes of a message, and the cells that a run of bytes takes in the ring.
BytesOf(msg) == [k \in 1..msg.size |-> <<msg, k>>]
Cells(from, size) == {(from + k) % MaxSize : k \in 0..(size - 1)}
Outgoing(p) == [from |-> p, no |-> sent[p] + 1, size |-> frame[p].size]

GoTo(t, where) == pc' = [pc EXCEPT ![t] = where]
Locally(t, f, where) == frame' = [frame EXCEPT ![t] = f] /\ GoTo(t, where)
Return(t) == Locally(t, NoFrame, "idle")
Rejoins(t, again) ==
  IF frame[t].tries + 1 < MaxRetry
    THEN Locally(t, [frame[t] EXCEPT !.tries = @ + 1], again)
    ELSE Return(t)
NothingElse == UNCHANGED <<shared, sent, got, claim, overrun>>

--------------------------------------------------------------------------------
(* Push *)

PushCall(p) ==
  /\ pc[p] = "idle" /\ sent[p] < MaxPush
  /\ \E size \in Sizes : Locally(p, [NoFrame EXCEPT !.size = size], "pushBuf")
  /\ NothingElse

PushReadsBuf(p) ==
  /\ pc[p] = "pushBuf"
  /\ Locally(p, [frame[p] EXCEPT !.at.buf = tail.buf], "pushPos")
  /\ NothingElse

PushReadsPos(p) ==
  /\ pc[p] = "pushPos"
  /\ Locally(p, [frame[p] EXCEPT !.at.pos = tail.pos, !.at.tag = tail.tag], "pushTail")
  /\ NothingElse

\* GetFreeSize loads the tail again, then the head.
PushReadsTail(p) ==
  /\ pc[p] = "pushTail"
  /\ Locally(p, [frame[p] EXCEPT !.end = tail.buf], "pushRoom")
  /\ NothingElse

PushChecksRoom(p) ==
  /\ pc[p] = "pushRoom"
  /\ IF frame[p].size > GetFreeSize(frame[p].end, head.buf)
       THEN Return(p)
       ELSE Locally(p, [frame[p] EXCEPT !.end = (frame[p].at.buf + frame[p].size) % MaxSize], "pushNum")
  /\ NothingElse

PushChecksNum(p) ==
  /\ pc[p] = "pushNum"
  /\ IF (frame[p].at.pos + 1) % MaxSize = head.pos
       THEN Return(p)
       ELSE GoTo(p, "pushInfo") /\ UNCHANGED frame
  /\ NothingElse

\* The record is still in use by the pop of an earlier round: try again.
PushChecksInfo(p) ==
  /\ pc[p] = "pushInfo"
  /\ IF info[frame[p].at.pos].flag
       THEN Rejoins(p, "pushBuf")
       ELSE GoTo(p, "pushCas") /\ UNCHANGED frame
  /\ NothingElse

PushSwaps(p) ==
  /\ pc[p] = "pushCas"
  /\ tail = frame[p].at
  /\ tail' = Advance(frame[p].at, frame[p].end)
  /\ claim' = [claim EXCEPT ![frame[p].at.pos] = Outgoing(p)]
  /\ GoTo(p, "pushCopy")
  /\ UNCHANGED <<head, bytes, info, frame, sent, got, overrun>>

PushSwapFails(p) ==
  /\ pc[p] = "pushCas"
  /\ tail # frame[p].at
  /\ Rejoins(p, "pushBuf")
  /\ NothingElse

PushCopies(p) ==
  LET from == frame[p].at.buf
      size == frame[p].size
  IN /\ pc[p] = "pushCopy"
     /\ bytes' = [i \in Positions |->
                    IF i \in Cells(from, size) THEN <<Outgoing(p), Distance(from, i) + 1>> ELSE bytes[i]]
     /\ overrun' = [c \in Poppers |->
                      \/ overrun[c]
                      \/ /\ pc[c] = "popCopy"
                         /\ Cells(from, size) \cap Cells(frame[c].at.buf, Distance(frame[c].at.buf, frame[c].end)) # {}]
     /\ GoTo(p, "pushSet")
     /\ UNCHANGED <<head, tail, info, frame, sent, got, claim>>

PushSetsInfo(p) ==
  /\ pc[p] = "pushSet"
  /\ info' = [info EXCEPT ![frame[p].at.pos] = [end |-> frame[p].end, flag |-> TRUE]]
  /\ sent' = [sent EXCEPT ![p] = @ + 1]
  /\ Return(p)
  /\ UNCHANGED <<head, tail, bytes, got, claim, overrun>>

--------------------------------------------------------------------------------
(* Pop *)

PopCall(c) ==
  /\ pc[c] = "idle"
  /\ \E size \in Rooms : Locally(c, [NoFrame EXCEPT !.size = size], "popBuf")
  /\ NothingElse

PopReadsBuf(c) ==
  /\ pc[c] = "popBuf"
  /\ Locally(c, [frame[c] EXCEPT !.at.buf = head.buf], "popPos")
  /\ NothingElse

PopReadsPos(c) ==
  /\ pc[c] = "popPos"
  /\ Locally(c, [frame[c] EXCEPT !.at.pos = head.pos, !.at.tag = head.tag], "popSome")
  /\ NothingElse

PopReadsTail(c) ==
  /\ pc[c] = "popSome"
  /\ IF frame[c].at.pos = tail.pos
       THEN Return(c)
       ELSE GoTo(c, "popInfo") /\ UNCHANGED frame
  /\ NothingElse

PopChecksInfo(c) ==
  /\ pc[c] = "popInfo"
  /\ IF info[frame[c].at.pos].flag
       THEN GoTo(c, "popEnd") /\ UNCHANGED frame
       ELSE Return(c)
  /\ NothingElse

\* A buffer that is too small: Pop fails and stores the size that is needed ("told").
PopReadsEnd(c) ==
  LET end == info[frame[c].at.pos].end
      size == Distance(frame[c].at.buf, end)
  IN /\ pc[c] = "popEnd"
     /\ IF frame[c].size < size
          THEN Locally(c, [frame[c] EXCEPT !.told = size], "popTold")
          ELSE Locally(c, [frame[c] EXCEPT !.end = end], "popCas")
     /\ NothingElse

PopTold(c) ==
  /\ pc[c] = "popTold"
  /\ Return(c)
  /\ NothingElse

PopSwaps(c) ==
  /\ pc[c] = "popCas"
  /\ head = frame[c].at
  /\ head' = Advance(frame[c].at, frame[c].end)
  /\ GoTo(c, "popCopy")
  /\ overrun' = [overrun EXCEPT ![c] = FALSE]
  /\ UNCHANGED <<tail, bytes, info, frame, sent, got, claim>>

PopSwapFails(c) ==
  /\ pc[c] = "popCas"
  /\ head # frame[c].at
  /\ Rejoins(c, "popBuf")
  /\ NothingElse

PopCopies(c) ==
  LET from == frame[c].at.buf
      size == Distance(from, frame[c].end)
  IN /\ pc[c] = "popCopy"
     /\ got' = [got EXCEPT ![c] = [k \in 1..size |-> bytes[(from + k - 1) % MaxSize]]]
     /\ GoTo(c, "popClear")
     /\ UNCHANGED <<shared, frame, sent, claim, overrun>>

PopClearsInfo(c) ==
  /\ pc[c] = "popClear"
  /\ info' = [info EXCEPT ![frame[c].at.pos] = EmptyInfo]
  /\ got' = [got EXCEPT ![c] = <<>>]
  /\ overrun' = [overrun EXCEPT ![c] = FALSE]
  /\ Return(c)
  /\ UNCHANGED <<head, tail, bytes, sent, claim>>

--------------------------------------------------------------------------------
PushStep(p) ==
  \/ PushCall(p)       \/ PushReadsBuf(p)  \/ PushReadsPos(p)   \/ PushReadsTail(p)
  \/ PushChecksRoom(p) \/ PushChecksNum(p) \/ PushChecksInfo(p)
  \/ PushSwaps(p)      \/ PushSwapFails(p) \/ PushCopies(p)     \/ PushSetsInfo(p)
PopStep(c) ==
  \/ PopCall(c)        \/ PopReadsBuf(c)   \/ PopReadsPos(c)    \/ PopReadsTail(c)
  \/ PopChecksInfo(c)  \/ PopReadsEnd(c)   \/ PopTold(c)
  \/ PopSwaps(c)       \/ PopSwapFails(c)  \/ PopCopies(c)      \/ PopClearsInfo(c)

Next == (\E p \in Pushers : PushStep(p)) \/ (\E c \in Poppers : PopStep(c))

Spec == Init /\ [][Next]_vars

--------------------------------------------------------------------------------
(* Properties *)

\* Info::Set meets a record that is free and Info::Clear one that is in use: the two
\* "error old-flag" lines of RingBuffer.h never print.
FlagMeetsItsRecord ==
  /\ \A p \in Pushers : pc[p] = "pushSet" => ~info[frame[p].at.pos].flag
  /\ \A c \in Poppers : pc[c] = "popClear" => info[frame[c].at.pos].flag

\* The messages between head and tail, by the records they claimed.
Contents == [i \in 1..Distance(head.pos, tail.pos) |-> claim[(head.pos + i - 1) % MaxSize]]

\* The message that a pop has claimed, before and after it copies.
ClaimOf(c) == claim[frame[c].at.pos]

\* The positions of the bytes and of the records move together: the bytes between head and
\* tail are those of the claimed messages, no more and no fewer, and one byte of the ring
\* stays free.
TotalSize ==
  LET total[i \in 0..Distance(head.pos, tail.pos)] == IF i = 0 THEN 0 ELSE total[i - 1] + Contents[i].size
  IN  total[Distance(head.pos, tail.pos)]
BytesFollowRecords == TotalSize = Distance(head.buf, tail.buf)

\* What Pop hands over is one message, whole, and the one whose turn it was, unless a
\* push has written over its bytes between the swap of the head and the copy: Pop gives
\* the space back before it has copied.
PoppedWhole ==
  \A c \in Poppers : pc[c] = "popClear" => overrun[c] \/ got[c] = BytesOf(ClaimOf(c))

\* With one popping thread, the size that a refused Pop stores is that of the first message.
ToldTheSizeNeeded ==
  \A c \in Poppers : pc[c] = "popTold" =>
    /\ frame[c].told = Contents[1].size
    /\ frame[c].told > frame[c].size

BufferKeepsMessages == FlagMeetsItsRecord /\ BytesFollowRecords /\ PoppedWhole /\ ToldTheSizeNeeded

================================================================================
