----------------------------- MODULE MCContainers -----------------------------
(***************************************************************************)
(* The containers of Common side by side: a behaviour works on one of      *)
(* them.  Of Common/LockFree: the ring of words (whose variables are those *)
(* of RingQueue) and the ring of bytes. Then the hash table, the heap, and *)
(* the deque with the object pool.                                         *)
(***************************************************************************)
EXTENDS RingQueue, TLC

CONSTANTS LonePoppers,          \* of the ring of bytes: one thread
          BufferSize, Lengths,  \* its size, and the lengths of its messages
          Objects, PoolCells,   \* objects of the pool, and cells of its deque
          None

VARIABLES which,                                            \* the container in use
          bHead, bTail, bBytes, bInfo, bPc, bFrame, bSent, bGot, bClaim, bOverrun,
          slot, chain, it, result, heap, size, unused, allocated, queue, contents

Buffer == INSTANCE RingBuffer
  WITH Poppers <- LonePoppers, MaxSize <- BufferSize, Sizes <- Lengths, Rooms <- Lengths,
       head <- bHead, tail <- bTail, bytes <- bBytes, info <- bInfo, pc <- bPc, frame <- bFrame,
       sent <- bSent, got <- bGot, claim <- bClaim, overrun <- bOverrun

Table == INSTANCE HashTable
  WITH Keys <- {0, 3, 32, 35}, Values <- {1, 2}, Nothing <- None, Size <- 3

Heap == INSTANCE Heap WITH Numbers <- 1..3, MaxSize <- 4

Pool == INSTANCE ObjectPool WITH MaxSize <- PoolCells, Nobody <- None

bufferVars == <<bHead, bTail, bBytes, bInfo, bPc, bFrame, bSent, bGot, bClaim, bOverrun>>
tableVars == <<slot, chain, it, result>>
heapVars == <<heap, size>>
poolVars == <<unused, allocated, queue, contents>>
allVars == <<which, vars, bufferVars, tableVars, heapVars, poolVars>>

MCInit ==
  /\ which \in {"ring", "buffer", "table", "heap", "pool", "deque"}
  /\ Init /\ Buffer!Init /\ Table!Init /\ Heap!Init /\ Pool!Init

MCNext ==
  /\ \/ which = "ring" /\ Next /\ UNCHANGED <<bufferVars, tableVars, heapVars, poolVars>>
     \/ which = "buffer" /\ Buffer!Next /\ UNCHANGED <<vars, tableVars, heapVars, poolVars>>
     \/ which = "table" /\ Table!Next /\ UNCHANGED <<vars, bufferVars, heapVars, poolVars>>
     \/ which = "heap" /\ Heap!Next /\ UNCHANGED <<vars, bufferVars, tableVars, poolVars>>
     \/ which = "pool" /\ Pool!PoolStep /\ UNCHANGED <<vars, bufferVars, tableVars, heapVars>>
     \/ which = "deque" /\ Pool!DequeStep /\ UNCHANGED <<vars, bufferVars, tableVars, heapVars>>
  /\ UNCHANGED which

MCSpec == MCInit /\ [][MCNext]_allVars

Symmetry == Permutations(Pushers) \cup Permutations(Poppers)

--------------------------------------------------------------------------------
(* Properties, beside ImplementsFifo and FailsForCause of RingQueue *)

\* Messages of the ring of bytes lie end to end between head and tail, no flag of a record
\* is set or cleared twice, a refused Pop stores the size that is needed, and Pop hands
\* over a whole message, the one whose turn it was, unless a push has overwritten it since
\* Pop moved the head (Info and GetFreeSize of RingBuffer.h are there for this).
BufferKeepsMessages == which = "buffer" => Buffer!BufferKeepsMessages

\* Each call of HashtableT does what the call does of a map that remembers the order of
\* insertion, for the key it was made for, whatever has been removed or moved before; and a
\* walk that removes entries visits each of them once. Each call of HeapT adds the number
\* it was given, removes the largest one, or holds those it was built from, and its root is
\* the largest of them.
TableAndHeap ==
  /\ Table!Promise!Init /\ Heap!Promise!Init
  /\ [][/\ which = "table" => Table!CallsAsPromised
        /\ which = "heap" => Heap!CallsAsPromised]_allVars

\* DequeT holds the sequence that was pushed, and the pools that keep their free objects in
\* one never give an object out twice.
DequeAndPool ==
  /\ which = "deque" => Pool!DequeIsSequence
  /\ which = "pool" => Pool!EachObjectOnce
================================================================================
