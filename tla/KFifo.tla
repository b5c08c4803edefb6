------------------------------- MODULE KFifo --------------------------------
(***************************************************************************)
(* kfifo<char> (node_center_client/kfifo.h): a ring of size_ cells with    *)
(* two free-running counters, in_ and out_, of fixed width.  One thread    *)
(* writes in_, another writes out_, each reads the other's without a lock. *)
(* A thread sees the other's stores in the order of the program (the       *)
(* memory order of x86; memcpy through a char pointer may alias the        *)
(* counters, so the compiler keeps the order too).                         *)
(***************************************************************************)
EXTENDS Naturals, Sequences

CONSTANTS
    Size,       \* size_, a power of two
    Wrap        \* the counters wrap at this power of two (2^32)

ASSUME SizeAssumption ==
    /\ Size \in Nat \ {0}
    /\ Wrap \in Nat
    /\ Wrap > Size
    /\ Wrap % Size = 0

VARIABLES
    in_,
    out_,
    elements_   \* [0..Size-1 -> cell]

(* The bytes of a message are the pairs of its number and their offset. *)
NoByte == <<0, 0>>

FifoInit ==
    /\ in_ = 0
    /\ out_ = 0
    /\ elements_ = [i \in 0..Size-1 |-> NoByte]

Length == (in_ + Wrap - out_) % Wrap

Space == (Size + Wrap - Length) % Wrap

(* The index of the cell that counter n is at, and of the k-th after it. *)
Cell(n, k) == (n + k) % Size

(* put() is two steps: the two memcpy, then the counter. *)
CopyIn(bytes) ==
    elements_' = [i \in 0..Size-1 |->
                     IF \E k \in DOMAIN bytes : Cell(in_, k - 1) = i
                       THEN bytes[CHOOSE k \in DOMAIN bytes : Cell(in_, k - 1) = i]
                       ELSE elements_[i]]

AdvanceIn(count) == in_' = (in_ + count) % Wrap

(* in_place_get_advance *)
AdvanceOut(count) == out_' = (out_ + count) % Wrap

(* in_place_get: how many cells there are up to the end of the ring. *)
SizeToWrapAround == Size - Cell(out_, 0)

FifoTypeOK ==
    /\ in_ \in 0..Wrap-1
    /\ out_ \in 0..Wrap-1
    /\ elements_ \in [0..Size-1 -> Nat \X Nat]
    /\ Length <= Size
=============================================================================
