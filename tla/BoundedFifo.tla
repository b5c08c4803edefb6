------------------------------ MODULE BoundedFifo ------------------------------
(***************************************************************************)
(* What a queue of Common/LockFree promises to the threads that share it:  *)
(* a value that was pushed is taken once, by one thread, in the order in   *)
(* which the pushes took effect, and no more than Capacity values wait.    *)
(* A call that fails changes nothing.                                      *)
(***************************************************************************)
EXTENDS Naturals, Sequences

CONSTANTS Pushers, Poppers,  \* the threads, by what they call
          Values,
          NoValue,
          Capacity

VARIABLES queue,    \* the values that wait
          sending,  \* the value each pusher is pushing, or NoValue
          accepted, \* how many values each pusher was told are in the queue
          held      \* the value each popper took last, or NoValue

vars == <<queue, sending, accepted, held>>

Init ==
  /\ queue = <<>>
  /\ sending = [p \in Pushers |-> NoValue]
  /\ accepted = [p \in Pushers |-> 0]
  /\ held = [c \in Poppers |-> NoValue]

Call(p) ==
  /\ sending[p] = NoValue
  /\ \E v \in Values : sending' = [sending EXCEPT ![p] = v]
  /\ UNCHANGED <<queue, accepted, held>>

Enqueue(p) ==
  /\ sending[p] # NoValue
  /\ Len(queue) < Capacity
  /\ queue' = Append(queue, sending[p])
  /\ sending' = [sending EXCEPT ![p] = NoValue]
  /\ accepted' = [accepted EXCEPT ![p] = @ + 1]
  /\ UNCHANGED held

Fail(p) ==
  /\ sending[p] # NoValue
  /\ sending' = [sending EXCEPT ![p] = NoValue]
  /\ UNCHANGED <<queue, accepted, held>>

Dequeue(c) ==
  /\ queue # <<>>
  /\ held' = [held EXCEPT ![c] = Head(queue)]
  /\ queue' = Tail(queue)
  /\ UNCHANGED <<sending, accepted>>

Next ==
  \/ \E p \in Pushers : Call(p) \/ Enqueue(p) \/ Fail(p)
  \/ \E c \in Poppers : Dequeue(c)

Spec == Init /\ [][Next]_vars
================================================================================
