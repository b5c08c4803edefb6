---------------------------- MODULE MessageQueue ----------------------------
(***************************************************************************)
(* What the node addon promises of its message queue: what the network     *)
(* thread puts in is handed to JavaScript once, whole and in order, except *)
(* that a message above a certain length may be discarded.                 *)
(***************************************************************************)
EXTENDS Naturals, Sequences

CONSTANT Largest    \* no payload up to this length is ever discarded

VARIABLES
    queue,      \* the messages put in and neither handed over nor discarded
    handed      \* the messages handed over, in order

Init == queue = <<>> /\ handed = <<>>

Put ==
    /\ queue' # <<>>
    /\ queue' = Append(queue, queue'[Len(queue')])
    /\ UNCHANGED handed

Take ==
    /\ queue # <<>>
    /\ queue' = Tail(queue)
    /\ handed' = Append(handed, Head(queue))

Discard ==
    /\ queue # <<>>
    /\ Len(Head(queue).payload) > Largest
    /\ queue' = Tail(queue)
    /\ UNCHANGED handed

Next == Put \/ Take \/ Discard

Spec == Init /\ [][Next]_<<queue, handed>>
=============================================================================
