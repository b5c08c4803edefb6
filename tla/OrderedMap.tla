------------------------------ MODULE OrderedMap ------------------------------
(***************************************************************************)
(* What HashtableT promises: a map of at most Capacity entries that        *)
(* remembers the order in which they were added or moved, and a walk over  *)
(* them that visits every entry once, removing some of them on the way.    *)
(***************************************************************************)
EXTENDS Naturals, Sequences

CONSTANTS Keys, Values, Nothing, Capacity

VARIABLES entries,  \* <<key, value>> in order
          left,     \* what the walk under way has not visited
          result    \* what the last call returned (1 and 0 for TRUE and FALSE)

KeysIn == {entries[i][1] : i \in DOMAIN entries}
EntryOf(k) == CHOOSE e \in {entries[i] : i \in DOMAIN entries} : e[1] = k
Others(k) == SelectSeq(entries, LAMBDA e : e[1] # k)

Init == entries = <<>> /\ left = <<>> /\ result = Nothing

Add(k, v) ==
  /\ left = <<>>
  /\ IF k \in KeysIn \/ Len(entries) = Capacity
       THEN result' = 0 /\ UNCHANGED entries
       ELSE result' = 1 /\ entries' = Append(entries, <<k, v>>)
  /\ UNCHANGED left

Get(k) ==
  /\ left = <<>>
  /\ result' = IF k \in KeysIn THEN EntryOf(k)[2] ELSE Nothing
  /\ UNCHANGED <<entries, left>>

Remove(k) ==
  /\ left = <<>>
  /\ entries' = Others(k)
  /\ result' = Nothing
  /\ UNCHANGED left

Move(k, toFront) ==
  /\ left = <<>>
  /\ k \in KeysIn
  /\ entries' = IF toFront THEN <<EntryOf(k)>> \o Others(k) ELSE Append(Others(k), EntryOf(k))
  /\ result' = Nothing
  /\ UNCHANGED left

CleanUp ==
  /\ left = <<>>
  /\ entries' = <<>>
  /\ result' = Nothing
  /\ UNCHANGED left

WalkBegins ==
  /\ left = <<>>
  /\ left' = entries
  /\ result' = Nothing
  /\ UNCHANGED entries

\* The walk looks at an entry and leaves it, or removes it.
Visit(removes) ==
  /\ left # <<>>
  /\ result' = Head(left)[1]
  /\ left' = Tail(left)
  /\ entries' = IF removes THEN Others(Head(left)[1]) ELSE entries

Next ==
  \/ \E k \in Keys : \/ \E v \in Values : Add(k, v)
                     \/ Get(k) \/ Remove(k)
                     \/ \E toFront \in BOOLEAN : Move(k, toFront)
  \/ CleanUp \/ WalkBegins
  \/ \E removes \in BOOLEAN : Visit(removes)

Spec == Init /\ [][Next]_<<entries, left, result>>
================================================================================
