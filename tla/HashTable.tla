------------------------------ MODULE HashTable ------------------------------
(***************************************************************************)
(* HashtableT of Common/Hashtable.h: open addressing with double hashing,  *)
(* removed slots left as markers, and a doubly linked chain (Chain.inl)    *)
(* through the used slots that keeps the order of insertion.  The walk is  *)
(* the loop "it = table.Remove(it) or ++it" of the sweeps over m_Sessions. *)
(***************************************************************************)
EXTENDS Naturals, Sequences

CONSTANTS Keys,    \* unsigned numbers, which are their own hash codes (DefKeyWorkerT)
          Values, Nothing,
          Size     \* m_Count, a prime

VARIABLES slot,    \* m_pTable: status, key and value of each slot
          chain,   \* m_DataChain and the links of the nodes
          it,      \* the iterator of a walk, or NoSlot
          result   \* what the last call returned

vars == <<slot, chain, it, result>>

Slots == 0..(Size - 1)
NoSlot == Size
EmptySlot == [status |-> "empty", key |-> Nothing, value |-> Nothing]
NoChain == [head |-> NoSlot, tail |-> NoSlot, num |-> 0,
            next |-> [c \in Slots |-> NoSlot], prev |-> [c \in Slots |-> NoSlot], in |-> [c \in Slots |-> FALSE]]

Init ==
  /\ slot = [c \in Slots |-> EmptySlot]
  /\ chain = NoChain
  /\ it = NoSlot
  /\ result = Nothing

--------------------------------------------------------------------------------
(* HashtableBase *)

ToIndex(code) == code % Size
Increment(code) == 1 + ((code \div 32 + 1) % (Size - 1))
\* The slots in the order in which they are tried for a key.
Probe(k) == [i \in 1..Size |-> (ToIndex(k) + (i - 1) * Increment(k)) % Size]
First(k, stops) ==
  LET tried == Probe(k)
      hits == {i \in 1..Size : tried[i] \in stops}
  IN IF hits = {} THEN NoSlot ELSE tried[CHOOSE i \in hits : \A j \in hits : i <= j]

\* Mutant: the search ends at a slot whose entry was removed.
FindStopsAtRemoved(k) ==
  LET c == First(k, {d \in Slots : slot[d].status # "used" \/ slot[d].key = k})
  IN IF c # NoSlot /\ slot[c].status = "used" THEN c ELSE NoSlot
Find(k) ==
  LET c == First(k, {d \in Slots : slot[d].status = "empty" \/ (slot[d].status = "used" /\ slot[d].key = k)})
  IN IF c # NoSlot /\ slot[c].status = "used" THEN c ELSE NoSlot

PrepareAddIndex(k) == First(k, {d \in Slots : slot[d].status # "used"})

--------------------------------------------------------------------------------
(* CChain *)

DisConnect(ch, c) ==
  LET n == ch.next[c]
      p == ch.prev[c]
      alone == ch.num = 1
  IN [head |-> IF ch.in[c] /\ (alone \/ ch.head = c) THEN IF alone THEN NoSlot ELSE n ELSE ch.head,
      tail |-> IF ch.in[c] /\ (alone \/ ch.tail = c) THEN IF alone THEN NoSlot ELSE p ELSE ch.tail,
      num |-> IF ch.in[c] THEN ch.num - 1 ELSE ch.num,
      next |-> [d \in Slots |-> IF d = c THEN NoSlot ELSE IF d = p THEN n ELSE ch.next[d]],
      prev |-> [d \in Slots |-> IF d = c THEN NoSlot ELSE IF d = n THEN p ELSE ch.prev[d]],
      in |-> [ch.in EXCEPT ![c] = FALSE]]

AddLast(chained, c) ==
  LET ch == DisConnect(chained, c)
  IN [head |-> IF ch.num = 0 THEN c ELSE ch.head, tail |-> c, num |-> ch.num + 1,
      next |-> [d \in Slots |-> IF ch.num # 0 /\ d = ch.tail THEN c ELSE ch.next[d]],
      prev |-> [ch.prev EXCEPT ![c] = IF ch.num = 0 THEN NoSlot ELSE ch.tail],
      in |-> [ch.in EXCEPT ![c] = TRUE]]

AddFirst(chained, c) ==
  LET ch == DisConnect(chained, c)
  IN [head |-> c, tail |-> IF ch.num = 0 THEN c ELSE ch.tail, num |-> ch.num + 1,
      next |-> [ch.next EXCEPT ![c] = IF ch.num = 0 THEN NoSlot ELSE ch.head],
      prev |-> [d \in Slots |-> IF ch.num # 0 /\ d = ch.head THEN c ELSE ch.prev[d]],
      in |-> [ch.in EXCEPT ![c] = TRUE]]

RemoveAll(ch) ==
  LET rest[i \in 0..Size] ==
        IF i = 0 THEN ch ELSE IF rest[i - 1].head = NoSlot THEN rest[i - 1]
                              ELSE DisConnect(rest[i - 1], rest[i - 1].head)
  IN [rest[Size] EXCEPT !.num = 0]

--------------------------------------------------------------------------------
(* HashtableT *)

Add(k, v) ==
  LET c == PrepareAddIndex(k)
  IN /\ it = NoSlot
     /\ IF Find(k) # NoSlot \/ c = NoSlot
          THEN result' = 0 /\ UNCHANGED <<slot, chain>>
          ELSE /\ slot' = [slot EXCEPT ![c] = [status |-> "used", key |-> k, value |-> v]]
               /\ chain' = AddLast(chain, c)
               /\ result' = 1
     /\ UNCHANGED it

Get(k) ==
  /\ it = NoSlot
  /\ UNCHANGED <<slot, chain, it>>
  /\ result' = IF Find(k) = NoSlot THEN Nothing ELSE slot[Find(k)].value

Erase(c) ==
  /\ slot' = [slot EXCEPT ![c] = [EmptySlot EXCEPT !.status = "removed"]]
  /\ chain' = DisConnect(chain, c)

Remove(k) ==
  /\ it = NoSlot
  /\ UNCHANGED it
  /\ result' = Nothing
  /\ IF Find(k) = NoSlot THEN UNCHANGED <<slot, chain>> ELSE Erase(Find(k))

MoveAsFirst(k) ==
  /\ it = NoSlot
  /\ UNCHANGED <<slot, it>>
  /\ result' = Nothing
  /\ Find(k) # NoSlot
  /\ chain' = AddFirst(DisConnect(chain, Find(k)), Find(k))

MoveAsLast(k) ==
  /\ it = NoSlot
  /\ UNCHANGED <<slot, it>>
  /\ result' = Nothing
  /\ Find(k) # NoSlot
  /\ chain' = AddLast(DisConnect(chain, Find(k)), Find(k))

CleanUp ==
  /\ it = NoSlot
  /\ slot' = [c \in Slots |-> EmptySlot]
  /\ chain' = RemoveAll(chain)
  /\ result' = Nothing
  /\ UNCHANGED it

WalkBegins ==
  /\ it = NoSlot
  /\ it' = chain.head
  /\ result' = Nothing
  /\ UNCHANGED <<slot, chain>>

WalkKeeps ==
  /\ it # NoSlot
  /\ result' = slot[it].key
  /\ it' = chain.next[it]
  /\ UNCHANGED <<slot, chain>>

\* Remove(it) looks the key of the node up again, and returns the node after it.
WalkRemoves ==
  /\ it # NoSlot
  /\ result' = slot[it].key
  /\ it' = chain.next[it]
  /\ Erase(Find(slot[it].key))

Next ==
  \/ \E k \in Keys : \/ \E v \in Values : Add(k, v)
                     \/ Get(k) \/ Remove(k) \/ MoveAsFirst(k) \/ MoveAsLast(k)
  \/ CleanUp \/ WalkBegins \/ WalkKeeps \/ WalkRemoves

Spec == Init /\ [][Next]_vars

--------------------------------------------------------------------------------
\* The entries from a node on, as far as the links of the chain lead.
From(node) ==
  LET at[i \in 0..Size] == IF i = 0 THEN node ELSE IF at[i - 1] = NoSlot THEN NoSlot ELSE chain.next[at[i - 1]]
      length == CHOOSE n \in 0..Size : at[n] = NoSlot /\ \A i \in 0..(n - 1) : at[i] # NoSlot
  IN [i \in 1..length |-> <<slot[at[i - 1]].key, slot[at[i - 1]].value>>]

Promise == INSTANCE OrderedMap WITH Capacity <- Size, entries <- From(chain.head), left <- From(it)

\* A step that is a call of the table is the same call, for the same key and value, of the
\* map: that it is some call of the map would let it act on another key, or on none.
CallsAsPromised ==
  /\ \A k \in Keys :
       /\ \A v \in Values : Add(k, v) => Promise!Add(k, v)
       /\ Get(k) => Promise!Get(k)
       /\ Remove(k) => Promise!Remove(k)
       /\ MoveAsFirst(k) => Promise!Move(k, TRUE)
       /\ MoveAsLast(k) => Promise!Move(k, FALSE)
  /\ CleanUp => Promise!CleanUp
  /\ WalkBegins => Promise!WalkBegins
  /\ WalkKeeps => Promise!Visit(FALSE)
  /\ WalkRemoves => Promise!Visit(TRUE)

================================================================================
