-------------------------- MODULE NodeAddonProofs ---------------------------
(* Proofs about NodeAddon, for a fifo of any size and messages of any      *)
(* length that fits: the library is released when no thread uses it, and   *)
(* messages go through the fifo whole and in order.                        *)
EXTENDS NodeAddon, TLAPS

(* A network thread that runs has a handle, so core_start starts no second *)
(* one and core_quit joins it, and the library it uses is live.            *)
OneNetworkThread ==
    net \notin {"off", "ended"} => g_ThreadHandle /\ library = "live"

LEMMA NetStepKeeps ==
    ASSUME OneNetworkThread, NetStep
    PROVE  OneNetworkThread'
<1>1. net \notin {"off", "ended"} /\ UNCHANGED controlVars
  BY DEF NetStep, NetTop, NetTickEnds, NetReceives, NetHasRoom, NetCopiesHead,
         NetPutsHead, NetCopiesPayload, NetPutsPayload
<1>2. QED
  BY <1>1 DEF OneNetworkThread, controlVars

LEMMA StepKeeps ==
    ASSUME OneNetworkThread, [Next]_vars
    PROVE  OneNetworkThread'
<1>1. CASE NetStep
  BY <1>1, NetStepKeeps
<1>2. CASE JsStart
  BY <1>2 DEF JsStart, OneNetworkThread
<1>3. CASE JsQuit
  BY <1>3 DEF JsQuit, OneNetworkThread
<1>4. CASE JsStep
  <2>1. CASE JsJoined
    BY <2>1 DEF JsJoined, OneNetworkThread
  <2>2. CASE JsProcess \/ JsLook \/ JsSize \/ JsCall \/ JsAdvance
    BY <2>2 DEF JsProcess, JsLook, JsSize, JsCall, JsAdvance, controlVars, OneNetworkThread
  <2>3. QED
    BY <1>4, <2>1, <2>2 DEF JsStep
<1>5. CASE JsThrows
  BY <1>5 DEF JsThrows, controlVars, OneNetworkThread
<1>6. CASE UNCHANGED vars
  BY <1>6 DEF vars, controlVars, OneNetworkThread
<1>7. QED
  BY <1>1, <1>2, <1>3, <1>4, <1>5, <1>6 DEF Next

(* core_quit deletes the library only when no network thread uses it,      *)
(* whether it is called by the application or from a message's callback,   *)
(* and however often the addon is started and quit.                        *)
THEOREM Released == Spec => []ReleasedWhenUnused
<1>1. Init => OneNetworkThread
  BY DEF Init, OneNetworkThread
<1>2. OneNetworkThread /\ [Next]_vars => OneNetworkThread'
  BY StepKeeps
<1>3. OneNetworkThread => ReleasedWhenUnused
  BY DEF OneNetworkThread, ReleasedWhenUnused
<1>4. QED
  BY <1>1, <1>2, <1>3, PTL DEF Spec

-----------------------------------------------------------------------------
(* The inductive invariant of the fifo. *)

Pushing == net \in {"room", "copyHead", "headIn", "copyPayload", "payloadIn"}
Handling == js \in {"size", "call", "called", "tooLarge", "joinInCall"}

Counts ==
    /\ Pushing => Current > 0
    /\ accepted = IF Pushing THEN Current - 1 ELSE Current
    /\ settled <= accepted
    /\ Handling => settled < accepted /\ ct < PerTick
    /\ \A m \in 1..Current : pushed[m] \in Lengths

(* Once the network thread has found room for its message, it has it.      *)
Room ==
    /\ net \in {"copyHead", "headIn"} => Length + MessageSize(Current) <= Size
    /\ net \in {"copyPayload", "payloadIn"} => Length + pushed[Current] <= Size

(* What is shown to JavaScript, or passed over. *)
Shown ==
    /\ js \in {"called", "joinInCall"} =>
           message = [head |-> settled + 1, payload |-> PayloadBytes(settled + 1)]
    /\ js = "tooLarge" => MessageSize(settled + 1) > MaxPacketSize

(* at[m] is the number of bytes that were put in before message m.  So     *)
(* many are counted by in_ in all, and so many are in their cells.         *)
Written(at) ==
    IF net \in {"room", "copyHead", "headIn"} THEN at[Current]
    ELSE IF net \in {"copyPayload", "payloadIn"} THEN at[Current] + HeadSize
    ELSE at[Current + 1]
Stored(at) ==
    IF net = "headIn" THEN at[Current] + HeadSize
    ELSE IF net = "payloadIn" THEN at[Current + 1]
    ELSE Written(at)

(* The messages lie end to end, the first at out_, and every byte that is  *)
(* stored and not yet taken is in its cell.                                *)
Placed(at) ==
    /\ at \in [1..(Current + 1) -> Nat]
    /\ \A m \in 1..Current : at[m + 1] = at[m] + MessageSize(m)
    /\ \A m, n \in 1..(Current + 1) : m < n => at[m] + MessageSize(m) <= at[n]
    /\ Written(at) = at[settled + 1] + Length
    /\ \A m \in (settled + 1)..Current : \A k \in 0..(MessageSize(m) - 1) :
           at[m] + k < Stored(at) => elements_[Cell(out_, at[m] + k - at[settled + 1])] = <<m, k>>

FInv ==
    /\ TypeOK
    /\ OneNetworkThread
    /\ Counts
    /\ Room
    /\ Shown
    /\ \E at : Placed(at)

-----------------------------------------------------------------------------
(* The counters and the cells. *)

LEMMA DivMod ==
    ASSUME NEW n \in Nat \ {0}, NEW x \in Nat
    PROVE  /\ x % n \in 0..(n - 1) /\ x \div n \in Nat
           /\ x = (x \div n) * n + (x % n)
BY SMT

LEMMA ModUnique ==
    ASSUME NEW n \in Nat \ {0}, NEW a \in Nat, NEW c \in Nat,
           NEW b \in 0..(n - 1), NEW d \in 0..(n - 1), a * n + b = c * n + d
    PROVE  a = c /\ b = d
<1>1. ASSUME NEW e \in Nat, NEW f \in Nat, e < f
      PROVE  e * n + n <= f * n
  <2>1. f = e + 1 + (f - e - 1) /\ f - e - 1 \in Nat
    BY <1>1
  <2>2. \A g \in Nat : (e + 1 + g) * n = e * n + n + g * n /\ g * n >= 0
    BY SMT
  <2> QED
    BY <2>1, <2>2
<1>2. a * n \in Nat /\ c * n \in Nat /\ b < n /\ d < n /\ b >= 0 /\ d >= 0
  BY SMT
<1>3. ~(a < c) /\ ~(c < a)
  BY <1>1, <1>2
<1>4. a = c
  BY <1>3
<1> QED
  BY <1>2, <1>4

(* Equal remainders are a whole number of rounds apart. *)
LEMMA CellsApart ==
    ASSUME NEW x \in Nat, NEW y \in Nat, x < y, y - x < Size
    PROVE  x % Size # y % Size
<1> SUFFICES ASSUME x % Size = y % Size PROVE FALSE
  OBVIOUS
<1> PICK p : p = x \div Size
  OBVIOUS
<1> PICK q : q = y \div Size
  OBVIOUS
<1> PICK r : r = x % Size
  OBVIOUS
<1>1. Size \in Nat \ {0} /\ p \in Nat /\ q \in Nat /\ r \in Nat /\ x = p * Size + r /\ y = q * Size + r
  <2>1. Size \in Nat \ {0}
    BY SizeAssumption
  <2>2. /\ x % Size \in 0..(Size - 1) /\ x \div Size \in Nat
        /\ x = (x \div Size) * Size + (x % Size)
    BY <2>1, DivMod
  <2>3. y \div Size \in Nat /\ y = (y \div Size) * Size + (y % Size)
    BY <2>1, DivMod
  <2> QED
    BY <2>1, <2>2, <2>3
<1>2. p < q \/ q <= p
  BY <1>1
<1>3. ASSUME NEW e \in Nat, NEW f \in Nat, e < f PROVE e * Size + Size <= f * Size
  <2>1. f = e + 1 + (f - e - 1) /\ f - e - 1 \in Nat
    BY <1>3
  <2>2. \A g \in Nat : (e + 1 + g) * Size = e * Size + Size + g * Size /\ g * Size >= 0
    BY SizeAssumption, SMT
  <2> QED
    BY <1>1, <2>1, <2>2
<1>4. p * Size \in Nat /\ q * Size \in Nat
  BY <1>1
<1> QED
  BY <1>1, <1>2, <1>3, <1>4

LEMMA CellWraps ==
    ASSUME NEW x \in Nat, x >= Wrap
    PROVE  (x - Wrap) % Size = x % Size
<1> PICK y : y = x - Wrap
  OBVIOUS
<1> PICK q : q = y \div Size
  OBVIOUS
<1> PICK r : r = y % Size
  OBVIOUS
<1> PICK w : w = Wrap \div Size
  OBVIOUS
<1> PICK u : u = x \div Size
  OBVIOUS
<1> PICK v : v = x % Size
  OBVIOUS
<1>1. Size \in Nat \ {0} /\ Wrap \in Nat /\ Wrap % Size = 0 /\ y \in Nat /\ x = y + Wrap
  BY SizeAssumption
<1>2. q \in Nat /\ r \in 0..(Size - 1) /\ y = q * Size + r
  BY <1>1, DivMod
<1>3. w \in Nat /\ Wrap = w * Size + 0
  BY <1>1, DivMod
<1>4. u \in Nat /\ v \in 0..(Size - 1) /\ x = u * Size + v
  BY <1>1, DivMod
<1>5. q + w \in Nat /\ (q + w) * Size + r = u * Size + v
  <2> PICK a : a = q * Size
    OBVIOUS
  <2> PICK b : b = w * Size
    OBVIOUS
  <2> PICK c : c = u * Size
    OBVIOUS
  <2>1. (q + w) * Size = a + b /\ a \in Nat /\ b \in Nat /\ c \in Nat
    BY <1>1, <1>2, <1>3, <1>4
  <2>2. y = a + r /\ Wrap = b /\ x = c + v
    BY <1>2, <1>3, <1>4, <2>1
  <2> QED
    BY <1>1, <1>2, <1>3, <1>4, <2>1, <2>2
<1>6. r = v
  <2> PICK z : z = q + w
    OBVIOUS
  <2>1. z \in Nat /\ z * Size + r = u * Size + v
    BY <1>5
  <2> HIDE <1>5
  <2>2. Size \in Nat \ {0} /\ u \in Nat /\ r \in 0..(Size - 1) /\ v \in 0..(Size - 1)
    BY <1>1, <1>2, <1>4
  <2> QED
    BY <2>1, <2>2, ModUnique
<1> QED
  BY <1>6

LEMMA WrapOnce ==
    ASSUME NEW x \in Nat, x < 2 * Wrap
    PROVE  x % Wrap = IF x < Wrap THEN x ELSE x - Wrap
<1>1. Wrap \in Nat \ {0}
  BY SizeAssumption
<1>2. CASE x < Wrap
  BY <1>1, <1>2, SMT
<1>3. CASE Wrap <= x
  BY <1>1, <1>3, SMT
<1> QED
  BY <1>1, <1>2, <1>3

LEMMA Distance ==
    ASSUME NEW i \in 0..(Wrap - 1), NEW o \in 0..(Wrap - 1)
    PROVE  (i + Wrap - o) % Wrap = IF i >= o THEN i - o ELSE i + Wrap - o
<1>1. Wrap \in Nat \ {0}
  BY SizeAssumption
<1> PICK x : x = i + Wrap - o
  OBVIOUS
<1>2. x \in Nat /\ x < 2 * Wrap
  BY <1>1
<1> QED
  BY <1>1, <1>2, WrapOnce

LEMMA LengthValue ==
    ASSUME in_ \in 0..(Wrap - 1), out_ \in 0..(Wrap - 1)
    PROVE  Length = IF in_ >= out_ THEN in_ - out_ ELSE in_ + Wrap - out_
BY Distance DEF Length

LEMMA LengthValueNext ==
    ASSUME NEW i \in 0..(Wrap - 1), NEW o \in 0..(Wrap - 1), in_' = i, out_' = o
    PROVE  Length' = IF i >= o THEN i - o ELSE i + Wrap - o
<1>1. Length' = (i + Wrap - o) % Wrap
  BY DEF Length
<1> QED
  BY <1>1, Distance

LEMMA SpaceValue ==
    ASSUME FifoTypeOK
    PROVE  Space = Size - Length /\ Length \in 0..Size
<1>1. Wrap \in Nat \ {0} /\ Size \in Nat \ {0} /\ Size < Wrap
  BY SizeAssumption
<1>2. Length \in 0..Size
  BY <1>1, LengthValue DEF FifoTypeOK
<1> PICK x : x = Size + Wrap - Length
  OBVIOUS
<1>3. x \in Nat /\ x < 2 * Wrap /\ Wrap <= x /\ Space = x % Wrap
  BY <1>1, <1>2 DEF Space
<1> QED
  BY <1>1, <1>2, <1>3, WrapOnce

(* A counter after the next. *)
LEMMA Advanced ==
    ASSUME NEW n \in 0..(Wrap - 1), NEW c \in 0..Size
    PROVE  /\ (n + c) % Wrap = IF n + c < Wrap THEN n + c ELSE n + c - Wrap
           /\ (n + c) % Wrap \in 0..(Wrap - 1)
           /\ \A k \in Nat : Cell((n + c) % Wrap, k) = Cell(n, c + k)
<1>1. Wrap \in Nat \ {0} /\ n \in Nat /\ c \in Nat /\ Size < Wrap /\ Size \in Nat
  BY SizeAssumption
<1> PICK x : x = n + c
  OBVIOUS
<1>2. x \in Nat /\ x < 2 * Wrap /\ x % Wrap = IF x < Wrap THEN x ELSE x - Wrap
  BY <1>1, WrapOnce
<1>3. ASSUME NEW k \in Nat PROVE Cell(x % Wrap, k) = Cell(n, c + k)
  <2>1. CASE x < Wrap
    BY <1>1, <1>2, <2>1 DEF Cell
  <2>2. CASE ~(x < Wrap)
    <3>1. (x % Wrap) + k = (x + k) - Wrap /\ x + k \in Nat /\ x + k >= Wrap /\ n + (c + k) = x + k
      BY <1>1, <1>2, <2>2
    <3> QED
      BY <3>1, CellWraps DEF Cell
  <2> QED
    BY <2>1, <2>2
<1> QED
  BY <1>1, <1>2, <1>3

(* put() and in_place_get_advance() in terms of the length. *)
LEMMA PutLength ==
    ASSUME FifoTypeOK, NEW c \in Nat, Length + c <= Size, AdvanceIn(c), UNCHANGED out_
    PROVE  in_' \in 0..(Wrap - 1) /\ Length' = Length + c
<1>1. Wrap \in Nat \ {0} /\ Size \in Nat /\ Size < Wrap /\ Length \in 0..Size /\ c \in 0..Size
  BY SizeAssumption, SpaceValue
<1>2. in_ \in 0..(Wrap - 1) /\ out_ \in 0..(Wrap - 1)
  BY DEF FifoTypeOK
<1> PICK i : i = (in_ + c) % Wrap
  OBVIOUS
<1>3. in_' = i /\ i \in 0..(Wrap - 1) /\ i = IF in_ + c < Wrap THEN in_ + c ELSE in_ + c - Wrap
  BY <1>1, <1>2, Advanced DEF AdvanceIn
<1>4. Length = IF in_ >= out_ THEN in_ - out_ ELSE in_ + Wrap - out_
  BY <1>2, LengthValue
<1>5. Length' = IF i >= out_ THEN i - out_ ELSE i + Wrap - out_
  BY <1>2, <1>3, LengthValueNext
<1>6. (IF i >= out_ THEN i - out_ ELSE i + Wrap - out_) = Length + c
  <2>1. CASE in_ + c < Wrap
    BY <1>1, <1>2, <1>3, <1>4, <2>1
  <2>2. CASE ~(in_ + c < Wrap)
    BY <1>1, <1>2, <1>3, <1>4, <2>2
  <2> QED
    BY <2>1, <2>2
<1> QED
  BY <1>3, <1>5, <1>6

LEMMA TakeLength ==
    ASSUME FifoTypeOK, NEW c \in 0..Length, AdvanceOut(c), UNCHANGED in_
    PROVE  /\ out_' \in 0..(Wrap - 1) /\ Length' = Length - c
           /\ \A k \in Nat : Cell(out_', k) = Cell(out_, c + k)
<1>1. Wrap \in Nat \ {0} /\ Size < Wrap /\ Length \in 0..Size /\ c \in 0..Size
  BY SizeAssumption, SpaceValue
<1>2. in_ \in 0..(Wrap - 1) /\ out_ \in 0..(Wrap - 1)
  BY DEF FifoTypeOK
<1> PICK o : o = (out_ + c) % Wrap
  OBVIOUS
<1>3. out_' = o /\ o \in 0..(Wrap - 1) /\ o = IF out_ + c < Wrap THEN out_ + c ELSE out_ + c - Wrap
  BY <1>1, <1>2, Advanced DEF AdvanceOut
<1>4. \A k \in Nat : Cell(out_', k) = Cell(out_, c + k)
  BY <1>1, <1>2, <1>3, Advanced
<1>5. Length = IF in_ >= out_ THEN in_ - out_ ELSE in_ + Wrap - out_
  BY <1>2, LengthValue
<1>6. Length' = IF in_ >= o THEN in_ - o ELSE in_ + Wrap - o
  BY <1>2, <1>3, LengthValueNext
<1> QED
  BY <1>1, <1>2, <1>3, <1>4, <1>5, <1>6

(* The cells from in_ on are those from out_ on after the length. *)
LEMMA CellOfIn ==
    ASSUME FifoTypeOK, NEW k \in Nat
    PROVE  Cell(in_, k) = Cell(out_, Length + k)
<1>1. Wrap \in Nat \ {0} /\ Length \in 0..Size /\ in_ \in 0..(Wrap - 1) /\ out_ \in 0..(Wrap - 1)
  BY SizeAssumption, SpaceValue DEF FifoTypeOK
<1>2. CASE in_ >= out_
  BY <1>1, <1>2, LengthValue DEF Cell
<1>3. CASE ~(in_ >= out_)
  <2>1. out_ + (Length + k) = in_ + k + Wrap /\ in_ + k + Wrap \in Nat /\ in_ + k \in Nat
    BY <1>1, <1>3, LengthValue
  <2>2. (in_ + k + Wrap) - Wrap = in_ + k /\ in_ + k + Wrap >= Wrap
    BY <1>1, <2>1
  <2> QED
    BY <2>1, <2>2, CellWraps DEF Cell
<1> QED
  BY <1>2, <1>3

LEMMA CellFacts ==
    ASSUME NEW n \in Nat, NEW k \in Nat
    PROVE  /\ Cell(n, k) \in 0..(Size - 1)
           /\ \A l \in Nat : k < l /\ l - k < Size => Cell(n, k) # Cell(n, l)
<1>1. Size \in Nat \ {0} /\ n + k \in Nat
  BY SizeAssumption
<1>2. (n + k) % Size \in 0..(Size - 1)
  BY <1>1, DivMod
<1>3. ASSUME NEW l \in Nat, k < l, l - k < Size PROVE (n + k) % Size # (n + l) % Size
  <2>1. n + l \in Nat /\ n + k < n + l /\ (n + l) - (n + k) < Size
    BY <1>1, <1>3
  <2> QED
    BY <1>1, <2>1, CellsApart
<1> QED
  BY <1>2, <1>3 DEF Cell

(* What the copying of n bytes does to the cells. *)
LEMMA CopyEffect ==
    ASSUME FifoTypeOK, NEW n \in Nat, Length + n <= Size,
           NEW bytes \in [1..n -> Nat \X Nat], CopyIn(bytes)
    PROVE  /\ elements_' \in [0..(Size - 1) -> Nat \X Nat]
           /\ \A k \in 0..(n - 1) : elements_'[Cell(out_, Length + k)] = bytes[k + 1]
           /\ \A d \in 0..(Length - 1) : elements_'[Cell(out_, d)] = elements_[Cell(out_, d)]
<1>1. /\ Size \in Nat \ {0} /\ Length \in 0..Size /\ in_ \in Nat /\ out_ \in Nat
      /\ elements_ \in [0..(Size - 1) -> Nat \X Nat]
  BY SizeAssumption, SpaceValue DEF FifoTypeOK
<1>2. DOMAIN bytes = 1..n
  OBVIOUS
<1>3. \A k \in 1..n, l \in 1..n : Cell(in_, k - 1) = Cell(in_, l - 1) => k = l
  <2> SUFFICES ASSUME NEW k \in 1..n, NEW l \in 1..n, k < l PROVE Cell(in_, k - 1) # Cell(in_, l - 1)
    BY <1>1
  <2> QED
    BY <1>1, CellFacts
<1>4. \A k \in 1..n : Cell(in_, k - 1) \in 0..(Size - 1)
  <2>1. \A k \in 1..n : k - 1 \in Nat
    OBVIOUS
  <2> QED
    BY <1>1, <2>1, CellFacts
<1>5. \A k \in 1..n : elements_'[Cell(in_, k - 1)] = bytes[k]
  <2> SUFFICES ASSUME NEW k \in 1..n PROVE elements_'[Cell(in_, k - 1)] = bytes[k]
    OBVIOUS
  <2> PICK i : i = Cell(in_, k - 1)
    OBVIOUS
  <2> DEFINE l == CHOOSE j \in 1..n : Cell(in_, j - 1) = i
  <2>1. l \in 1..n /\ Cell(in_, l - 1) = i
    OBVIOUS
  <2>2. elements_'[i] = bytes[l]
    BY <1>2, <1>4 DEF CopyIn
  <2> HIDE DEF l
  <2> QED
    BY <1>3, <2>1, <2>2
<1>6. \A i \in 0..(Size - 1) : (\A k \in 1..n : Cell(in_, k - 1) # i) => elements_'[i] = elements_[i]
  BY <1>2 DEF CopyIn
<1>7. \A k \in 0..(n - 1) : elements_'[Cell(out_, Length + k)] = bytes[k + 1]
  <2> SUFFICES ASSUME NEW k \in 0..(n - 1) PROVE elements_'[Cell(out_, Length + k)] = bytes[k + 1]
    OBVIOUS
  <2>1. k + 1 \in 1..n /\ (k + 1) - 1 = k /\ k \in Nat
    BY <1>1
  <2>2. Cell(in_, k) = Cell(out_, Length + k)
    BY <2>1, CellOfIn
  <2>3. elements_'[Cell(in_, (k + 1) - 1)] = bytes[k + 1]
    BY <1>5, <2>1
  <2> QED
    BY <2>1, <2>2, <2>3
<1>8. \A d \in 0..(Length - 1) : elements_'[Cell(out_, d)] = elements_[Cell(out_, d)]
  <2> SUFFICES ASSUME NEW d \in 0..(Length - 1)
               PROVE  elements_'[Cell(out_, d)] = elements_[Cell(out_, d)]
    OBVIOUS
  <2>1. \A k \in 1..n : Cell(in_, k - 1) # Cell(out_, d)
    <3> SUFFICES ASSUME NEW k \in 1..n PROVE Cell(in_, k - 1) # Cell(out_, d)
      OBVIOUS
    <3>1. Cell(in_, k - 1) = Cell(out_, Length + (k - 1)) /\ d \in Nat /\ Length + (k - 1) \in Nat
          /\ d < Length + (k - 1) /\ Length + (k - 1) - d < Size
      BY <1>1, CellOfIn
    <3> QED
      BY <1>1, <3>1, CellFacts
  <2>2. Cell(out_, d) \in 0..(Size - 1)
    <3>1. d \in Nat
      BY <1>1
    <3> QED
      BY <1>1, <3>1, CellFacts
  <2> QED
    BY <1>6, <2>1, <2>2
<1>9. elements_' \in [0..(Size - 1) -> Nat \X Nat]
  <2> SUFFICES ASSUME NEW i \in 0..(Size - 1) PROVE elements_'[i] \in Nat \X Nat
    BY DEF CopyIn
  <2>1. CASE \E k \in 1..n : Cell(in_, k - 1) = i
    <3> PICK k \in 1..n : Cell(in_, k - 1) = i
      BY <2>1
    <3>1. elements_'[i] = bytes[k] /\ bytes[k] \in Nat \X Nat
      BY <1>5
    <3> QED
      BY <3>1
  <2>2. CASE \A k \in 1..n : Cell(in_, k - 1) # i
    BY <1>1, <1>6, <2>2
  <2> QED
    BY <2>1, <2>2
<1> QED
  BY <1>7, <1>8, <1>9

-----------------------------------------------------------------------------
(* Messages in the fifo. *)

LEMMA Sizes ==
    ASSUME FInv
    PROVE  /\ FifoTypeOK /\ Length \in 0..Size /\ Space = Size - Length /\ Size \in Nat
           /\ HeadSize \in Nat \ {0} /\ Current \in Nat /\ pushed \in Seq(Nat)
           /\ accepted \in Nat /\ settled \in Nat
           /\ \A m \in 1..Current :
                 /\ pushed[m] \in Nat /\ MessageSize(m) = HeadSize + pushed[m]
                 /\ MessageSize(m) \in Nat /\ MessageSize(m) <= Size
<1>1. FifoTypeOK /\ pushed \in Seq(Nat) /\ HeadSize \in Nat \ {0} /\ Current \in Nat
      /\ accepted \in Nat /\ settled \in Nat
  BY AddonAssumption DEF FInv, TypeOK, Current
<1>2. Length \in 0..Size /\ Space = Size - Length /\ Size \in Nat
  BY <1>1, SpaceValue, SizeAssumption
<1>3. \A m \in 1..Current : pushed[m] \in Nat /\ HeadSize + pushed[m] <= Size
  BY AddonAssumption DEF FInv, Counts
<1> QED
  BY <1>1, <1>2, <1>3 DEF MessageSize

LEMMA BytesType ==
    ASSUME FInv, NEW m \in 1..Current
    PROVE  /\ HeadBytes(m) \in [1..HeadSize -> Nat \X Nat]
           /\ \A k \in 1..HeadSize : HeadBytes(m)[k] = <<m, k - 1>>
           /\ PayloadBytes(m) \in [1..pushed[m] -> Nat \X Nat]
           /\ \A k \in 1..pushed[m] : PayloadBytes(m)[k] = <<m, HeadSize + k - 1>>
           /\ PayloadBytes(m) \in Seq(Nat \X Nat) /\ Len(PayloadBytes(m)) = pushed[m]
<1>1. /\ HeadSize \in Nat \ {0} /\ Current \in Nat /\ pushed[m] \in Nat
      /\ MessageSize(m) - HeadSize = pushed[m] /\ HeadSize - 0 = HeadSize
  BY Sizes
<1>2. /\ HeadBytes(m) = [k \in 1..HeadSize |-> <<m, 0 + k - 1>>]
      /\ PayloadBytes(m) = [k \in 1..pushed[m] |-> <<m, HeadSize + k - 1>>]
  BY <1>1 DEF HeadBytes, PayloadBytes, Bytes
<1>3. /\ \A k \in 1..HeadSize : 0 + k - 1 = k - 1 /\ k - 1 \in Nat
      /\ \A k \in 1..pushed[m] : HeadSize + k - 1 \in Nat
      /\ m \in Nat
  BY <1>1
<1>4. /\ HeadBytes(m) \in [1..HeadSize -> Nat \X Nat]
      /\ \A k \in 1..HeadSize : HeadBytes(m)[k] = <<m, k - 1>>
  BY <1>2, <1>3
<1>5. /\ PayloadBytes(m) \in [1..pushed[m] -> Nat \X Nat]
      /\ \A k \in 1..pushed[m] : PayloadBytes(m)[k] = <<m, HeadSize + k - 1>>
  BY <1>2, <1>3
<1>6. ASSUME NEW S, NEW n \in Nat, NEW f \in [1..n -> S] PROVE f \in Seq(S) /\ Len(f) = n
  OBVIOUS
<1>7. PayloadBytes(m) \in Seq(Nat \X Nat) /\ Len(PayloadBytes(m)) = pushed[m]
  BY <1>1, <1>5, <1>6
<1> QED
  BY <1>4, <1>5, <1>7

(* Where the messages are between what is taken and what is written. *)
LEMMA Extents ==
    ASSUME FInv, NEW at, Placed(at)
    PROVE  /\ \A m \in 1..(Current + 1) : at[m] \in Nat
           /\ Written(at) \in Nat /\ Stored(at) \in Nat /\ Written(at) <= Stored(at)
           /\ \A m \in 1..accepted : at[m] + MessageSize(m) <= Written(at)
           /\ \A m \in (settled + 1)..(Current + 1) : at[settled + 1] <= at[m]
           /\ settled + 1 \in 1..(Current + 1)
<1>1. \A m \in 1..(Current + 1) : at[m] \in Nat
  BY DEF Placed
<1>2. settled + 1 \in 1..(Current + 1) /\ settled <= accepted /\ accepted <= Current
  BY Sizes DEF FInv, Counts
<1>3. ASSUME Pushing
      PROVE  /\ Current \in 1..Current /\ Current \in 1..(Current + 1)
             /\ at[Current] + HeadSize <= at[Current + 1]
  <2>1. Current > 0 /\ Current \in Nat
    BY <1>3, Sizes DEF FInv, Counts
  <2>2. Current \in 1..Current /\ Current \in 1..(Current + 1)
    BY <2>1
  <2>3. at[Current + 1] = at[Current] + MessageSize(Current)
    BY <2>2 DEF Placed
  <2>4. MessageSize(Current) = HeadSize + pushed[Current] /\ pushed[Current] \in Nat
    BY <2>2, Sizes
  <2>5. at[Current] \in Nat /\ HeadSize \in Nat
    BY <1>1, <2>2, Sizes
  <2>6. \A x, y, h, p \in Nat : x + h <= x + (h + p)
    OBVIOUS
  <2>7. at[Current] + HeadSize <= at[Current] + (HeadSize + pushed[Current])
    BY <2>4, <2>5, <2>6
  <2> QED
    BY <2>2, <2>3, <2>4, <2>7
<1>4. Current + 1 \in 1..(Current + 1)
  BY Sizes
<1>5. Written(at) \in Nat /\ Stored(at) \in Nat /\ Written(at) <= Stored(at)
  <2>1. at[Current + 1] \in Nat
    BY <1>1, <1>4
  <2>2. CASE Pushing
    <3>1. at[Current] \in Nat /\ at[Current] + HeadSize \in Nat /\ at[Current] <= at[Current] + HeadSize
          /\ at[Current] + HeadSize <= at[Current + 1]
      BY <1>1, <1>3, <2>2, Sizes
    <3> QED
      BY <2>1, <2>2, <3>1 DEF Written, Stored, Pushing
  <2>3. CASE ~Pushing
    BY <2>1, <2>3 DEF Written, Stored, Pushing
  <2> QED
    BY <2>2, <2>3
<1>6. \A m \in 1..accepted : at[m] + MessageSize(m) <= Written(at)
  <2> SUFFICES ASSUME NEW m \in 1..accepted PROVE at[m] + MessageSize(m) <= Written(at)
    OBVIOUS
  <2>1. CASE Pushing
    <3>1. m < Current /\ m \in 1..(Current + 1) /\ Current \in 1..(Current + 1)
      BY <1>2, <1>3, <2>1, Sizes DEF FInv, Counts
    <3>2. at[m] + MessageSize(m) <= at[Current]
      BY <3>1 DEF Placed
    <3>3. at[Current] \in Nat /\ at[Current] <= Written(at)
      BY <1>1, <2>1, <3>1, Sizes DEF Written, Pushing
    <3>4. at[m] \in Nat /\ MessageSize(m) \in Nat
      BY <1>1, <3>1, Sizes
    <3> QED
      BY <1>5, <3>2, <3>3, <3>4
  <2>2. CASE ~Pushing
    <3>1. m < Current + 1 /\ m \in 1..(Current + 1) /\ Written(at) = at[Current + 1]
      BY <1>2, <2>2, Sizes DEF Written, Pushing
    <3> QED
      BY <1>4, <3>1 DEF Placed
  <2> QED
    BY <2>1, <2>2
<1>7. \A m \in (settled + 1)..(Current + 1) : at[settled + 1] <= at[m]
  <2> SUFFICES ASSUME NEW m \in (settled + 1)..(Current + 1) PROVE at[settled + 1] <= at[m]
    OBVIOUS
  <2>1. CASE m = settled + 1
    BY <1>1, <1>2, <2>1
  <2>2. CASE m # settled + 1
    <3>1. settled + 1 < m /\ m \in 1..(Current + 1) /\ settled + 1 \in 1..Current
      BY <1>2, <2>2, Sizes
    <3>2. at[settled + 1] + MessageSize(settled + 1) <= at[m]
      BY <1>2, <3>1 DEF Placed
    <3>3. at[settled + 1] \in Nat /\ at[m] \in Nat /\ MessageSize(settled + 1) \in Nat
      BY <1>1, <1>2, <3>1, Sizes
    <3> QED
      BY <3>2, <3>3
  <2> QED
    BY <2>1, <2>2
<1> QED
  BY <1>1, <1>2, <1>5, <1>6, <1>7

(* What the JavaScript thread reads is the message whose turn it is. *)
LEMMA ReadsMessage ==
    ASSUME FInv, settled < accepted
    PROVE  /\ settled + 1 \in 1..Current /\ settled + 1 \in 1..accepted
           /\ HeadAt = settled + 1 /\ SizeAt = MessageSize(settled + 1)
           /\ MessageSize(settled + 1) <= Length
           /\ PayloadAt = PayloadBytes(settled + 1)
<1> PICK at : Placed(at)
  BY DEF FInv
<1> PICK m : m = settled + 1
  OBVIOUS
<1>1. /\ m \in 1..Current /\ m \in 1..accepted /\ m \in (settled + 1)..Current /\ m \in 1..(Current + 1)
      /\ m # 0 /\ at[m] \in Nat
  <2>1. accepted <= Current
    BY Sizes DEF FInv, Counts
  <2>2. /\ m \in 1..Current /\ m \in 1..accepted /\ m \in (settled + 1)..Current
        /\ m \in 1..(Current + 1) /\ m # 0
    BY <2>1, Sizes
  <2>3. at[m] \in Nat
    BY <2>2, Extents
  <2> QED
    BY <2>2, <2>3
<1>2. /\ HeadSize \in Nat \ {0} /\ MessageSize(m) \in Nat /\ pushed[m] \in Nat
      /\ MessageSize(m) = HeadSize + pushed[m] /\ Length \in Nat
  BY <1>1, Sizes
<1>3. at[m] + MessageSize(m) <= Written(at) /\ Written(at) <= Stored(at)
      /\ Written(at) \in Nat /\ Stored(at) \in Nat /\ Written(at) = at[m] + Length
  BY <1>1, Extents DEF Placed
<1>4. \A k \in 0..(MessageSize(m) - 1) : ByteAt(k) = <<m, k>>
  <2> SUFFICES ASSUME NEW k \in 0..(MessageSize(m) - 1) PROVE ByteAt(k) = <<m, k>>
    OBVIOUS
  <2>1. at[m] + k < Stored(at) /\ at[m] + k - at[m] = k
    BY <1>1, <1>2, <1>3
  <2>2. at[m] + k < Stored(at) => elements_[Cell(out_, at[m] + k - at[m])] = <<m, k>>
    BY <1>1 DEF Placed
  <2> QED
    BY <2>1, <2>2 DEF ByteAt
<1>5. HeadAt = m
  <2>1. 0 \in 0..(MessageSize(m) - 1) /\ \A k \in 0..(HeadSize - 1) : k \in 0..(MessageSize(m) - 1)
    BY <1>2
  <2>2. ByteAt(0)[1] = m /\ \A k \in 0..(HeadSize - 1) : ByteAt(k) = <<m, k>>
    BY <1>4, <2>1
  <2> QED
    BY <2>2 DEF HeadAt
<1>6. SizeAt = MessageSize(m)
  BY <1>1, <1>5 DEF SizeAt
<1>7. PayloadAt = PayloadBytes(m)
  <2>1. /\ PayloadAt = [k \in 1..pushed[m] |-> ByteAt(HeadSize + k - 1)]
        /\ PayloadBytes(m) = [k \in 1..pushed[m] |-> <<m, HeadSize + k - 1>>]
    <3>1. MessageSize(m) - HeadSize = pushed[m]
      BY <1>2
    <3> QED
      BY <1>6, <3>1 DEF PayloadAt, PayloadBytes, Bytes
  <2>2. \A k \in 1..pushed[m] : HeadSize + k - 1 \in 0..(MessageSize(m) - 1)
    BY <1>2
  <2>3. \A k \in 1..pushed[m] : ByteAt(HeadSize + k - 1) = <<m, HeadSize + k - 1>>
    BY <1>4, <2>2
  <2> QED
    BY <2>1, <2>3
<1>8. MessageSize(m) <= Length
  BY <1>1, <1>2, <1>3
<1> QED
  BY <1>1, <1>5, <1>6, <1>7, <1>8

-----------------------------------------------------------------------------
(* What the steps do to the bytes. *)

(* The steps that neither move a counter nor write a cell. *)
LEMMA PlacedStays ==
    ASSUME FInv, UNCHANGED <<fifoVars, pushed, settled>>,
           \/ UNCHANGED net
           \/ net = "room" /\ net' = "copyHead"
           \/ ~Pushing /\ ~Pushing'
    PROVE  \E at : Placed(at)'
<1> PICK at : Placed(at)
  BY DEF FInv
<1>1. /\ in_' = in_ /\ out_' = out_ /\ elements_' = elements_ /\ pushed' = pushed
      /\ settled' = settled
  BY DEF fifoVars
<1>2. Current' = Current /\ Length' = Length /\ \A m : MessageSize(m)' = MessageSize(m)
  BY <1>1 DEF Current, Length, MessageSize
<1>3. Written(at)' = Written(at) /\ Stored(at)' = Stored(at)
  BY <1>2 DEF Written, Stored, Pushing
<1>4. \A x : Cell(out_, x)' = Cell(out_, x)
  BY <1>1 DEF Cell
<1>5. Placed(at)'
  BY <1>1, <1>2, <1>3, <1>4 DEF Placed
<1> QED
  BY <1>5

(* A message is received. *)
LEMMA PlacedReceived ==
    ASSUME FInv, NetReceives
    PROVE  \E at : Placed(at)'
<1> PICK at : Placed(at)
  BY DEF FInv
<1> PICK n \in Lengths : pushed' = Append(pushed, n)
  BY DEF NetReceives
<1> PICK c : c = Current
  OBVIOUS
<1>1. /\ in_' = in_ /\ out_' = out_ /\ elements_' = elements_ /\ settled' = settled
      /\ net = "tick" /\ net' = "room"
  BY DEF NetReceives, fifoVars, takeVars
<1>2. c \in Nat /\ n \in Nat /\ HeadSize \in Nat /\ pushed \in Seq(Nat) /\ c = Len(pushed)
      /\ settled \in Nat /\ settled <= c
  BY Sizes, AddonAssumption DEF Current, FInv, Counts, Pushing
<1>3. /\ Current' = c + 1
      /\ \A m \in 1..c : pushed'[m] = pushed[m]
      /\ pushed'[c + 1] = n
  BY <1>2 DEF Current
<1>4. /\ \A m \in 1..c : MessageSize(m)' = MessageSize(m) /\ MessageSize(m) \in Nat
      /\ MessageSize(c + 1)' = HeadSize + n
  BY <1>3, Sizes DEF MessageSize
<1>5. \A m \in 1..(c + 1) : at[m] \in Nat
  BY Extents
<1>6. Length' = Length /\ Written(at) = at[c + 1] /\ Stored(at) = at[c + 1]
  BY <1>1 DEF Length, Written, Stored
<1> DEFINE new == [m \in 1..(c + 2) |-> IF m = c + 2 THEN at[c + 1] + (HeadSize + n) ELSE at[m]]
<1>7. /\ new \in [1..(c + 2) -> Nat] /\ new[c + 2] = at[c + 1] + (HeadSize + n)
      /\ \A m \in 1..(c + 1) : new[m] = at[m]
  <2>1. at[c + 1] + (HeadSize + n) \in Nat /\ c + 2 \in 1..(c + 2)
    BY <1>2, <1>5
  <2>2. \A m \in 1..(c + 1) : m \in 1..(c + 2) /\ m # c + 2
    BY <1>2
  <2>3. \A m \in 1..(c + 2) : m # c + 2 => m \in 1..(c + 1)
    BY <1>2
  <2> QED
    BY <1>5, <2>1, <2>2, <2>3
<1> HIDE DEF new
<1>8. Written(new)' = at[c + 1] /\ Stored(new)' = at[c + 1]
  <2>1. Written(new)' = new[Current'] /\ Stored(new)' = new[Current']
    BY <1>1 DEF Written, Stored
  <2>2. c + 1 \in 1..(c + 1)
    BY <1>2
  <2> QED
    BY <1>3, <1>7, <2>1, <2>2
<1>9. \A m \in 1..Current' : new[m + 1] = new[m] + MessageSize(m)'
  <2> SUFFICES ASSUME NEW m \in 1..(c + 1) PROVE new[m + 1] = new[m] + MessageSize(m)'
    BY <1>3
  <2>1. CASE m = c + 1
    <3>1. m + 1 = c + 2
      BY <1>2, <2>1
    <3> QED
      BY <1>4, <1>7, <2>1, <3>1
  <2>2. CASE m # c + 1
    <3>1. m \in 1..c /\ m + 1 \in 1..(c + 1)
      BY <1>2, <2>2
    <3>2. at[m + 1] = at[m] + MessageSize(m)
      BY <3>1 DEF Placed
    <3> QED
      BY <1>4, <1>7, <3>1, <3>2
  <2> QED
    BY <2>1, <2>2
<1>10. \A m, l \in 1..(Current' + 1) : m < l => new[m] + MessageSize(m)' <= new[l]
  <2> SUFFICES ASSUME NEW m \in 1..(c + 2), NEW l \in 1..(c + 2), m < l
               PROVE  new[m] + MessageSize(m)' <= new[l]
    <3>1. Current' + 1 = c + 2
      BY <1>2, <1>3
    <3> QED
      BY <3>1
  <2>1. CASE l = c + 2 /\ m = c + 1
    <3>1. new[m] = at[c + 1] /\ new[l] = at[c + 1] + (HeadSize + n) /\ MessageSize(m)' = HeadSize + n
      BY <1>4, <1>7, <2>1
    <3>2. c + 1 \in 1..(c + 1)
      BY <1>2
    <3> QED
      BY <1>2, <1>5, <3>1, <3>2
  <2>2. CASE l = c + 2 /\ m # c + 1
    <3>1. m \in 1..c /\ m \in 1..(c + 1) /\ c + 1 \in 1..(c + 1) /\ m < c + 1
      BY <1>2, <2>2
    <3>2. at[m] + MessageSize(m) <= at[c + 1]
      BY <3>1 DEF Placed
    <3>3. at[m] \in Nat /\ at[c + 1] \in Nat /\ MessageSize(m) \in Nat
      BY <1>4, <1>5, <3>1
    <3>4. at[m] + MessageSize(m) <= at[c + 1] + (HeadSize + n)
      BY <1>2, <3>2, <3>3
    <3> QED
      BY <1>4, <1>7, <2>2, <3>1, <3>4
  <2>3. CASE l # c + 2
    <3>1. m \in 1..c /\ m \in 1..(c + 1) /\ l \in 1..(c + 1)
      BY SMTT(30), <1>2, <2>3
    <3>2. at[m] + MessageSize(m) <= at[l]
      BY <3>1 DEF Placed
    <3> QED
      BY <1>4, <1>7, <3>1, <3>2
  <2> QED
    BY <2>1, <2>2, <2>3
<1>11. Written(new)' = new[(settled + 1)'] + Length'
  <2>1. settled + 1 \in 1..(c + 1)
    BY <1>2
  <2>2. at[c + 1] = at[settled + 1] + Length
    BY <1>6 DEF Placed
  <2> QED
    BY <1>1, <1>6, <1>7, <1>8, <2>1, <2>2
<1>12. ASSUME NEW m \in (settled' + 1)..Current', NEW k \in 0..(MessageSize(m)' - 1), new[m] + k < Stored(new)'
       PROVE  elements_'[Cell(out_', new[m] + k - new[settled' + 1])] = <<m, k>>
  <2>1. settled + 1 \in 1..(c + 1) /\ m \in 1..(c + 1) /\ m \in (settled + 1)..(c + 1)
    BY <1>1, <1>2, <1>3
  <2>2. at[m] + k < at[c + 1]
    BY <1>7, <1>8, <1>12, <2>1
  <2>3. m # c + 1
    <3> SUFFICES ASSUME m = c + 1 PROVE FALSE
      OBVIOUS
    <3>1. k \in Nat /\ at[c + 1] \in Nat
      BY <1>2, <1>4, <1>5, <2>1
    <3> QED
      BY <2>2, <3>1
  <2>4. m \in (settled + 1)..c /\ m \in 1..c
    BY <1>2, <2>1, <2>3
  <2>5. elements_[Cell(out_, at[m] + k - at[settled + 1])] = <<m, k>>
    BY <1>4, <1>6, <2>2, <2>4 DEF Placed
  <2> QED
    BY <1>1, <1>7, <2>1, <2>5
<1>13. new \in [1..(Current' + 1) -> Nat]
  <2>1. Current' + 1 = c + 2
    BY <1>2, <1>3
  <2> QED
    BY <1>7, <2>1
<1>14. Placed(new)'
  <2>1. \A m \in (settled' + 1)..Current' : \A k \in 0..(MessageSize(m)' - 1) :
            new[m] + k < Stored(new)' => elements_'[Cell(out_', new[m] + k - new[settled' + 1])] = <<m, k>>
    BY <1>12
  <2>2. \A x : Cell(out_, x)' = Cell(out_', x)
    BY DEF Cell
  <2> QED
    BY <1>9, <1>10, <1>11, <1>13, <2>1, <2>2 DEF Placed
<1> QED
  BY <1>14

(* n bytes of the current message, from the one at offset first on. *)
PartOfCurrent(bytes, first, n) ==
    /\ bytes \in [1..n -> Nat \X Nat]
    /\ \A k \in 0..(n - 1) : bytes[k + 1] = <<Current, first + k>>

(* Bytes of the current message are copied in after those that are there. *)
LEMMA PlacedCopied ==
    ASSUME FInv, NEW at, Placed(at), Pushing, UNCHANGED <<in_, out_, pushed, settled>>,
           NEW first \in Nat, NEW n \in Nat, NEW bytes, PartOfCurrent(bytes, first, n),
           CopyIn(bytes), Length + n <= Size,
           Written(at) = at[Current] + first, Stored(at) = Written(at),
           Written(at)' = Written(at), Stored(at)' = at[Current] + first + n
    PROVE  Placed(at)' /\ FifoTypeOK'
<1> PICK c : c = Current
  OBVIOUS
<1>1. c \in Nat \ {0} /\ c \in 1..c /\ settled \in Nat /\ settled + 1 <= c /\ Length \in 0..Size
  BY Sizes DEF FInv, Counts
<1>2. /\ in_' = in_ /\ out_' = out_ /\ pushed' = pushed /\ settled' = settled
      /\ Current' = c /\ Length' = Length /\ \A m : MessageSize(m)' = MessageSize(m)
  BY DEF Current, Length, MessageSize
<1>3. \A x : Cell(out_, x)' = Cell(out_, x)
  BY <1>2 DEF Cell
<1>4. /\ \A m \in 1..(c + 1) : at[m] \in Nat
      /\ \A m \in 1..c : MessageSize(m) \in Nat
      /\ settled + 1 \in 1..(c + 1) /\ c \in 1..(c + 1)
  <2>1. \A m \in 1..(c + 1) : at[m] \in Nat
    BY Extents
  <2>2. \A m \in 1..c : MessageSize(m) \in Nat
    BY Sizes
  <2> QED
    BY <1>1, <2>1, <2>2
<1>5. /\ elements_' \in [0..(Size - 1) -> Nat \X Nat]
      /\ \A k \in 0..(n - 1) : elements_'[Cell(out_, Length + k)] = bytes[k + 1]
      /\ \A d \in 0..(Length - 1) : elements_'[Cell(out_, d)] = elements_[Cell(out_, d)]
  BY Sizes, CopyEffect DEF PartOfCurrent
<1>6. at[c] + first = at[settled + 1] + Length
  BY DEF Placed
<1>7. ASSUME NEW m \in (settled + 1)..c, NEW k \in 0..(MessageSize(m) - 1),
             at[m] + k < at[c] + first + n
      PROVE  elements_'[Cell(out_, at[m] + k - at[settled + 1])] = <<m, k>>
  <2>1. m \in 1..c /\ m \in 1..(c + 1) /\ k \in Nat /\ at[m] \in Nat /\ at[settled + 1] \in Nat
        /\ at[settled + 1] <= at[m] /\ MessageSize(m) \in Nat /\ at[c] \in Nat
    <3>1. m \in 1..c /\ m \in 1..(c + 1) /\ m \in (settled + 1)..(c + 1)
      BY <1>1
    <3>2. k \in Nat /\ at[m] \in Nat /\ at[settled + 1] \in Nat /\ MessageSize(m) \in Nat /\ at[c] \in Nat
      BY <1>4, <3>1
    <3>3. at[settled + 1] <= at[m]
      BY <3>1, Extents
    <3> QED
      BY <3>1, <3>2, <3>3
  <2> PICK a \in Nat : a = at[m]
    BY <2>1
  <2> PICK b \in Nat : b = at[settled + 1]
    BY <2>1
  <2> PICK g \in Nat : g = at[c]
    BY <2>1
  <2> PICK h \in Nat : h = Length
    BY <1>1
  <2> PICK i \in Nat : i = k
    BY <2>1
  <2>0. b <= a /\ g + first = b + h
    BY <1>6, <2>1
  <2> PICK d : d = at[m] + k - at[settled + 1]
    OBVIOUS
  <2>2. /\ d \in Nat
        /\ d < h => a + k < g + first
        /\ ~(d < h) => g + first <= a + k
        /\ a = g /\ g + first <= a + k /\ a + k < g + first + n =>
              k - first \in 0..(n - 1) /\ first + (k - first) = k /\ h + (k - first) = d
    <3>1. d = a + i - b
      OBVIOUS
    <3> QED
      BY <2>0, <3>1
  <2>3. CASE d < Length
    <3>1. a + k < g + first
      BY <2>2, <2>3
    <3>2. elements_[Cell(out_, d)] = <<m, k>>
      BY <3>1 DEF Placed
    <3>3. d \in 0..(Length - 1)
      BY <1>1, <2>2, <2>3
    <3> QED
      BY <1>5, <3>2, <3>3
  <2>4. CASE ~(d < Length)
    <3>1. g + first <= a + k
      BY <2>2, <2>4
    <3>2. m = c
      <4> SUFFICES ASSUME m # c PROVE FALSE
        OBVIOUS
      <4>1. m < c
        BY <1>1
      <4>2. at[m] + MessageSize(m) <= at[c]
        BY <1>4, <2>1, <4>1 DEF Placed
      <4>3. at[m] + k < at[m] + MessageSize(m)
        BY <2>1
      <4> QED
        BY <2>1, <3>1, <4>2, <4>3
    <3> PICK e : e = k - first
      OBVIOUS
    <3>3. e \in 0..(n - 1) /\ first + e = k /\ Length + e = d
      <4>1. a = g /\ g + first <= a + k /\ a + k < g + first + n
        BY <1>7, <3>1, <3>2
      <4> QED
        BY <2>2, <4>1
    <3>4. elements_'[Cell(out_, d)] = bytes[e + 1] /\ bytes[e + 1] = <<c, k>>
      BY <1>5, <3>3 DEF PartOfCurrent
    <3> QED
      BY <3>2, <3>4
  <2> QED
    BY <2>3, <2>4
<1>8. /\ at \in [1..(c + 1) -> Nat]
      /\ \A m \in 1..c : at[m + 1] = at[m] + MessageSize(m)
      /\ \A m, l \in 1..(c + 1) : m < l => at[m] + MessageSize(m) <= at[l]
      /\ Written(at) = at[settled + 1] + Length
  BY DEF Placed
<1>9. Placed(at)'
  <2>1. \A m \in (settled + 1)..c : \A k \in 0..(MessageSize(m) - 1) :
            at[m] + k < at[c] + first + n =>
                elements_'[Cell(out_, at[m] + k - at[settled + 1])] = <<m, k>>
    BY <1>7
  <2>2. Written(at)' = at[settled + 1] + Length /\ Stored(at)' = at[c] + first + n
    BY <1>8
  <2>3. \A x : Cell(out_, x)' = Cell(out_', x)
    BY DEF Cell
  <2>4. \A m \in (settled' + 1)..Current' : \A k \in 0..(MessageSize(m)' - 1) :
            at[m] + k < Stored(at)' =>
                elements_'[Cell(out_', at[m] + k - at[settled' + 1])] = <<m, k>>
    BY SMTT(30), <1>2, <1>3, <2>1, <2>2
  <2> QED
    BY <1>2, <1>8, <2>2, <2>3, <2>4 DEF Placed
<1>10. FifoTypeOK'
  BY <1>2, <1>5, Sizes DEF FifoTypeOK
<1> QED
  BY <1>9, <1>10

(* The counter in_ follows. *)
LEMMA PlacedPut ==
    ASSUME FInv, NEW at, Placed(at), UNCHANGED <<out_, elements_, pushed, settled>>,
           NEW n \in Nat, AdvanceIn(n), Length + n <= Size,
           Written(at)' = Written(at) + n, Stored(at)' = Stored(at)
    PROVE  Placed(at)' /\ FifoTypeOK' /\ Length' = Length + n
<1>1. in_' \in 0..(Wrap - 1) /\ Length' = Length + n
  BY Sizes, PutLength
<1>2. /\ out_' = out_ /\ elements_' = elements_ /\ pushed' = pushed /\ settled' = settled
      /\ Current' = Current /\ \A m : MessageSize(m)' = MessageSize(m)
  BY DEF Current, MessageSize
<1>3. \A x : Cell(out_, x)' = Cell(out_, x)
  BY <1>2 DEF Cell
<1>4. Written(at)' = at[settled + 1] + Length'
  <2>1. at[settled + 1] \in Nat /\ Length \in Nat
    BY SMTT(30), Extents, Sizes
  <2>2. Written(at) = at[settled + 1] + Length
    BY DEF Placed
  <2> QED
    BY <1>1, <2>1, <2>2
<1>5. Placed(at)'
  BY <1>2, <1>3, <1>4 DEF Placed
<1>6. FifoTypeOK'
  <2>1. Length' <= Size
    BY <1>1
  <2> QED
    BY <1>1, <1>2, <2>1, Sizes DEF FifoTypeOK
<1> QED
  BY <1>1, <1>5, <1>6

(* JavaScript is done with a message. *)
LEMMA PlacedTaken ==
    ASSUME FInv, settled < accepted, AdvanceOut(MessageSize(settled + 1)),
           settled' = settled + 1, UNCHANGED <<in_, elements_, pushed, net>>
    PROVE  (\E at : Placed(at)') /\ FifoTypeOK' /\ Length' \in 0..Length
<1> PICK at : Placed(at)
  BY DEF FInv
<1> PICK s : s = settled + 1
  OBVIOUS
<1> PICK c : c = MessageSize(s)
  OBVIOUS
<1>1. /\ s \in Nat /\ s \in 1..Current /\ c \in Nat /\ c <= Length /\ Length \in Nat
      /\ s + 1 \in 1..(Current + 1) /\ s \in 1..(Current + 1) /\ s + 1 \in (settled + 1)..(Current + 1)
      /\ Current \in Nat /\ settled' = s /\ Length <= Size /\ Size \in Nat
  BY ReadsMessage, Sizes
<1>2. /\ in_' = in_ /\ elements_' = elements_ /\ pushed' = pushed /\ net' = net
      /\ Current' = Current /\ \A m : MessageSize(m)' = MessageSize(m)
  BY DEF Current, MessageSize
<1>3. /\ out_' \in 0..(Wrap - 1) /\ Length' = Length - c
      /\ \A k \in Nat : Cell(out_', k) = Cell(out_, c + k)
  <2>1. c \in 0..Length /\ AdvanceOut(c) /\ FifoTypeOK
    BY <1>1, Sizes
  <2> QED
    BY <1>2, <2>1, TakeLength
<1>4. Written(at)' = Written(at) /\ Stored(at)' = Stored(at)
  BY <1>2 DEF Written, Stored
<1>5. at[s] \in Nat /\ at[s + 1] \in Nat /\ at[s + 1] = at[s] + c
  <2>1. at[s + 1] = at[s] + MessageSize(s)
    BY <1>1 DEF Placed
  <2> QED
    BY <1>1, <2>1, Extents
<1>6. Written(at)' = at[s + 1] + Length'
  <2>1. Written(at) = at[s] + Length
    BY DEF Placed
  <2> QED
    BY <1>1, <1>3, <1>4, <1>5, <2>1
<1>7. ASSUME NEW m \in (s + 1)..Current, NEW k \in 0..(MessageSize(m) - 1), at[m] + k < Stored(at)
      PROVE  elements_[Cell(out_', at[m] + k - at[s + 1])] = <<m, k>>
  <2>1. m \in s..Current /\ m \in 1..Current /\ m \in 1..(Current + 1)
    BY <1>1
  <2>2. at[m] \in Nat /\ MessageSize(m) \in Nat /\ k \in Nat
    BY <2>1, Extents, Sizes
  <2>3. at[s + 1] <= at[m]
    <3>1. CASE m = s + 1
      BY <2>2, <3>1
    <3>2. CASE m # s + 1
      <4>1. s + 1 < m /\ s + 1 \in 1..Current
        BY <1>1, <3>2
      <4>2. at[s + 1] + MessageSize(s + 1) <= at[m]
        BY <1>1, <2>1, <4>1 DEF Placed
      <4>3. MessageSize(s + 1) \in Nat
        BY <4>1, Sizes
      <4> QED
        BY <1>5, <2>2, <4>2, <4>3
    <3> QED
      BY <3>1, <3>2
  <2> PICK d : d = at[m] + k - at[s + 1]
    OBVIOUS
  <2>4. d \in Nat /\ c + d = at[m] + k - at[s]
    BY <1>1, <1>5, <2>2, <2>3
  <2>5. elements_[Cell(out_, at[m] + k - at[s])] = <<m, k>>
    BY <1>7, <2>1 DEF Placed
  <2>6. Cell(out_', d) = Cell(out_, c + d)
    BY <1>3, <2>4
  <2> QED
    BY <2>4, <2>5, <2>6
<1>8. /\ at \in [1..(Current + 1) -> Nat]
      /\ \A m \in 1..Current : at[m + 1] = at[m] + MessageSize(m)
      /\ \A m, l \in 1..(Current + 1) : m < l => at[m] + MessageSize(m) <= at[l]
  BY DEF Placed
<1>9. Placed(at)'
  <2>1. \A m \in (s + 1)..Current : \A k \in 0..(MessageSize(m) - 1) :
            at[m] + k < Stored(at) => elements_[Cell(out_', at[m] + k - at[s + 1])] = <<m, k>>
    BY <1>7
  <2>2. \A x : Cell(out_, x)' = Cell(out_', x)
    BY DEF Cell
  <2> QED
    BY ZenonT(60), <1>1, <1>2, <1>4, <1>6, <1>8, <2>1, <2>2 DEF Placed
<1>10. FifoTypeOK' /\ Length' \in 0..Length
  <2>1. Length' <= Size /\ Length' \in 0..Length
    BY <1>1, <1>3
  <2> QED
    BY <1>2, <1>3, <2>1, Sizes DEF FifoTypeOK
<1> QED
  BY <1>9, <1>10

-----------------------------------------------------------------------------
(* What the steps do to the rest. *)

(* Everything in TypeOK but the fifo. *)
ControlOK ==
    /\ g_IsRun \in BOOLEAN /\ g_ThreadHandle \in BOOLEAN
    /\ library \in {"none", "live", "released"}
    /\ net \in {"off", "top", "tick", "room", "copyHead", "headIn", "copyPayload",
                "payloadIn", "ended"}
    /\ js \in {"idle", "look", "size", "call", "called", "tooLarge", "join",
              "joinInCall"}
    /\ ct \in 0..PerTick
    /\ pushed \in Seq(Nat) /\ accepted \in Nat /\ settled \in Nat
    /\ handed \in Seq(MessageType) /\ message \in MessageType
    /\ starts \in 0..MaxStarts /\ throws \in 0..MaxThrows

LEMMA TypeSplit == TypeOK <=> FifoTypeOK /\ ControlOK
BY Zenon DEF TypeOK, ControlOK

LEMMA NetTypes ==
    ASSUME FInv, NetStep
    PROVE  ControlOK'
<1>1. ControlOK
  BY TypeSplit DEF FInv
<1>2. UNCHANGED <<controlVars, js, ct, takeVars>>
  BY DEF NetStep, NetTop, NetTickEnds, NetReceives, NetHasRoom, NetCopiesHead,
         NetPutsHead, NetCopiesPayload, NetPutsPayload
<1>3. net' \in {"off", "top", "tick", "room", "copyHead", "headIn", "copyPayload",
                "payloadIn", "ended"}
  BY DEF NetStep, NetTop, NetTickEnds, NetReceives, NetHasRoom, NetCopiesHead,
         NetPutsHead, NetCopiesPayload, NetPutsPayload
<1>4. pushed' = pushed \/ \E n \in Lengths : pushed' = Append(pushed, n)
  BY DEF NetStep, NetTop, NetTickEnds, NetReceives, NetHasRoom, NetCopiesHead,
         NetPutsHead, NetCopiesPayload, NetPutsPayload
<1>5. accepted' = accepted \/ accepted' = Current
  BY DEF NetStep, NetTop, NetTickEnds, NetReceives, NetHasRoom, NetCopiesHead,
         NetPutsHead, NetCopiesPayload, NetPutsPayload
<1>6. accepted' \in Nat
  BY <1>5, Sizes
<1>7. pushed' \in Seq(Nat)
  <2>1. \A n \in Lengths : n \in Nat
    BY AddonAssumption
  <2>2. pushed \in Seq(Nat)
    BY Sizes
  <2>3. ASSUME NEW n \in Lengths, pushed' = Append(pushed, n) PROVE pushed' \in Seq(Nat)
    BY <2>1, <2>2, <2>3
  <2> QED
    BY <1>4, <2>2, <2>3
<1> QED
  BY <1>1, <1>2, <1>3, <1>6, <1>7 DEF ControlOK, controlVars, takeVars

LEMMA JsTypes ==
    ASSUME FInv, JsStep \/ JsStart \/ JsQuit \/ JsThrows
    PROVE  ControlOK'
<1>1. ControlOK
  BY TypeSplit DEF FInv
<1>2. MaxStarts \in Nat /\ MaxThrows \in Nat /\ PerTick \in Nat \ {0}
  BY AddonAssumption
<1>3. NoMessage \in MessageType
  BY DEF NoMessage, MessageType
<1>4. CASE JsProcess
  BY <1>1, <1>2, <1>4 DEF JsProcess, ControlOK, controlVars, takeVars
<1>5. CASE JsLook
  BY <1>1, <1>5 DEF JsLook, ControlOK, controlVars, takeVars
<1>6. CASE JsSize
  BY <1>1, <1>6 DEF JsSize, ControlOK, controlVars, takeVars
<1>7. CASE JsCall
  <2>1. message' \in MessageType
    <3>1. settled < accepted
      BY <1>7 DEF FInv, Counts, Handling, JsCall
    <3>2. /\ settled + 1 \in 1..Current /\ HeadAt = settled + 1
          /\ PayloadAt = PayloadBytes(settled + 1)
      BY <3>1, ReadsMessage
    <3>3. PayloadAt \in Seq(Nat \X Nat) /\ HeadAt \in Nat
      BY <3>2, BytesType, Sizes
    <3>4. [head |-> HeadAt, payload |-> PayloadAt] \in MessageType
      BY <3>3 DEF MessageType
    <3>5. message' = message \/ message' = [head |-> HeadAt, payload |-> PayloadAt]
      BY <1>7 DEF JsCall
    <3> QED
      BY <1>1, <3>4, <3>5 DEF ControlOK
  <2>2. js' \in {"called", "tooLarge"}
    BY <1>7 DEF JsCall
  <2>3. UNCHANGED <<controlVars, net, ct, pushed, accepted, settled, handed, throws>>
    BY <1>7 DEF JsCall
  <2> QED
    BY <1>1, <2>1, <2>2, <2>3 DEF ControlOK, controlVars
<1>8. CASE JsAdvance
  <2>1. ct' \in 0..PerTick /\ settled' \in Nat
    BY <1>1, <1>2, <1>8 DEF JsAdvance, FInv, Counts, Handling, ControlOK
  <2>2. handed' \in Seq(MessageType)
    BY <1>1, <1>8 DEF JsAdvance, ControlOK
  <2> QED
    BY <1>1, <1>3, <1>8, <2>1, <2>2 DEF JsAdvance, ControlOK, controlVars
<1>9. CASE JsJoined
  BY <1>1, <1>9 DEF JsJoined, ControlOK, takeVars
<1>10. CASE JsStart
  BY <1>1, <1>2, <1>10 DEF JsStart, ControlOK, takeVars
<1>11. CASE JsQuit
  BY <1>1, <1>11 DEF JsQuit, ControlOK, takeVars
<1>12. CASE JsThrows
  BY <1>1, <1>2, <1>3, <1>12 DEF JsThrows, ControlOK, controlVars
<1> QED
  BY <1>4, <1>5, <1>6, <1>7, <1>8, <1>9, <1>10, <1>11, <1>12 DEF JsStep

(* What was received stays as it is. *)
LEMMA MessagesStay ==
    ASSUME FInv, pushed' = pushed \/ \E n \in Lengths : pushed' = Append(pushed, n)
    PROVE  /\ Current <= Current'
           /\ \A m \in 1..Current : /\ pushed'[m] = pushed[m]
                                    /\ MessageSize(m)' = MessageSize(m)
                                    /\ PayloadBytes(m)' = PayloadBytes(m)
<1>1. Current <= Current' /\ \A m \in 1..Current : pushed'[m] = pushed[m]
  <2>1. pushed \in Seq(Nat) /\ \A n \in Lengths : n \in Nat
    BY Sizes, AddonAssumption
  <2>2. CASE pushed' = pushed
    BY <2>1, <2>2 DEF Current
  <2>3. ASSUME NEW n \in Lengths, pushed' = Append(pushed, n)
        PROVE  Current <= Current' /\ \A m \in 1..Current : pushed'[m] = pushed[m]
    BY <2>1, <2>3 DEF Current
  <2> QED
    BY <2>2, <2>3
<1>2. \A m \in 1..Current : MessageSize(m)' = MessageSize(m)
  BY <1>1 DEF MessageSize
<1>3. \A m \in 1..Current : PayloadBytes(m)' = PayloadBytes(m)
  BY <1>2 DEF PayloadBytes, Bytes
<1> QED
  BY <1>1, <1>2, <1>3

LEMMA ShownStays ==
    ASSUME FInv, UNCHANGED <<message, settled>>,
           pushed' = pushed \/ \E n \in Lengths : pushed' = Append(pushed, n),
           js' \in {"called", "joinInCall"} => js \in {"called", "joinInCall"},
           js' = "tooLarge" => js = "tooLarge"
    PROVE  Shown'
<1>1. ASSUME Handling
      PROVE  /\ MessageSize(settled + 1)' = MessageSize(settled + 1)
             /\ PayloadBytes(settled + 1)' = PayloadBytes(settled + 1)
  <2>1. settled + 1 \in 1..Current
    BY <1>1, Sizes DEF FInv, Counts
  <2> PICK m : m = settled + 1
    OBVIOUS
  <2>2. MessageSize(m)' = MessageSize(m) /\ PayloadBytes(m)' = PayloadBytes(m)
    BY <2>1, MessagesStay
  <2>3. MessageSize(settled + 1)' = MessageSize(m)' /\ PayloadBytes(settled + 1)' = PayloadBytes(m)'
    BY DEF MessageSize, PayloadBytes, Bytes
  <2> QED
    BY <2>2, <2>3
<1>2. js' \in {"called", "joinInCall"} =>
          message' = [head |-> settled' + 1, payload |-> PayloadBytes(settled + 1)']
  <2> SUFFICES ASSUME js' \in {"called", "joinInCall"}
               PROVE  message' = [head |-> settled' + 1, payload |-> PayloadBytes(settled + 1)']
    OBVIOUS
  <2>1. Handling /\ message = [head |-> settled + 1, payload |-> PayloadBytes(settled + 1)]
    BY DEF FInv, Shown, Handling
  <2> QED
    BY <1>1, <2>1
<1>3. js' = "tooLarge" => MessageSize(settled + 1)' > MaxPacketSize
  <2> SUFFICES ASSUME js' = "tooLarge" PROVE MessageSize(settled + 1)' > MaxPacketSize
    OBVIOUS
  <2>1. Handling /\ MessageSize(settled + 1) > MaxPacketSize
    BY DEF FInv, Shown, Handling
  <2> QED
    BY <1>1, <2>1
<1> QED
  BY <1>2, <1>3 DEF Shown

(* The steps that leave the fifo and the messages alone. *)
LEMMA QuietStep ==
    ASSUME FInv, UNCHANGED <<fifoVars, pushed, accepted, settled>>,
           \/ UNCHANGED net
           \/ net = "room" /\ net' = "copyHead" /\ Space >= MessageSize(Current)
           \/ ~Pushing /\ ~Pushing',
           Handling' => settled < accepted /\ ct' < PerTick
    PROVE  FifoTypeOK' /\ Counts' /\ Room' /\ \E at : Placed(at)'
<1>1. /\ in_' = in_ /\ out_' = out_ /\ elements_' = elements_ /\ pushed' = pushed
      /\ settled' = settled /\ accepted' = accepted
  BY DEF fifoVars
<1>2. Current' = Current /\ Length' = Length /\ \A m : MessageSize(m)' = MessageSize(m)
  BY <1>1 DEF Current, Length, MessageSize
<1>3. FifoTypeOK'
  <2>1. FifoTypeOK
    BY Sizes
  <2> QED
    BY <1>1, <1>2, <2>1 DEF FifoTypeOK
<1>4. Pushing' <=> Pushing
  BY DEF Pushing
<1>5. Counts'
  <2>1. /\ Pushing => Current > 0
        /\ accepted = IF Pushing THEN Current - 1 ELSE Current
        /\ settled <= accepted
        /\ \A m \in 1..Current : pushed[m] \in Lengths
    BY DEF FInv, Counts
  <2> QED
    BY <1>1, <1>2, <1>4, <2>1 DEF Counts
<1>6. Room'
  <2>1. CASE UNCHANGED net
    BY <1>1, <1>2, <2>1 DEF FInv, Room, MessageSize, Current
  <2>2. CASE net = "room" /\ net' = "copyHead" /\ Space >= MessageSize(Current)
    <3>1. Current \in 1..Current
      BY <2>2, Sizes DEF FInv, Counts, Pushing
    <3>2. MessageSize(Current) \in Nat /\ Length \in 0..Size /\ Space = Size - Length /\ Size \in Nat
      BY <3>1, Sizes
    <3>3. Length + MessageSize(Current) <= Size
      BY <2>2, <3>2
    <3>4. Length' + MessageSize(Current)' <= Size
      BY <1>1, <1>2, <3>3 DEF MessageSize
    <3> QED
      BY <2>2, <3>4 DEF Room
  <2>3. CASE ~Pushing /\ ~Pushing'
    BY <2>3 DEF Room, Pushing
  <2> QED
    BY <2>1, <2>2, <2>3
<1> QED
  BY <1>3, <1>5, <1>6, PlacedStays

-----------------------------------------------------------------------------
(* The invariant holds at first and every step preserves it. *)

LEMMA FInvInit == Init => FInv
<1> SUFFICES ASSUME Init PROVE FInv
  OBVIOUS
<1>1. Size \in Nat \ {0} /\ Wrap \in Nat \ {0} /\ Size < Wrap
  BY SizeAssumption
<1>2. in_ = 0 /\ out_ = 0 /\ elements_ = [i \in 0..(Size - 1) |-> NoByte] /\ pushed = <<>>
      /\ settled = 0 /\ accepted = 0 /\ net = "off" /\ js = "idle"
  BY DEF Init, FifoInit
<1>3. Length = 0 /\ Current = 0
  <2>1. in_ \in 0..(Wrap - 1) /\ out_ \in 0..(Wrap - 1)
    BY <1>1, <1>2
  <2>2. Length = 0
    BY <1>2, <2>1, LengthValue
  <2> QED
    BY <1>2, <2>2 DEF Current
<1>4. FifoTypeOK
  BY <1>1, <1>2, <1>3 DEF FifoTypeOK, NoByte
<1>5. ControlOK
  <2>1. NoMessage \in MessageType
    BY DEF NoMessage, MessageType
  <2>2. 0 \in 0..PerTick /\ 0 \in 0..MaxStarts /\ 0 \in 0..MaxThrows /\ 0 \in Nat
    BY AddonAssumption
  <2>3. <<>> \in Seq(Nat) /\ <<>> \in Seq(MessageType)
    OBVIOUS
  <2> QED
    BY <2>1, <2>2, <2>3 DEF Init, ControlOK
<1>6. Counts
  BY <1>2, <1>3 DEF Counts, Pushing, Handling
<1>7. Room /\ Shown /\ OneNetworkThread
  BY <1>2 DEF Room, Shown, OneNetworkThread
<1>8. Placed([m \in 1..1 |-> 0])
  <2> DEFINE at == [m \in 1..1 |-> 0]
  <2>1. at \in [1..1 -> Nat] /\ at[1] = 0
    OBVIOUS
  <2> HIDE DEF at
  <2>2. Written(at) = 0
    BY <1>2, <1>3, <2>1 DEF Written
  <2>3. Placed(at)
    BY <1>2, <1>3, <2>1, <2>2 DEF Placed
  <2> QED
    BY <2>3 DEF at
<1> QED
  BY <1>4, <1>5, <1>6, <1>7, <1>8, TypeSplit DEF FInv

LEMMA ReceivesKeeps ==
    ASSUME FInv, NetReceives
    PROVE  FifoTypeOK' /\ Counts' /\ Room' /\ Shown' /\ \E at : Placed(at)'
<1> PICK n \in Lengths : pushed' = Append(pushed, n)
  BY DEF NetReceives
<1>1. /\ in_' = in_ /\ out_' = out_ /\ elements_' = elements_ /\ settled' = settled
      /\ accepted' = accepted /\ message' = message /\ js' = js /\ ct' = ct
      /\ net = "tick" /\ net' = "room"
  BY DEF NetReceives, fifoVars, takeVars
<1>2. FifoTypeOK'
  <2>1. FifoTypeOK /\ Length' = Length
    BY <1>1, Sizes DEF Length
  <2> QED
    BY <1>1, <2>1 DEF FifoTypeOK
<1>3. Counts'
  <2>1. /\ accepted = Current /\ settled <= accepted /\ (Handling => settled < accepted /\ ct < PerTick)
        /\ \A m \in 1..Current : pushed[m] \in Lengths
    BY <1>1 DEF FInv, Counts, Pushing
  <2>2. Current \in Nat /\ pushed \in Seq(Nat) /\ n \in Nat
    BY Sizes, AddonAssumption
  <2>3. Current' = Current + 1 /\ pushed'[Current + 1] = n
    BY <2>2 DEF Current
  <2>4. \A m \in 1..Current : pushed'[m] = pushed[m]
    BY <2>2 DEF Current
  <2>5. \A m \in 1..(Current + 1) : pushed'[m] \in Lengths
    <3> SUFFICES ASSUME NEW m \in 1..(Current + 1) PROVE pushed'[m] \in Lengths
      OBVIOUS
    <3>1. m = Current + 1 \/ m \in 1..Current
      BY <2>2
    <3> QED
      BY <2>1, <2>3, <2>4, <3>1
  <2>6. Pushing' /\ Handling' = Handling
    BY <1>1 DEF Pushing, Handling
  <2>7. Current + 1 > 0 /\ accepted = (Current + 1) - 1
    BY <2>1, <2>2
  <2> QED
    BY <1>1, <2>1, <2>3, <2>5, <2>6, <2>7 DEF Counts
<1>4. Room'
  BY <1>1 DEF Room
<1>5. Shown'
  BY <1>1, ShownStays
<1> QED
  BY <1>2, <1>3, <1>4, <1>5, PlacedReceived

LEMMA CountsStay ==
    ASSUME FInv, UNCHANGED <<pushed, accepted, settled, ct, js>>, Pushing, Pushing'
    PROVE  Counts'
<1>1. Current' = Current /\ (Handling' <=> Handling)
  BY DEF Current, Handling
<1> QED
  BY <1>1 DEF FInv, Counts

(* Room is there for what is copied: put() drops nothing. *)
LEMMA CopiesHeadKeeps ==
    ASSUME FInv, NetCopiesHead
    PROVE  FifoTypeOK' /\ Counts' /\ Room' /\ Shown' /\ \E at : Placed(at)'
<1> PICK at : Placed(at)
  BY DEF FInv
<1>1. /\ in_' = in_ /\ out_' = out_ /\ pushed' = pushed /\ settled' = settled
      /\ accepted' = accepted /\ message' = message /\ js' = js /\ ct' = ct
      /\ net = "copyHead"
  BY DEF NetCopiesHead, takeVars
<1>2. Pushing /\ Current \in 1..Current
  BY <1>1, Sizes DEF FInv, Counts, Pushing
<1>3. /\ MessageSize(Current) = HeadSize + pushed[Current] /\ pushed[Current] \in Nat
      /\ HeadSize \in Nat /\ Length \in Nat /\ Space = Size - Length /\ Size \in Nat
  BY <1>2, Sizes
<1>4. Length + MessageSize(Current) <= Size
  BY <1>1 DEF FInv, Room
<1>5. HeadSize <= Space /\ Length + HeadSize <= Size
  BY <1>3, <1>4
<1>6. CopyIn(HeadBytes(Current)) /\ net' = "headIn"
  BY <1>5 DEF NetCopiesHead
<1>7. PartOfCurrent(HeadBytes(Current), 0, HeadSize)
  <2>1. /\ HeadBytes(Current) \in [1..HeadSize -> Nat \X Nat]
        /\ \A k \in 1..HeadSize : HeadBytes(Current)[k] = <<Current, k - 1>>
    BY <1>2, BytesType
  <2>2. \A k \in 0..(HeadSize - 1) : k + 1 \in 1..HeadSize /\ (k + 1) - 1 = 0 + k
    BY <1>3
  <2> QED
    BY <2>1, <2>2 DEF PartOfCurrent
<1>8. Current' = Current /\ Length' = Length /\ \A m : MessageSize(m)' = MessageSize(m)
  BY <1>1 DEF Current, Length, MessageSize
<1>9. /\ Written(at) = at[Current] + 0 /\ Stored(at) = Written(at)
      /\ Written(at)' = Written(at) /\ Stored(at)' = at[Current] + 0 + HeadSize
  <2>1. at[Current] \in Nat
    BY <1>2, Extents
  <2>2. Written(at) = at[Current] /\ Stored(at) = at[Current]
    BY <1>1 DEF Written, Stored
  <2>3. Written(at)' = at[Current] /\ Stored(at)' = at[Current] + HeadSize
    BY <1>6, <1>8 DEF Written, Stored
  <2>4. at[Current] + 0 = at[Current]
    BY <2>1
  <2> QED
    BY <2>2, <2>3, <2>4
<1>10. Placed(at)' /\ FifoTypeOK'
  BY <1>1, <1>2, <1>3, <1>5, <1>6, <1>7, <1>9, PlacedCopied
<1>11. Counts'
  BY <1>1, <1>2, <1>6, CountsStay DEF Pushing
<1>12. Room'
  <2>1. Length' + MessageSize(Current)' <= Size
    BY <1>1, <1>4, <1>8 DEF MessageSize
  <2> QED
    BY <1>6, <2>1 DEF Room
<1>13. Shown'
  BY <1>1, ShownStays
<1> QED
  BY <1>10, <1>11, <1>12, <1>13

LEMMA CopiesPayloadKeeps ==
    ASSUME FInv, NetCopiesPayload
    PROVE  FifoTypeOK' /\ Counts' /\ Room' /\ Shown' /\ \E at : Placed(at)'
<1> PICK at : Placed(at)
  BY DEF FInv
<1>1. /\ in_' = in_ /\ out_' = out_ /\ pushed' = pushed /\ settled' = settled
      /\ accepted' = accepted /\ message' = message /\ js' = js /\ ct' = ct
      /\ net = "copyPayload"
  BY DEF NetCopiesPayload, takeVars
<1>2. Pushing /\ Current \in 1..Current
  BY <1>1, Sizes DEF FInv, Counts, Pushing
<1>3. /\ MessageSize(Current) = HeadSize + pushed[Current] /\ pushed[Current] \in Nat
      /\ HeadSize \in Nat /\ Length \in Nat /\ Space = Size - Length /\ Size \in Nat
  BY <1>2, Sizes
<1>4. Length + pushed[Current] <= Size
  BY <1>1 DEF FInv, Room
<1>5. pushed[Current] <= Space
  BY <1>3, <1>4
<1>6. CopyIn(PayloadBytes(Current)) /\ net' = "payloadIn"
  BY <1>5 DEF NetCopiesPayload
<1>7. PartOfCurrent(PayloadBytes(Current), HeadSize, pushed[Current])
  <2>1. /\ PayloadBytes(Current) \in [1..pushed[Current] -> Nat \X Nat]
        /\ \A k \in 1..pushed[Current] : PayloadBytes(Current)[k] = <<Current, HeadSize + k - 1>>
    BY <1>2, BytesType
  <2>2. \A k \in 0..(pushed[Current] - 1) :
            k + 1 \in 1..pushed[Current] /\ HeadSize + (k + 1) - 1 = HeadSize + k
    BY <1>3
  <2> QED
    BY <2>1, <2>2 DEF PartOfCurrent
<1>8. Current' = Current /\ Length' = Length
  BY <1>1 DEF Current, Length
<1>9. /\ Written(at) = at[Current] + HeadSize /\ Stored(at) = Written(at)
      /\ Written(at)' = Written(at) /\ Stored(at)' = at[Current] + HeadSize + pushed[Current]
  <2>1. Written(at) = at[Current] + HeadSize /\ Stored(at) = Written(at)
    BY <1>1 DEF Written, Stored
  <2>2. Written(at)' = at[Current] + HeadSize /\ Stored(at)' = at[Current + 1]
    BY <1>6, <1>8 DEF Written, Stored
  <2>3. at[Current + 1] = at[Current] + (HeadSize + pushed[Current])
    BY <1>2, <1>3 DEF Placed
  <2>4. at[Current] \in Nat
    BY <1>2, Extents
  <2>5. at[Current] + (HeadSize + pushed[Current]) = at[Current] + HeadSize + pushed[Current]
    BY <1>3, <2>4
  <2> QED
    BY <2>1, <2>2, <2>3, <2>5
<1>10. Placed(at)' /\ FifoTypeOK'
  BY <1>1, <1>2, <1>3, <1>4, <1>6, <1>7, <1>9, PlacedCopied
<1>11. Counts'
  BY <1>1, <1>2, <1>6, CountsStay DEF Pushing
<1>12. Room'
  <2>1. Length' + pushed'[Current'] <= Size
    BY <1>1, <1>4, <1>8
  <2> QED
    BY <1>6, <2>1 DEF Room
<1>13. Shown'
  BY <1>1, ShownStays
<1> QED
  BY <1>10, <1>11, <1>12, <1>13

LEMMA PutsHeadKeeps ==
    ASSUME FInv, NetPutsHead
    PROVE  FifoTypeOK' /\ Counts' /\ Room' /\ Shown' /\ \E at : Placed(at)'
<1> PICK at : Placed(at)
  BY DEF FInv
<1>1. /\ out_' = out_ /\ elements_' = elements_ /\ pushed' = pushed /\ settled' = settled
      /\ accepted' = accepted /\ message' = message /\ js' = js /\ ct' = ct
      /\ net = "headIn" /\ net' = "copyPayload" /\ AdvanceIn(HeadSize)
  BY DEF NetPutsHead, takeVars
<1>2. Pushing /\ Current \in 1..Current
  BY <1>1, Sizes DEF FInv, Counts, Pushing
<1>3. /\ MessageSize(Current) = HeadSize + pushed[Current] /\ pushed[Current] \in Nat
      /\ HeadSize \in Nat /\ Length \in Nat /\ Size \in Nat
  BY <1>2, Sizes
<1>4. Length + MessageSize(Current) <= Size
  BY <1>1 DEF FInv, Room
<1>5. Length + HeadSize <= Size
  BY <1>3, <1>4
<1>6. Current' = Current
  BY <1>1 DEF Current
<1>7. Written(at)' = Written(at) + HeadSize /\ Stored(at)' = Stored(at)
  BY <1>1, <1>6 DEF Written, Stored
<1>8. Placed(at)' /\ FifoTypeOK' /\ Length' = Length + HeadSize
  BY <1>1, <1>3, <1>5, <1>7, PlacedPut
<1>9. Counts'
  BY <1>1, <1>2, CountsStay DEF Pushing
<1>10. Room'
  <2>1. Length' + pushed'[Current'] <= Size
    BY <1>1, <1>3, <1>4, <1>6, <1>8
  <2> QED
    BY <1>1, <2>1 DEF Room
<1>11. Shown'
  BY <1>1, ShownStays
<1> QED
  BY <1>8, <1>9, <1>10, <1>11

LEMMA PutsPayloadKeeps ==
    ASSUME FInv, NetPutsPayload
    PROVE  FifoTypeOK' /\ Counts' /\ Room' /\ Shown' /\ \E at : Placed(at)'
<1> PICK at : Placed(at)
  BY DEF FInv
<1>1. /\ out_' = out_ /\ elements_' = elements_ /\ pushed' = pushed /\ settled' = settled
      /\ accepted' = Current /\ message' = message /\ js' = js /\ ct' = ct
      /\ net = "payloadIn" /\ net' = "tick" /\ AdvanceIn(pushed[Current])
  BY DEF NetPutsPayload, takeVars
<1>2. Pushing /\ Current \in 1..Current
  BY <1>1, Sizes DEF FInv, Counts, Pushing
<1>3. /\ MessageSize(Current) = HeadSize + pushed[Current] /\ pushed[Current] \in Nat
      /\ HeadSize \in Nat
  BY <1>2, Sizes
<1>4. Length + pushed[Current] <= Size
  BY <1>1 DEF FInv, Room
<1>5. Current' = Current
  BY <1>1 DEF Current
<1>6. Written(at)' = Written(at) + pushed[Current] /\ Stored(at)' = Stored(at)
  <2>1. Written(at) = at[Current] + HeadSize /\ Stored(at) = at[Current + 1]
    BY <1>1 DEF Written, Stored
  <2>2. Written(at)' = at[Current + 1] /\ Stored(at)' = at[Current + 1]
    BY <1>1, <1>5 DEF Written, Stored
  <2>3. at[Current + 1] = at[Current] + (HeadSize + pushed[Current])
    BY <1>2, <1>3 DEF Placed
  <2>4. at[Current] \in Nat
    BY <1>2, Extents
  <2>5. at[Current] + (HeadSize + pushed[Current]) = at[Current] + HeadSize + pushed[Current]
    BY <1>3, <2>4
  <2> QED
    BY <2>1, <2>2, <2>3, <2>5
<1>7. Placed(at)' /\ FifoTypeOK'
  BY <1>1, <1>3, <1>4, <1>6, PlacedPut
<1>8. Counts'
  <2>1. /\ accepted = Current - 1 /\ settled <= accepted
        /\ (Handling => settled < accepted /\ ct < PerTick)
        /\ \A m \in 1..Current : pushed[m] \in Lengths
    BY <1>2 DEF FInv, Counts
  <2>2. Current \in Nat /\ settled \in Nat /\ accepted \in Nat
    BY Sizes
  <2>3. settled <= Current /\ (Handling => settled < Current)
    BY <2>1, <2>2
  <2>4. ~Pushing' /\ (Handling' <=> Handling)
    BY <1>1 DEF Pushing, Handling
  <2> QED
    BY <1>1, <1>5, <2>1, <2>3, <2>4 DEF Counts
<1>9. Room'
  BY <1>1 DEF Room
<1>10. Shown'
  BY <1>1, ShownStays
<1> QED
  BY <1>7, <1>8, <1>9, <1>10

LEMMA NetStepKeepsFifo ==
    ASSUME FInv, NetStep
    PROVE  FifoTypeOK' /\ Counts' /\ Room' /\ Shown' /\ \E at : Placed(at)'
<1>1. CASE NetTop \/ NetTickEnds \/ NetHasRoom
  <2>1. /\ UNCHANGED <<fifoVars, pushed, accepted, settled, message, js, ct>>
        /\ \/ net = "room" /\ net' = "copyHead" /\ Space >= MessageSize(Current)
           \/ ~Pushing /\ ~Pushing'
    BY <1>1 DEF NetTop, NetTickEnds, NetHasRoom, takeVars, Pushing
  <2>2. Handling' => settled < accepted /\ ct' < PerTick
    BY <2>1 DEF FInv, Counts, Handling
  <2> QED
    BY <2>1, <2>2, QuietStep, ShownStays
<1>2. CASE NetReceives
  BY <1>2, ReceivesKeeps
<1>3. CASE NetCopiesHead
  BY <1>3, CopiesHeadKeeps
<1>4. CASE NetPutsHead
  BY <1>4, PutsHeadKeeps
<1>5. CASE NetCopiesPayload
  BY <1>5, CopiesPayloadKeeps
<1>6. CASE NetPutsPayload
  BY <1>6, PutsPayloadKeeps
<1> QED
  BY <1>1, <1>2, <1>3, <1>4, <1>5, <1>6 DEF NetStep

(* More bytes than a head are there only when a whole message is. *)
LEMMA LongerThanHead ==
    ASSUME FInv, Length > HeadSize
    PROVE  settled < accepted
<1> PICK at : Placed(at)
  BY DEF FInv
<1>1. /\ settled \in Nat /\ accepted \in Nat /\ settled <= accepted /\ Current \in Nat
      /\ HeadSize \in Nat /\ Length \in Nat
  BY Sizes DEF FInv, Counts
<1> SUFFICES ASSUME settled = accepted PROVE FALSE
  BY <1>1
<1>2. Written(at) = at[settled + 1] + Length /\ at[settled + 1] \in Nat
  BY Extents DEF Placed
<1>3. CASE Pushing
  <2>1. settled + 1 = Current
    BY <1>1, <1>3 DEF FInv, Counts
  <2>2. Written(at) = at[Current] \/ Written(at) = at[Current] + HeadSize
    BY <1>3 DEF Written, Pushing
  <2> QED
    BY <1>1, <1>2, <2>1, <2>2
<1>4. CASE ~Pushing
  <2>1. settled + 1 = Current + 1 /\ Written(at) = at[Current + 1]
    BY <1>4 DEF FInv, Counts, Written, Pushing
  <2> QED
    BY <1>1, <1>2, <2>1
<1> QED
  BY <1>3, <1>4

LEMMA AdvanceKeeps ==
    ASSUME FInv, JsAdvance
    PROVE  FifoTypeOK' /\ Counts' /\ Room' /\ Shown' /\ \E at : Placed(at)'
<1>1. /\ in_' = in_ /\ elements_' = elements_ /\ pushed' = pushed /\ accepted' = accepted
      /\ net' = net /\ settled' = settled + 1 /\ js' = "look" /\ AdvanceOut(SizeAt)
  BY DEF JsAdvance
<1>2. settled < accepted
  BY DEF JsAdvance, FInv, Counts, Handling
<1>3. AdvanceOut(MessageSize(settled + 1))
  BY <1>1, <1>2, ReadsMessage
<1>4. (\E at : Placed(at)') /\ FifoTypeOK' /\ Length' \in 0..Length
  BY <1>1, <1>2, <1>3, PlacedTaken
<1>5. Current' = Current /\ (Pushing' <=> Pushing) /\ ~Handling'
  BY <1>1 DEF Current, Pushing, Handling
<1>6. Counts'
  <2>1. settled' <= accepted
    BY <1>1, <1>2, Sizes
  <2>2. /\ Pushing => Current > 0
        /\ accepted = IF Pushing THEN Current - 1 ELSE Current
        /\ \A m \in 1..Current : pushed[m] \in Lengths
    BY DEF FInv, Counts
  <2> QED
    BY <1>1, <1>5, <2>1, <2>2 DEF Counts
<1>7. Room'
  <2>1. Room /\ Length \in Nat /\ Size \in Nat
    BY Sizes DEF FInv
  <2>2. ASSUME Pushing
        PROVE  /\ pushed[Current] \in Nat /\ MessageSize(Current) \in Nat
               /\ MessageSize(Current)' = MessageSize(Current)
    <3>1. Current \in 1..Current
      BY <2>2, Sizes DEF FInv, Counts
    <3>2. MessageSize(Current)' = MessageSize(Current)
      BY <1>1, <1>5 DEF MessageSize
    <3> QED
      BY <3>1, <3>2, Sizes
  <2>3. ASSUME NEW s \in Nat, Length + s <= Size PROVE Length' + s <= Size
    <3>1. Length \in Nat /\ Size \in Nat /\ Length' \in Nat /\ Length' <= Length
      BY <1>4, <2>1
    <3>2. \A a, b, d, e \in Nat : b <= a /\ a + d <= e => b + d <= e
      OBVIOUS
    <3> QED
      BY <2>3, <3>1, <3>2, Zenon
  <2>4. net \in {"copyHead", "headIn"} => Length' + MessageSize(Current)' <= Size
    BY <2>1, <2>2, <2>3 DEF Room, Pushing
  <2>5. net \in {"copyPayload", "payloadIn"} => Length' + pushed[Current] <= Size
    BY <2>1, <2>2, <2>3 DEF Room, Pushing
  <2> QED
    BY <1>1, <1>5, <2>4, <2>5 DEF Room
<1>8. Shown'
  BY <1>1 DEF Shown
<1> QED
  BY <1>4, <1>6, <1>7, <1>8

LEMMA JsStepKeepsFifo ==
    ASSUME FInv, JsStep \/ JsStart \/ JsQuit \/ JsThrows
    PROVE  FifoTypeOK' /\ Counts' /\ Room' /\ Shown' /\ \E at : Placed(at)'
<1>1. CASE JsProcess \/ JsSize \/ JsQuit \/ JsJoined \/ JsThrows
  <2>1. /\ UNCHANGED <<fifoVars, pushed, accepted, settled, net>>
        /\ Handling' => Handling /\ ct' = ct
        /\ js' \in {"called", "joinInCall"} =>
               js \in {"called", "joinInCall"} /\ message' = message
        /\ js' # "tooLarge"
    BY <1>1 DEF JsProcess, JsSize, JsQuit, JsJoined, JsThrows, Handling, takeVars, Joining
  <2>2. Handling' => settled < accepted /\ ct' < PerTick
    BY <2>1 DEF FInv, Counts
  <2>3. FifoTypeOK' /\ Counts' /\ Room' /\ \E at : Placed(at)'
    BY <2>1, <2>2, QuietStep
  <2>4. Shown'
    <3>1. CASE js' \in {"called", "joinInCall"}
      BY <2>1, <3>1, ShownStays
    <3>2. CASE js' \notin {"called", "joinInCall"}
      BY <2>1, <3>2 DEF Shown
    <3> QED
      BY <3>1, <3>2
  <2> QED
    BY <2>3, <2>4
<1>2. CASE JsLook
  <2>1. UNCHANGED <<fifoVars, pushed, accepted, settled, net, ct>> /\ js' \in {"size", "idle"}
    BY <1>2 DEF JsLook, takeVars
  <2>2. Handling' => settled < accepted /\ ct' < PerTick
    <3>1. Handling' => ct < PerTick /\ Length > HeadSize
      BY <1>2 DEF JsLook, Handling
    <3> QED
      BY <2>1, <3>1, LongerThanHead
  <2>3. Shown'
    BY <2>1 DEF Shown
  <2> QED
    BY <2>1, <2>2, <2>3, QuietStep
<1>3. CASE JsCall
  <2>1. UNCHANGED <<fifoVars, pushed, accepted, settled, net, ct>> /\ js = "call"
    BY <1>3 DEF JsCall
  <2>2. settled < accepted /\ ct < PerTick
    BY <2>1 DEF FInv, Counts, Handling
  <2>3. /\ HeadAt = settled + 1 /\ SizeAt = MessageSize(settled + 1)
        /\ PayloadAt = PayloadBytes(settled + 1)
    BY <2>2, ReadsMessage
  <2>4. MessageSize(settled + 1)' = MessageSize(settled + 1)
        /\ PayloadBytes(settled + 1)' = PayloadBytes(settled + 1)
    BY <2>1 DEF MessageSize, PayloadBytes, Bytes
  <2>5. Shown'
    <3>1. CASE TooLarge
      <4>1. js' = "tooLarge"
        BY <1>3, <3>1 DEF JsCall
      <4>2. MessageSize(settled + 1) > MaxPacketSize
        BY <2>3, <3>1 DEF TooLarge
      <4> QED
        BY <2>1, <2>4, <4>1, <4>2 DEF Shown
    <3>2. CASE ~TooLarge
      <4>1. js' = "called" /\ message' = [head |-> HeadAt, payload |-> PayloadAt]
        BY <1>3, <3>2 DEF JsCall
      <4> QED
        BY <2>1, <2>3, <2>4, <4>1 DEF Shown
    <3> QED
      BY <3>1, <3>2
  <2> QED
    BY <2>1, <2>2, <2>5, QuietStep
<1>4. CASE JsAdvance
  BY <1>4, AdvanceKeeps
<1>5. CASE JsStart
  <2>1. /\ UNCHANGED <<fifoVars, pushed, accepted, settled, message, ct>>
        /\ js = "idle" /\ js' = "idle" /\ net' = "top" /\ ~g_ThreadHandle
    BY <1>5 DEF JsStart, takeVars
  <2>2. ~Pushing /\ ~Pushing' /\ ~Handling'
    BY <2>1 DEF FInv, OneNetworkThread, Pushing, Handling
  <2>3. Shown'
    BY <2>1 DEF Shown
  <2> QED
    BY <2>1, <2>2, <2>3, QuietStep
<1> QED
  BY <1>1, <1>2, <1>3, <1>4, <1>5 DEF JsStep

LEMMA FInvNext ==
    ASSUME FInv, [Next]_vars
    PROVE  FInv'
<1>1. OneNetworkThread'
  BY StepKeeps DEF FInv
<1>2. CASE NetStep
  BY <1>1, <1>2, NetStepKeepsFifo, NetTypes, TypeSplit DEF FInv, TypeOK, ControlOK
<1>3. CASE JsStep \/ JsStart \/ JsQuit \/ JsThrows
  BY <1>1, <1>3, JsStepKeepsFifo, JsTypes, TypeSplit DEF FInv, TypeOK, ControlOK
<1>4. CASE UNCHANGED vars
  <2>1. UNCHANGED <<fifoVars, pushed, accepted, settled, net, message, js, ct>>
    BY <1>4 DEF vars, takeVars
  <2>2. Handling' => settled < accepted /\ ct' < PerTick
    BY <2>1 DEF FInv, Counts, Handling
  <2>3. FifoTypeOK' /\ Counts' /\ Room' /\ Shown' /\ \E at : Placed(at)'
    BY <2>1, <2>2, QuietStep, ShownStays
  <2>4. TypeOK'
    BY <1>4, <2>3, TypeSplit DEF FInv, TypeOK, ControlOK, vars, controlVars, takeVars
  <2> QED
    BY <1>1, <2>3, <2>4 DEF FInv
<1> QED
  BY <1>2, <1>3, <1>4 DEF Next

(* Every variable keeps its type: the two threads never make the fifo      *)
(* longer than its size (put() and in_place_get_advance of kfifo.h, called *)
(* from PushCoreMessage and ProcessCoreMessage).                           *)
THEOREM TypeCorrect == Spec => []TypeOK
<1>1. FInv => TypeOK
  BY DEF FInv
<1> QED
  BY <1>1, FInvInit, FInvNext, PTL DEF Spec

-----------------------------------------------------------------------------
(* The refinement. *)

Entry(m) == [head |-> m, payload |-> PayloadBytes(m)]

LEMMA WaitingIs ==
    ASSUME FInv
    PROVE  /\ accepted - settled \in Nat /\ accepted \in Nat /\ settled \in Nat
           /\ accepted <= Current /\ Current \in Nat
           /\ \A m \in 1..accepted : m \in 1..Current
           /\ Waiting \in Seq({Entry(m) : m \in 1..accepted})
           /\ Len(Waiting) = accepted - settled
           /\ \A i \in 1..(accepted - settled) : Waiting[i] = Entry(settled + i)
<1>1. /\ accepted \in Nat /\ settled \in Nat /\ settled <= accepted
      /\ accepted <= Current /\ Current \in Nat
  BY Sizes DEF FInv, Counts
<1>2. accepted - settled \in Nat /\ \A m \in 1..accepted : m \in 1..Current
  BY <1>1
<1>3. Waiting = [i \in 1..(accepted - settled) |-> Entry(settled + i)]
  BY DEF Waiting, Entry
<1>4. \A i \in 1..(accepted - settled) : settled + i \in 1..accepted
  BY <1>1
<1>5. Waiting \in [1..(accepted - settled) -> {Entry(m) : m \in 1..accepted}]
  BY <1>3, <1>4
<1>6. ASSUME NEW S, NEW n \in Nat, NEW f \in [1..n -> S] PROVE f \in Seq(S) /\ Len(f) = n
  OBVIOUS
<1>7. Waiting \in Seq({Entry(m) : m \in 1..accepted}) /\ Len(Waiting) = accepted - settled
  BY <1>2, <1>5, <1>6
<1> QED
  BY <1>1, <1>2, <1>3, <1>7

LEMMA SequenceIsFunction ==
    ASSUME NEW S, NEW f \in Seq(S)
    PROVE  f = [i \in 1..Len(f) |-> f[i]]
OBVIOUS

(* Every step but the end of put() of a payload and in_place_get_advance   *)
(* is invisible.                                                           *)
LEMMA OtherStepsStutter ==
    ASSUME FInv, UNCHANGED <<accepted, settled>>,
           pushed' = pushed \/ \E n \in Lengths : pushed' = Append(pushed, n)
    PROVE  Waiting' = Waiting
<1>1. \A i \in 1..(accepted - settled) :
          settled + i \in 1..Current
  <2>1. accepted <= Current /\ settled \in Nat /\ accepted \in Nat
    BY WaitingIs
  <2> QED
    BY <2>1, WaitingIs
<1>2. \A m \in 1..Current : PayloadBytes(m)' = PayloadBytes(m)
  BY MessagesStay
<1> PICK n : n = accepted - settled
  OBVIOUS
<1>3. /\ Waiting = [i \in 1..n |-> Waiting[i]]
      /\ \A i \in 1..n : Waiting[i] = [head |-> settled + i, payload |-> PayloadBytes(settled + i)]
  BY DEF Waiting
<1>4. /\ Waiting' = [i \in 1..n |-> Waiting'[i]]
      /\ \A i \in 1..n : Waiting'[i] = [head |-> settled + i, payload |-> PayloadBytes(settled + i)']
  BY DEF Waiting
<1>5. \A i \in 1..n : PayloadBytes(settled + i)' = PayloadBytes(settled + i)
  <2> SUFFICES ASSUME NEW i \in 1..n PROVE PayloadBytes(settled + i)' = PayloadBytes(settled + i)
    OBVIOUS
  <2> PICK m : m = settled + i
    OBVIOUS
  <2>1. PayloadBytes(m)' = PayloadBytes(m)
    BY <1>1, <1>2
  <2>2. PayloadBytes(settled + i)' = PayloadBytes(m)'
    BY DEF PayloadBytes, Bytes, MessageSize
  <2> QED
    BY <2>1, <2>2
<1> QED
  BY <1>3, <1>4, <1>5

LEMMA PutsPayloadPuts ==
    ASSUME FInv, NetPutsPayload
    PROVE  Abstract!Put
<1> PICK c : c = Current
  OBVIOUS
<1> PICK w : w = Waiting
  OBVIOUS
<1>1. /\ settled' = settled /\ pushed' = pushed /\ accepted' = c /\ handed' = handed
  BY DEF NetPutsPayload, takeVars
<1>2. accepted = c - 1 /\ c \in Nat \ {0} /\ settled \in Nat /\ settled <= accepted
  BY Sizes DEF NetPutsPayload, FInv, Counts, Pushing
<1>3. /\ w \in Seq({Entry(m) : m \in 1..accepted}) /\ Len(w) = accepted - settled
      /\ \A i \in 1..(accepted - settled) : w[i] = Entry(settled + i)
  BY WaitingIs
<1>4. \A m : PayloadBytes(m)' = PayloadBytes(m)
  BY <1>1 DEF PayloadBytes, Bytes, MessageSize
<1> PICK n : n = c - settled
  OBVIOUS
<1>5. n \in Nat \ {0} /\ Len(w) = n - 1 /\ accepted - settled = n - 1 /\ settled + n = c
  BY <1>2, <1>3
<1>6. Waiting' = [i \in 1..n |-> Entry(settled + i)]
  <2>1. Waiting' = [i \in 1..n |-> [head |-> settled + i, payload |-> PayloadBytes(settled + i)]]
    BY <1>1 DEF Waiting, PayloadBytes, Bytes, MessageSize
  <2> QED
    BY <2>1 DEF Entry
<1>7. Append(w, Entry(c)) = [i \in 1..n |-> Entry(settled + i)]
  <2> PICK S : S = {Entry(m) : m \in 1..accepted}
    OBVIOUS
  <2> PICK e : e = Entry(c)
    OBVIOUS
  <2>1. Append(w, e) \in Seq(S \cup {e}) /\ Len(Append(w, e)) = n
    <3>1. w \in Seq(S \cup {e})
      BY <1>3
    <3> QED
      BY <1>5, <3>1
  <2>2. \A i \in 1..n : Append(w, e)[i] = IF i = n THEN e ELSE w[i]
    BY <1>3, <1>5
  <2>3. Append(w, e) = [i \in 1..n |-> Append(w, e)[i]]
    BY <2>1, SequenceIsFunction
  <2>4. \A i \in 1..n : Append(w, e)[i] = Entry(settled + i)
    <3> SUFFICES ASSUME NEW i \in 1..n PROVE Append(w, e)[i] = Entry(settled + i)
      OBVIOUS
    <3>1. i = n \/ i \in 1..(n - 1)
      BY <1>5
    <3> QED
      BY <1>3, <1>5, <2>2, <3>1
  <2> HIDE <1>3
  <2> QED
    BY <2>3, <2>4
<1>8. Len(Waiting') = n /\ Waiting'[n] = Entry(c) /\ Waiting' # <<>>
  <2>1. Waiting' = Append(w, Entry(c))
    BY <1>6, <1>7
  <2>2. Waiting'[n] = Entry(c)
    BY <1>5, <1>6
  <2>3. ASSUME NEW f, NEW S, f \in [1..n -> S] PROVE Len(f) = n /\ f # <<>>
    BY <1>5, <2>3
  <2>4. Waiting' \in [1..n -> {Entry(settled + i) : i \in 1..n}]
    BY <1>6
  <2> QED
    BY <2>2, <2>3, <2>4
<1> QED
  BY <1>1, <1>6, <1>7, <1>8 DEF Abstract!Put

LEMMA AdvanceTakesOrDiscards ==
    ASSUME FInv, JsAdvance
    PROVE  Abstract!Take \/ Abstract!Discard
<1> PICK w : w = Waiting
  OBVIOUS
<1> PICK s : s = settled + 1
  OBVIOUS
<1> PICK n : n = accepted - settled
  OBVIOUS
<1>1. /\ settled' = s /\ pushed' = pushed /\ accepted' = accepted
      /\ handed' = IF js = "called" THEN Append(handed, message) ELSE handed
      /\ js \in {"called", "tooLarge"}
  BY DEF JsAdvance
<1>2. settled < accepted
  BY <1>1 DEF FInv, Counts, Handling
<1>3. /\ w \in Seq({Entry(m) : m \in 1..accepted}) /\ Len(w) = n
      /\ \A i \in 1..n : w[i] = Entry(settled + i)
      /\ settled \in Nat /\ accepted \in Nat
  BY WaitingIs
<1>4. n \in Nat \ {0} /\ s \in Nat /\ accepted - s = n - 1 /\ s \in 1..Current
  <2>1. s \in 1..Current
    BY <1>2, ReadsMessage
  <2>2. n \in Nat \ {0} /\ s \in Nat /\ accepted - s = n - 1
    BY <1>2, <1>3
  <2> QED
    BY <2>1, <2>2
<1>5. w # <<>> /\ Head(w) = Entry(s)
  <2>1. Head(w) = w[1] /\ 1 \in 1..n
    BY <1>3, <1>4
  <2>2. w # <<>>
    BY <1>3, <1>4
  <2> QED
    BY <1>3, <2>1, <2>2
<1>6. Waiting' = Tail(w)
  <2>1. Waiting' = [i \in 1..(n - 1) |-> [head |-> s + i, payload |-> PayloadBytes(s + i)]]
    BY <1>1, <1>4 DEF Waiting, PayloadBytes, Bytes, MessageSize
  <2>2. Waiting' = [i \in 1..(n - 1) |-> Entry(s + i)]
    BY <2>1 DEF Entry
  <2>3. Tail(w) = [i \in 1..(n - 1) |-> w[i + 1]]
    <3>1. /\ Tail(w) \in Seq({Entry(m) : m \in 1..accepted}) /\ Len(Tail(w)) = n - 1
          /\ \A i \in 1..(n - 1) : Tail(w)[i] = w[i + 1]
      BY <1>3, <1>4, <1>5
    <3>2. Tail(w) = [i \in 1..(n - 1) |-> Tail(w)[i]]
      BY <3>1, SequenceIsFunction
    <3> QED
      BY <3>1, <3>2
  <2>4. \A i \in 1..(n - 1) : w[i + 1] = Entry(s + i)
    <3> SUFFICES ASSUME NEW i \in 1..(n - 1) PROVE w[i + 1] = Entry(s + i)
      OBVIOUS
    <3>1. i + 1 \in 1..n /\ settled + (i + 1) = s + i
      BY <1>3, <1>4
    <3> QED
      BY <1>3, <3>1
  <2> QED
    BY <2>2, <2>3, <2>4
<1>7. CASE js = "called"
  <2>1. message = Entry(s)
    BY <1>7 DEF FInv, Shown, Entry
  <2>2. handed' = Append(handed, Head(w))
    BY <1>1, <1>5, <1>7, <2>1
  <2> QED
    BY <1>5, <1>6, <2>2 DEF Abstract!Take
<1>8. CASE js = "tooLarge"
  <2>1. MessageSize(s) > MaxPacketSize
    BY <1>8 DEF FInv, Shown
  <2>2. MessageSize(s) = HeadSize + pushed[s] /\ pushed[s] \in Nat /\ HeadSize \in Nat
    BY <1>4, Sizes
  <2>3. pushed[s] > MaxPacketSize - HeadSize
    BY <2>1, <2>2, AddonAssumption
  <2>4. Len(Head(w).payload) = pushed[s]
    BY <1>4, <1>5, BytesType DEF Entry
  <2>5. handed' = handed
    BY <1>1, <1>8
  <2> QED
    BY <1>5, <1>6, <2>3, <2>4, <2>5 DEF Abstract!Discard
<1> QED
  BY <1>1, <1>7, <1>8

LEMMA StepRefines ==
    ASSUME FInv, [Next]_vars
    PROVE  [Abstract!Next]_<<Waiting, handed>>
<1>1. CASE NetPutsPayload
  BY <1>1, PutsPayloadPuts DEF Abstract!Next
<1>2. CASE JsAdvance
  BY <1>2, AdvanceTakesOrDiscards DEF Abstract!Next
<1>3. CASE ~NetPutsPayload /\ ~JsAdvance
  <2>1. /\ UNCHANGED <<accepted, settled, handed>>
        /\ pushed' = pushed \/ \E n \in Lengths : pushed' = Append(pushed, n)
    <3>1. CASE NetStep
      BY <1>3, <3>1 DEF NetStep, NetTop, NetTickEnds, NetReceives, NetHasRoom,
         NetCopiesHead, NetPutsHead, NetCopiesPayload, takeVars
    <3>2. CASE JsStep \/ JsStart \/ JsQuit \/ JsThrows
      BY <1>3, <3>2 DEF JsStep, JsProcess, JsLook, JsSize, JsCall, JsJoined, JsStart,
         JsQuit, JsThrows, takeVars
    <3>3. CASE UNCHANGED vars
      BY <3>3 DEF vars, takeVars
    <3> QED
      BY <3>1, <3>2, <3>3 DEF Next
  <2>2. Waiting' = Waiting
    BY <2>1, OtherStepsStutter
  <2> QED
    BY <2>1, <2>2
<1> QED
  BY <1>1, <1>2, <1>3

(* Whatever the size of the fifo and the widths of its counters, and       *)
(* however the two threads interleave, what PushCoreMessage puts in is     *)
(* handed to JavaScript once, whole and in order; only a message that is   *)
(* too large for g_PacketBuffer may be passed over.                        *)
THEOREM MessagesWholeAndInOrder == Spec => WholeAndInOrder
<1>1. Init => Abstract!Init
  <2> SUFFICES ASSUME Init PROVE Abstract!Init
    OBVIOUS
  <2>1. accepted = 0 /\ settled = 0 /\ handed = <<>>
    BY DEF Init
  <2>2. Waiting = <<>>
    BY <2>1 DEF Waiting
  <2> QED
    BY <2>1, <2>2 DEF Abstract!Init
<1>2. FInv /\ [Next]_vars => [Abstract!Next]_<<Waiting, handed>>
  BY StepRefines
<1>3. FInv /\ [Next]_vars => FInv'
  BY FInvNext
<1> QED
  BY <1>1, <1>2, <1>3, FInvInit, PTL DEF Spec, WholeAndInOrder, Abstract!Spec
================================================================================
