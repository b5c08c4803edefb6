---------------------------- MODULE CalcOperators ----------------------------
(***************************************************************************)
(* The operators of the script language (AddApi ... UnsignedRightShiftApi  *)
(* in Common/SimpleScript/calc.cpp) on what a call finds after             *)
(* ReplaceVariableWithValue: a sequence of values.  Numbers are two's      *)
(* complement of IntBits bits; floats and strings are left out.  Invalid   *)
(* is Value(); Stale is a value nobody has written for this call; Trap is  *)
(* the end of the process.                                                 *)
(***************************************************************************)
EXTENDS Integers, Sequences
LOCAL Sequence == INSTANCE SequencesExt
LOCAL FiniteSet == INSTANCE FiniteSetsExt

CONSTANT IntBits    \* width of int
ASSUME IntBitsAssumption == IntBits \in 1..31

Num(n) == [k |-> "num", n |-> n]
Invalid == [k |-> "invalid", n |-> 0]
Stale == [k |-> "stale", n |-> 0]
Trap == [k |-> "trap", n |-> 0]
IsInt(v) == v.k = "num"

\* An int after overflow, as the processor leaves it.
Wrap(n) == LET half == 2^(IntBits - 1) IN ((n + half) % (2 * half)) - half
Flag(b) == Num(IF b THEN 1 ELSE 0)

\* Division rounds towards zero.
Abs(n) == IF n < 0 THEN -n ELSE n
Quotient(a, b) == LET q == Abs(a) \div Abs(b) IN IF (a < 0) = (b < 0) THEN q ELSE -q
\* The instruction traps on a zero divisor and on a quotient that is no int.
Divides(a, b) == b # 0 /\ Quotient(a, b) = Wrap(Quotient(a, b))

\* AddApi, SubApi, MulApi, DivApi, ModApi: from left to right, Invalid as soon as a value is no int.
Arithmetic(name, a, b) ==
  CASE a = Trap -> Trap
    [] a # Trap /\ ~(IsInt(a) /\ IsInt(b)) -> Invalid
    [] name \in {"/", "%"} /\ IsInt(a) /\ IsInt(b) /\ ~Divides(a.n, b.n) -> Trap
    [] OTHER -> Num(Wrap(CASE name = "+" -> a.n + b.n
                           [] name = "-" -> a.n - b.n
                           [] name = "*" -> a.n * b.n
                           [] name = "/" -> Quotient(a.n, b.n)
                           [] name = "%" -> a.n - b.n * Quotient(a.n, b.n)))
Signed(name, a) == IF ~IsInt(a) THEN Invalid ELSE IF name = "-" THEN Num(Wrap(-a.n)) ELSE a

\* LessApi ... NotLessApi compare neighbours, EqApi and NotEqApi the first value with the others.
Compares(name, a, b) ==
  /\ IsInt(a) /\ IsInt(b)
  /\ CASE name = "<" -> a.n < b.n   [] name = ">" -> a.n > b.n
       [] name = "<=" -> a.n <= b.n [] name = ">=" -> a.n >= b.n
       [] name = "==" -> a.n = b.n  [] name = "!=" -> a.n # b.n
Compared(name, v) ==
  Flag(\A i \in 2..Len(v) : Compares(name, v[IF name \in {"==", "!="} THEN 1 ELSE i - 1], v[i]))

\* BitAndApi, BitOrApi, BitXorApi skip what is no int.
Bits(n) == {i \in 0..(IntBits - 1) : (n \div 2^i) % 2 = 1}
OfBits(B) == Wrap(FiniteSet!MapThenSumSet(LAMBDA i : 2^i, B))
Bitwise(name, a, b) ==
  OfBits(CASE name = "&" -> Bits(a) \cap Bits(b)
           [] name = "|" -> Bits(a) \cup Bits(b)
           [] name = "^" -> (Bits(a) \ Bits(b)) \cup (Bits(b) \ Bits(a)))
\* Shifts: the processor looks at the low bits of the count only.
Shifted(name, a, b) ==
  LET c == b % IntBits
  IN CASE name = "<<" -> Wrap(a * 2^c)
       [] name = ">>" -> a \div 2^c
       [] name = ">>>" -> Wrap((a % 2^IntBits) \div 2^c)

\* BitXorApi and the shifts start with the first int of v, but read it from the first value.
Operated(name, v) ==
  LET ints == SelectSeq(v, IsInt)
      rest == IF ints = <<>> THEN <<>> ELSE Tail(ints)
      first == IF ints = <<>> THEN 0 ELSE IF IsInt(v[1]) THEN v[1].n ELSE 0
      step(a, b) == IF name \in {"&", "|", "^"} THEN Bitwise(name, a, b.n) ELSE Shifted(name, a, b.n)
  IN Num(CASE name = "&" -> Sequence!FoldLeft(step, -1, ints)
           [] name = "|" -> Sequence!FoldLeft(step, 0, ints)
           [] OTHER -> Sequence!FoldLeft(step, first, rest))

Unary == {"!", "~"}
Arithmetics == {"+", "-", "*", "/", "%"}
Comparisons == {"<", ">", "<=", ">=", "==", "!="}
Operators == Unary \cup Arithmetics \cup Comparisons \cup {"&&", "||", "&", "|", "^", "<<", ">>", ">>>"}

\* What a call writes to *pRetValue. It writes nothing if the number of values is not right.
Result(name, v) ==
  IF \E i \in DOMAIN v : v[i] = Stale THEN Stale
  ELSE CASE name \in {"+", "-"} /\ Len(v) = 1 -> Signed(name, v[1])
         [] name \in Unary /\ Len(v) = 1 /\ IsInt(v[1]) ->
              IF name = "!" THEN Flag(v[1].n = 0) ELSE Num(Wrap(-v[1].n - 1))
         [] name \in Arithmetics /\ Len(v) > 1 ->
              LET total[i \in 1..Len(v)] == IF i = 1 THEN v[1] ELSE Arithmetic(name, total[i - 1], v[i]) IN total[Len(v)]
         [] name \in Comparisons /\ Len(v) > 1 -> Compared(name, v)
         [] name = "&&" /\ Len(v) > 1 -> Flag(\A i \in DOMAIN v : v[i] # Num(0))
         [] name = "||" /\ Len(v) > 1 -> Flag(\E i \in DOMAIN v : v[i] = Num(1))
         [] name \in {"&", "|", "^", "<<", ">>", ">>>"} /\ Len(v) > 1 -> Operated(name, v)
         [] OTHER -> Stale
================================================================================
