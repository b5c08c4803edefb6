--------------------------- MODULE InterpreterProofs ---------------------------
(***************************************************************************)
(* Proofs about the interpreter, for every script that PrepareRuntimeObject*)
(* can leave (AreTranslated in Interpreter), any number of cells, frames   *)
(* and objects, and a stop at any time: every call keeps its variables,    *)
(* and nothing acts on the result of an Execute that has given up.         *)
(*                                                                         *)
(* The invariant says of each Execute under way which statement of the     *)
(* script it is in, how far it has come and what the values it holds refer *)
(* to; how many closures were under way when it began, which gives it its  *)
(* frame; and that the frames lie apart in m_StackValuePool. The steps     *)
(* come one by one after lemmas about what they are made of.               *)
(***************************************************************************)
EXTENDS Interpreter, FiniteSetTheorems, TLAPS

--------------------------------------------------------------------------------
(* The invariant *)

IsList(s) == \E S : s \in Seq(S)

fns == DOMAIN program.functions

\* What a value refers to is there.
Good(F, v, objs) ==
  /\ v.k = "fn" => v.n \in F
  /\ v.k \in {"obj", "member", "temp"} => v.n \in DOMAIN objs
  /\ v.k = "member" /\ v.ix # SizeIndex => v.ix \in 0..(Size(objs[v.n]) - 1)
  /\ v.k = "global" => v.n \in Globals
  /\ v.k \in {"local", "arg"} => v.n \in Nat
Plain(F, v, objs) == Good(F, v, objs) /\ ~IsRef(v)

GoodObject(F, obj, objs) ==
  /\ DOMAIN obj = {"members", "cap", "temp"}
  /\ IsList(obj.members)
  /\ \A i \in DOMAIN obj.members : DOMAIN obj.members[i] = {"name", "v"} /\ Plain(F, obj.members[i].v, objs)

HoldGood(F, gs, ps, is, objs) ==
  /\ IsList(objs) /\ \A o \in DOMAIN objs : GoodObject(F, objs[o], objs)
  /\ DOMAIN gs = Globals
  /\ \A g \in Globals : Good(F, gs[g], objs) /\ gs[g].k \notin {"local", "arg"}
  /\ DOMAIN ps = 0..(PoolSize - 1)
  /\ \A i \in 0..(PoolSize - 1) : Good(F, ps[i], objs)
  /\ IsList(is) /\ Len(is) <= MaxLevel
  /\ \A i \in DOMAIN is :
       /\ DOMAIN is[i] = {"start", "size", "params"}
       /\ is[i].start \in Nat /\ is[i].size \in Nat
       /\ IsList(is[i].params) /\ \A j \in DOMAIN is[i].params : Plain(F, is[i].params[j], objs)

Fields(a) == DOMAIN a = {"at", "s", "ix", "vals", "val"}
Closes(a) == a.at \in {"body", "method"}

\* A call has the values of its operands up to ix, save that of the one it waits for.
HasValues(F, a, n, objs) ==
  /\ IsList(a.vals) /\ Len(a.vals) = n
  /\ \A i \in 1..n : IF a.s.args[i].k = "do" THEN Plain(F, a.vals[i], objs) ELSE a.vals[i] = a.s.args[i]

\* An activation in a function with L locals, which waits for the Execute it called unless h is "go".
GoodAct(F, a, h, L, C, objs) ==
  /\ Fields(a)
  /\ a.s \in C
  /\ Plain(F, a.val, objs)
  /\ CASE a.at \in {"named", "body", "method"} ->
            h # "go" /\ a.s.op = "call" /\ (a.at = "named" => HasValues(F, a, Len(a.s.args), objs))
       [] a.at = "chosen" -> h # "go" /\ a.s.op = "?"
       [] a.at = "goto" -> a.s.op = "goto" \/ (h # "go" /\ a.s.op = "ifgoto")
       [] a.at = "each" -> h # "go" /\ a.s.op = "foreach"
       [] OTHER -> a.at = a.s.op
  /\ a.at \in {"value", "function", "break", "continue"} => h = "go"
  /\ a.at = "call" =>
       /\ a.ix \in 0..Len(a.s.args)
       /\ h # "go" => a.ix > 0 /\ a.s.args[a.ix].k = "do"
       /\ HasValues(F, a, IF h # "go" THEN a.ix - 1 ELSE a.ix, objs)
  /\ a.at = "literal" => IF a.ix = 0 THEN h = "go" ELSE a.ix \in Nat /\ a.val.k = "obj"
  /\ a.at = "if" => a.ix \in Nat /\ (h # "go" => a.ix < Len(a.s.arms))
  /\ a.at = "for" => IF h # "go" THEN a.ix \in 1..3 ELSE a.ix \in 0..1
  /\ a.at \in {"loop", "looplist", "foreach", "each"} => a.ix \in Nat
  /\ a.at \in {"foreach", "each"} /\ a.ix = 0 => h = "go"
  /\ a.at \in {"foreach", "each"} /\ a.ix > 0 => a.vals[1] = Len(a.s.values)
  /\ a.at = "each" => a.ix > 0
  /\ a.at = "looplist" /\ a.ix > 0 =>
       \/ a.vals[1] = 0
       \/ a.vals[2] \in DOMAIN objs /\ a.vals[1] \in 0..Size(objs[a.vals[2]])

\* The function whose locals are the d-th of os from below has L of them.
HasLocals(d, L, os) ==
  IF d = 0 THEN L = 0 ELSE d \in 1..Len(os) /\ DOMAIN os[Len(os) + 1 - d] = 0..(L - 1)

\* The calls ts wait, the first for a call that began when d closures were under way; ts[i]
\* began when ds[i] were.
Waiting(d, ds, c, F, ts, os, objs) ==
  /\ IsList(ts) /\ IsList(ds) /\ Len(ds) = Len(ts) /\ d \in Nat
  /\ \A i \in 1..Len(ds) : ds[i] \in Nat /\ ds[i] <= d
  /\ \A i, j \in 1..Len(ds) : i < j => ds[j] <= ds[i]
  /\ ts # <<>> => d = IF Closes(ts[1]) THEN ds[1] + 1 ELSE ds[1]
  /\ \A i \in 2..Len(ds) : ds[i - 1] = IF Closes(ts[i]) THEN ds[i] + 1 ELSE ds[i]
  /\ \A i \in 1..Len(ds) : \E L \in DOMAIN c : HasLocals(ds[i], L, os) /\ GoodAct(F, ts[i], "NORMAL", L, c[L], objs)
OnTop(d, c, F, t, h, os, objs) ==
  /\ Len(os) = IF Closes(t) THEN d + 1 ELSE d
  /\ \E L \in DOMAIN c : HasLocals(d, L, os) /\ GoodAct(F, t, h, L, c[L], objs)
StackedIn(c, F, ts, h, os, objs) ==
  /\ IsList(os) /\ IsList(ts)
  /\ ts # <<>> => \E d, ds : Waiting(d, ds, c, F, Tail(ts), os, objs) /\ OnTop(d, c, F, ts[1], h, os, objs)
Stacked(c) == StackedIn(c, fns, acts, how, own, objects)

ApartIn(ps, is, os) ==
  /\ Len(is) = Len(os)
  /\ \A i \in 1..Len(os) : DOMAIN os[i] = 0..(is[i].size - 1)
  /\ \A i \in 1..Len(os) : is[i].start + is[i].size <= PoolSize
  /\ \A i, j \in 1..Len(os) : i < j => is[j].start + is[j].size <= is[i].start
  /\ \A i \in 1..Len(os) : \A l \in DOMAIN os[i] : os[i][l] # Unset => ps[is[i].start + l] = os[i][l]
Apart == ~full /\ ~crashed => ApartIn(pool, infos, own)

Sober == acts # <<>> => top.at # "function"
Halted == cut => ~runFlag /\ Sober

Inv(c) ==
  /\ Translated(program, c)
  /\ HoldGood(fns, globals, pool, infos, objects)
  /\ Plain(fns, out, objects)
  /\ Stacked(c)
  /\ Apart
  /\ Halted

--------------------------------------------------------------------------------
(* Lists *)

LEMMA ListFacts == ASSUME NEW s, IsList(s) PROVE Len(s) \in Nat /\ DOMAIN s = 1..Len(s)
BY DEF IsList

LEMMA EmptyList == IsList(<<>>) /\ Len(<<>>) = 0
<1>1. <<>> \in Seq({})
  OBVIOUS
<1> QED
  BY <1>1 DEF IsList

LEMMA NoLength == ASSUME NEW s, IsList(s) PROVE s = <<>> <=> Len(s) = 0
BY DEF IsList

LEMMA PushFacts ==
  ASSUME NEW x, NEW s, IsList(s)
  PROVE  LET t == <<x>> \o s
         IN IsList(t) /\ Len(t) = Len(s) + 1 /\ t[1] = x /\ \A i \in 1..Len(s) : t[i + 1] = s[i]
<1> PICK S : s \in Seq(S)
  BY DEF IsList
<1> DEFINE all == S \cup {x}
<1>1. s \in Seq(all) /\ <<x>> \in Seq(all)
  OBVIOUS
<1> HIDE DEF all
<1>2. <<x>> \o s \in Seq(all)
  BY <1>1
<1> QED
  BY <1>1, <1>2 DEF IsList

LEMMA TailFacts ==
  ASSUME NEW s, IsList(s), s # <<>>
  PROVE  LET t == Tail(s)
         IN IsList(t) /\ Len(s) >= 1 /\ Len(t) = Len(s) - 1 /\ \A i \in 1..Len(t) : t[i] = s[i + 1]
<1> PICK S : s \in Seq(S)
  BY DEF IsList
<1>1. Tail(s) \in Seq(S) /\ Len(s) >= 1
  OBVIOUS
<1> QED
  BY <1>1 DEF IsList

LEMMA AppendFacts ==
  ASSUME NEW x, NEW s, IsList(s)
  PROVE  LET t == Append(s, x)
         IN IsList(t) /\ Len(t) = Len(s) + 1 /\ t[Len(s) + 1] = x /\ \A i \in 1..Len(s) : t[i] = s[i]
<1> PICK S : s \in Seq(S)
  BY DEF IsList
<1> DEFINE all == S \cup {x}
<1>1. s \in Seq(all) /\ x \in all
  OBVIOUS
<1> HIDE DEF all
<1>2. Append(s, x) \in Seq(all)
  BY <1>1
<1> QED
  BY <1>1, <1>2 DEF IsList

LEMMA ExceptFacts ==
  ASSUME NEW s, IsList(s), NEW j, NEW x
  PROVE  LET t == [s EXCEPT ![j] = x]
         IN IsList(t) /\ Len(t) = Len(s) /\ \A i \in 1..Len(t) : t[i] = IF i = j THEN x ELSE s[i]
<1> PICK S : s \in Seq(S)
  BY DEF IsList
<1> DEFINE all == S \cup {x}
           t == [s EXCEPT ![j] = x]
           n == Len(s)
<1>1. s \in Seq(all) /\ n \in Nat /\ s \in [1..n -> all]
  OBVIOUS
<1>2. t \in [1..n -> all] /\ \A i \in 1..n : t[i] = IF i = j THEN x ELSE s[i]
  BY <1>1
<1>3. t \in Seq(all) /\ Len(t) = n
  <2> HIDE DEF t, all, n
  <2> QED
    BY <1>1, <1>2
<1> QED
  BY <1>2, <1>3 DEF IsList

LEMMA JoinFacts ==
  ASSUME NEW s, NEW t, IsList(s), IsList(t)
  PROVE  LET u == s \o t
         IN /\ IsList(u) /\ Len(u) = Len(s) + Len(t)
            /\ \A i \in 1..Len(s) : u[i] = s[i]
            /\ \A i \in 1..Len(t) : u[Len(s) + i] = t[i]
<1> PICK S : s \in Seq(S)
  BY DEF IsList
<1> PICK T : t \in Seq(T)
  BY DEF IsList
<1> DEFINE all == S \cup T
<1>1. s \in Seq(all) /\ t \in Seq(all)
  OBVIOUS
<1> HIDE DEF all
<1>2. s \o t \in Seq(all)
  BY <1>1
<1> QED
  BY <1>1, <1>2 DEF IsList

LEMMA SingleFacts == ASSUME NEW x PROVE IsList(<<x>>) /\ Len(<<x>>) = 1 /\ <<x>>[1] = x
<1>1. <<x>> \in Seq({x})
  OBVIOUS
<1> QED
  BY <1>1 DEF IsList

LEMMA FunctionIsList ==
  ASSUME NEW n \in Nat, NEW f, f = [i \in 1..n |-> f[i]]
  PROVE  IsList(f) /\ Len(f) = n
<1> DEFINE S == {f[i] : i \in 1..n}
<1>1. f \in [1..n -> S]
  OBVIOUS
<1>2. f \in Seq(S) /\ Len(f) = n
  <2> HIDE DEF S
  <2> QED
    BY <1>1
<1> QED
  BY <1>2 DEF IsList

--------------------------------------------------------------------------------
(* Values *)

Grown(a, b) ==
  /\ IsList(a) /\ IsList(b) /\ Len(a) <= Len(b)
  /\ \A o \in DOMAIN a : Size(a[o]) \in Nat /\ Size(b[o]) \in Nat /\ Size(a[o]) <= Size(b[o])

LEMMA GoodGrows ==
  ASSUME NEW F, NEW a, NEW b, Grown(a, b), NEW v
  PROVE  (Good(F, v, a) => Good(F, v, b)) /\ (Plain(F, v, a) => Plain(F, v, b))
<1>1. DOMAIN a = 1..Len(a) /\ DOMAIN b = 1..Len(b) /\ Len(a) \in Nat /\ Len(b) \in Nat
  BY ListFacts DEF Grown
<1>2. DOMAIN a \subseteq DOMAIN b
  BY <1>1 DEF Grown
<1>3. Good(F, v, a) => Good(F, v, b)
  BY <1>1, <1>2 DEF Good, Grown
<1> QED
  BY <1>3 DEF Plain

LEMMA ObjectSizes ==
  ASSUME NEW F, NEW objs, NEW obj, GoodObject(F, obj, objs)
  PROVE  Size(obj) \in Nat /\ DOMAIN obj.members = 1..Size(obj)
BY ListFacts DEF GoodObject, Size

LEMMA SameGrown ==
  ASSUME NEW F, NEW objs, IsList(objs), \A o \in DOMAIN objs : GoodObject(F, objs[o], objs)
  PROVE  Grown(objs, objs)
<1>1. \A o \in DOMAIN objs : Size(objs[o]) \in Nat
  BY ObjectSizes
<1>2. Len(objs) \in Nat
  BY ListFacts
<1> QED
  BY <1>1, <1>2 DEF Grown

LEMMA SimpleValues ==
  ASSUME NEW F, NEW objs, NEW v, v.k \in {"stale", "num", "invalid", "trap", "name"}
  PROVE  Plain(F, v, objs)
BY DEF Plain, Good, IsRef

LEMMA GoodGlobals ==
  ASSUME NEW F, NEW gs, NEW ps, NEW is, NEW a, NEW b, HoldGood(F, gs, ps, is, a), Grown(a, b),
         \A o \in DOMAIN b : GoodObject(F, b[o], b)
  PROVE  HoldGood(F, gs, ps, is, b)
<1>1. \A v : (Good(F, v, a) => Good(F, v, b)) /\ (Plain(F, v, a) => Plain(F, v, b))
  BY GoodGrows
<1> QED
  BY <1>1 DEF HoldGood, Grown

--------------------------------------------------------------------------------
(* What references lead to *)

\* A set of numbers that has 0, and with each number below n the next one, has n: it would
\* otherwise be as large as what is left of it without 0.
LEMMA Climb ==
  ASSUME NEW n \in Nat, NEW P, 0 \in P, \A k \in 0..(n - 1) : k \in P => k + 1 \in P
  PROVE  n \in P
<1> SUFFICES ASSUME n \notin P PROVE FALSE
  OBVIOUS
<1> DEFINE S == P \cap (0..n)
           f == [k \in S |-> k + 1]
<1>1. IsFiniteSet(0..n)
  BY FS_Interval
<1>2. IsFiniteSet(S) /\ IsFiniteSet(S \ {0}) /\ Cardinality(S \ {0}) = Cardinality(S) - 1
  <2>1. S \in SUBSET (0..n) /\ 0 \in S
    OBVIOUS
  <2> HIDE DEF S
  <2> QED
    BY <1>1, <2>1, FS_Subset, FS_RemoveElement
<1>3. Cardinality(S) \in Nat
  BY <1>2, FS_CardinalityType
<1>4. \A k \in S : k \in Nat /\ k + 1 \in S \ {0}
  OBVIOUS
<1>5. f \in [S -> S \ {0}]
  BY <1>4
<1>6. \E x, y \in S : x # y /\ f[x] = f[y]
  <2> HIDE DEF S, f
  <2> QED
    BY <1>2, <1>3, <1>5, FS_PigeonHole
<1> QED
  BY <1>4, <1>6

LEMMA SameFunction ==
  ASSUME NEW S, NEW f, NEW g, f = [i \in S |-> f[i]], g = [i \in S |-> g[i]], \A i \in S : g[i] = f[i]
  PROVE  f = g
OBVIOUS

LEMMA TargetGood ==
  ASSUME NEW F, PoolSize \in Nat, HoldGood(F, globals, pool, infos, objects), NEW v, Good(F, v, objects)
  PROVE  Good(F, Target(v), objects)
<1>1. CASE IsRef(v) /\ Exists(v)
  <2>1. CASE v.k = "global"
    BY <1>1, <2>1 DEF Target, Cell, Good, HoldGood
  <2>2. CASE v.k = "local"
    <3>1. infos # <<>> /\ Start(v) < PoolSize
      BY <1>1, <2>2 DEF Exists
    <3>2. 1 \in DOMAIN infos
      BY <3>1, ListFacts, NoLength DEF HoldGood
    <3>3. infos[1].start \in Nat /\ v.n \in Nat
      BY <2>2, <3>2 DEF HoldGood, Good
    <3>4. Start(v) \in 0..(PoolSize - 1)
      BY <3>1, <3>3 DEF Start
    <3>5. Cell(v) = pool[Start(v)]
      BY <2>2 DEF Cell
    <3> QED
      BY <1>1, <3>4, <3>5 DEF Target, HoldGood
  <2>3. CASE v.k = "arg"
    <3>1. infos # <<>>
      BY <1>1, <2>3 DEF Exists
    <3>2. 1 \in DOMAIN infos
      BY <3>1, ListFacts, NoLength DEF HoldGood
    <3>3. /\ IsList(infos[1].params) /\ v.n \in Nat
          /\ \A j \in DOMAIN infos[1].params : Plain(F, infos[1].params[j], objects)
      BY <2>3, <3>2 DEF HoldGood, Good
    <3>4. Cell(v) = IF v.n < Len(infos[1].params) THEN infos[1].params[v.n + 1] ELSE Stale
      BY <2>3 DEF Cell
    <3>5. Good(F, Stale, objects)
      BY DEF Good, Stale
    <3>6. v.n < Len(infos[1].params) => v.n + 1 \in DOMAIN infos[1].params
      BY <3>3, ListFacts
    <3> QED
      BY <1>1, <3>3, <3>4, <3>5, <3>6 DEF Target, Plain
  <2> QED
    BY <1>1, <2>1, <2>2, <2>3 DEF IsRef
<1> QED
  BY <1>1 DEF Target

\* Following references one step after the other is a function, however often it is done.
Follows(f, n, v) == f = [i \in 0..n |-> IF i = 0 THEN {v} ELSE {Target(w) : w \in f[i - 1]}]

LEMMA FollowsSteps ==
  ASSUME NEW n \in Nat, NEW f, NEW v, Follows(f, n, v)
  PROVE  /\ f[0] = {v}
         /\ \A i \in 1..n : f[i] = {Target(w) : w \in f[i - 1]}
<1> DEFINE u == [i \in 0..n |-> IF i = 0 THEN {v} ELSE {Target(w) : w \in f[i - 1]}]
<1>1. f = u
  BY DEF Follows
<1>2. u[0] = {v} /\ \A i \in 1..n : u[i] = {Target(w) : w \in f[i - 1]}
  OBVIOUS
<1> HIDE DEF u
<1> QED
  BY <1>1, <1>2

LEMMA FollowsExists == ASSUME NEW n \in Nat, NEW v PROVE \E f : Follows(f, n, v)
<1> DEFINE P == {m \in Nat : \E f : Follows(f, m, v)}
<1>1. 0 \in P
  <2> DEFINE f == [i \in 0..0 |-> {v}]
  <2>1. Follows(f, 0, v)
    <3>1. \A i \in 0..0 : f[i] = IF i = 0 THEN {v} ELSE {Target(w) : w \in f[i - 1]}
      OBVIOUS
    <3> DEFINE u == [i \in 0..0 |-> IF i = 0 THEN {v} ELSE {Target(w) : w \in f[i - 1]}]
    <3>2. f = [i \in 0..0 |-> f[i]] /\ u = [i \in 0..0 |-> u[i]] /\ \A i \in 0..0 : u[i] = f[i]
      BY <3>1
    <3> HIDE DEF u, f
    <3>3. f = u
      BY <3>2, SameFunction
    <3> QED
      BY <3>3 DEF Follows, u
  <2> HIDE DEF f
  <2> QED
    BY <2>1
<1>2. ASSUME NEW m \in 0..(n - 1), m \in P PROVE m + 1 \in P
  <2> PICK f : Follows(f, m, v)
    BY <1>2
  <2> DEFINE g == [i \in 0..(m + 1) |-> IF i = m + 1 THEN {Target(w) : w \in f[m]} ELSE f[i]]
             u == [i \in 0..(m + 1) |-> IF i = 0 THEN {v} ELSE {Target(w) : w \in g[i - 1]}]
  <2>1. m \in Nat
    OBVIOUS
  <2>2. f[0] = {v} /\ \A i \in 1..m : f[i] = {Target(w) : w \in f[i - 1]}
    BY <2>1, FollowsSteps
  <2>3. /\ \A i \in 0..m : g[i] = f[i]
        /\ g[m + 1] = {Target(w) : w \in f[m]}
    BY <2>1
  <2>4. g = [i \in 0..(m + 1) |-> g[i]]
    OBVIOUS
  <2> HIDE DEF g
  <2>5. ASSUME NEW i \in 0..(m + 1) PROVE u[i] = g[i]
    <3>1. CASE i = 0
      BY <2>1, <2>2, <2>3, <3>1
    <3>2. CASE i \in 1..m
      <4>1. i # 0 /\ i - 1 \in 0..m /\ i \in 0..m
        BY <2>1, <3>2
      <4>2. u[i] = {Target(w) : w \in g[i - 1]}
        BY <4>1
      <4> HIDE DEF u
      <4> QED
        BY <2>2, <2>3, <3>2, <4>1, <4>2
    <3>3. CASE i = m + 1
      <4>1. i # 0 /\ i - 1 = m /\ m \in 0..m
        BY <2>1, <3>3
      <4>2. u[i] = {Target(w) : w \in g[m]}
        BY <4>1
      <4> HIDE DEF u
      <4> QED
        BY <2>3, <3>3, <4>1, <4>2
    <3> QED
      BY <2>1, <3>1, <3>2, <3>3
  <2>6. u = [i \in 0..(m + 1) |-> u[i]]
    OBVIOUS
  <2>7. u = g
    <3> HIDE DEF u
    <3> QED
      BY <2>4, <2>5, <2>6, SameFunction
  <2>8. Follows(g, m + 1, v)
    BY <2>7 DEF Follows
  <2> QED
    BY <2>1, <2>8
<1> HIDE DEF P
<1>3. n \in P
  BY <1>1, <1>2, Climb
<1> QED
  BY <1>3 DEF P

\* What is not Endless is a value, and one that is there.
LEMMA DerefPlain ==
  ASSUME NEW F, Parameters, HoldGood(F, globals, pool, infos, objects), NEW v, Good(F, v, objects), ~Endless(v)
  PROVE  Plain(F, Deref(v), objects)
<1> DEFINE steps == Cardinality(Globals) + PoolSize + 1
           after[i \in 0..steps] == IF i = 0 THEN {v} ELSE {Target(w) : w \in after[i - 1]}
<1>1. steps \in Nat
  BY FS_CardinalityType DEF Parameters
<1>2. Deref(v) = CHOOSE w \in after[steps] : TRUE
  BY DEF Deref
<1>3. Follows(after, steps, v)
  <2> HIDE DEF steps
  <2>1. \E f : Follows(f, steps, v)
    BY <1>1, FollowsExists
  <2> QED
    BY <2>1 DEF Follows
<1> HIDE DEF after, steps
<1>4. after[steps] # {} /\ \A w \in after[steps] : Good(F, w, objects)
  <2> DEFINE P == {i \in 0..steps : after[i] # {} /\ \A w \in after[i] : Good(F, w, objects)}
  <2>1. after[0] = {v} /\ \A i \in 1..steps : after[i] = {Target(w) : w \in after[i - 1]}
    BY <1>1, <1>3, FollowsSteps
  <2>2. 0 \in P
    BY <1>1, <2>1
  <2>3. ASSUME NEW k \in 0..(steps - 1), k \in P PROVE k + 1 \in P
    <3>1. k + 1 \in 1..steps /\ k + 1 \in 0..steps /\ (k + 1) - 1 = k
      BY <1>1
    <3>2. after[k + 1] = {Target(w) : w \in after[k]}
      BY <2>1, <3>1
    <3>3. after[k] # {} /\ \A w \in after[k] : Good(F, w, objects)
      BY <2>3
    <3>4. \A w \in after[k] : Good(F, Target(w), objects)
      BY <3>3, TargetGood DEF Parameters
    <3>5. after[k + 1] # {} /\ \A w \in after[k + 1] : Good(F, w, objects)
      BY <3>2, <3>3, <3>4
    <3> QED
      BY <3>1, <3>5
  <2> HIDE DEF P
  <2>4. steps \in P
    BY <1>1, <2>2, <2>3, Climb
  <2> QED
    BY <2>4 DEF P
<1>5. Deref(v) \in after[steps]
  BY <1>2, <1>4
<1> QED
  BY <1>4, <1>5 DEF Plain, Endless

--------------------------------------------------------------------------------
(* Results of operators *)

Numbers == {"stale", "num", "invalid", "trap"}

LEMMA ArithmeticKind == ASSUME NEW name, NEW a, NEW b PROVE Arithmetic(name, a, b).k \in Numbers
BY DEF Arithmetic, Trap, Invalid, Num, Numbers

RunningTotal(f, n, name, v) == f = [i \in 1..n |-> IF i = 1 THEN v[1] ELSE Arithmetic(name, f[i - 1], v[i])]

LEMMA TotalSteps ==
  ASSUME NEW n \in Nat, NEW f, NEW name, NEW v, RunningTotal(f, n, name, v)
  PROVE  \A i \in 1..n : f[i] = IF i = 1 THEN v[1] ELSE Arithmetic(name, f[i - 1], v[i])
<1> DEFINE u == [i \in 1..n |-> IF i = 1 THEN v[1] ELSE Arithmetic(name, f[i - 1], v[i])]
<1>1. f = u
  BY DEF RunningTotal
<1>2. \A i \in 1..n : u[i] = IF i = 1 THEN v[1] ELSE Arithmetic(name, f[i - 1], v[i])
  OBVIOUS
<1> HIDE DEF u
<1> QED
  BY <1>1, <1>2

LEMMA TotalExists == ASSUME NEW n \in Nat, NEW name, NEW v PROVE \E f : RunningTotal(f, n, name, v)
<1> DEFINE P == {m \in Nat : \E f : RunningTotal(f, m, name, v)}
<1>1. 0 \in P
  <2> DEFINE f == [i \in 1..0 |-> v]
             u == [i \in 1..0 |-> IF i = 1 THEN v[1] ELSE Arithmetic(name, f[i - 1], v[i])]
  <2>1. f = [i \in 1..0 |-> f[i]] /\ u = [i \in 1..0 |-> u[i]] /\ \A i \in 1..0 : u[i] = f[i]
    OBVIOUS
  <2>2. f = u
    <3> HIDE DEF u, f
    <3> QED
      BY <2>1, SameFunction
  <2>3. RunningTotal(f, 0, name, v)
    BY <2>2 DEF RunningTotal
  <2> HIDE DEF f
  <2> QED
    BY <2>3
<1>2. ASSUME NEW m \in 0..(n - 1), m \in P PROVE m + 1 \in P
  <2> PICK f : RunningTotal(f, m, name, v)
    BY <1>2
  <2> DEFINE next(h, i) == IF i = 1 THEN v[1] ELSE Arithmetic(name, h[i - 1], v[i])
             g == [i \in 1..(m + 1) |-> IF i = m + 1 THEN next(f, m + 1) ELSE f[i]]
             u == [i \in 1..(m + 1) |-> next(g, i)]
  <2>1. m \in Nat
    OBVIOUS
  <2>2. \A i \in 1..m : f[i] = next(f, i)
    BY <2>1, TotalSteps
  <2>3. /\ \A i \in 1..m : g[i] = f[i]
        /\ g[m + 1] = next(f, m + 1)
    <3> HIDE DEF next
    <3> QED
      BY <2>1
  <2>4. g = [i \in 1..(m + 1) |-> g[i]]
    <3> HIDE DEF next
    <3> QED
      OBVIOUS
  <2> HIDE DEF g
  <2>5. ASSUME NEW i \in 1..(m + 1) PROVE next(g, i) = g[i]
    <3>1. CASE i = 1
      BY <2>1, <2>2, <2>3, <3>1
    <3>2. CASE i # 1
      <4>1. i - 1 \in 1..m /\ (i = m + 1 \/ i \in 1..m)
        BY <2>1, <3>2
      <4>2. next(g, i) = Arithmetic(name, f[i - 1], v[i])
        BY <2>3, <3>2, <4>1
      <4>3. next(f, i) = Arithmetic(name, f[i - 1], v[i])
        BY <3>2
      <4> HIDE DEF next
      <4> QED
        BY <2>2, <2>3, <4>1, <4>2, <4>3
    <3> QED
      BY <3>1, <3>2
  <2>6. u = [i \in 1..(m + 1) |-> u[i]] /\ \A i \in 1..(m + 1) : u[i] = g[i]
    <3> HIDE DEF next
    <3> QED
      BY <2>5
  <2>7. u = g
    <3> HIDE DEF u
    <3> QED
      BY <2>4, <2>6, SameFunction
  <2>8. RunningTotal(g, m + 1, name, v)
    BY <2>7 DEF RunningTotal
  <2> QED
    BY <2>1, <2>8
<1> HIDE DEF P
<1>3. n \in P
  BY <1>1, <1>2, Climb
<1> QED
  BY <1>3 DEF P

LEMMA ResultKind == ASSUME NEW name, NEW v, IsList(v) PROVE Result(name, v).k \in Numbers
<1> DEFINE total[i \in 1..Len(v)] == IF i = 1 THEN v[1] ELSE Arithmetic(name, total[i - 1], v[i])
<1>1. Len(v) > 1 => total[Len(v)].k \in Numbers
  <2> HAVE Len(v) > 1
  <2>1. Len(v) \in Nat /\ Len(v) \in 1..Len(v) /\ Len(v) # 1
    BY ListFacts
  <2>2. RunningTotal(total, Len(v), name, v)
    <3>1. \E f : RunningTotal(f, Len(v), name, v)
      BY <2>1, TotalExists
    <3> QED
      BY <3>1 DEF RunningTotal
  <2> HIDE DEF total
  <2>3. total[Len(v)] = Arithmetic(name, total[Len(v) - 1], v[Len(v)])
    BY <2>1, <2>2, TotalSteps
  <2> QED
    BY <2>3, ArithmeticKind
<1>2. \A a : Signed(name, a).k \in Numbers
  BY DEF Signed, Invalid, Num, IsInt, Numbers
<1>3. \A n : Num(n).k \in Numbers
  BY DEF Num, Numbers
<1>4. Stale.k \in Numbers
  BY DEF Stale, Numbers
<1>5. Compared(name, v).k \in Numbers /\ \A b : Flag(b).k \in Numbers
  BY <1>3 DEF Compared, Flag
<1>6. Operated(name, v).k \in Numbers
  BY <1>3 DEF Operated
<1> DEFINE sum == total[Len(v)]
<1>7. Len(v) > 1 => sum.k \in Numbers
  BY <1>1
<1>8. Result(name, v) =
        IF \E i \in DOMAIN v : v[i] = Stale THEN Stale
        ELSE CASE name \in {"+", "-"} /\ Len(v) = 1 -> Signed(name, v[1])
               [] name \in Unary /\ Len(v) = 1 /\ IsInt(v[1]) ->
                    IF name = "!" THEN Flag(v[1].n = 0) ELSE Num(Wrap(-v[1].n - 1))
               [] name \in Arithmetics /\ Len(v) > 1 -> sum
               [] name \in Comparisons /\ Len(v) > 1 -> Compared(name, v)
               [] name = "&&" /\ Len(v) > 1 -> Flag(\A i \in DOMAIN v : v[i] # Num(0))
               [] name = "||" /\ Len(v) > 1 -> Flag(\E i \in DOMAIN v : v[i] = Num(1))
               [] name \in {"&", "|", "^", "<<", ">>", ">>>"} /\ Len(v) > 1 -> Operated(name, v)
               [] OTHER -> Stale
  BY DEF Result
<1> HIDE DEF total, sum
<1> QED
  BY <1>2, <1>3, <1>4, <1>5, <1>6, <1>7, <1>8

LEMMA ResultPlain == ASSUME NEW F, NEW name, NEW v, IsList(v), NEW objs PROVE Plain(F, Result(name, v), objs)
BY ResultKind, SimpleValues DEF Numbers

--------------------------------------------------------------------------------
(* Objects *)

LEMMA MemberIndex ==
  ASSUME NEW F, NEW obj, NEW objs, GoodObject(F, obj, objs), NEW name
  PROVE  GetMemberIndex(obj, name) \in 0..(Size(obj) - 1) \cup {SizeIndex, NoIndex}
<1> DEFINE named == {i \in DOMAIN obj.members : obj.members[i].name = name}
<1>1. DOMAIN obj.members = 1..Size(obj) /\ Size(obj) \in Nat
  BY ObjectSizes
<1>2. CASE named # {}
  <2>1. (CHOOSE i \in named : TRUE) \in named
    BY <1>2
  <2>2. GetMemberIndex(obj, name) = (CHOOSE i \in named : TRUE) - 1
    BY <1>2 DEF GetMemberIndex
  <2> QED
    BY <1>1, <2>1, <2>2
<1>3. CASE named = {}
  BY <1>3 DEF GetMemberIndex
<1> QED
  BY <1>2, <1>3

LEMMA AccessFacts ==
  ASSUME NEW F, NEW objs, NEW obj, GoodObject(F, obj, objs), NEW o, NEW key
  PROVE  LET a == Access(obj, o, key)
         IN /\ GoodObject(F, a.obj, objs) /\ a.obj.members = obj.members
            /\ \/ a.value = Stale
               \/ a.value = TempAccessor(o)
               \/ \E ix \in 0..(Size(obj) - 1) \cup {SizeIndex} : \E cap : a.value = Accessor(o, ix, cap)
<1> DEFINE a == Access(obj, o, key)
           ix == CASE key.k = "name" -> GetMemberIndex(obj, key.n)
                   [] key.k = "num" -> IF key.n \in 0..(Size(obj) - 1) THEN key.n ELSE NoIndex
                   [] OTHER -> NoIndex
           temp == [name |-> IF key.k = "name" THEN key.n ELSE NoName,
                    ix |-> IF key.k = "name" THEN Size(obj) ELSE key.n]
<1>1. a = CASE key.k \notin {"name", "num"} -> [obj |-> obj, value |-> Stale]
            [] key.k \in {"name", "num"} /\ ix # NoIndex ->
                 [obj |-> obj, value |-> Accessor(o, ix, IF ix = SizeIndex THEN 0 ELSE obj.cap)]
            [] OTHER -> [obj |-> [obj EXCEPT !.temp = temp], value |-> TempAccessor(o)]
  BY DEF Access
<1>2. ix # NoIndex => ix \in 0..(Size(obj) - 1) \cup {SizeIndex}
  BY MemberIndex
<1>3. GoodObject(F, [obj EXCEPT !.temp = temp], objs) /\ [obj EXCEPT !.temp = temp].members = obj.members
  <2> HIDE DEF temp
  <2> QED
    BY DEF GoodObject
<1> DEFINE Fine(x) ==
             /\ GoodObject(F, x.obj, objs) /\ x.obj.members = obj.members
             /\ \/ x.value = Stale
                \/ x.value = TempAccessor(o)
                \/ \E i \in 0..(Size(obj) - 1) \cup {SizeIndex} : \E cap : x.value = Accessor(o, i, cap)
<1>4. Fine([obj |-> obj, value |-> Stale])
  OBVIOUS
<1>5. ix # NoIndex => Fine([obj |-> obj, value |-> Accessor(o, ix, IF ix = SizeIndex THEN 0 ELSE obj.cap)])
  <2> HIDE DEF ix
  <2> QED
    BY <1>2
<1>6. Fine([obj |-> [obj EXCEPT !.temp = temp], value |-> TempAccessor(o)])
  <2> HIDE DEF temp
  <2> QED
    BY <1>3
<1>7. Fine(a)
  <2> HIDE DEF a, ix, temp, Fine
  <2> QED
    BY <1>1, <1>4, <1>5, <1>6
<1> QED
  BY <1>7

LEMMA AddedFacts ==
  ASSUME NEW F, NEW objs, NEW obj, GoodObject(F, obj, objs), NEW ix \in Nat, ix >= Size(obj), NEW v, Plain(F, v, objs)
  PROVE  LET a == AddTempToMember(obj, ix, v) IN GoodObject(F, a, objs) /\ Size(a) >= Size(obj)
<1>1. Size(obj) \in Nat /\ DOMAIN obj.members = 1..Size(obj) /\ IsList(obj.members)
  BY ObjectSizes DEF GoodObject
<1>2. CASE ix >= MaxMembers
  BY <1>1, <1>2 DEF AddTempToMember
<1>3. CASE ~(ix >= MaxMembers)
  <2> DEFINE gap == [i \in 1..(ix - Size(obj)) |-> [name |-> NoName, v |-> Invalid]]
             last == <<[name |-> obj.temp.name, v |-> v]>>
             front == obj.members \o gap
             a == [members |-> front \o last, cap |-> Capacity(obj.cap, ix),
                   temp |-> [name |-> NoName, ix |-> NoIndex]]
  <2>1. AddTempToMember(obj, ix, v) = a
    BY <1>3 DEF AddTempToMember
  <2>2. ix - Size(obj) \in Nat
    BY <1>1
  <2>3. IsList(gap) /\ Len(gap) = ix - Size(obj) /\ \A i \in 1..Len(gap) : gap[i] = [name |-> NoName, v |-> Invalid]
    <3>1. gap = [i \in 1..(ix - Size(obj)) |-> gap[i]]
      OBVIOUS
    <3>2. \A i \in 1..(ix - Size(obj)) : gap[i] = [name |-> NoName, v |-> Invalid]
      OBVIOUS
    <3> HIDE DEF gap
    <3> QED
      BY <2>2, <3>1, <3>2, FunctionIsList
  <2>4. IsList(last) /\ Len(last) = 1 /\ last[1] = [name |-> obj.temp.name, v |-> v]
    BY SingleFacts
  <2> HIDE DEF gap, last
  <2>5. /\ IsList(front) /\ Len(front) = Size(obj) + Len(gap)
        /\ \A i \in 1..Size(obj) : front[i] = obj.members[i]
        /\ \A i \in 1..Len(gap) : front[Size(obj) + i] = gap[i]
    <3>1. IsList(obj.members) /\ IsList(gap) /\ Len(obj.members) = Size(obj)
      BY <1>1, <2>3 DEF Size
    <3>2. IsList(front)
      BY <3>1, JoinFacts
    <3>3. Len(front) = Len(obj.members) + Len(gap)
      BY <3>1, JoinFacts
    <3>4. \A i \in 1..Len(obj.members) : front[i] = obj.members[i]
      BY <3>1, JoinFacts
    <3>5. \A i \in 1..Len(gap) : front[Len(obj.members) + i] = gap[i]
      BY <3>1, JoinFacts
    <3> HIDE DEF front
    <3> QED
      BY <3>1, <3>2, <3>3, <3>4, <3>5
  <2> HIDE DEF front
  <2>6. /\ IsList(front \o last) /\ Len(front \o last) = Len(front) + 1
        /\ \A i \in 1..Len(front) : (front \o last)[i] = front[i]
        /\ (front \o last)[Len(front) + 1] = last[1]
    <3>1. IsList(front) /\ IsList(last) /\ Len(last) = 1
      BY <2>4, <2>5
    <3>2. IsList(front \o last)
      BY <3>1, JoinFacts
    <3>3. Len(front \o last) = Len(front) + Len(last)
      BY <3>1, JoinFacts
    <3>4. \A i \in 1..Len(front) : (front \o last)[i] = front[i]
      BY <3>1, JoinFacts
    <3>5. \A i \in 1..Len(last) : (front \o last)[Len(front) + i] = last[i]
      BY <3>1, JoinFacts
    <3> QED
      BY <2>4, <3>1, <3>2, <3>3, <3>4, <3>5
  <2> DEFINE ms == front \o last
  <2>7. DOMAIN ms = 1..Len(ms) /\ Len(ms) \in Nat /\ Len(gap) \in Nat /\ Len(front) \in Nat
    BY <2>3, <2>5, <2>6, ListFacts
  <2> DEFINE Member(m) == DOMAIN m = {"name", "v"} /\ Plain(F, m.v, objs)
  <2>8. ASSUME NEW i \in 1..Len(ms) PROVE Member(ms[i])
    <3>1. CASE i <= Size(obj)
      <4>1. i \in 1..Len(front) /\ i \in DOMAIN obj.members /\ i \in 1..Size(obj)
        BY <1>1, <2>5, <2>7, <3>1
      <4>2. ms[i] = obj.members[i]
        BY <2>5, <2>6, <4>1
      <4> HIDE DEF ms
      <4> QED
        BY <4>1, <4>2 DEF GoodObject
    <3>2. CASE i > Size(obj) /\ i <= Len(front)
      <4>1. i \in 1..Len(front) /\ i - Size(obj) \in 1..Len(gap) /\ Size(obj) + (i - Size(obj)) = i
        BY <1>1, <2>5, <2>7, <3>2
      <4>2. ms[i] = gap[i - Size(obj)]
        BY <2>5, <2>6, <4>1
      <4>3. gap[i - Size(obj)] = [name |-> NoName, v |-> Invalid]
        BY <2>3, <4>1
      <4>4. Plain(F, Invalid, objs)
        BY SimpleValues DEF Invalid
      <4> HIDE DEF ms
      <4> QED
        BY <4>2, <4>3, <4>4
    <3>3. CASE i > Len(front)
      <4>1. i = Len(front) + 1
        BY <2>6, <2>7, <3>3
      <4>2. ms[i] = [name |-> obj.temp.name, v |-> v]
        BY <2>4, <2>6, <4>1
      <4> HIDE DEF ms
      <4> QED
        BY <4>2
    <3>4. i \in Nat /\ Size(obj) \in Nat /\ Len(front) \in Nat
      BY <1>1, <2>7
    <3> HIDE DEF Member, ms
    <3> QED
      BY <3>1, <3>2, <3>3, <3>4
  <2>9. GoodObject(F, a, objs) /\ Size(a) = Len(ms)
    <3>1. a.members = ms /\ DOMAIN a = {"members", "cap", "temp"}
      OBVIOUS
    <3> HIDE DEF ms, a
    <3> QED
      BY <2>6, <2>7, <2>8, <3>1 DEF GoodObject, Size, ms
  <2> QED
    BY <1>1, <2>1, <2>5, <2>6, <2>7, <2>9
<1> QED
  BY <1>2, <1>3

LEMMA OperateFacts ==
  ASSUME NEW F, NEW objs, NEW obj, GoodObject(F, obj, objs), NEW ix, NEW values, IsList(values),
         \A i \in DOMAIN values : Plain(F, values[i], objs), NEW property
  PROVE  LET done == Operate(obj, ix, values, property)
         IN GoodObject(F, done.obj, objs) /\ Size(done.obj) \in Nat /\ Size(done.obj) >= Size(obj) /\ Plain(F, done.value, objs)
<1> DEFINE done == Operate(obj, ix, values, property)
           Fine(d) == GoodObject(F, d.obj, objs) /\ Size(d.obj) \in Nat /\ Size(d.obj) >= Size(obj) /\ Plain(F, d.value, objs)
<1>0. Size(obj) \in Nat /\ DOMAIN obj.members = 1..Size(obj)
  BY ObjectSizes
<1>1. \A n : Plain(F, Num(n), objs)
  BY SimpleValues DEF Num
<1>2. Plain(F, Stale, objs)
  BY SimpleValues DEF Stale
<1>3. Len(values) = 1 => Plain(F, values[1], objs)
  BY ListFacts
<1>4. Fine([obj |-> obj, value |-> Num(Size(obj))]) /\ Fine([obj |-> obj, value |-> Stale])
  BY <1>0, <1>1, <1>2
<1>5. ix \in 0..(Size(obj) - 1) => Fine([obj |-> obj, value |-> obj.members[ix + 1].v])
  <2> HAVE ix \in 0..(Size(obj) - 1)
  <2>1. ix + 1 \in DOMAIN obj.members
    BY <1>0
  <2>2. Plain(F, obj.members[ix + 1].v, objs)
    BY <2>1 DEF GoodObject
  <2> QED
    BY <1>0, <2>2
<1>6. ix \in 0..(Size(obj) - 1) /\ Len(values) = 1 =>
        Fine([obj |-> [obj EXCEPT !.members[ix + 1].v = values[1]], value |-> values[1]])
  <2> HAVE ix \in 0..(Size(obj) - 1) /\ Len(values) = 1
  <2> DEFINE m == [obj.members[ix + 1] EXCEPT !.v = values[1]]
             ms == [obj.members EXCEPT ![ix + 1] = m]
             new == [obj EXCEPT !.members[ix + 1].v = values[1]]
  <2>1. ix + 1 \in DOMAIN obj.members
    BY <1>0
  <2>2. DOMAIN m = {"name", "v"} /\ m.v = values[1]
    BY <2>1 DEF GoodObject
  <2>3. new = [obj EXCEPT !.members = ms]
    OBVIOUS
  <2> HIDE DEF m
  <2>4. IsList(ms) /\ Len(ms) = Size(obj) /\ \A i \in 1..Len(ms) : ms[i] = IF i = ix + 1 THEN m ELSE obj.members[i]
    <3>1. IsList(obj.members)
      BY DEF GoodObject
    <3>2. IsList(ms)
      BY <3>1, ExceptFacts
    <3>3. Len(ms) = Len(obj.members)
      BY <3>1, ExceptFacts
    <3>4. \A i \in 1..Len(ms) : ms[i] = IF i = ix + 1 THEN m ELSE obj.members[i]
      BY <3>1, ExceptFacts
    <3> QED
      BY <3>2, <3>3, <3>4 DEF Size
  <2>5. DOMAIN ms = 1..Size(obj)
    BY <2>4, ListFacts
  <2> HIDE DEF ms
  <2>6. DOMAIN new = {"members", "cap", "temp"} /\ new.members = ms
    <3> HIDE DEF new
    <3> QED
      BY <2>3 DEF GoodObject
  <2> HIDE DEF new
  <2>7. \A i \in 1..Size(obj) : DOMAIN ms[i] = {"name", "v"} /\ Plain(F, ms[i].v, objs)
    BY <1>0, <1>3, <2>2, <2>4 DEF GoodObject
  <2>8. GoodObject(F, new, objs) /\ Size(new) = Size(obj)
    BY <2>4, <2>5, <2>6, <2>7 DEF GoodObject, Size
  <2> QED
    BY <1>0, <1>3, <2>8 DEF new
<1>7. ix \in Nat /\ ix >= Size(obj) /\ Len(values) = 1 =>
        Fine([obj |-> AddTempToMember(obj, ix, values[1]), value |-> values[1]])
  BY <1>0, <1>3, AddedFacts, ObjectSizes
<1>8. Fine(done)
  <2>1. \/ done = [obj |-> obj, value |-> Num(Size(obj))]
        \/ done = [obj |-> obj, value |-> Stale]
        \/ ix \in 0..(Size(obj) - 1) /\ done = [obj |-> obj, value |-> obj.members[ix + 1].v]
        \/ ix \in 0..(Size(obj) - 1) /\ Len(values) = 1 /\ done = [obj |-> [obj EXCEPT !.members[ix + 1].v = values[1]], value |-> values[1]]
        \/ ix \in Nat /\ ix >= Size(obj) /\ Len(values) = 1 /\ done = [obj |-> AddTempToMember(obj, ix, values[1]), value |-> values[1]]
    BY DEF Operate
  <2> HIDE DEF done, Fine
  <2> QED
    BY <1>4, <1>5, <1>6, <1>7, <2>1
<1> QED
  BY <1>8

LEMMA GivenFacts ==
  ASSUME NEW F, NEW objs, NEW values, IsList(values), \A i \in DOMAIN values : Plain(F, values[i], objs)
  PROVE  IsList(Given(values)) /\ \A i \in DOMAIN Given(values) : Plain(F, Given(values)[i], objs)
<1>1. IsList(<<>>) /\ DOMAIN <<>> = {}
  BY EmptyList
<1> QED
  BY <1>1 DEF Given

LEMMA PutFacts ==
  ASSUME NEW F, NEW objs, NEW obj, GoodObject(F, obj, objs), NEW key, NEW v, Plain(F, v, objs)
  PROVE  GoodObject(F, Put(obj, key, v), objs) /\ Size(Put(obj, key, v)) >= Size(obj)
<1> DEFINE access == Access(obj, 0, key)
<1>1. GoodObject(F, access.obj, objs) /\ Size(access.obj) = Size(obj)
  BY AccessFacts DEF Size
<1>2. IsList(<<v>>) /\ \A i \in DOMAIN <<v>> : Plain(F, <<v>>[i], objs)
  BY SingleFacts, ListFacts
<1>3. IsList(Given(<<v>>)) /\ \A i \in DOMAIN Given(<<v>>) : Plain(F, Given(<<v>>)[i], objs)
  BY <1>2, GivenFacts
<1> HIDE DEF access
<1>4. Put(obj, key, v) = Operate(access.obj, MemberOf(access.value, access.obj), Given(<<v>>), TRUE).obj
  BY DEF Put, access
<1> QED
  BY <1>1, <1>3, <1>4, OperateFacts

LEMMA NewObjectGood == ASSUME NEW F, NEW objs PROVE GoodObject(F, NewObject, objs) /\ Size(NewObject) = 0
BY EmptyList DEF GoodObject, NewObject, Size

--------------------------------------------------------------------------------
(* The object of args() *)

Gathers(f, n) == f = [i \in 0..n |-> IF i = 0 THEN NewObject ELSE Put(f[i - 1], Num(i - 1), params[i])]

LEMMA GathersSteps ==
  ASSUME NEW n \in Nat, NEW f, Gathers(f, n)
  PROVE  f[0] = NewObject /\ \A i \in 1..n : f[i] = Put(f[i - 1], Num(i - 1), params[i])
<1> DEFINE u == [i \in 0..n |-> IF i = 0 THEN NewObject ELSE Put(f[i - 1], Num(i - 1), params[i])]
<1>1. f = u
  BY DEF Gathers
<1>2. u[0] = NewObject /\ \A i \in 1..n : u[i] = Put(f[i - 1], Num(i - 1), params[i])
  OBVIOUS
<1> HIDE DEF u
<1> QED
  BY <1>1, <1>2

LEMMA GathersExists == ASSUME NEW n \in Nat PROVE \E f : Gathers(f, n)
<1> DEFINE next(h, i) == IF i = 0 THEN NewObject ELSE Put(h[i - 1], Num(i - 1), params[i])
           P == {m \in Nat : \E f : Gathers(f, m)}
<1>1. 0 \in P
  <2> DEFINE f == [i \in 0..0 |-> NewObject]
             u == [i \in 0..0 |-> next(f, i)]
  <2>1. f = [i \in 0..0 |-> f[i]] /\ u = [i \in 0..0 |-> u[i]] /\ \A i \in 0..0 : u[i] = f[i]
    OBVIOUS
  <2>2. f = u
    <3> HIDE DEF u, f, next
    <3> QED
      BY <2>1, SameFunction
  <2>3. Gathers(f, 0)
    BY <2>2 DEF Gathers
  <2> HIDE DEF f
  <2> QED
    BY <2>3
<1>2. ASSUME NEW m \in 0..(n - 1), m \in P PROVE m + 1 \in P
  <2> PICK f : Gathers(f, m)
    BY <1>2
  <2> DEFINE g == [i \in 0..(m + 1) |-> IF i = m + 1 THEN next(f, m + 1) ELSE f[i]]
             u == [i \in 0..(m + 1) |-> next(g, i)]
  <2>1. m \in Nat
    OBVIOUS
  <2>2. \A i \in 0..m : f[i] = next(f, i)
    BY <2>1, GathersSteps
  <2>3. /\ \A i \in 0..m : g[i] = f[i]
        /\ g[m + 1] = next(f, m + 1)
    <3> HIDE DEF next
    <3> QED
      BY <2>1
  <2>4. g = [i \in 0..(m + 1) |-> g[i]]
    <3> HIDE DEF next
    <3> QED
      OBVIOUS
  <2> HIDE DEF g
  <2>5. ASSUME NEW i \in 0..(m + 1) PROVE next(g, i) = g[i]
    <3>1. CASE i = 0
      BY <2>1, <2>2, <2>3, <3>1
    <3>2. CASE i # 0
      <4>1. i - 1 \in 0..m /\ (i = m + 1 \/ i \in 0..m)
        BY <2>1, <3>2
      <4>2. next(g, i) = Put(f[i - 1], Num(i - 1), params[i])
        BY <2>3, <3>2, <4>1
      <4>3. next(f, i) = Put(f[i - 1], Num(i - 1), params[i])
        BY <3>2
      <4> HIDE DEF next
      <4> QED
        BY <2>2, <2>3, <4>1, <4>2, <4>3
    <3> QED
      BY <3>1, <3>2
  <2>6. u = [i \in 0..(m + 1) |-> u[i]] /\ \A i \in 0..(m + 1) : u[i] = g[i]
    <3> HIDE DEF next
    <3> QED
      BY <2>5
  <2>7. u = g
    <3> HIDE DEF u, next
    <3> QED
      BY <2>4, <2>6, SameFunction
  <2>8. Gathers(g, m + 1)
    BY <2>7 DEF Gathers
  <2> QED
    BY <2>1, <2>8
<1> HIDE DEF P
<1>3. n \in P
  BY <1>1, <1>2, Climb
<1> QED
  BY <1>3 DEF P

LEMMA ParamsPlain ==
  ASSUME NEW F, HoldGood(F, globals, pool, infos, objects)
  PROVE  IsList(params) /\ \A i \in DOMAIN params : Plain(F, params[i], objects)
<1>1. CASE infos = <<>>
  <2>1. params = <<>> /\ DOMAIN <<>> = {}
    BY <1>1 DEF params
  <2> QED
    BY <2>1, EmptyList
<1>2. CASE infos # <<>>
  <2>1. 1 \in DOMAIN infos
    BY <1>2, ListFacts, NoLength DEF HoldGood
  <2> QED
    BY <1>2, <2>1 DEF params, HoldGood
<1> QED
  BY <1>1, <1>2

LEMMA ArgsGood ==
  ASSUME NEW F, HoldGood(F, globals, pool, infos, objects)
  PROVE  LET given[i \in 0..Len(params)] == IF i = 0 THEN NewObject ELSE Put(given[i - 1], Num(i - 1), params[i])
         IN GoodObject(F, given[Len(params)], objects)
<1> DEFINE n == Len(params)
           given[i \in 0..n] == IF i = 0 THEN NewObject ELSE Put(given[i - 1], Num(i - 1), params[i])
<1>1. n \in Nat /\ \A i \in 1..n : Plain(F, params[i], objects)
  BY ParamsPlain, ListFacts
<1>2. Gathers(given, n)
  <2> HIDE DEF n
  <2>1. \E f : Gathers(f, n)
    BY <1>1, GathersExists
  <2> QED
    BY <2>1 DEF Gathers
<1>3. GoodObject(F, given[n], objects)
  <2> HIDE DEF given, n
  <2> DEFINE P == {i \in 0..n : GoodObject(F, given[i], objects)}
  <2>1. given[0] = NewObject /\ \A i \in 1..n : given[i] = Put(given[i - 1], Num(i - 1), params[i])
    BY <1>1, <1>2, GathersSteps
  <2>2. 0 \in P
    BY <1>1, <2>1, NewObjectGood
  <2>3. ASSUME NEW k \in 0..(n - 1), k \in P PROVE k + 1 \in P
    <3>1. k + 1 \in 1..n /\ k + 1 \in 0..n /\ (k + 1) - 1 = k
      BY <1>1
    <3>2. given[k + 1] = Put(given[k], Num(k), params[k + 1])
      BY <2>1, <3>1
    <3>3. GoodObject(F, given[k + 1], objects)
      BY <1>1, <2>3, <3>1, <3>2, PutFacts
    <3> QED
      BY <3>1, <3>3
  <2> HIDE DEF P
  <2>4. n \in P
    BY <1>1, <2>2, <2>3, Climb
  <2> QED
    BY <2>4 DEF P
<1> QED
  BY <1>3

--------------------------------------------------------------------------------
(* Writing variables *)

SameLocals(a, b) == IsList(a) /\ IsList(b) /\ Len(a) = Len(b) /\ \A i \in 1..Len(a) : DOMAIN a[i] = DOMAIN b[i]

LEMMA OwnWritten ==
  ASSUME NEW os, IsList(os), NEW l, NEW v
  PROVE  SameLocals(os, [os EXCEPT ![1][l] = v])
<1> DEFINE o == [os[1] EXCEPT ![l] = v]
           t == [os EXCEPT ![1] = o]
<1>1. DOMAIN o = DOMAIN os[1]
  OBVIOUS
<1> HIDE DEF o
<1>2. IsList(t)
  BY ExceptFacts
<1>3. Len(t) = Len(os)
  BY ExceptFacts
<1>4. \A i \in 1..Len(t) : t[i] = IF i = 1 THEN o ELSE os[i]
  BY ExceptFacts
<1> HIDE DEF t
<1>5. SameLocals(os, t)
  BY <1>1, <1>2, <1>3, <1>4 DEF SameLocals
<1>6. t = [os EXCEPT ![1][l] = v]
  BY DEF t, o
<1> QED
  BY <1>5, <1>6

\* A local variable of the innermost frame lies in no other frame.
LEMMA LocalWritten ==
  ASSUME NEW F, NEW ps, NEW gs, NEW is, NEW objs, NEW os, HoldGood(F, gs, ps, is, objs), IsList(os), os # <<>>,
         PoolSize \in Nat, ApartIn(ps, is, os), NEW l \in DOMAIN os[1], NEW v
  PROVE  ApartIn([ps EXCEPT ![is[1].start + l] = v], is, [os EXCEPT ![1][l] = v])
<1> DEFINE p == [ps EXCEPT ![is[1].start + l] = v]
           o == [os EXCEPT ![1][l] = v]
           frame(i) == is[i].start + is[i].size
<1>1. SameLocals(os, o)
  BY OwnWritten
<1>2. 1 \in 1..Len(os) /\ Len(os) \in Nat /\ DOMAIN os = 1..Len(os) /\ Len(is) = Len(os)
  BY NoLength, ListFacts DEF ApartIn
<1>3. \A i \in 1..Len(os) : is[i].start \in Nat /\ is[i].size \in Nat
  BY <1>2, ListFacts DEF HoldGood
<1>4. l \in 0..(is[1].size - 1)
  BY <1>2 DEF ApartIn
<1>5. o[1][l] = v /\ \A m \in DOMAIN os[1] : m # l => o[1][m] = os[1][m]
  BY <1>2
<1>6. \A i \in 2..Len(os) : o[i] = os[i]
  BY <1>2
<1>7. p[is[1].start + l] = v /\ \A c \in DOMAIN ps : c # is[1].start + l => p[c] = ps[c]
  <2>1. is[1].start + l \in DOMAIN ps
    <3>1. is[1].start + is[1].size <= PoolSize
      BY <1>2 DEF ApartIn
    <3> QED
      BY <1>2, <1>3, <1>4, <3>1 DEF HoldGood
  <2> QED
    BY <2>1
<1> HIDE DEF p, o
<1>8. ASSUME NEW i \in 1..Len(os), NEW m \in DOMAIN o[i], o[i][m] # Unset
      PROVE  p[is[i].start + m] = o[i][m]
  <2>1. m \in DOMAIN os[i] /\ m \in 0..(is[i].size - 1)
    BY <1>1, <1>8 DEF SameLocals, ApartIn
  <2>2. is[i].start + is[i].size <= PoolSize
    BY DEF ApartIn
  <2>3. is[i].start + m \in DOMAIN ps
    <3> DEFINE start == is[i].start
               size == is[i].size
    <3>1. start \in Nat /\ size \in Nat /\ m \in 0..(size - 1) /\ start + size <= PoolSize /\ PoolSize \in Nat
      BY <1>3, <2>1, <2>2
    <3>2. DOMAIN ps = 0..(PoolSize - 1)
      BY DEF HoldGood
    <3> HIDE DEF start, size
    <3>3. start + m \in 0..(PoolSize - 1)
      BY <3>1
    <3> QED
      BY <3>2, <3>3 DEF start
  <2>4. CASE i = 1 /\ m = l
    BY <1>5, <1>7, <2>4
  <2>5. CASE i = 1 /\ m # l
    <3>1. is[1].start + m # is[1].start + l
      BY <1>2, <1>3, <1>4, <2>1, <2>5
    <3>2. o[1][m] = os[1][m] /\ os[1][m] # Unset
      BY <1>5, <1>8, <2>1, <2>5
    <3>3. ps[is[1].start + m] = os[1][m]
      BY <1>2, <2>1, <2>5, <3>2 DEF ApartIn
    <3> QED
      BY <1>7, <2>3, <2>5, <3>1, <3>2, <3>3
  <2>6. CASE i # 1
    <3>1. i \in 2..Len(os)
      BY <1>2, <2>6
    <3>2. is[i].start + is[i].size <= is[1].start
      BY <1>2, <3>1 DEF ApartIn
    <3>3. is[i].start + m # is[1].start + l
      <4> DEFINE start == is[i].start
                 size == is[i].size
                 first == is[1].start
                 room == is[1].size
      <4>1. start \in Nat /\ size \in Nat /\ first \in Nat /\ room \in Nat /\ start + size <= first
        BY <1>2, <1>3, <3>2
      <4>2. m \in 0..(size - 1) /\ l \in 0..(room - 1)
        BY <1>4, <2>1
      <4> HIDE DEF start, size, first, room
      <4>3. start + m # first + l
        BY <4>1, <4>2
      <4> QED
        BY <4>3 DEF start, first
    <3>4. o[i][m] = os[i][m] /\ os[i][m] # Unset
      BY <1>6, <1>8, <3>1
    <3>5. ps[is[i].start + m] = os[i][m]
      BY <2>1, <3>4 DEF ApartIn
    <3> QED
      BY <1>7, <2>3, <3>3, <3>4, <3>5
  <2> QED
    BY <2>4, <2>5, <2>6
<1>9. ApartIn(p, is, o)
  BY <1>1, <1>2, <1>8 DEF ApartIn, SameLocals
<1> QED
  BY <1>9 DEF p, o

LEMMA PoolWritten ==
  ASSUME NEW F, NEW gs, NEW ps, NEW is, NEW objs, HoldGood(F, gs, ps, is, objs), NEW c, NEW v, Good(F, v, objs)
  PROVE  HoldGood(F, gs, [ps EXCEPT ![c] = v], is, objs)
BY DEF HoldGood

LEMMA GlobalWritten ==
  ASSUME NEW F, NEW gs, NEW ps, NEW is, NEW objs, HoldGood(F, gs, ps, is, objs), NEW g, NEW v,
         Good(F, v, objs), v.k \notin {"local", "arg"}
  PROVE  HoldGood(F, [gs EXCEPT ![g] = v], ps, is, objs)
BY DEF HoldGood

LEMMA ParameterWritten ==
  ASSUME NEW F, NEW gs, NEW ps, NEW is, NEW objs, HoldGood(F, gs, ps, is, objs), NEW n, NEW v, Plain(F, v, objs)
  PROVE  LET t == [is EXCEPT ![1].params[n] = v]
         IN /\ HoldGood(F, gs, ps, t, objs)
            /\ Len(t) = Len(is) /\ \A i \in 1..Len(t) : t[i].start = is[i].start /\ t[i].size = is[i].size
<1> DEFINE old == is[1].params
           new == [old EXCEPT ![n] = v]
           frame == [is[1] EXCEPT !.params = new]
           t == [is EXCEPT ![1] = frame]
<1>1. IsList(is) /\ DOMAIN is = 1..Len(is) /\ Len(is) \in Nat
  BY ListFacts DEF HoldGood
<1>2. 1 \in DOMAIN is =>
        /\ DOMAIN frame = {"start", "size", "params"} /\ frame.start = is[1].start /\ frame.size = is[1].size
        /\ frame.params = new
  <2> HIDE DEF new
  <2> QED
    BY DEF HoldGood
<1>3. 1 \in DOMAIN is => IsList(new) /\ \A j \in DOMAIN new : Plain(F, new[j], objs)
  <2> HAVE 1 \in DOMAIN is
  <2>1. IsList(old) /\ \A j \in DOMAIN old : Plain(F, old[j], objs)
    BY DEF HoldGood
  <2>2. DOMAIN old = 1..Len(old)
    BY <2>1, ListFacts
  <2> HIDE DEF old
  <2>3. IsList(new)
    BY <2>1, ExceptFacts
  <2>4. Len(new) = Len(old)
    BY <2>1, ExceptFacts
  <2>5. \A i \in 1..Len(new) : new[i] = IF i = n THEN v ELSE old[i]
    BY <2>1, ExceptFacts
  <2> HIDE DEF new
  <2>6. DOMAIN new = 1..Len(new)
    BY <2>3, ListFacts
  <2> QED
    BY <2>1, <2>2, <2>3, <2>4, <2>5, <2>6
<1> HIDE DEF frame
<1>4. IsList(t)
  BY <1>1, ExceptFacts
<1>5. Len(t) = Len(is)
  BY <1>1, ExceptFacts
<1>6. \A i \in 1..Len(t) : t[i] = IF i = 1 THEN frame ELSE is[i]
  BY <1>1, ExceptFacts
<1> HIDE DEF t, new, old
<1>7. DOMAIN t = 1..Len(t)
  BY <1>4, ListFacts
<1>8. \A i \in 1..Len(t) : t[i].start = is[i].start /\ t[i].size = is[i].size
  BY <1>1, <1>2, <1>5, <1>6
<1>9. HoldGood(F, gs, ps, t, objs)
  BY <1>1, <1>2, <1>3, <1>4, <1>5, <1>6, <1>7 DEF HoldGood
<1>10. t = [is EXCEPT ![1].params[n] = v]
  BY DEF t, frame, new, old
<1> QED
  BY <1>5, <1>8, <1>9, <1>10

LEMMA SameFrames ==
  ASSUME NEW ps, NEW is, NEW t, NEW os, ApartIn(ps, is, os), Len(t) = Len(is),
         \A i \in 1..Len(t) : t[i].start = is[i].start /\ t[i].size = is[i].size
  PROVE  ApartIn(ps, t, os)
BY DEF ApartIn


Moved == Grown(objects, objects') /\ SameLocals(own, own')
Lasts(F) == HoldGood(F, globals', pool', infos', objects') /\ (~full' /\ ~crashed' => ApartIn(pool', infos', own'))
Kept(F) == Lasts(F) /\ Moved

LEMMA SetValueKeeps ==
  ASSUME NEW F, Parameters, HoldGood(F, globals, pool, infos, objects), IsList(own), Apart,
         NEW r, NEW v, Good(F, v, objects), SetValue(r, v), full' = full, crashed' = crashed,
         r.k = "global" => v.k \notin {"local", "arg"},
         r.k = "arg" => Plain(F, v, objects),
         r.k = "local" => own # <<>> /\ r.n \in DOMAIN own[1]
  PROVE  Kept(F)
<1>0. Grown(objects, objects) /\ SameLocals(own, own) /\ objects' = objects
  BY SameGrown DEF HoldGood, SameLocals, SetValue
<1>1. CASE r.k = "global"
  <2>1. globals' = [globals EXCEPT ![r.n] = v] /\ pool' = pool /\ infos' = infos /\ own' = own
    BY <1>1 DEF SetValue
  <2>2. HoldGood(F, globals', pool, infos, objects)
    BY <1>1, <2>1, GlobalWritten
  <2> QED
    BY <1>0, <2>1, <2>2 DEF Kept, Lasts, Moved, Apart
<1>2. CASE r.k = "local"
  <2>1. /\ globals' = globals /\ pool' = [pool EXCEPT ![infos[1].start + r.n] = v] /\ infos' = infos
        /\ own' = [own EXCEPT ![1][r.n] = v]
    BY <1>2 DEF SetValue, Start
  <2>2. HoldGood(F, globals, pool', infos, objects)
    BY <2>1, PoolWritten
  <2>3. SameLocals(own, own')
    BY <2>1, OwnWritten
  <2>4. ApartIn(pool, infos, own) => ApartIn(pool', infos, own')
    BY <1>2, <2>1, LocalWritten DEF Parameters
  <2> QED
    BY <1>0, <2>1, <2>2, <2>3, <2>4 DEF Kept, Lasts, Moved, Apart
<1>3. CASE r.k = "arg"
  <2>1. globals' = globals /\ pool' = pool /\ own' = own
    BY <1>3 DEF SetValue
  <2>2. CASE infos' = infos
    BY <1>0, <2>1, <2>2 DEF Kept, Lasts, Moved, Apart
  <2>3. CASE infos' = [infos EXCEPT ![1].params[r.n + 1] = v]
    <3>1. /\ HoldGood(F, globals, pool, infos', objects)
          /\ Len(infos') = Len(infos)
          /\ \A i \in 1..Len(infos') : infos'[i].start = infos[i].start /\ infos'[i].size = infos[i].size
      <4>1. Plain(F, v, objects)
        BY <1>3
      <4>2. HoldGood(F, globals, pool, infos', objects)
        BY <2>3, <4>1, ParameterWritten
      <4>3. Len(infos') = Len(infos)
        BY <2>3, <4>1, ParameterWritten
      <4>4. \A i \in 1..Len(infos') : infos'[i].start = infos[i].start /\ infos'[i].size = infos[i].size
        BY <2>3, <4>1, ParameterWritten
      <4> QED
        BY <4>2, <4>3, <4>4
    <3>2. ApartIn(pool, infos, own) => ApartIn(pool, infos', own)
      BY <3>1, SameFrames
    <3> QED
      BY <1>0, <2>1, <3>1, <3>2 DEF Kept, Lasts, Moved, Apart
  <2> QED
    BY <1>3, <2>2, <2>3 DEF SetValue
<1>4. CASE r.k \notin {"global", "local", "arg"}
  <2>1. globals' = globals /\ pool' = pool /\ own' = own /\ infos' = infos
    BY <1>4 DEF SetValue
  <2> QED
    BY <1>0, <2>1 DEF Kept, Lasts, Moved, Apart
<1> QED
  BY <1>1, <1>2, <1>3, <1>4

LEMMA RoundKeeps ==
  ASSUME NEW F, Parameters, HoldGood(F, globals, pool, infos, objects), IsList(own), Apart,
         NEW key, NEW v, Plain(F, key, objects), Plain(F, v, objects), RoundBegins(key, v), crashed' = crashed,
         top.s.var.k = top.s.key.k,
         top.s.var.k = "local" =>
           own # <<>> /\ top.s.var.n \in DOMAIN own[1] /\ top.s.key.n \in DOMAIN own[1]
  PROVE  Kept(F)
<1> DEFINE r == top.s.var
           q == top.s.key
<1>0. /\ Grown(objects, objects) /\ SameLocals(own, own) /\ objects' = objects /\ infos' = infos /\ full' = full
      /\ Good(F, v, objects) /\ Good(F, key, objects) /\ v.k \notin {"local", "arg"} /\ key.k \notin {"local", "arg"}
  BY SameGrown DEF HoldGood, SameLocals, RoundBegins, Plain, IsRef
<1>1. CASE r.k = "global"
  <2> DEFINE gs == [globals EXCEPT ![q.n] = key]
  <2>1. globals' = [gs EXCEPT ![r.n] = v] /\ pool' = pool /\ own' = own
    BY <1>1 DEF RoundBegins
  <2>2. HoldGood(F, gs, pool, infos, objects)
    BY <1>0, GlobalWritten
  <2> HIDE DEF gs
  <2>3. HoldGood(F, globals', pool, infos, objects)
    BY <1>0, <2>1, <2>2, GlobalWritten
  <2> QED
    BY <1>0, <2>1, <2>3 DEF Kept, Lasts, Moved, Apart
<1>2. CASE r.k = "local"
  <2> DEFINE ps == [pool EXCEPT ![infos[1].start + q.n] = key]
             os == [own EXCEPT ![1][q.n] = key]
  <2>1. /\ globals' = globals /\ pool' = [ps EXCEPT ![infos[1].start + r.n] = v]
        /\ own' = [os EXCEPT ![1][r.n] = v]
    BY <1>2 DEF RoundBegins, Start
  <2>2. HoldGood(F, globals, ps, infos, objects)
    BY <1>0, PoolWritten
  <2>3. SameLocals(own, os)
    BY OwnWritten
  <2>4. ApartIn(pool, infos, own) => ApartIn(ps, infos, os)
    BY <1>2, LocalWritten DEF Parameters
  <2> HIDE DEF ps, os
  <2>5. HoldGood(F, globals, pool', infos, objects)
    BY <1>0, <2>1, <2>2, PoolWritten
  <2>6. SameLocals(os, own') /\ IsList(os)
    <3>1. IsList(os)
      BY <2>3 DEF SameLocals
    <3>2. SameLocals(os, [os EXCEPT ![1][r.n] = v])
      BY <3>1, OwnWritten
    <3> QED
      BY <2>1, <3>1, <3>2
  <2>7. SameLocals(own, own')
    BY <2>3, <2>6 DEF SameLocals
  <2>8. os # <<>> /\ r.n \in DOMAIN os[1]
    <3>1. Len(own) \in Nat /\ Len(own) # 0
      BY <1>2, ListFacts, NoLength
    <3> QED
      BY <1>2, <2>3, <2>6, <3>1, NoLength DEF SameLocals
  <2>9. ApartIn(pool, infos, own) => ApartIn(pool', infos, own')
    BY <2>1, <2>2, <2>4, <2>6, <2>8, LocalWritten DEF Parameters
  <2> QED
    BY <1>0, <2>1, <2>5, <2>7, <2>9 DEF Kept, Lasts, Moved, Apart
<1>3. CASE r.k \notin {"global", "local"}
  <2>1. globals' = globals /\ pool' = pool /\ own' = own
    BY <1>3 DEF RoundBegins
  <2> QED
    BY <1>0, <2>1 DEF Kept, Lasts, Moved, Apart
<1> QED
  BY <1>1, <1>2, <1>3

LEMMA QuietKeeps ==
  ASSUME NEW F, HoldGood(F, globals, pool, infos, objects), IsList(own), Apart, UNCHANGED <<data, full, own>>, crashed => crashed'
  PROVE  Kept(F)
<1>1. Grown(objects, objects) /\ SameLocals(own, own)
  BY SameGrown DEF HoldGood, SameLocals
<1> QED
  BY <1>1 DEF Kept, Lasts, Moved, Apart, data

LEMMA ObjectsKeep ==
  ASSUME NEW F, HoldGood(F, globals, pool, infos, objects), IsList(own), Apart, UNCHANGED <<globals, pool, infos, full, own>>,
         crashed => crashed', Grown(objects, objects'), \A o \in DOMAIN objects' : GoodObject(F, objects'[o], objects')
  PROVE  Kept(F)
<1>1. SameLocals(own, own)
  BY DEF SameLocals
<1>2. HoldGood(F, globals, pool, infos, objects')
  BY GoodGlobals
<1> QED
  BY <1>1, <1>2 DEF Kept, Lasts, Moved, Apart

--------------------------------------------------------------------------------
(* The calls under way *)

LEMMA ActGrows ==
  ASSUME NEW F, NEW a, NEW b, Grown(a, b), NEW t, NEW h, NEW L, NEW C, GoodAct(F, t, h, L, C, a)
  PROVE  GoodAct(F, t, h, L, C, b)
<1>1. \A v : Plain(F, v, a) => Plain(F, v, b)
  BY GoodGrows
<1>2. \A n : HasValues(F, t, n, a) => HasValues(F, t, n, b)
  BY <1>1 DEF HasValues
<1>3. DOMAIN a \subseteq DOMAIN b
  BY ListFacts DEF Grown
<1>4. \A o \in DOMAIN a : 0..Size(a[o]) \subseteq 0..Size(b[o])
  BY DEF Grown
<1> HIDE DEF Grown
<1> QED
  BY <1>1, <1>2, <1>3, <1>4 DEF GoodAct

LEMMA LocalsStay ==
  ASSUME NEW d, NEW L, NEW a, NEW b, SameLocals(a, b), HasLocals(d, L, a)
  PROVE  HasLocals(d, L, b)
<1>1. Len(a) \in Nat /\ Len(b) = Len(a)
  BY ListFacts DEF SameLocals
<1>2. CASE d = 0
  BY <1>2 DEF HasLocals
<1>3. CASE d # 0
  <2>1. d \in 1..Len(a) /\ Len(a) + 1 - d \in 1..Len(a)
    BY <1>1, <1>3 DEF HasLocals
  <2> QED
    BY <1>1, <1>3, <2>1 DEF HasLocals, SameLocals
<1> QED
  BY <1>2, <1>3

LEMMA WaitingMoves ==
  ASSUME NEW c, NEW F, NEW ts, NEW a, NEW b, Grown(a, b), NEW oa, NEW ob, NEW d, NEW ds,
         \A e \in 0..d : \A L : HasLocals(e, L, oa) => HasLocals(e, L, ob),
         Waiting(d, ds, c, F, ts, oa, a)
  PROVE  Waiting(d, ds, c, F, ts, ob, b)
<1>1. ASSUME NEW i \in 1..Len(ds)
      PROVE  \E L \in DOMAIN c : HasLocals(ds[i], L, ob) /\ GoodAct(F, ts[i], "NORMAL", L, c[L], b)
  <2> PICK L \in DOMAIN c : HasLocals(ds[i], L, oa) /\ GoodAct(F, ts[i], "NORMAL", L, c[L], a)
    BY DEF Waiting
  <2>1. ds[i] \in Nat /\ ds[i] <= d /\ d \in Nat
    BY DEF Waiting
  <2>2. ds[i] \in 0..d
    BY <2>1
  <2> QED
    BY <2>2, ActGrows
<1> QED
  BY <1>1 DEF Waiting

LEMMA WaitingStays ==
  ASSUME NEW c, NEW F, NEW ts, NEW a, NEW b, Grown(a, b), NEW oa, NEW ob, SameLocals(oa, ob), NEW d, NEW ds,
         Waiting(d, ds, c, F, ts, oa, a)
  PROVE  Waiting(d, ds, c, F, ts, ob, b)
BY LocalsStay, WaitingMoves

LEMMA TailOfPush == ASSUME NEW t, NEW s, IsList(s) PROVE Tail(<<t>> \o s) = s
<1> PICK S : s \in Seq(S)
  BY DEF IsList
<1>1. s \in Seq(S \cup {t}) /\ t \in S \cup {t}
  OBVIOUS
<1> QED
  BY <1>1

\* A call begins to wait.
LEMMA PutOn ==
  ASSUME NEW c, NEW F, NEW ts, NEW os, NEW objs, NEW d, NEW ds, Waiting(d, ds, c, F, ts, os, objs),
         NEW t, NEW L \in DOMAIN c, HasLocals(d, L, os), GoodAct(F, t, "NORMAL", L, c[L], objs),
         NEW m \in Nat, m = IF Closes(t) THEN d + 1 ELSE d
  PROVE  Waiting(m, <<d>> \o ds, c, F, <<t>> \o ts, os, objs)
<1> DEFINE n == <<t>> \o ts
           e == <<d>> \o ds
<1>1. IsList(ts) /\ IsList(ds) /\ Len(ds) = Len(ts) /\ Len(ts) \in Nat /\ d \in Nat
  BY ListFacts DEF Waiting
<1>2. IsList(n)
  BY <1>1, PushFacts
<1>3. Len(n) = Len(ts) + 1
  BY <1>1, PushFacts
<1>4. n[1] = t
  BY <1>1, PushFacts
<1>5. \A i \in 1..Len(ts) : n[i + 1] = ts[i]
  BY <1>1, PushFacts
<1>6. IsList(e)
  BY <1>1, PushFacts
<1>7. Len(e) = Len(ds) + 1
  BY <1>1, PushFacts
<1>8. e[1] = d
  BY <1>1, PushFacts
<1>9. \A i \in 1..Len(ds) : e[i + 1] = ds[i]
  BY <1>1, PushFacts
<1> HIDE DEF n, e
<1>10. \A i \in 2..Len(e) : i - 1 \in 1..Len(ds) /\ (i - 1) + 1 = i /\ e[i] = ds[i - 1] /\ n[i] = ts[i - 1]
  <2> TAKE i \in 2..Len(e)
  <2>1. i - 1 \in 1..Len(ds) /\ (i - 1) + 1 = i
    BY <1>1, <1>7
  <2>2. e[(i - 1) + 1] = ds[i - 1] /\ n[(i - 1) + 1] = ts[i - 1]
    BY <1>1, <1>5, <1>9, <2>1
  <2> QED
    BY <2>1, <2>2
<1>11. Len(e) = Len(n) /\ \A i \in 1..Len(e) : i = 1 \/ i \in 2..Len(e)
  BY <1>1, <1>3, <1>7
<1>12. \A i \in 1..Len(e) : e[i] \in Nat /\ e[i] <= d
  <2>1. \A i \in 1..Len(ds) : ds[i] \in Nat /\ ds[i] <= d
    BY DEF Waiting
  <2> TAKE i \in 1..Len(e)
  <2>2. CASE i = 1
    BY <1>1, <1>8, <2>2
  <2>3. CASE i \in 2..Len(e)
    BY <1>10, <2>1, <2>3
  <2> QED
    BY <1>11, <2>2, <2>3
<1>13. \A i \in 1..Len(e) : e[i] <= m
  BY <1>1, <1>12
<1>14. \A i, j \in 1..Len(e) : i < j => e[j] <= e[i]
  <2> TAKE i, j \in 1..Len(e)
  <2> HAVE i < j
  <2>1. j \in 2..Len(e)
    BY <1>1, <1>7
  <2>2. CASE i = 1
    BY <1>8, <1>12, <2>2
  <2>3. CASE i \in 2..Len(e)
    <3>1. i - 1 < j - 1
      BY <2>1, <2>3
    <3> QED
      BY <1>10, <2>1, <2>3, <3>1 DEF Waiting
  <2> QED
    BY <1>11, <2>2, <2>3
<1>15. \A i \in 2..Len(e) : e[i - 1] = IF Closes(n[i]) THEN e[i] + 1 ELSE e[i]
  <2> TAKE i \in 2..Len(e)
  <2>1. CASE i = 2
    <3>1. 1 \in 1..Len(ds) /\ e[2] = ds[1] /\ n[2] = ts[1]
      <4>1. 2 - 1 = 1 /\ 2 \in 2..Len(e)
        BY <2>1
      <4> QED
        BY <1>10, <4>1
    <3>2. ts # <<>>
      BY <1>1, <3>1, NoLength
    <3> QED
      BY <1>8, <2>1, <3>1, <3>2 DEF Waiting
  <2>2. CASE i # 2
    <3>1. i - 1 \in 2..Len(e) /\ i - 1 \in 2..Len(ds)
      BY <1>1, <1>7, <2>2
    <3>2. e[i - 1] = ds[(i - 1) - 1] /\ e[i] = ds[i - 1] /\ n[i] = ts[i - 1]
      BY <1>10, <3>1
    <3> QED
      BY <3>1, <3>2 DEF Waiting
  <2> QED
    BY <2>1, <2>2
<1>16. ASSUME NEW i \in 1..Len(e)
      PROVE  \E K \in DOMAIN c : HasLocals(e[i], K, os) /\ GoodAct(F, n[i], "NORMAL", K, c[K], objs)
  <2>1. CASE i = 1
    BY <1>4, <1>8, <2>1
  <2>2. CASE i \in 2..Len(e)
    BY <1>10, <2>2 DEF Waiting
  <2> QED
    BY <1>11, <2>1, <2>2
<1>17. Waiting(m, e, c, F, n, os, objs)
  BY <1>1, <1>2, <1>4, <1>6, <1>8, <1>11, <1>12, <1>13, <1>14, <1>15, <1>16 DEF Waiting
<1> QED
  BY <1>17 DEF n, e

\* The first of the calls that wait goes on.
LEMMA TakeOff ==
  ASSUME NEW c, NEW F, NEW ts, ts # <<>>, NEW os, NEW objs, NEW d, NEW ds, Waiting(d, ds, c, F, ts, os, objs)
  PROVE  /\ Waiting(ds[1], Tail(ds), c, F, Tail(ts), os, objs)
         /\ d = IF Closes(ts[1]) THEN ds[1] + 1 ELSE ds[1]
         /\ \E L \in DOMAIN c : HasLocals(ds[1], L, os) /\ GoodAct(F, ts[1], "NORMAL", L, c[L], objs)
<1> DEFINE t == Tail(ts)
           e == Tail(ds)
<1>1. IsList(ts) /\ IsList(ds) /\ Len(ds) = Len(ts)
  BY DEF Waiting
<1>2. Len(ts) \in Nat /\ Len(ts) >= 1 /\ ds # <<>> /\ 1 \in 1..Len(ds)
  BY <1>1, ListFacts, NoLength
<1>3. IsList(t) /\ Len(t) = Len(ts) - 1
  BY <1>1, TailFacts
<1>4. \A i \in 1..Len(t) : t[i] = ts[i + 1]
  BY <1>1, TailFacts
<1>5. IsList(e) /\ Len(e) = Len(ds) - 1
  BY <1>1, <1>2, TailFacts
<1>6. \A i \in 1..Len(e) : e[i] = ds[i + 1]
  BY <1>1, <1>2, TailFacts
<1> HIDE DEF t, e
<1>7. \A i \in 1..Len(e) : i + 1 \in 2..Len(ds) /\ i + 1 \in 1..Len(ds) /\ i \in 1..Len(t) /\ 1 < i + 1
  BY <1>1, <1>2, <1>3, <1>5
<1>8. ds[1] \in Nat /\ \A i \in 1..Len(e) : e[i] \in Nat /\ e[i] <= ds[1]
  BY <1>2, <1>6, <1>7 DEF Waiting
<1>9. \A i, j \in 1..Len(e) : i < j => e[j] <= e[i]
  BY <1>5, <1>6, <1>7, <1>1, <1>2 DEF Waiting
<1>10. \A i \in 1..Len(e) : ds[i] = IF Closes(t[i]) THEN e[i] + 1 ELSE e[i]
  <2> TAKE i \in 1..Len(e)
  <2>1. i + 1 \in 2..Len(ds) /\ (i + 1) - 1 = i
    BY <1>7
  <2>2. ds[i] = IF Closes(ts[i + 1]) THEN ds[i + 1] + 1 ELSE ds[i + 1]
    BY <2>1 DEF Waiting
  <2> QED
    BY <1>4, <1>6, <1>7, <2>2
<1>11. t # <<>> => ds[1] = IF Closes(t[1]) THEN e[1] + 1 ELSE e[1]
  <2> HAVE t # <<>>
  <2>1. 1 \in 1..Len(e)
    BY <1>1, <1>2, <1>3, <1>5, NoLength
  <2> QED
    BY <1>10, <2>1
<1>12. \A i \in 2..Len(e) : e[i - 1] = IF Closes(t[i]) THEN e[i] + 1 ELSE e[i]
  <2> TAKE i \in 2..Len(e)
  <2>1. i \in 1..Len(e) /\ i - 1 \in 1..Len(e) /\ (i - 1) + 1 = i
    BY <1>1, <1>2, <1>5
  <2> QED
    BY <1>6, <1>10, <2>1
<1>13. \A i \in 1..Len(e) : \E L \in DOMAIN c : HasLocals(e[i], L, os) /\ GoodAct(F, t[i], "NORMAL", L, c[L], objs)
  BY <1>4, <1>6, <1>7 DEF Waiting
<1>14. Waiting(ds[1], e, c, F, t, os, objs)
  BY <1>1, <1>3, <1>5, <1>8, <1>9, <1>11, <1>12, <1>13 DEF Waiting
<1> QED
  BY <1>2, <1>14 DEF Waiting, t, e

--------------------------------------------------------------------------------
(* Operands and statements *)

LEMMA OperandGood ==
  ASSUME NEW F, NEW objs, NEW L \in Nat, NEW x \in VariablesIn(L) \cup Constants
  PROVE  Good(F, x, objs) /\ x.k # "do" /\ (~IsRef(x) => x \in Constants) /\ (x \in Constants => ~IsRef(x))
<1>1. x \in VariablesIn(L) => x.k \in {"global", "local", "arg"} /\ (x.k = "global" => x.n \in Globals)
                               /\ (x.k \in {"local", "arg"} => x.n \in Nat)
  BY DEF VariablesIn
<1>2. x \in Constants => x.k \in {"num", "name", "invalid"}
  BY DEF Constants, Invalid
<1> QED
  BY <1>1, <1>2 DEF Good, IsRef

\* A variable of a function with L locals that is a local is one of them.
LEMMA LocalIn ==
  ASSUME NEW L \in Nat, NEW x \in VariablesIn(L), x.k = "local", NEW os, IsList(os), HasLocals(Len(os), L, os)
  PROVE  os # <<>> /\ x.n \in DOMAIN os[1]
<1>1. x.n \in 0..(L - 1)
  BY DEF VariablesIn
<1>2. L # 0 /\ Len(os) \in Nat
  BY <1>1, ListFacts
<1>3. Len(os) # 0 /\ DOMAIN os[Len(os) + 1 - Len(os)] = 0..(L - 1)
  BY <1>2 DEF HasLocals
<1>4. Len(os) + 1 - Len(os) = 1
  BY <1>2
<1> QED
  BY <1>1, <1>3, <1>4, NoLength

LEMMA NoValues == ASSUME NEW F, NEW a, a.vals = <<>>, NEW objs PROVE HasValues(F, a, 0, objs)
BY EmptyList DEF HasValues

LEMMA ActOfStatement ==
  ASSUME NEW F, NEW objs, NEW L, NEW C, NEW s \in C, IsStatement(F, s, L, C)
  PROVE  GoodAct(F, Act(s), "go", L, C, objs) /\ Act(s).at = s.op /\ ~Closes(Act(s))
<1> DEFINE a == Act(s)
<1>1. /\ a.at = s.op /\ a.s = s /\ a.ix = (IF s.op = "block" THEN 1 ELSE 0) /\ a.vals = <<>> /\ a.val = Stale
      /\ Fields(a)
  BY DEF Act, Fields
<1>2. s.op \in Operations
  BY DEF IsStatement
<1>3. Plain(F, a.val, objs)
  BY <1>1, SimpleValues DEF Stale
<1> HIDE DEF a
<1>4. s.op = "call" => IsList(s.args)
  BY DEF IsStatement, IsCall, IsList
<1>5. s.op = "call" => 0 \in 0..Len(s.args)
  BY <1>4, ListFacts
<1>6. HasValues(F, a, 0, objs)
  BY <1>1, NoValues
<1>7. ~Closes(a)
  BY <1>1, <1>2 DEF Closes, Operations
<1>8. GoodAct(F, a, "go", L, C, objs)
  BY <1>1, <1>2, <1>3, <1>5, <1>6 DEF GoodAct, Operations
<1> QED
  BY <1>1, <1>7, <1>8 DEF a

LEMMA AnyResult ==
  ASSUME NEW F, NEW a, NEW L, NEW C, NEW objs, GoodAct(F, a, "NORMAL", L, C, objs), NEW h, h # "go"
  PROVE  GoodAct(F, a, h, L, C, objs) /\ a.at # "function"
BY DEF GoodAct
--------------------------------------------------------------------------------
(* What the control of a step does to the stack *)

Here(c, F) == StackedIn(c, F, acts, how, own, objects) /\ acts # <<>>
Goes(c, F) == (crashed => crashed') /\ Plain(F, out', objects') /\ StackedIn(c, F, acts', how', own', objects')

LEMMA Returns ==
  ASSUME NEW c, NEW F, Here(c, F), ~Closes(top), Moved, NEW h, h # "go", NEW v, Plain(F, v, objects'), Return(h, v)
  PROVE  Goes(c, F) /\ Sober'
<1>1. acts' = Tail(acts) /\ how' = h /\ out' = v /\ (crashed => crashed')
  BY DEF Return
<1>2. IsList(own) /\ IsList(own') /\ Len(own') = Len(own)
  BY DEF Moved, SameLocals
<1>3. IsList(acts')
  BY <1>1, TailFacts DEF Here, StackedIn
<1> PICK d, ds : Waiting(d, ds, c, F, Tail(acts), own, objects) /\ OnTop(d, c, F, top, how, own, objects)
  BY DEF Here, StackedIn, top
<1>4. CASE acts' = <<>>
  BY <1>1, <1>2, <1>3, <1>4 DEF Goes, StackedIn, Sober
<1>5. CASE acts' # <<>>
  <2>1. Len(own') = d
    BY <1>2 DEF OnTop
  <2>2. Waiting(d, ds, c, F, acts', own', objects')
    BY <1>1, WaitingStays DEF Moved
  <2>3. Waiting(ds[1], Tail(ds), c, F, Tail(acts'), own', objects')
    BY <1>5, <2>2, TakeOff
  <2>4. d = IF Closes(acts'[1]) THEN ds[1] + 1 ELSE ds[1]
    BY <1>5, <2>2, TakeOff
  <2>5. PICK L \in DOMAIN c : HasLocals(ds[1], L, own') /\ GoodAct(F, acts'[1], "NORMAL", L, c[L], objects')
    BY <1>5, <2>2, TakeOff
  <2>6. GoodAct(F, acts'[1], how', L, c[L], objects') /\ acts'[1].at # "function"
    BY <1>1, <2>5, AnyResult
  <2>7. OnTop(ds[1], c, F, acts'[1], how', own', objects')
    BY <2>1, <2>4, <2>5, <2>6 DEF OnTop
  <2>8. StackedIn(c, F, acts', how', own', objects')
    BY <1>2, <1>3, <2>3, <2>7 DEF StackedIn
  <2> QED
    BY <1>1, <2>6, <2>8 DEF Goes, Sober, top
<1> QED
  BY <1>4, <1>5

\* The activation on top is changed: to t, in the same function.
LEMMA Changes ==
  ASSUME NEW c, NEW F, Here(c, F), ~Closes(top), Moved, NEW L \in DOMAIN c, HasLocals(Len(own), L, own),
         NEW t, GoodAct(F, t, how', L, c[L], objects'), ~Closes(t), acts' = <<t>> \o Tail(acts), Plain(F, out', objects'),
         crashed => crashed'
  PROVE  Goes(c, F) /\ (t.at # "function" => Sober')
<1>1. IsList(own) /\ IsList(own') /\ Len(own') = Len(own)
  BY DEF Moved, SameLocals
<1>2. IsList(Tail(acts))
  BY TailFacts DEF Here, StackedIn
<1>3. IsList(acts')
  BY <1>2, PushFacts
<1>4. acts'[1] = t
  BY <1>2, PushFacts
<1>5. Tail(acts') = Tail(acts)
  BY <1>2, TailOfPush
<1> PICK d, ds : Waiting(d, ds, c, F, Tail(acts), own, objects) /\ OnTop(d, c, F, top, how, own, objects)
  BY DEF Here, StackedIn, top
<1>6. Len(own) = d
  BY DEF OnTop
<1>7. Waiting(d, ds, c, F, Tail(acts'), own', objects')
  BY <1>5, WaitingStays DEF Moved
<1>8. HasLocals(d, L, own')
  BY <1>6, LocalsStay DEF Moved
<1>9. OnTop(d, c, F, acts'[1], how', own', objects')
  BY <1>1, <1>4, <1>6, <1>8 DEF OnTop
<1>10. StackedIn(c, F, acts', how', own', objects')
  BY <1>1, <1>3, <1>7, <1>9 DEF StackedIn
<1> QED
  BY <1>4, <1>10 DEF Goes, Sober, top

\* The activation on top, as t, waits for the statement s of the same function.
LEMMA Descends ==
  ASSUME NEW c, NEW F, Here(c, F), ~Closes(top), Moved, NEW L \in DOMAIN c, HasLocals(Len(own), L, own),
         NEW t, GoodAct(F, t, "NORMAL", L, c[L], objects'), ~Closes(t),
         NEW s \in c[L], IsStatement(F, s, L, c[L]), Descend(t, s)
  PROVE  Goes(c, F) /\ (s.op # "function" => Sober')
<1> DEFINE below == <<t>> \o Tail(acts)
<1>1. IsList(own) /\ IsList(own') /\ Len(own') = Len(own)
  BY DEF Moved, SameLocals
<1>2. IsList(Tail(acts))
  BY TailFacts DEF Here, StackedIn
<1>3. IsList(below)
  BY <1>2, PushFacts
<1>4. acts' = <<Act(s)>> \o below /\ how' = "go" /\ out' = Stale
  <2>1. acts' = <<Act(s), t>> \o Tail(acts) /\ how' = "go" /\ out' = Stale
    BY DEF Descend
  <2> PICK S : Tail(acts) \in Seq(S)
    BY <1>2 DEF IsList
  <2> DEFINE all == S \cup {t, Act(s)}
  <2>2. Tail(acts) \in Seq(all) /\ t \in all /\ Act(s) \in all
    OBVIOUS
  <2>3. <<Act(s), t>> \o Tail(acts) = <<Act(s)>> \o (<<t>> \o Tail(acts))
    <3> HIDE DEF all
    <3> QED
      BY <2>2
  <2> QED
    BY <2>1, <2>3
<1> HIDE DEF below
<1>5. IsList(acts')
  BY <1>3, <1>4, PushFacts
<1>6. acts'[1] = Act(s)
  BY <1>3, <1>4, PushFacts
<1>7. Tail(acts') = below
  BY <1>3, <1>4, TailOfPush
<1> PICK d, ds : Waiting(d, ds, c, F, Tail(acts), own, objects) /\ OnTop(d, c, F, top, how, own, objects)
  BY DEF Here, StackedIn, top
<1>8. Len(own) = d /\ d \in Nat
  BY DEF OnTop, Waiting
<1>9. Waiting(d, ds, c, F, Tail(acts), own', objects')
  BY WaitingStays DEF Moved
<1>10. HasLocals(d, L, own')
  BY <1>8, LocalsStay DEF Moved
<1>11. Waiting(d, <<d>> \o ds, c, F, Tail(acts'), own', objects')
  BY <1>7, <1>8, <1>9, <1>10, PutOn DEF below
<1>12. GoodAct(F, acts'[1], how', L, c[L], objects') /\ acts'[1].at = s.op /\ ~Closes(acts'[1])
  BY <1>4, <1>6, ActOfStatement
<1>13. OnTop(d, c, F, acts'[1], how', own', objects')
  BY <1>1, <1>8, <1>10, <1>12 DEF OnTop
<1>14. StackedIn(c, F, acts', how', own', objects')
  BY <1>1, <1>5, <1>11, <1>13 DEF StackedIn
<1>15. Plain(F, out', objects') /\ (crashed => crashed')
  BY <1>4, SimpleValues DEF Stale, Descend
<1> QED
  BY <1>12, <1>14, <1>15 DEF Goes, Sober, top

LEMMA Crashes ==
  ASSUME NEW c, NEW F, IsList(own'), Crash
  PROVE  Goes(c, F) /\ Sober'
<1>1. acts' = <<>> /\ out' = Stale /\ crashed'
  BY DEF Crash
<1>2. Plain(F, out', objects')
  BY <1>1, SimpleValues DEF Stale
<1> QED
  BY <1>1, <1>2, EmptyList DEF Goes, StackedIn, Sober

--------------------------------------------------------------------------------
(* Steps of an activation that is no closure *)

Ready(c, L) ==
  /\ acts # <<>> /\ ~Closes(top)
  /\ L \in DOMAIN c /\ L \in Nat /\ HasLocals(Len(own), L, own)
  /\ GoodAct(fns, top, how, L, c[L], objects)
  /\ \A s \in c[L] : IsStatement(fns, s, L, c[L])
Sits == UNCHANGED <<program, runFlag, cut>>

LEMMA Begins ==
  ASSUME NEW c, Inv(c), acts # <<>>
  PROVE  /\ Here(c, fns)
         /\ \E L \in DOMAIN c : GoodAct(fns, top, how, L, c[L], objects) /\ (~Closes(top) => Ready(c, L))
<1>1. Here(c, fns)
  BY DEF Inv, Stacked, Here
<1>2. PICK L \in DOMAIN c : GoodAct(fns, top, how, L, c[L], objects) /\ (~Closes(top) => HasLocals(Len(own), L, own))
  <2>1. PICK d, ds : OnTop(d, c, fns, acts[1], how, own, objects)
    BY DEF Inv, Stacked, StackedIn
  <2> QED
    BY <2>1 DEF OnTop, top
<1>3. L \in Nat /\ \A s \in c[L] : IsStatement(fns, s, L, c[L])
  BY DEF Inv, Translated, fns
<1> QED
  BY <1>1, <1>2, <1>3 DEF Ready

LEMMA Concludes ==
  ASSUME NEW c, Inv(c), Lasts(fns), Goes(c, fns), cut' => Sober', UNCHANGED <<program, runFlag>>, cut' => cut \/ ~runFlag
  PROVE  Inv(c)'
<1>1. fns' = fns /\ Translated(program, c)'
  BY DEF Inv, fns
<1>2. HoldGood(fns, globals, pool, infos, objects)' /\ Apart'
  BY <1>1 DEF Lasts, Apart
<1>3. Plain(fns, out, objects)' /\ Stacked(c)'
  BY <1>1 DEF Goes, Stacked
<1>4. Halted'
  BY DEF Inv, Halted
<1> QED
  BY <1>1, <1>2, <1>3, <1>4 DEF Inv

LEMMA QuietKept ==
  ASSUME NEW c, Inv(c), Quiet, crashed => crashed'
  PROVE  Kept(fns) /\ cut' = cut
BY QuietKeeps DEF Inv, Quiet, Stacked, StackedIn

LEMMA KeptReturn ==
  ASSUME NEW c, Inv(c), NEW L, Ready(c, L), Sits, Kept(fns), NEW h, h # "go", NEW v, Plain(fns, v, objects'), Return(h, v)
  PROVE  Inv(c)'
<1>1. Goes(c, fns) /\ Sober'
  BY Begins, Returns DEF Ready, Kept
<1> QED
  BY <1>1, Concludes DEF Kept, Sits

LEMMA KeptBecome ==
  ASSUME NEW c, Inv(c), NEW L, Ready(c, L), Sits, Kept(fns), NEW t, GoodAct(fns, t, "go", L, c[L], objects'), ~Closes(t),
         t.at # "function", Become(t)
  PROVE  Inv(c)'
<1>1. acts' = <<t>> \o Tail(acts) /\ how' = "go" /\ out' = Stale /\ (crashed => crashed')
  BY DEF Become
<1>2. Plain(fns, out', objects')
  BY <1>1, SimpleValues DEF Stale
<1>3. Here(c, fns)
  BY Begins DEF Ready
<1>4. Goes(c, fns) /\ Sober'
  BY <1>1, <1>2, <1>3, Changes DEF Ready, Kept
<1> QED
  BY <1>4, Concludes DEF Kept, Sits

LEMMA KeptDescend ==
  ASSUME NEW c, Inv(c), NEW L, Ready(c, L), Sits, Kept(fns), NEW t, GoodAct(fns, t, "NORMAL", L, c[L], objects'), ~Closes(t),
         NEW s \in c[L], s.op # "function", Descend(t, s)
  PROVE  Inv(c)'
<1>1. Here(c, fns) /\ IsStatement(fns, s, L, c[L])
  BY Begins DEF Ready
<1>2. Goes(c, fns) /\ Sober'
  BY <1>1, Descends DEF Ready, Kept
<1> QED
  BY <1>2, Concludes DEF Kept, Sits

LEMMA QuietReturn ==
  ASSUME NEW c, Inv(c), NEW L, Ready(c, L), UNCHANGED <<program, runFlag>>, Quiet,
         NEW h, h # "go", NEW v, Plain(fns, v, objects), Return(h, v)
  PROVE  Inv(c)'
<1>1. Kept(fns) /\ cut' = cut /\ objects' = objects
  BY QuietKept DEF Return, Quiet, data
<1> QED
  BY <1>1, KeptReturn DEF Sits

LEMMA QuietBecome ==
  ASSUME NEW c, Inv(c), NEW L, Ready(c, L), UNCHANGED <<program, runFlag>>, Quiet,
         NEW t, GoodAct(fns, t, "go", L, c[L], objects), ~Closes(t), t.at # "function", Become(t)
  PROVE  Inv(c)'
<1>1. Kept(fns) /\ cut' = cut /\ objects' = objects
  BY QuietKept DEF Become, Quiet, data
<1> QED
  BY <1>1, KeptBecome DEF Sits

LEMMA QuietDescend ==
  ASSUME NEW c, Inv(c), NEW L, Ready(c, L), UNCHANGED <<program, runFlag>>, Quiet,
         NEW t, GoodAct(fns, t, "NORMAL", L, c[L], objects), ~Closes(t), NEW s \in c[L], s.op # "function", Descend(t, s)
  PROVE  Inv(c)'
<1>1. Kept(fns) /\ cut' = cut /\ objects' = objects
  BY QuietKept DEF Descend, Quiet, data
<1> QED
  BY <1>1, KeptDescend DEF Sits

LEMMA QuietCrash ==
  ASSUME NEW c, Inv(c), UNCHANGED <<program, runFlag>>, Quiet, Crash
  PROVE  Inv(c)'
<1>1. crashed => crashed'
  BY DEF Crash
<1>2. Kept(fns) /\ cut' = cut
  BY <1>1, QuietKept
<1>3. IsList(own')
  BY <1>2 DEF Kept, Moved, SameLocals
<1> QED
  BY <1>2, <1>3, Crashes, Concludes DEF Kept

\* The values of operands.
LEMMA ValueOfOperand ==
  ASSUME Parameters, NEW c, Inv(c), NEW L \in Nat, NEW x \in VariablesIn(L) \cup Constants, ~Endless(x)
  PROVE  Plain(fns, Deref(x), objects)
BY OperandGood, DerefPlain DEF Inv

LEMMA QuietEvaluate ==
  ASSUME Parameters, NEW c, Inv(c), NEW L, Ready(c, L), UNCHANGED <<program, runFlag>>, Quiet,
         NEW t, GoodAct(fns, t, "NORMAL", L, c[L], objects), ~Closes(t), NEW x \in OperandsIn(L, c[L]), Evaluate(t, x)
  PROVE  Inv(c)'
<1>1. CASE x.k = "do"
  <2>1. x.s \in c[L] /\ x.s.op # "function"
    BY <1>1, OperandGood DEF OperandsIn, Ready
  <2>2. Descend(t, x.s)
    BY <1>1 DEF Evaluate
  <2> QED
    BY <2>1, <2>2, QuietDescend
<1>2. CASE x.k # "do" /\ Endless(x)
  <2>1. Crash
    BY <1>2 DEF Evaluate
  <2> QED
    BY <2>1, QuietCrash
<1>3. CASE x.k # "do" /\ ~Endless(x)
  <2>1. x \in VariablesIn(L) \cup Constants /\ L \in Nat
    BY <1>3 DEF OperandsIn, Ready
  <2>2. acts' = <<t>> \o Tail(acts) /\ how' = "NORMAL" /\ out' = Deref(x) /\ (crashed => crashed')
    BY <1>3 DEF Evaluate
  <2>3. Kept(fns) /\ cut' = cut /\ objects' = objects
    BY <2>2, QuietKept DEF Quiet, data
  <2>4. Plain(fns, out', objects')
    BY <1>3, <2>1, <2>2, <2>3, ValueOfOperand
  <2>5. Here(c, fns) /\ t.at # "function"
    BY Begins, AnyResult DEF Ready
  <2>6. Goes(c, fns) /\ Sober'
    BY <2>2, <2>3, <2>4, <2>5, Changes DEF Ready, Kept
  <2> QED
    BY <2>3, <2>6, Concludes DEF Kept
<1> QED
  BY <1>1, <1>2, <1>3

LEMMA QuietGivesUp ==
  ASSUME NEW c, Inv(c), NEW L, Ready(c, L), UNCHANGED <<program, runFlag>>, ~runFlag, GivesUp
  PROVE  Inv(c)'
<1>1. Return("NORMAL", top.val) /\ UNCHANGED <<data, full, own>>
  BY DEF GivesUp
<1>2. Plain(fns, top.val, objects) /\ objects' = objects
  BY <1>1 DEF Ready, GoodAct, data
<1>3. Kept(fns)
  BY <1>1, QuietKeeps DEF Inv, Stacked, StackedIn, Return
<1>4. Goes(c, fns) /\ Sober'
  BY <1>1, <1>2, <1>3, Begins, Returns DEF Ready, Kept
<1> QED
  BY <1>3, <1>4, Concludes DEF Kept

--------------------------------------------------------------------------------
(* Statement lists and operands *)

LEMMA Starts ==
  ASSUME NEW c, Inv(c), acts # <<>>, top.at \notin {"body", "method"}
  PROVE  \E L : Ready(c, L)
BY Begins DEF Closes

LEMMA BlockRunsKeeps == ASSUME Parameters, NEW c, Inv(c), BlockRuns PROVE Inv(c)'
<1> DEFINE body == top.s.body
           ix == top.ix
<1>1. acts # <<>> /\ top.at = "block" /\ how = "go" /\ UNCHANGED <<program, runFlag>>
  BY DEF BlockRuns, At
<1> PICK L : Ready(c, L)
  BY <1>1, Starts
<1>2. body \in Seq(c[L]) /\ Plain(fns, top.val, objects)
  BY <1>1 DEF Ready, GoodAct, IsStatement
<1>3. GoodAct(fns, top, "NORMAL", L, c[L], objects) /\ ~Closes(top)
  BY <1>1 DEF Ready, GoodAct
<1>4. CASE ix <= Len(body) /\ ~runFlag
  <2>1. GivesUp
    BY <1>4 DEF BlockRuns
  <2> QED
    BY <1>1, <1>4, <2>1, QuietGivesUp
<1>5. CASE ~(ix <= Len(body) /\ ~runFlag)
  <2>1. Quiet /\ CASE ix \in DOMAIN body -> Descend(top, body[ix])
                   [] ix > Len(body) -> Return("NORMAL", top.val)
                   [] OTHER -> Crash
    BY <1>5 DEF BlockRuns
  <2>2. CASE ix \in DOMAIN body
    <3>1. body[ix] \in c[L] /\ ix <= Len(body) /\ ~(ix > Len(body))
      BY <1>2, <2>2
    <3>2. runFlag /\ ~cut /\ Descend(top, body[ix])
      BY <1>5, <2>1, <2>2, <3>1 DEF Inv, Halted
    <3>3. Kept(fns) /\ cut' = cut /\ objects' = objects
      BY <2>1, <3>2, QuietKept DEF Descend, Quiet, data
    <3>4. Here(c, fns) /\ IsStatement(fns, body[ix], L, c[L])
      BY <3>1, Begins DEF Ready
    <3> HIDE DEF body, ix
    <3>5. Goes(c, fns)
      BY <1>3, <3>1, <3>2, <3>3, <3>4, Descends DEF Ready, Kept
    <3> QED
      BY <1>1, <3>2, <3>3, <3>5, Concludes DEF Kept
  <2>3. CASE ix \notin DOMAIN body /\ ix > Len(body)
    <3>1. Return("NORMAL", top.val)
      BY <2>1, <2>3
    <3> QED
      BY <1>1, <1>2, <2>1, <3>1, QuietReturn
  <2>4. CASE ix \notin DOMAIN body /\ ~(ix > Len(body))
    <3>1. Crash
      BY <2>1, <2>4
    <3> QED
      BY <1>1, <2>1, <3>1, QuietCrash
  <2> QED
    BY <2>2, <2>3, <2>4
<1> QED
  BY <1>4, <1>5

LEMMA BlockResumesKeeps == ASSUME NEW c, Inv(c), BlockResumes PROVE Inv(c)'
<1>1. acts # <<>> /\ top.at = "block" /\ how # "go" /\ UNCHANGED <<program, runFlag>> /\ Quiet
  BY DEF BlockResumes, At
<1> PICK L : Ready(c, L)
  BY <1>1, Starts
<1>2. Plain(fns, out, objects)
  BY DEF Inv
<1>3. CASE how \in {"RETURN", "BREAK", "CONTINUE"}
  BY <1>1, <1>2, <1>3, QuietReturn DEF BlockResumes
<1>4. CASE how \notin {"RETURN", "BREAK", "CONTINUE"}
  <2> PICK n : Become([top EXCEPT !.ix = @ + Jump(n), !.val = out])
    BY <1>4 DEF BlockResumes
  <2> DEFINE t == [top EXCEPT !.ix = @ + Jump(n), !.val = out]
  <2>1. Fields(t) /\ t.at = "block" /\ t.s = top.s /\ t.val = out
    BY <1>1 DEF Ready, GoodAct, Fields
  <2> HIDE DEF t
  <2>2. GoodAct(fns, t, "go", L, c[L], objects) /\ ~Closes(t)
    BY <1>1, <1>2, <2>1 DEF Ready, GoodAct, Closes
  <2> QED
    BY <1>1, <2>1, <2>2, QuietBecome DEF t
<1> QED
  BY <1>3, <1>4

LEMMA AppendedValues ==
  ASSUME NEW F, NEW objs, NEW n \in Nat, NEW a, HasValues(F, a, n, objs), NEW v,
         IF a.s.args[n + 1].k = "do" THEN Plain(F, v, objs) ELSE v = a.s.args[n + 1],
         NEW b, b.s = a.s, b.vals = Append(a.vals, v)
  PROVE  HasValues(F, b, n + 1, objs)
<1>1. IsList(a.vals) /\ Len(a.vals) = n
  BY DEF HasValues
<1>2. IsList(b.vals)
  BY <1>1, AppendFacts
<1>3. Len(b.vals) = n + 1
  BY <1>1, AppendFacts
<1>4. b.vals[n + 1] = v
  BY <1>1, AppendFacts
<1>5. \A i \in 1..n : b.vals[i] = a.vals[i]
  BY <1>1, AppendFacts
<1>6. ASSUME NEW i \in 1..(n + 1)
      PROVE  IF b.s.args[i].k = "do" THEN Plain(F, b.vals[i], objs) ELSE b.vals[i] = b.s.args[i]
  <2>1. CASE i = n + 1
    BY <1>4, <2>1
  <2>2. CASE i \in 1..n
    BY <1>5, <2>2 DEF HasValues
  <2>3. i = n + 1 \/ i \in 1..n
    OBVIOUS
  <2> QED
    BY <2>1, <2>2, <2>3
<1> QED
  BY <1>2, <1>3, <1>6 DEF HasValues

LEMMA CallTakesOperandKeeps == ASSUME NEW c, Inv(c), CallTakesOperand PROVE Inv(c)'
<1>1. acts # <<>> /\ top.at = "call" /\ how = "go" /\ UNCHANGED <<program, runFlag>> /\ top.ix < Len(top.s.args)
  BY DEF CallTakesOperand, At
<1> PICK L : Ready(c, L)
  BY <1>1, Starts
<1>2. top.s.op = "call" /\ top.s \in c[L] /\ top.s.args \in Seq(OperandsIn(L, c[L])) /\ Plain(fns, top.val, objects)
  BY <1>1 DEF Ready, GoodAct, IsStatement, IsCall
<1>3. top.ix \in 0..Len(top.s.args) /\ HasValues(fns, top, top.ix, objects) /\ Fields(top)
  BY <1>1 DEF Ready, GoodAct
<1>4. CASE ~runFlag
  BY <1>1, <1>4, QuietGivesUp DEF CallTakesOperand
<1>5. CASE runFlag
  <2> DEFINE arg == top.s.args[top.ix + 1]
             next == [top EXCEPT !.ix = @ + 1]
             both == [next EXCEPT !.vals = Append(@, arg)]
  <2>1. Quiet /\ CASE NoValuesLeft -> Crash
                   [] ~NoValuesLeft /\ arg.k = "do" -> Descend(next, arg.s)
                   [] OTHER -> Become(both)
    BY <1>5 DEF CallTakesOperand
  <2>2. top.ix + 1 \in 1..Len(top.s.args) /\ top.ix + 1 \in 0..Len(top.s.args) /\ top.ix + 1 > 0 /\ top.ix \in Nat
        /\ (top.ix + 1) - 1 = top.ix
    BY <1>1, <1>2, <1>3
  <2>3. arg \in OperandsIn(L, c[L])
    BY <1>2, <2>2
  <2>4. next.s = top.s /\ next.at = "call" /\ next.ix = top.ix + 1 /\ next.vals = top.vals /\ next.val = top.val /\ Fields(next)
    BY <1>1, <1>3 DEF Fields
  <2>5. both.s = top.s /\ both.at = "call" /\ both.ix = top.ix + 1 /\ both.vals = Append(top.vals, arg) /\ both.val = top.val
        /\ Fields(both)
    BY <1>1, <1>3 DEF Fields
  <2>6. CASE NoValuesLeft
    BY <1>1, <2>1, <2>6, QuietCrash
  <2>7. CASE ~NoValuesLeft /\ arg.k = "do"
    <3>1. Descend(next, arg.s)
      BY <2>1, <2>7
    <3>2. arg.s \in c[L] /\ arg.s.op # "function"
      BY <2>3, <2>7, OperandGood DEF OperandsIn, Ready
    <3> HIDE DEF next
    <3>3. HasValues(fns, next, top.ix, objects)
      BY <1>3, <2>4 DEF HasValues
    <3>4. GoodAct(fns, next, "NORMAL", L, c[L], objects) /\ ~Closes(next)
      BY <1>2, <2>2, <2>4, <2>7, <3>3 DEF GoodAct, Closes
    <3> QED
      BY <1>1, <2>1, <3>1, <3>2, <3>4, QuietDescend
  <2>8. CASE ~NoValuesLeft /\ arg.k # "do"
    <3>1. Become(both)
      BY <2>1, <2>8
    <3> HIDE DEF both
    <3>2. HasValues(fns, both, top.ix + 1, objects)
      BY <1>3, <2>2, <2>5, <2>8, AppendedValues
    <3>3. GoodAct(fns, both, "go", L, c[L], objects) /\ ~Closes(both)
      BY <1>2, <2>2, <2>5, <3>2 DEF GoodAct, Closes
    <3> QED
      BY <1>1, <2>1, <2>5, <3>1, <3>3, QuietBecome
  <2> QED
    BY <2>6, <2>7, <2>8
<1> QED
  BY <1>4, <1>5

LEMMA CallTakesResultKeeps == ASSUME NEW c, Inv(c), CallTakesResult PROVE Inv(c)'
<1>1. acts # <<>> /\ top.at = "call" /\ how # "go" /\ UNCHANGED <<program, runFlag>> /\ Quiet
  BY DEF CallTakesResult, At
<1> PICK L : Ready(c, L)
  BY <1>1, Starts
<1>2. Plain(fns, out, objects)
  BY DEF Inv
<1>3. /\ top.s.op = "call" /\ top.s \in c[L] /\ Plain(fns, top.val, objects) /\ Fields(top)
      /\ top.ix \in 0..Len(top.s.args) /\ top.ix > 0 /\ top.s.args[top.ix].k = "do" /\ HasValues(fns, top, top.ix - 1, objects)
      /\ top.s.args \in Seq(OperandsIn(L, c[L]))
  BY <1>1 DEF Ready, GoodAct, IsStatement, IsCall
<1>4. top.ix - 1 \in Nat /\ (top.ix - 1) + 1 = top.ix
  BY <1>3
<1> DEFINE t == [top EXCEPT !.vals = Append(@, out)]
<1>5. t.s = top.s /\ t.at = "call" /\ t.ix = top.ix /\ t.vals = Append(top.vals, out) /\ t.val = top.val /\ Fields(t)
  BY <1>1, <1>3 DEF Fields
<1>6. Become(t)
  BY DEF CallTakesResult
<1> HIDE DEF t
<1>7. HasValues(fns, t, top.ix, objects)
  BY <1>2, <1>3, <1>4, <1>5, AppendedValues
<1>8. GoodAct(fns, t, "go", L, c[L], objects) /\ ~Closes(t)
  BY <1>3, <1>5, <1>7 DEF GoodAct, Closes
<1> QED
  BY <1>1, <1>5, <1>6, <1>8, QuietBecome

LEMMA CallGivesUpKeeps == ASSUME NEW c, Inv(c), CallGivesUp PROVE Inv(c)'
<1>1. acts # <<>> /\ top.at = "call" /\ ~runFlag /\ UNCHANGED <<program, runFlag>> /\ GivesUp
  BY DEF CallGivesUp, At
<1> QED
  BY <1>1, Starts, QuietGivesUp

--------------------------------------------------------------------------------
(* Calls that have their operands *)

\* All operands are there.
Complete(L, C) == IsCall(top.s, L, C) /\ top.s.op = "call" /\ HasValues(fns, top, Len(top.s.args), objects)

LEMMA AppliesFacts ==
  ASSUME NEW c, Inv(c), Applies
  PROVE  /\ acts # <<>> /\ top.at = "call" /\ how = "go" /\ runFlag /\ UNCHANGED <<program, runFlag>>
         /\ \E L : Ready(c, L) /\ Complete(L, c[L])
<1>1. acts # <<>> /\ top.at = "call" /\ how = "go" /\ runFlag /\ UNCHANGED <<program, runFlag>> /\ top.ix = Len(top.s.args)
  BY DEF Applies, At
<1> PICK L : Ready(c, L)
  BY <1>1, Starts
<1>2. Complete(L, c[L])
  BY <1>1 DEF Ready, GoodAct, IsStatement, Complete
<1> QED
  BY <1>1, <1>2

LEMMA ValuesGood ==
  ASSUME Parameters, NEW c, Inv(c), NEW L, Ready(c, L), Complete(L, c[L])
  PROVE  /\ IsList(top.vals) /\ Len(top.vals) = Len(top.s.args)
         /\ \A i \in DOMAIN top.vals :
              /\ Good(fns, top.vals[i], objects)
              /\ ~Endless(top.vals[i]) => Plain(fns, Deref(top.vals[i]), objects)
              /\ top.s.args[i].k # "do" => top.vals[i] = top.s.args[i]
<1>1. IsList(top.vals) /\ Len(top.vals) = Len(top.s.args) /\ top.s.args \in Seq(OperandsIn(L, c[L]))
  BY DEF Complete, HasValues, IsCall
<1>2. DOMAIN top.vals = 1..Len(top.s.args)
  BY <1>1, ListFacts
<1>3. ASSUME NEW i \in DOMAIN top.vals
      PROVE  /\ Good(fns, top.vals[i], objects)
             /\ ~Endless(top.vals[i]) => Plain(fns, Deref(top.vals[i]), objects)
             /\ top.s.args[i].k # "do" => top.vals[i] = top.s.args[i]
  <2>1. top.s.args[i] \in OperandsIn(L, c[L])
    BY <1>1, <1>2
  <2>2. IF top.s.args[i].k = "do" THEN Plain(fns, top.vals[i], objects) ELSE top.vals[i] = top.s.args[i]
    BY <1>2 DEF Complete, HasValues
  <2>3. top.s.args[i].k # "do" => top.s.args[i] \in VariablesIn(L) \cup Constants
    BY <2>1 DEF OperandsIn
  <2>4. Good(fns, top.vals[i], objects)
    BY <2>2, <2>3, OperandGood DEF Plain, Ready
  <2> QED
    BY <2>2, <2>4, DerefPlain DEF Inv
<1> QED
  BY <1>1, <1>3

LEMMA ValuesPlain ==
  ASSUME Parameters, NEW c, Inv(c), NEW L, Ready(c, L), Complete(L, c[L]), ~NoValueIn(top.vals)
  PROVE  /\ IsList(Values(top.vals)) /\ Len(Values(top.vals)) = Len(top.s.args)
         /\ \A i \in DOMAIN Values(top.vals) : Plain(fns, Values(top.vals)[i], objects)
<1>1. /\ IsList(top.vals) /\ Len(top.vals) = Len(top.s.args)
      /\ \A i \in DOMAIN top.vals : ~Endless(top.vals[i]) => Plain(fns, Deref(top.vals[i]), objects)
  BY ValuesGood
<1>2. DOMAIN top.vals = 1..Len(top.vals) /\ Len(top.vals) \in Nat
  BY <1>1, ListFacts
<1> DEFINE n == Len(top.vals)
           f == [i \in 1..n |-> Deref(top.vals[i])]
<1>3. Values(top.vals) = f
  BY <1>2 DEF Values
<1>4. f = [i \in 1..n |-> f[i]] /\ \A i \in 1..n : f[i] = Deref(top.vals[i])
  OBVIOUS
<1> HIDE DEF f, n
<1>5. n \in Nat
  BY <1>2 DEF n
<1>6. IsList(f) /\ Len(f) = n
  BY <1>4, <1>5, FunctionIsList
<1>7. DOMAIN f = 1..n
  BY <1>6, ListFacts
<1>8. \A i \in 1..n : Plain(fns, f[i], objects)
  BY <1>1, <1>2, <1>4 DEF NoValueIn, n
<1> QED
  BY <1>1, <1>3, <1>6, <1>7, <1>8 DEF n

\* The first operand of an assignment is the variable it writes.
LEMMA FirstOperand ==
  ASSUME Parameters, NEW c, Inv(c), NEW L, Ready(c, L), Complete(L, c[L]), top.s.name \in Assignments
  PROVE  LET r == top.vals[1]
         IN r = top.s.args[1] /\ r \in VariablesIn(L) /\ 1 \in DOMAIN top.vals /\ (r.k = "local" => own # <<>> /\ r.n \in DOMAIN own[1])
<1>1. top.s.args # <<>> /\ top.s.args[1] \in VariablesIn(L) /\ IsList(top.s.args)
  BY DEF Complete, IsCall, IsList
<1>2. IsList(top.vals) /\ Len(top.vals) = Len(top.s.args)
  BY ValuesGood
<1>3. 1 \in DOMAIN top.vals
  BY <1>1, <1>2, ListFacts, NoLength
<1>4. top.s.args[1].k # "do"
  BY <1>1, OperandGood DEF Ready
<1>5. top.vals[1] = top.s.args[1]
  BY <1>3, <1>4, ValuesGood
<1>6. IsList(own) /\ L \in Nat /\ HasLocals(Len(own), L, own)
  BY DEF Inv, Stacked, StackedIn, Ready
<1>7. top.vals[1].k = "local" => own # <<>> /\ top.vals[1].n \in DOMAIN own[1]
  BY <1>1, <1>5, <1>6, LocalIn
<1> QED
  BY <1>1, <1>3, <1>5, <1>7

LEMMA SetValueReturn ==
  ASSUME Parameters, NEW c, Inv(c), NEW L, Ready(c, L), UNCHANGED <<program, runFlag, cut, full>>,
         NEW r, NEW v, Good(fns, v, objects), SetValue(r, v),
         r.k = "global" => v.k \notin {"local", "arg"},
         r.k = "arg" => Plain(fns, v, objects),
         r.k = "local" => own # <<>> /\ r.n \in DOMAIN own[1],
         NEW w, Plain(fns, w, objects), Return("NORMAL", w)
  PROVE  Inv(c)'
<1>1. crashed' = crashed /\ objects' = objects
  BY DEF Return, SetValue
<1>2. HoldGood(fns, globals, pool, infos, objects) /\ IsList(own) /\ Apart
  BY DEF Inv, Stacked, StackedIn
<1>3. Kept(fns)
  BY <1>1, <1>2, SetValueKeeps
<1> QED
  BY <1>1, <1>3, KeptReturn DEF Sits

LEMMA CallAssignsKeeps == ASSUME Parameters, NEW c, Inv(c), CallAssigns PROVE Inv(c)'
<1> DEFINE r == top.vals[1]
           v == top.vals[2]
<1>1. UNCHANGED <<program, runFlag>> /\ top.s.name = "="
  BY AppliesFacts DEF CallAssigns
<1> PICK L : Ready(c, L) /\ Complete(L, c[L])
  BY AppliesFacts DEF CallAssigns
<1>2. CASE Endless(v) \/ (IsRef(r) /\ ~Exists(r))
  BY <1>1, <1>2, QuietCrash DEF CallAssigns
<1>3. CASE ~(Endless(v) \/ (IsRef(r) /\ ~Exists(r)))
  <2>1. SetValue(r, Assigned(r, v)) /\ Return("NORMAL", Deref(v)) /\ UNCHANGED <<cut, full>>
    BY <1>3 DEF CallAssigns
  <2>2. Len(top.s.args) = 2 /\ (top.s.args[1].k = "arg" => ~IsRef(top.s.args[2])) /\ top.s.args \in Seq(OperandsIn(L, c[L]))
    BY <1>1 DEF Complete, IsCall
  <2>3. r = top.s.args[1] /\ r \in VariablesIn(L) /\ (r.k = "local" => own # <<>> /\ r.n \in DOMAIN own[1])
    BY <1>1, FirstOperand DEF Assignments
  <2>4. 2 \in DOMAIN top.vals
    BY <2>2, ValuesGood, ListFacts
  <2>5. /\ Good(fns, v, objects) /\ Plain(fns, Deref(v), objects)
        /\ top.s.args[2].k # "do" => v = top.s.args[2]
    BY <1>3, <2>4, ValuesGood
  <2>6. r.k = "arg" => Plain(fns, v, objects)
    <3> HAVE r.k = "arg"
    <3>1. ~IsRef(top.s.args[2])
      BY <2>2, <2>3
    <3>2. CASE top.s.args[2].k = "do"
      BY <2>2, <2>4, <3>2 DEF Complete, HasValues
    <3>3. CASE top.s.args[2].k # "do"
      BY <2>5, <3>1, <3>3 DEF Plain
    <3> QED
      BY <3>2, <3>3
  <2> HIDE DEF r, v
  <2>7. Good(fns, Assigned(r, v), objects)
    BY <2>5 DEF Assigned, Plain
  <2>8. r.k = "global" => Assigned(r, v).k \notin {"local", "arg"}
    BY <2>5 DEF Assigned, Plain, IsRef
  <2>9. r.k = "arg" => Plain(fns, Assigned(r, v), objects)
    BY <2>6 DEF Assigned
  <2> QED
    BY <1>1, <2>1, <2>3, <2>5, <2>7, <2>8, <2>9, SetValueReturn
<1> QED
  BY <1>2, <1>3

LEMMA CallComputesKeeps == ASSUME Parameters, NEW c, Inv(c), CallComputes PROVE Inv(c)'
<1>1. UNCHANGED <<program, runFlag>> /\ Quiet
  BY AppliesFacts DEF CallComputes
<1> PICK L : Ready(c, L) /\ Complete(L, c[L])
  BY AppliesFacts DEF CallComputes
<1> DEFINE v == Result(top.s.name, Values(top.vals))
<1>2. CASE NoValueIn(top.vals) \/ v = Trap
  BY <1>1, <1>2, QuietCrash DEF CallComputes
<1>3. CASE ~(NoValueIn(top.vals) \/ v = Trap)
  <2>1. Return("NORMAL", v)
    BY <1>3 DEF CallComputes
  <2>2. IsList(Values(top.vals))
    BY <1>3, ValuesPlain
  <2>3. Plain(fns, v, objects)
    BY <2>2, ResultPlain
  <2> QED
    BY <1>1, <2>1, <2>3, QuietReturn
<1> QED
  BY <1>2, <1>3

LEMMA CallOperatesAndAssignsKeeps == ASSUME Parameters, NEW c, Inv(c), CallOperatesAndAssigns PROVE Inv(c)'
<1> DEFINE r == top.vals[1]
           v == Result(top.s.proxy, Values(top.vals))
<1>1. UNCHANGED <<program, runFlag>> /\ top.s.name = "op="
  BY AppliesFacts DEF CallOperatesAndAssigns
<1> PICK L : Ready(c, L) /\ Complete(L, c[L])
  BY AppliesFacts DEF CallOperatesAndAssigns
<1>2. CASE NoValueIn(top.vals) \/ v = Trap
  BY <1>1, <1>2, QuietCrash DEF CallOperatesAndAssigns
<1>3. CASE ~(NoValueIn(top.vals) \/ v = Trap)
  <2>1. SetValue(r, v) /\ Return("NORMAL", v) /\ UNCHANGED <<cut, full>>
    BY <1>3 DEF CallOperatesAndAssigns
  <2>2. r.k = "local" => own # <<>> /\ r.n \in DOMAIN own[1]
    BY <1>1, FirstOperand DEF Assignments
  <2>3. IsList(Values(top.vals))
    BY <1>3, ValuesPlain
  <2>4. Plain(fns, v, objects)
    BY <2>3, ResultPlain
  <2> HIDE DEF r, v
  <2> QED
    BY <1>1, <2>1, <2>2, <2>4, SetValueReturn DEF Plain, IsRef
<1> QED
  BY <1>2, <1>3

LEMMA CallStepsKeeps == ASSUME Parameters, NEW c, Inv(c), CallSteps PROVE Inv(c)'
<1> DEFINE r == top.vals[1]
           v == Deref(r)
           next == IF IsInt(v) THEN Num(Wrap(v.n + (IF top.s.name = "++" THEN 1 ELSE -1))) ELSE v
<1>1. UNCHANGED <<program, runFlag>> /\ top.s.name \in {"++", "--"}
  BY AppliesFacts DEF CallSteps
<1> PICK L : Ready(c, L) /\ Complete(L, c[L])
  BY AppliesFacts DEF CallSteps
<1>2. CASE Endless(r)
  BY <1>1, <1>2, QuietCrash DEF CallSteps
<1>3. CASE ~Endless(r) /\ v = Invalid
  <2>1. Return("NORMAL", Stale) /\ Quiet
    BY <1>3 DEF CallSteps
  <2>2. Plain(fns, Stale, objects)
    BY SimpleValues DEF Stale
  <2> QED
    BY <1>1, <2>1, <2>2, QuietReturn
<1>4. CASE ~Endless(r) /\ v # Invalid
  <2>1. SetValue(r, next) /\ Return("NORMAL", next) /\ UNCHANGED <<cut, full>>
    BY <1>4 DEF CallSteps
  <2>2. 1 \in DOMAIN top.vals /\ (r.k = "local" => own # <<>> /\ r.n \in DOMAIN own[1])
    BY <1>1, FirstOperand DEF Assignments
  <2>3. Plain(fns, v, objects)
    BY <1>4, <2>2, ValuesGood
  <2>4. \A n : Plain(fns, Num(n), objects)
    BY SimpleValues DEF Num
  <2> HIDE DEF v
  <2>5. Plain(fns, next, objects)
    BY <2>3, <2>4
  <2> HIDE DEF r, next
  <2> QED
    BY <1>1, <2>1, <2>2, <2>5, SetValueReturn DEF Plain, IsRef
<1> QED
  BY <1>2, <1>3, <1>4

LEMMA CallIsCommaKeeps == ASSUME Parameters, NEW c, Inv(c), CallIsComma PROVE Inv(c)'
<1>1. UNCHANGED <<program, runFlag>> /\ Quiet
  BY AppliesFacts DEF CallIsComma
<1> PICK L : Ready(c, L) /\ Complete(L, c[L])
  BY AppliesFacts DEF CallIsComma
<1>2. CASE top.vals = <<>>
  <2>1. Return("NORMAL", Stale)
    BY <1>2 DEF CallIsComma
  <2>2. Plain(fns, Stale, objects)
    BY SimpleValues DEF Stale
  <2> QED
    BY <1>1, <2>1, <2>2, QuietReturn
<1>3. CASE top.vals # <<>> /\ (NoValueIn(top.vals) \/ Endless(top.s.fn))
  BY <1>1, <1>3, QuietCrash DEF CallIsComma
<1>4. CASE top.vals # <<>> /\ ~(NoValueIn(top.vals) \/ Endless(top.s.fn))
  <2>1. Return("NORMAL", Deref(top.vals[Len(top.vals)]))
    BY <1>4 DEF CallIsComma
  <2>2. Len(top.vals) \in DOMAIN top.vals
    BY <1>4, ValuesGood, ListFacts, NoLength
  <2>3. Plain(fns, Deref(top.vals[Len(top.vals)]), objects)
    BY <1>4, <2>2, ValuesGood DEF NoValueIn
  <2> QED
    BY <1>1, <2>1, <2>3, QuietReturn
<1> QED
  BY <1>2, <1>3, <1>4

LEMMA CallFindsFunctionKeeps == ASSUME NEW c, Inv(c), CallFindsFunction PROVE Inv(c)'
<1> DEFINE t == [top EXCEPT !.at = "named"]
           s == top.s.fn.s
<1>1. /\ UNCHANGED <<program, runFlag>> /\ Quiet /\ Descend(t, s)
      /\ top.at = "call" /\ top.s.name = "call" /\ top.s.fn.k = "do"
  BY AppliesFacts DEF CallFindsFunction
<1> PICK L : Ready(c, L) /\ Complete(L, c[L])
  BY AppliesFacts DEF CallFindsFunction
<1>2. top.s.fn \in OperandsIn(L, c[L])
  BY <1>1 DEF Complete, IsCall
<1>3. s \in c[L] /\ s.op # "function"
  BY <1>1, <1>2, OperandGood DEF OperandsIn, Ready
<1>4. Fields(top) /\ top.s \in c[L] /\ Plain(fns, top.val, objects)
  BY DEF Ready, GoodAct
<1>5. t.s = top.s /\ t.at = "named" /\ t.vals = top.vals /\ t.val = top.val /\ Fields(t)
  BY <1>4 DEF Fields
<1> HIDE DEF t, s
<1>6. HasValues(fns, t, Len(t.s.args), objects)
  BY <1>5 DEF Complete, HasValues
<1>7. GoodAct(fns, t, "NORMAL", L, c[L], objects) /\ ~Closes(t)
  BY <1>4, <1>5, <1>6 DEF GoodAct, Closes, Complete
<1> QED
  BY <1>1, <1>3, <1>7, QuietDescend

--------------------------------------------------------------------------------
(* A closure is entered *)

LEMMA PushedFacts ==
  ASSUME Parameters, NEW F, NEW gs, NEW ps, NEW objs, HoldGood(F, gs, ps, infos, objs),
         NEW f, f.locals \in Nat, NEW values, IsList(values), \A i \in DOMAIN values : Plain(F, values[i], objs)
  PROVE  LET is == Pushed(f, values)
         IN /\ HoldGood(F, gs, ps, is, objs)
            /\ is[1].start \in Nat
            /\ Len(infos) < MaxLevel =>
                 /\ Len(is) = Len(infos) + 1 /\ is[1] = Frame(f, values)
                 /\ \A i \in 1..Len(infos) : is[i + 1] = infos[i]
<1> DEFINE fr == Frame(f, values)
           is == <<fr>> \o infos
<1>1. IsList(infos) /\ DOMAIN infos = 1..Len(infos) /\ Len(infos) \in Nat /\ Len(infos) <= MaxLevel
  BY ListFacts DEF HoldGood
<1>2. FrameStart \in Nat
  <2>1. CASE infos = <<>>
    BY <2>1 DEF FrameStart
  <2>2. CASE infos # <<>>
    <3>1. 1 \in DOMAIN infos
      BY <1>1, <2>2, NoLength
    <3>2. infos[1].start \in Nat /\ infos[1].size \in Nat
      BY <3>1 DEF HoldGood
    <3> QED
      BY <2>2, <3>2 DEF FrameStart
  <2> QED
    BY <2>1, <2>2
<1>3. DOMAIN fr = {"start", "size", "params"} /\ fr.start = FrameStart /\ fr.size = f.locals /\ fr.params = values
  BY DEF Frame
<1> HIDE DEF fr
<1>4. CASE Len(infos) < MaxLevel
  <2>1. IsList(is)
    BY <1>1, PushFacts
  <2>2. Len(is) = Len(infos) + 1
    BY <1>1, PushFacts
  <2>3. is[1] = fr
    BY <1>1, PushFacts
  <2>4. \A i \in 1..Len(infos) : is[i + 1] = infos[i]
    BY <1>1, PushFacts
  <2> HIDE DEF is
  <2>5. DOMAIN is = 1..Len(is)
    BY <2>1, ListFacts
  <2>6. ASSUME NEW i \in DOMAIN is
        PROVE  /\ DOMAIN is[i] = {"start", "size", "params"} /\ is[i].start \in Nat /\ is[i].size \in Nat
               /\ IsList(is[i].params) /\ \A j \in DOMAIN is[i].params : Plain(F, is[i].params[j], objs)
    <3>1. CASE i = 1
      BY <1>2, <1>3, <2>3, <3>1
    <3>2. CASE i # 1
      <4>1. i - 1 \in 1..Len(infos) /\ (i - 1) + 1 = i
        BY <1>1, <2>2, <2>5, <3>2
      <4>2. is[i] = infos[i - 1] /\ i - 1 \in DOMAIN infos
        BY <1>1, <2>4, <4>1
      <4> QED
        BY <4>2 DEF HoldGood
    <3> QED
      BY <3>1, <3>2
  <2>7. Len(is) <= MaxLevel
    BY <1>1, <1>4, <2>2 DEF Parameters
  <2>8. HoldGood(F, gs, ps, is, objs)
    BY <2>1, <2>6, <2>7 DEF HoldGood
  <2>9. Pushed(f, values) = is
    BY <1>4 DEF Pushed, is, fr
  <2> QED
    BY <1>2, <1>3, <2>2, <2>3, <2>4, <2>8, <2>9 DEF fr
<1>5. CASE ~(Len(infos) < MaxLevel)
  <2>1. 1 \in DOMAIN infos
    BY <1>1, <1>5 DEF Parameters
  <2>2. Pushed(f, values) = infos
    BY <1>5 DEF Pushed
  <2> QED
    BY <1>5, <2>1, <2>2 DEF HoldGood
<1> QED
  BY <1>4, <1>5

\* A new frame lies above all others: it changes none of their cells.
FrameOnTop(ps, is, os, qs, js, rs, start, size) ==
  /\ start \in Nat /\ size \in Nat /\ start + size <= PoolSize
  /\ \A j \in 1..Len(os) : is[j].start + is[j].size <= start
  /\ Len(js) = Len(is) + 1 /\ js[1].start = start /\ js[1].size = size /\ \A i \in 1..Len(is) : js[i + 1] = is[i]
  /\ Len(rs) = Len(os) + 1 /\ DOMAIN rs[1] = 0..(size - 1) /\ \A i \in 1..Len(os) : rs[i + 1] = os[i]
  /\ \A i \in 0..(PoolSize - 1) : i < start => qs[i] = ps[i]
  /\ \A l \in 0..(size - 1) : rs[1][l] # Unset => qs[start + l] = rs[1][l]

LEMMA EntersApart ==
  ASSUME PoolSize \in Nat, NEW F, NEW gs, NEW objs, NEW ps, NEW is, NEW os, HoldGood(F, gs, ps, is, objs), ApartIn(ps, is, os),
         IsList(os), NEW start, NEW size, NEW js, NEW rs, NEW qs, FrameOnTop(ps, is, os, qs, js, rs, start, size)
  PROVE  ApartIn(qs, js, rs)
<1>0. /\ start \in Nat /\ size \in Nat /\ start + size <= PoolSize
      /\ \A j \in 1..Len(os) : is[j].start + is[j].size <= start
      /\ Len(js) = Len(is) + 1 /\ js[1].start = start /\ js[1].size = size /\ \A i \in 1..Len(is) : js[i + 1] = is[i]
      /\ Len(rs) = Len(os) + 1 /\ DOMAIN rs[1] = 0..(size - 1) /\ \A i \in 1..Len(os) : rs[i + 1] = os[i]
      /\ \A i \in 0..(PoolSize - 1) : i < start => qs[i] = ps[i]
      /\ \A l \in 0..(size - 1) : rs[1][l] # Unset => qs[start + l] = rs[1][l]
  BY DEF FrameOnTop
<1> USE <1>0
<1>1. Len(is) = Len(os) /\ Len(os) \in Nat
  BY ListFacts DEF ApartIn
<1>2. \A i \in 1..Len(rs) : i = 1 \/ (i - 1 \in 1..Len(os) /\ rs[i] = os[i - 1] /\ js[i] = is[i - 1])
  <2> TAKE i \in 1..Len(rs)
  <2> SUFFICES ASSUME i # 1 PROVE i - 1 \in 1..Len(os) /\ rs[i] = os[i - 1] /\ js[i] = is[i - 1]
    OBVIOUS
  <2>1. i - 1 \in 1..Len(os) /\ (i - 1) + 1 = i
    BY <1>1
  <2> QED
    BY <1>1, <2>1
<1>3. \A i \in 1..Len(os) : is[i].start \in Nat /\ is[i].size \in Nat
  BY <1>1, ListFacts DEF HoldGood
<1>4. \A i \in 1..Len(rs) : DOMAIN rs[i] = 0..(js[i].size - 1)
  <2> TAKE i \in 1..Len(rs)
  <2>1. CASE i = 1
    BY <2>1
  <2>2. CASE i # 1
    <3>1. i - 1 \in 1..Len(os) /\ rs[i] = os[i - 1] /\ js[i] = is[i - 1]
      BY <1>2, <2>2
    <3>2. DOMAIN os[i - 1] = 0..(is[i - 1].size - 1)
      BY <3>1 DEF ApartIn
    <3> QED
      BY <3>1, <3>2
  <2> QED
    BY <2>1, <2>2
<1>5. \A i \in 1..Len(rs) : js[i].start + js[i].size <= PoolSize
  BY <1>2 DEF ApartIn
<1>6. \A i, j \in 1..Len(rs) : i < j => js[j].start + js[j].size <= js[i].start
  <2> TAKE i, j \in 1..Len(rs)
  <2> HAVE i < j
  <2>1. j # 1 /\ j - 1 \in 1..Len(os) /\ js[j] = is[j - 1]
    BY <1>1, <1>2
  <2>2. CASE i = 1
    BY <2>1, <2>2
  <2>3. CASE i # 1
    <3>1. i - 1 \in 1..Len(os) /\ js[i] = is[i - 1] /\ i - 1 < j - 1
      BY <1>1, <1>2, <2>3
    <3> QED
      BY <2>1, <3>1 DEF ApartIn
  <2> QED
    BY <2>2, <2>3
<1>7. ASSUME NEW i \in 1..Len(rs), NEW l \in DOMAIN rs[i], rs[i][l] # Unset PROVE qs[js[i].start + l] = rs[i][l]
  <2>1. CASE i = 1
    BY <1>7, <2>1
  <2>2. CASE i # 1
    <3>1. i - 1 \in 1..Len(os) /\ rs[i] = os[i - 1] /\ js[i] = is[i - 1]
      BY <1>2, <2>2
    <3>2. l \in DOMAIN os[i - 1] /\ os[i - 1][l] # Unset
      BY <1>7, <3>1
    <3>3. l \in 0..(is[i - 1].size - 1) /\ ps[is[i - 1].start + l] = os[i - 1][l]
      BY <3>1, <3>2 DEF ApartIn
    <3>4. is[i - 1].start + is[i - 1].size <= start /\ is[i - 1].start + is[i - 1].size <= PoolSize
      BY <3>1 DEF ApartIn
    <3>5. is[i - 1].start + l \in 0..(PoolSize - 1) /\ is[i - 1].start + l < start
      <4>1. is[i - 1].start \in Nat /\ is[i - 1].size \in Nat
        BY <1>3, <3>1
      <4> DEFINE a == is[i - 1].start
                 b == is[i - 1].size
      <4>2. a \in Nat /\ b \in Nat /\ l \in 0..(b - 1) /\ a + b <= start /\ a + b <= PoolSize
        BY <3>3, <3>4, <4>1
      <4> HIDE DEF a, b
      <4>3. a + l \in 0..(PoolSize - 1) /\ a + l < start
        BY <4>2
      <4> QED
        BY <4>3 DEF a
    <3> QED
      BY <1>7, <3>1, <3>3, <3>5
  <2> QED
    BY <2>1, <2>2
<1> QED
  BY <1>1, <1>4, <1>5, <1>6, <1>7 DEF ApartIn

LEMMA LocalsBelow ==
  ASSUME NEW os, IsList(os), NEW o, NEW d, NEW L, HasLocals(d, L, os)
  PROVE  HasLocals(d, L, <<o>> \o os)
<1> DEFINE rs == <<o>> \o os
<1>1. Len(rs) = Len(os) + 1
  BY PushFacts
<1>2. \A i \in 1..Len(os) : rs[i + 1] = os[i]
  BY PushFacts
<1>3. Len(os) \in Nat
  BY ListFacts
<1> HIDE DEF rs
<1>4. CASE d = 0
  BY <1>4 DEF HasLocals
<1>5. CASE d # 0
  <2>1. d \in 1..Len(os) /\ d \in 1..Len(rs) /\ Len(os) + 1 - d \in 1..Len(os) /\ Len(rs) + 1 - d = (Len(os) + 1 - d) + 1
    BY <1>1, <1>3, <1>5 DEF HasLocals
  <2>2. rs[Len(rs) + 1 - d] = os[Len(os) + 1 - d]
    BY <1>2, <2>1
  <2>3. HasLocals(d, L, rs)
    BY <1>5, <2>1, <2>2 DEF HasLocals
  <2> QED
    BY <2>3 DEF rs
<1> QED
  BY <1>4, <1>5 DEF HasLocals

\* The activation on top, as t, waits for the end of a closure with L locals.
LEMMA Enters ==
  ASSUME NEW c, NEW F, Here(c, F), ~Closes(top), Grown(objects, objects'), NEW K \in DOMAIN c, HasLocals(Len(own), K, own),
         NEW t, GoodAct(F, t, "NORMAL", K, c[K], objects'), Closes(t),
         NEW L \in DOMAIN c, NEW s \in c[L], IsStatement(F, s, L, c[L]), s.op # "function",
         acts' = <<Act(s), t>> \o Tail(acts), how' = "go", out' = Stale, UNCHANGED crashed,
         NEW o, DOMAIN o = 0..(L - 1), own' = <<o>> \o own
  PROVE  Goes(c, F) /\ Sober'
<1> DEFINE below == <<t>> \o Tail(acts)
<1>1. IsList(own) /\ IsList(Tail(acts))
  BY TailFacts DEF Here, StackedIn
<1>2. IsList(own')
  BY <1>1, PushFacts
<1>3. Len(own') = Len(own) + 1
  BY <1>1, PushFacts
<1>4. own'[1] = o
  BY <1>1, PushFacts
<1>5. IsList(below)
  BY <1>1, PushFacts
<1>6. acts' = <<Act(s)>> \o below
  <2> PICK S : Tail(acts) \in Seq(S)
    BY <1>1 DEF IsList
  <2> DEFINE all == S \cup {t, Act(s)}
  <2>1. Tail(acts) \in Seq(all) /\ t \in all /\ Act(s) \in all
    OBVIOUS
  <2>2. <<Act(s), t>> \o Tail(acts) = <<Act(s)>> \o (<<t>> \o Tail(acts))
    <3> HIDE DEF all
    <3> QED
      BY <2>1
  <2> QED
    BY <2>2
<1> HIDE DEF below
<1>7. IsList(acts')
  <2>1. IsList(<<Act(s)>> \o below)
    BY <1>5, PushFacts
  <2> QED
    BY <1>6, <2>1
<1>8. acts'[1] = Act(s)
  BY <1>5, <1>6, PushFacts
<1>9. Tail(acts') = below
  BY <1>5, <1>6, TailOfPush
<1> PICK d, ds : Waiting(d, ds, c, F, Tail(acts), own, objects) /\ OnTop(d, c, F, top, how, own, objects)
  BY DEF Here, StackedIn, top
<1>10. Len(own) = d /\ d \in Nat
  BY DEF OnTop, Waiting
<1>11. \A e : \A M : HasLocals(e, M, own) => HasLocals(e, M, own')
  BY <1>1, LocalsBelow
<1>12. Waiting(d, ds, c, F, Tail(acts), own', objects')
  BY <1>11, WaitingMoves
<1>13. HasLocals(d, K, own')
  BY <1>10, <1>11
<1>14. d + 1 \in Nat /\ d + 1 = IF Closes(t) THEN d + 1 ELSE d
  BY <1>10
<1>15. Waiting(d + 1, <<d>> \o ds, c, F, Tail(acts'), own', objects')
  BY <1>9, <1>12, <1>13, <1>14, PutOn DEF below
<1>16. HasLocals(d + 1, L, own')
  <2>1. d + 1 # 0 /\ d + 1 \in 1..Len(own') /\ Len(own') + 1 - (d + 1) = 1
    BY <1>3, <1>10, SMTT(30)
  <2> QED
    BY <1>4, <2>1 DEF HasLocals
<1>17. GoodAct(F, acts'[1], how', L, c[L], objects') /\ acts'[1].at = s.op /\ ~Closes(acts'[1])
  BY <1>8, ActOfStatement
<1>18. OnTop(d + 1, c, F, acts'[1], how', own', objects')
  BY <1>3, <1>10, <1>16, <1>17 DEF OnTop
<1>19. StackedIn(c, F, acts', how', own', objects')
  BY <1>2, <1>7, <1>15, <1>18 DEF StackedIn
<1>20. Plain(F, out', objects')
  BY SimpleValues DEF Stale
<1> QED
  BY <1>17, <1>19, <1>20 DEF Goes, Sober, top

LEMMA EnterKeeps ==
  ASSUME Parameters, NEW c, Inv(c), NEW K, Ready(c, K), UNCHANGED <<program, runFlag>>, top.s.op = "call",
         NEW n \in fns, NEW values, IsList(values), \A i \in DOMAIN values : Plain(fns, values[i], objects),
         NEW at \in {"body", "method"}, Enter(n, values, at)
  PROVE  Inv(c)'
<1> DEFINE f == program.functions[n]
           frame == Pushed(f, values)[1]
           bound == {i \in DOMAIN f.params : i <= Len(values)}
           value(l) == values[CHOOSE i \in bound : f.params[i] = l]
           isBound(l) == \E i \in bound : f.params[i] = l
           t == [top EXCEPT !.at = at]
           o == [l \in 0..(f.locals - 1) |-> IF isBound(l) THEN value(l) ELSE Unset]
           is == Pushed(f, values)
           ps == [i \in DOMAIN pool |-> IF isBound(i - frame.start) THEN value(i - frame.start) ELSE pool[i]]
<1>1. CASE frame.start + f.locals > PoolSize
  <2>1. Crash /\ Quiet
    BY <1>1 DEF Enter
  <2> QED
    BY <2>1, QuietCrash
<1>2. CASE ~(frame.start + f.locals > PoolSize)
  <2>1. /\ infos' = is /\ pool' = ps
        /\ full' = (full \/ Len(infos) = MaxLevel)
        /\ own' = <<o>> \o own
        /\ acts' = <<Act(f.body), t>> \o Tail(acts) /\ how' = "go" /\ out' = Stale
        /\ UNCHANGED <<globals, objects, crashed, cut>>
    BY <1>2 DEF Enter
  <2>2. f.locals \in DOMAIN c /\ f.locals \in Nat /\ f.body \in c[f.locals] /\ f.body.op = "block"
        /\ f.params \in Seq(0..(f.locals - 1))
    BY DEF Inv, Translated, Lists, fns
  <2>3. IsStatement(fns, f.body, f.locals, c[f.locals])
    BY <2>2 DEF Inv, Translated, fns
  <2>4. ASSUME NEW l, isBound(l) PROVE Plain(fns, value(l), objects) /\ l \in 0..(f.locals - 1)
    <3> DEFINE i == CHOOSE j \in bound : f.params[j] = l
    <3>1. i \in bound /\ f.params[i] = l
      BY <2>4
    <3>2. i \in DOMAIN f.params /\ i <= Len(values) /\ DOMAIN f.params = 1..Len(f.params) /\ Len(f.params) \in Nat
      BY <2>2, <3>1
    <3>3. value(l) = values[i]
      OBVIOUS
    <3> HIDE DEF i, value, isBound, bound, f
    <3>4. i \in DOMAIN values
      BY <3>2, ListFacts
    <3>5. f.params[i] \in 0..(f.locals - 1)
      BY <2>2, <3>2
    <3> QED
      BY <3>1, <3>3, <3>4, <3>5
  <2> HIDE DEF isBound, value
  <2>5. DOMAIN o = 0..(f.locals - 1) /\ \A l \in 0..(f.locals - 1) : o[l] # Unset => o[l] = value(l) /\ isBound(l)
    OBVIOUS
  <2>6. HoldGood(fns, globals, pool, is, objects) /\ is[1].start \in Nat
    <3>1. HoldGood(fns, globals, pool, infos, objects)
      BY DEF Inv
    <3>2. HoldGood(fns, globals, pool, is, objects)
      BY <2>2, <3>1, PushedFacts
    <3>3. is[1].start \in Nat
      BY <2>2, <3>1, PushedFacts
    <3> QED
      BY <3>2, <3>3
  <2>7. HoldGood(fns, globals, ps, is, objects)
    <3>1. DOMAIN pool = 0..(PoolSize - 1) /\ \A i \in 0..(PoolSize - 1) : Good(fns, pool[i], objects)
      BY <2>6 DEF HoldGood
    <3>2. DOMAIN ps = 0..(PoolSize - 1) /\ \A i \in 0..(PoolSize - 1) : Good(fns, ps[i], objects)
      <4> HIDE DEF frame, f
      <4> QED
        BY <2>4, <3>1 DEF Plain
    <3> HIDE DEF ps, is
    <3> QED
      BY <2>6, <3>2 DEF HoldGood
  <2>8. ~full' /\ ~crashed' => ApartIn(pool', infos', own')
    <3> SUFFICES ASSUME ~full, ~crashed, Len(infos) # MaxLevel PROVE ApartIn(ps, is, <<o>> \o own)
      BY <2>1
    <3>1. HoldGood(fns, globals, pool, infos, objects) /\ ApartIn(pool, infos, own) /\ IsList(own)
      BY DEF Inv, Apart, Stacked, StackedIn
    <3>2. IsList(infos) /\ Len(infos) \in Nat /\ Len(infos) <= MaxLevel /\ DOMAIN infos = 1..Len(infos) /\ Len(infos) = Len(own)
      BY <3>1, ListFacts DEF HoldGood, ApartIn
    <3>3. Len(infos) < MaxLevel
      <4>1. Len(infos) \in Nat /\ Len(infos) <= MaxLevel
        BY <3>2
      <4>2. MaxLevel \in Nat
        BY DEF Parameters
      <4> DEFINE m == Len(infos)
      <4>3. m # MaxLevel
        OBVIOUS
      <4> HIDE DEF m
      <4>4. m < MaxLevel
        BY <4>1, <4>2, <4>3 DEF m
      <4> QED
        BY <4>4 DEF m
    <3>4. is[1] = Frame(f, values)
      BY <2>2, <3>1, <3>3, PushedFacts
    <3>5. Len(is) = Len(infos) + 1
      BY <2>2, <3>1, <3>3, PushedFacts
    <3>6. \A i \in 1..Len(infos) : is[i + 1] = infos[i]
      BY <2>2, <3>1, <3>3, PushedFacts
    <3>7. is[1].start = FrameStart /\ is[1].size = f.locals /\ frame.start = is[1].start
      BY <3>4 DEF Frame
    <3>8. \A j \in 1..Len(own) : infos[j].start + infos[j].size <= is[1].start
      <4> TAKE j \in 1..Len(own)
      <4>1. 1 \in 1..Len(own) /\ infos # <<>>
        BY <3>2, NoLength
      <4>2. is[1].start = infos[1].start + infos[1].size
        BY <3>7, <4>1 DEF FrameStart
      <4>3. CASE j = 1
        BY <2>6, <4>2, <4>3
      <4>4. CASE j # 1
        <5> DEFINE ends == infos[j].start + infos[j].size
                   first == infos[1].start
                   room == infos[1].size
        <5>1. j \in DOMAIN infos /\ 1 \in DOMAIN infos
          BY <3>1, <3>2, <4>1, ListFacts
        <5>2. first \in Nat /\ room \in Nat /\ infos[j].start \in Nat /\ infos[j].size \in Nat
          BY <3>1, <5>1 DEF HoldGood
        <5>3. ends \in Nat
          BY <5>2
        <5>4. 1 < j
          BY <4>4
        <5>5. ends <= first
          BY <3>1, <4>1, <5>4 DEF ApartIn
        <5> HIDE DEF ends, first, room
        <5>6. ends <= first + room
          BY <5>2, <5>3, <5>5
        <5> QED
          BY <4>2, <5>6 DEF ends, first, room
      <4> QED
        BY <4>3, <4>4
    <3>9. Len(<<o>> \o own) = Len(own) + 1
      BY <3>1, PushFacts
    <3>10. (<<o>> \o own)[1] = o
      BY <3>1, PushFacts
    <3>11. \A i \in 1..Len(own) : (<<o>> \o own)[i + 1] = own[i]
      BY <3>1, PushFacts
    <3>12. \A i \in 0..(PoolSize - 1) : i < is[1].start => ps[i] = pool[i]
      <4> TAKE i \in 0..(PoolSize - 1)
      <4> HAVE i < is[1].start
      <4>1. i - is[1].start \notin 0..(f.locals - 1) /\ i \in DOMAIN pool
        BY <2>6, <3>1 DEF HoldGood, Parameters
      <4>2. ~isBound(i - frame.start)
        BY <2>4, <3>7, <4>1
      <4> HIDE DEF frame, f, is
      <4> QED
        BY <4>1, <4>2
    <3>13. \A l \in 0..(f.locals - 1) : o[l] # Unset => ps[is[1].start + l] = o[l]
      <4> TAKE l \in 0..(f.locals - 1)
      <4> HAVE o[l] # Unset
      <4>1. isBound(l) /\ o[l] = value(l)
        BY <2>5
      <4>2. is[1].start + l \in DOMAIN pool /\ (is[1].start + l) - frame.start = l
        <5> DEFINE a == is[1].start
                   b == f.locals
        <5>1. a \in Nat /\ b \in Nat /\ l \in 0..(b - 1) /\ ~(a + b > PoolSize) /\ frame.start = a
          BY <1>2, <2>2, <2>6, <3>7
        <5>2. PoolSize \in Nat /\ DOMAIN pool = 0..(PoolSize - 1)
          BY <3>1 DEF HoldGood, Parameters
        <5> HIDE DEF a, b
        <5>3. a + l \in 0..(PoolSize - 1) /\ (a + l) - a = l
          BY <5>1, <5>2
        <5> QED
          BY <5>1, <5>2, <5>3 DEF a
      <4> HIDE DEF frame, f, is, o
      <4> QED
        BY <4>1, <4>2
    <3>14. is[1].start + f.locals <= PoolSize
      BY <1>2, <2>2, <2>6, <3>7 DEF Parameters
    <3> HIDE DEF is, ps, o, f, frame
    <3> QED
      <4> DEFINE start == is[1].start
                 size == f.locals
                 rs == <<o>> \o own
      <4>1. start \in Nat /\ size \in Nat /\ start + size <= PoolSize /\ PoolSize \in Nat
        BY <2>2, <2>6, <3>14 DEF Parameters
      <4>2. Len(is) = Len(infos) + 1 /\ is[1].start = start /\ is[1].size = size /\ \A i \in 1..Len(infos) : is[i + 1] = infos[i]
        BY <3>5, <3>6, <3>7
      <4>3. Len(rs) = Len(own) + 1 /\ DOMAIN rs[1] = 0..(size - 1) /\ \A i \in 1..Len(own) : rs[i + 1] = own[i]
        BY <2>5, <3>9, <3>10, <3>11
      <4>4. \A j \in 1..Len(own) : infos[j].start + infos[j].size <= start
        BY <3>8
      <4>5. \A i \in 0..(PoolSize - 1) : i < start => ps[i] = pool[i]
        BY <3>12
      <4>6. \A l \in 0..(size - 1) : rs[1][l] # Unset => ps[start + l] = rs[1][l]
        BY <3>10, <3>13
      <4> HIDE DEF start, size, rs
      <4>7. FrameOnTop(pool, infos, own, ps, is, rs, start, size)
        BY <4>1, <4>2, <4>3, <4>4, <4>5, <4>6 DEF FrameOnTop
      <4>8. ApartIn(ps, is, rs)
        BY <3>1, <4>1, <4>7, EntersApart
      <4> QED
        BY <4>8 DEF rs
  <2>9. Fields(t) /\ t.s = top.s /\ t.at = at /\ t.val = top.val
    BY DEF Ready, GoodAct, Fields
  <2>10. Grown(objects, objects') /\ objects' = objects
    BY <2>1, <2>6, SameGrown DEF HoldGood
  <2> HIDE DEF t, o, is, ps, f, frame
  <2>11. GoodAct(fns, t, "NORMAL", K, c[K], objects) /\ Closes(t)
    BY <2>9 DEF Ready, GoodAct, Closes
  <2>12. Here(c, fns)
    BY Begins DEF Ready
  <2>13. Goes(c, fns) /\ Sober'
    <3>1. ~Closes(top) /\ K \in DOMAIN c /\ HasLocals(Len(own), K, own)
      BY DEF Ready
    <3>2. acts' = <<Act(f.body), t>> \o Tail(acts) /\ how' = "go" /\ out' = Stale /\ crashed' = crashed /\ own' = <<o>> \o own
      BY <2>1
    <3>3. GoodAct(fns, t, "NORMAL", K, c[K], objects')
      BY <2>10, <2>11
    <3>4. f.body.op # "function"
      BY <2>2
    <3> DEFINE b == f.body
               L == f.locals
    <3>5. L \in DOMAIN c /\ b \in c[L] /\ IsStatement(fns, b, L, c[L]) /\ b.op # "function"
      BY <2>2, <2>3, <3>4
    <3>6. acts' = <<Act(b), t>> \o Tail(acts) /\ DOMAIN o = 0..(L - 1)
      BY <2>5, <3>2
    <3> HIDE DEF b, L
    <3> QED
      BY <2>10, <2>11, <2>12, <3>1, <3>2, <3>3, <3>5, <3>6, Enters
  <2>14. Lasts(fns)
    BY <2>1, <2>7, <2>8 DEF Lasts
  <2> QED
    BY <2>1, <2>13, <2>14, Concludes
<1> QED
  BY <1>1, <1>2

--------------------------------------------------------------------------------
(* Calls of functions, objects and members *)

LEMMA ObjectGrows ==
  ASSUME NEW F, NEW a, NEW b, Grown(a, b), NEW obj, GoodObject(F, obj, a)
  PROVE  GoodObject(F, obj, b)
BY GoodGrows DEF GoodObject

LEMMA ObjectChanged ==
  ASSUME NEW F, NEW objs, IsList(objs), \A o \in DOMAIN objs : GoodObject(F, objs[o], objs),
         NEW o, NEW obj, GoodObject(F, obj, objs), o \in DOMAIN objs => Size(obj) >= Size(objs[o])
  PROVE  LET t == [objs EXCEPT ![o] = obj] IN Grown(objs, t) /\ \A p \in DOMAIN t : GoodObject(F, t[p], t)
<1> DEFINE t == [objs EXCEPT ![o] = obj]
<1>1. IsList(t)
  BY ExceptFacts
<1>2. Len(t) = Len(objs)
  BY ExceptFacts
<1>3. \A i \in 1..Len(t) : t[i] = IF i = o THEN obj ELSE objs[i]
  BY ExceptFacts
<1> HIDE DEF t
<1>4. DOMAIN objs = 1..Len(objs) /\ DOMAIN t = 1..Len(t) /\ Len(objs) \in Nat
  BY <1>1, ListFacts
<1>5. ASSUME NEW p \in DOMAIN objs PROVE Size(objs[p]) \in Nat /\ Size(t[p]) \in Nat /\ Size(objs[p]) <= Size(t[p])
  <2>1. Size(objs[p]) \in Nat /\ Size(obj) \in Nat
    BY ObjectSizes
  <2>2. CASE p = o
    BY <1>2, <1>3, <1>4, <2>1, <2>2
  <2>3. CASE p # o
    BY <1>2, <1>3, <1>4, <2>1, <2>3
  <2> QED
    BY <2>2, <2>3
<1>6. Grown(objs, t)
  BY <1>1, <1>2, <1>4, <1>5 DEF Grown
<1>7. \A p \in DOMAIN t : GoodObject(F, t[p], objs)
  BY <1>2, <1>3, <1>4
<1>8. \A p \in DOMAIN t : GoodObject(F, t[p], t)
  BY <1>6, <1>7, ObjectGrows
<1> QED
  BY <1>6, <1>8 DEF t

LEMMA ObjectAdded ==
  ASSUME NEW F, NEW objs, IsList(objs), \A o \in DOMAIN objs : GoodObject(F, objs[o], objs), NEW obj, GoodObject(F, obj, objs)
  PROVE  LET t == Append(objs, obj)
         IN Grown(objs, t) /\ (\A p \in DOMAIN t : GoodObject(F, t[p], t)) /\ Len(objs) + 1 \in DOMAIN t
<1> DEFINE t == Append(objs, obj)
<1>1. IsList(t)
  BY AppendFacts
<1>2. Len(t) = Len(objs) + 1
  BY AppendFacts
<1>3. t[Len(objs) + 1] = obj
  BY AppendFacts
<1>4. \A i \in 1..Len(objs) : t[i] = objs[i]
  BY AppendFacts
<1> HIDE DEF t
<1>5. DOMAIN objs = 1..Len(objs) /\ DOMAIN t = 1..Len(t) /\ Len(objs) \in Nat
  BY <1>1, ListFacts
<1>6. \A p \in DOMAIN objs : Size(objs[p]) \in Nat
  BY ObjectSizes
<1>7. Grown(objs, t)
  BY <1>1, <1>2, <1>4, <1>5, <1>6 DEF Grown
<1>8. \A p \in DOMAIN t : GoodObject(F, t[p], objs)
  <2> TAKE p \in DOMAIN t
  <2>1. p = Len(objs) + 1 \/ p \in 1..Len(objs)
    BY <1>2, <1>5
  <2> QED
    BY <1>3, <1>4, <1>5, <2>1
<1>9. \A p \in DOMAIN t : GoodObject(F, t[p], t)
  BY <1>7, <1>8, ObjectGrows
<1>10. Len(objs) + 1 \in DOMAIN t
  BY <1>2, <1>5
<1> QED
  BY <1>7, <1>9, <1>10 DEF t

LEMMA ObjectChangedKept ==
  ASSUME NEW c, Inv(c), UNCHANGED <<globals, pool, infos, full, own>>, crashed' = crashed,
         NEW o, NEW obj, GoodObject(fns, obj, objects), o \in DOMAIN objects => Size(obj) >= Size(objects[o]),
         objects' = [objects EXCEPT ![o] = obj]
  PROVE  Kept(fns)
<1>1. /\ HoldGood(fns, globals, pool, infos, objects) /\ IsList(own) /\ Apart
      /\ IsList(objects) /\ \A p \in DOMAIN objects : GoodObject(fns, objects[p], objects)
  BY DEF Inv, Stacked, StackedIn, HoldGood
<1>2. Grown(objects, objects')
  BY <1>1, ObjectChanged
<1>3. \A p \in DOMAIN objects' : GoodObject(fns, objects'[p], objects')
  BY <1>1, ObjectChanged
<1> QED
  BY <1>1, <1>2, <1>3, ObjectsKeep

LEMMA ObjectAddedKept ==
  ASSUME NEW c, Inv(c), UNCHANGED <<globals, pool, infos, full, own>>, crashed' = crashed,
         NEW obj, GoodObject(fns, obj, objects), objects' = Append(objects, obj)
  PROVE  Kept(fns) /\ Plain(fns, ObjectValue(Len(objects) + 1), objects')
<1>1. /\ HoldGood(fns, globals, pool, infos, objects) /\ IsList(own) /\ Apart
      /\ IsList(objects) /\ \A p \in DOMAIN objects : GoodObject(fns, objects[p], objects)
  BY DEF Inv, Stacked, StackedIn, HoldGood
<1>2. Grown(objects, objects')
  BY <1>1, ObjectAdded
<1>3. \A p \in DOMAIN objects' : GoodObject(fns, objects'[p], objects')
  BY <1>1, ObjectAdded
<1>4. Len(objects) + 1 \in DOMAIN objects'
  BY <1>1, ObjectAdded
<1>5. Plain(fns, ObjectValue(Len(objects) + 1), objects')
  BY <1>4 DEF ObjectValue, Plain, Good, IsRef
<1> QED
  BY <1>1, <1>2, <1>3, <1>5, ObjectsKeep

LEMMA AccessorPlain ==
  ASSUME NEW F, NEW objs, NEW o \in DOMAIN objs
  PROVE  /\ Plain(F, ObjectValue(o), objs) /\ Plain(F, TempAccessor(o), objs)
         /\ \A ix, cap : ix \in 0..(Size(objs[o]) - 1) \/ ix = SizeIndex => Plain(F, Accessor(o, ix, cap), objs)
BY DEF ObjectValue, TempAccessor, Accessor, Plain, Good, IsRef

LEMMA FindsKeeps ==
  ASSUME NEW c, Inv(c), NEW L, Ready(c, L), UNCHANGED <<program, runFlag>>, NEW o \in DOMAIN objects,
         NEW values, Finds(o, values)
  PROVE  Inv(c)'
<1> DEFINE access == Access(objects[o], o, values[1])
<1>1. CASE Len(values) # 1
  <2>1. Return("NORMAL", Stale) /\ Quiet
    BY <1>1 DEF Finds
  <2>2. Plain(fns, Stale, objects)
    BY SimpleValues DEF Stale
  <2> QED
    BY <2>1, <2>2, QuietReturn
<1>2. CASE Len(values) = 1
  <2>1. /\ objects' = [objects EXCEPT ![o] = access.obj]
        /\ Return("NORMAL", access.value)
        /\ UNCHANGED <<globals, pool, infos, cut, full, own>>
    BY <1>2 DEF Finds
  <2>2. GoodObject(fns, objects[o], objects)
    BY DEF Inv, HoldGood
  <2>3. GoodObject(fns, access.obj, objects) /\ access.obj.members = objects[o].members
    BY <2>2, AccessFacts
  <2>4. \/ access.value = Stale
        \/ access.value = TempAccessor(o)
        \/ \E ix \in 0..(Size(objects[o]) - 1) \cup {SizeIndex} : \E cap : access.value = Accessor(o, ix, cap)
    BY <2>2, AccessFacts
  <2> HIDE DEF access
  <2>5. Plain(fns, access.value, objects)
    <3>1. Plain(fns, Stale, objects)
      BY SimpleValues DEF Stale
    <3>2. Plain(fns, TempAccessor(o), objects)
      BY AccessorPlain
    <3>3. \A ix \in 0..(Size(objects[o]) - 1) \cup {SizeIndex} : \A cap : Plain(fns, Accessor(o, ix, cap), objects)
      BY AccessorPlain
    <3> QED
      BY <2>4, <3>1, <3>2, <3>3
  <2>6. Size(access.obj) >= Size(objects[o])
    <3>1. Size(access.obj) = Size(objects[o])
      BY <2>3 DEF Size
    <3>2. Size(objects[o]) \in Nat
      BY <2>2, ObjectSizes
    <3> QED
      BY <3>1, <3>2
  <2>7. crashed' = crashed
    BY <2>1 DEF Return
  <2>8. Kept(fns)
    BY <2>1, <2>3, <2>6, <2>7, ObjectChangedKept
  <2>9. Plain(fns, access.value, objects')
    BY <2>5, <2>8, GoodGrows DEF Kept, Moved
  <2> QED
    BY <2>1, <2>8, <2>9, KeptReturn DEF Sits
<1> QED
  BY <1>1, <1>2

LEMMA UsesKeeps ==
  ASSUME Parameters, NEW c, Inv(c), NEW L, Ready(c, L), UNCHANGED <<program, runFlag>>, top.s.op = "call",
         NEW acc, acc.k \in {"member", "temp"}, Plain(fns, acc, objects),
         NEW values, IsList(values), \A i \in DOMAIN values : Plain(fns, values[i], objects), Uses(acc, values)
  PROVE  Inv(c)'
<1> DEFINE obj == objects[acc.n]
           ix == MemberOf(acc, obj)
           given == Given(values)
           member == obj.members[ix + 1].v
           done == Operate(obj, ix, given, top.s.property)
           breaks == Dangles(acc, obj) \/ ValuesInUse + 1 > MaxValues
           calls == Calls(obj, ix, given, top.s.property)
<1>1. acc.n \in DOMAIN objects
  BY DEF Plain, Good
<1>2. GoodObject(fns, obj, objects)
  BY <1>1 DEF Inv, HoldGood
<1>3. IsList(given) /\ \A i \in DOMAIN given : Plain(fns, given[i], objects)
  BY GivenFacts
<1>4. Plain(fns, Stale, objects)
  BY SimpleValues DEF Stale
<1>5. CASE breaks
  <2>1. Crash /\ Quiet
    BY <1>5 DEF Uses
  <2> QED
    BY <2>1, QuietCrash
<1>6. CASE ~breaks /\ calls
  <2>1. IF member.k = "fn" THEN Enter(member.n, <<ObjectValue(acc.n)>> \o given, "method")
        ELSE Return("NORMAL", Stale) /\ Quiet
    BY <1>6 DEF Uses
  <2>2. ix \in 0..(Size(obj) - 1)
    BY <1>6 DEF Calls
  <2>3. ix + 1 \in DOMAIN obj.members
    BY <1>2, <2>2, ObjectSizes
  <2>4. Plain(fns, member, objects)
    BY <1>2, <2>3 DEF GoodObject
  <2> DEFINE values2 == <<ObjectValue(acc.n)>> \o given
  <2>5. IsList(values2) /\ \A i \in DOMAIN values2 : Plain(fns, values2[i], objects)
    <3>1. IsList(values2)
      BY <1>3, PushFacts
    <3>2. Len(values2) = Len(given) + 1
      BY <1>3, PushFacts
    <3>3. values2[1] = ObjectValue(acc.n)
      BY <1>3, PushFacts
    <3>4. \A i \in 1..Len(given) : values2[i + 1] = given[i]
      BY <1>3, PushFacts
    <3> HIDE DEF values2, given
    <3>5. DOMAIN values2 = 1..Len(values2) /\ DOMAIN given = 1..Len(given) /\ Len(given) \in Nat
      BY <1>3, <3>1, ListFacts
    <3>6. ASSUME NEW i \in DOMAIN values2 PROVE Plain(fns, values2[i], objects)
      <4>1. CASE i = 1
        BY <1>1, <3>3, <4>1, AccessorPlain
      <4>2. CASE i # 1
        <5>1. i - 1 \in 1..Len(given) /\ (i - 1) + 1 = i
          BY <3>2, <3>5, <4>2
        <5>2. values2[i] = given[i - 1]
          BY <3>4, <5>1
        <5> QED
          BY <1>3, <3>5, <5>1, <5>2
      <4> QED
        BY <4>1, <4>2
    <3> QED
      BY <3>1, <3>6
  <2>6. CASE member.k = "fn"
    <3>1. Enter(member.n, values2, "method") /\ member.n \in fns
      BY <2>1, <2>4, <2>6 DEF Plain, Good
    <3> HIDE DEF values2, member
    <3> QED
      BY <2>5, <3>1, EnterKeeps
  <2>7. CASE member.k # "fn"
    BY <1>4, <2>1, <2>7, QuietReturn
  <2> QED
    BY <2>6, <2>7
<1>7. CASE ~breaks /\ ~calls
  <2>1. /\ objects' = [objects EXCEPT ![acc.n] = done.obj]
        /\ Return("NORMAL", done.value)
        /\ UNCHANGED <<globals, pool, infos, cut, full, own>>
    BY <1>7 DEF Uses
  <2>2. GoodObject(fns, done.obj, objects) /\ Size(done.obj) >= Size(obj) /\ Plain(fns, done.value, objects)
    BY <1>2, <1>3, OperateFacts
  <2> HIDE DEF done
  <2>3. crashed' = crashed
    BY <2>1 DEF Return
  <2>4. Kept(fns)
    BY <2>1, <2>2, <2>3, ObjectChangedKept
  <2>5. Plain(fns, done.value, objects')
    BY <2>2, <2>4, GoodGrows DEF Kept, Moved
  <2> QED
    BY <2>1, <2>4, <2>5, KeptReturn DEF Sits
<1> QED
  BY <1>5, <1>6, <1>7

LEMMA ExecuteKeeps ==
  ASSUME Parameters, NEW c, Inv(c), NEW L, Ready(c, L), UNCHANGED <<program, runFlag>>, Complete(L, c[L]),
         NEW f, IsExpressionApi(f), Plain(fns, f, objects), Execute(f)
  PROVE  Inv(c)'
<1>0. top.s.op = "call"
  BY DEF Complete
<1>1. CASE NoValueIn(top.vals)
  BY <1>1, QuietCrash DEF Execute
<1>2. CASE ~NoValueIn(top.vals)
  <2>1. IsList(Values(top.vals)) /\ \A i \in DOMAIN Values(top.vals) : Plain(fns, Values(top.vals)[i], objects)
    BY <1>2, ValuesPlain
  <2>2. CASE f.k = "fn"
    <3>1. Enter(f.n, Values(top.vals), "body") /\ f.n \in fns
      BY <1>2, <2>2 DEF Execute, Plain, Good
    <3> QED
      BY <1>0, <2>1, <3>1, EnterKeeps
  <2>3. CASE f.k = "obj"
    <3>1. Finds(f.n, Values(top.vals)) /\ f.n \in DOMAIN objects
      BY <1>2, <2>3 DEF Execute, Plain, Good
    <3> QED
      BY <3>1, FindsKeeps
  <2>4. CASE f.k \in {"member", "temp"}
    <3>1. Uses(f, Values(top.vals))
      BY <1>2, <2>4 DEF Execute
    <3> QED
      BY <1>0, <2>1, <2>4, <3>1, UsesKeeps
  <2> QED
    BY <2>2, <2>3, <2>4 DEF IsExpressionApi
<1> QED
  BY <1>1, <1>2

LEMMA CallsVariableKeeps == ASSUME Parameters, NEW c, Inv(c), CallsVariable PROVE Inv(c)'
<1>1. UNCHANGED <<program, runFlag>> /\ top.s.name = "call" /\ IsRef(top.s.fn) /\ IsExpressionApi(Deref(top.s.fn))
      /\ Execute(Deref(top.s.fn))
  BY AppliesFacts DEF CallsVariable
<1> PICK L : Ready(c, L) /\ Complete(L, c[L])
  BY AppliesFacts DEF CallsVariable
<1>2. top.s.fn \in OperandsIn(L, c[L]) /\ top.s.fn.k # "do"
  BY <1>1 DEF Complete, IsCall, IsRef
<1>3. top.s.fn \in VariablesIn(L) \cup Constants /\ L \in Nat
  BY <1>2 DEF OperandsIn, Ready
<1>4. ~Endless(top.s.fn)
  BY <1>1 DEF Endless, IsExpressionApi, IsRef
<1>5. Plain(fns, Deref(top.s.fn), objects)
  BY <1>3, <1>4, ValueOfOperand
<1> QED
  BY <1>1, <1>5, ExecuteKeeps

LEMMA CallsResultKeeps == ASSUME Parameters, NEW c, Inv(c), CallsResult PROVE Inv(c)'
<1>1. acts # <<>> /\ top.at = "named" /\ how # "go" /\ UNCHANGED <<program, runFlag>>
  BY DEF CallsResult, At
<1> PICK L : Ready(c, L)
  BY <1>1, Starts
<1>2. Complete(L, c[L])
  BY <1>1 DEF Ready, GoodAct, IsStatement, Complete
<1> PICK f \in IF out = Stale THEN {Invalid} \cup LeftInCell ELSE {out} :
           IF IsExpressionApi(f) THEN Execute(f) ELSE Return("NORMAL", Stale) /\ Quiet
  BY DEF CallsResult
<1>3. Plain(fns, f, objects)
  <2>1. CASE out # Stale
    BY <2>1 DEF Inv
  <2>2. CASE f = Invalid
    BY <2>2, SimpleValues DEF Invalid
  <2>3. CASE f \in {[k |-> "fn", n |-> n] : n \in DOMAIN program.functions}
    BY <2>3 DEF Plain, Good, IsRef, fns
  <2>4. CASE f \in {ObjectValue(o) : o \in DOMAIN objects}
    BY <2>4, AccessorPlain
  <2>5. CASE f \in {TempAccessor(o) : o \in DOMAIN objects}
    BY <2>5, AccessorPlain
  <2>6. CASE f \in UNION {{Accessor(o, ix, cap) : ix \in 0..(Size(objects[o]) - 1), cap \in 1..objects[o].cap} : o \in DOMAIN objects}
    <3>1. PICK o \in DOMAIN objects : \E ix \in 0..(Size(objects[o]) - 1) : \E cap \in 1..objects[o].cap : f = Accessor(o, ix, cap)
      BY <2>6
    <3> QED
      BY <3>1, AccessorPlain
  <2> QED
    BY <2>1, <2>2, <2>3, <2>4, <2>5, <2>6 DEF LeftInCell
<1>4. CASE IsExpressionApi(f)
  BY <1>1, <1>2, <1>3, <1>4, ExecuteKeeps
<1>5. CASE ~IsExpressionApi(f)
  <2>1. Plain(fns, Stale, objects)
    BY SimpleValues DEF Stale
  <2> QED
    BY <1>1, <1>5, <2>1, QuietReturn
<1> QED
  BY <1>4, <1>5

LEMMA ParameterPlain == ASSUME NEW c, Inv(c), NEW n PROVE Plain(fns, Parameter(n), objects)
<1>1. \A i \in DOMAIN params : Plain(fns, params[i], objects)
  BY ParamsPlain DEF Inv
<1>2. Plain(fns, Num(Len(params)), objects) /\ Plain(fns, Stale, objects)
  BY SimpleValues DEF Num, Stale
<1> QED
  BY <1>1, <1>2 DEF Parameter

LEMMA CallReadsParametersKeeps == ASSUME Parameters, NEW c, Inv(c), CallReadsParameters PROVE Inv(c)'
<1>1. UNCHANGED <<program, runFlag>> /\ top.s.name \in {"argnum", "args"}
      /\ UNCHANGED <<globals, pool, infos, cut, full, own>>
  BY AppliesFacts DEF CallReadsParameters
<1> PICK L : Ready(c, L) /\ Complete(L, c[L])
  BY AppliesFacts DEF CallReadsParameters
<1>2. CASE top.s.name = "argnum"
  <2>1. Return("NORMAL", Parameter(-1)) /\ UNCHANGED objects
    BY <1>2 DEF CallReadsParameters
  <2>2. Quiet
    BY <1>1, <2>1 DEF Quiet, data
  <2> QED
    BY <1>1, <2>1, <2>2, ParameterPlain, QuietReturn
<1>3. CASE top.s.name = "args"
  <2> DEFINE given[i \in 0..Len(params)] == IF i = 0 THEN NewObject ELSE Put(given[i - 1], Num(i - 1), params[i])
             obj == given[Len(params)]
  <2>1. objects' = Append(objects, obj) /\ Return("NORMAL", ObjectValue(Len(objects) + 1))
    BY <1>3 DEF CallReadsParameters
  <2>2. GoodObject(fns, obj, objects)
    BY ArgsGood DEF Inv
  <2> HIDE DEF obj, given
  <2>3. crashed' = crashed
    BY <2>1 DEF Return
  <2>4. Kept(fns) /\ Plain(fns, ObjectValue(Len(objects) + 1), objects')
    BY <1>1, <2>1, <2>2, <2>3, ObjectAddedKept
  <2> QED
    BY <1>1, <2>1, <2>4, KeptReturn DEF Sits
<1> QED
  BY <1>1, <1>2, <1>3

LEMMA CallUsesParameterKeeps == ASSUME Parameters, NEW c, Inv(c), CallUsesParameter PROVE Inv(c)'
<1> DEFINE values == Values(top.vals)
<1>1. UNCHANGED <<program, runFlag>>
  BY AppliesFacts DEF CallUsesParameter
<1> PICK L : Ready(c, L) /\ Complete(L, c[L])
  BY AppliesFacts DEF CallUsesParameter
<1>2. CASE Crash /\ Quiet
  BY <1>1, <1>2, QuietCrash
<1>3. CASE Return("NORMAL", Invalid) /\ Quiet
  <2>1. Plain(fns, Invalid, objects)
    BY SimpleValues DEF Invalid
  <2> QED
    BY <1>1, <1>3, <2>1, QuietReturn
<1>4. ASSUME ~NoValueIn(top.vals), NEW n \in Indexes(values),
             Return("NORMAL", IF Len(values) = 1 THEN Parameter(n) ELSE values[2]),
             IF Len(values) = 1 \/ n < 0 THEN Quiet
             ELSE SetValue([k |-> "arg", n |-> n], values[2]) /\ UNCHANGED <<cut, full>>
      PROVE  Inv(c)'
  <2>1. IsList(values) /\ \A i \in DOMAIN values : Plain(fns, values[i], objects)
    BY <1>4, ValuesPlain
  <2> HIDE DEF values
  <2>2. Len(values) \in {1, 2}
    BY <1>4 DEF Indexes
  <2>3. Len(values) # 1 => Plain(fns, values[2], objects)
    BY <2>1, <2>2, ListFacts
  <2>4. Plain(fns, IF Len(values) = 1 THEN Parameter(n) ELSE values[2], objects)
    BY <2>3, ParameterPlain
  <2>5. CASE Quiet
    BY <1>1, <1>4, <2>4, <2>5, QuietReturn
  <2>6. CASE ~Quiet
    <3> DEFINE r == [k |-> "arg", n |-> n]
               v == values[2]
    <3>1. SetValue(r, v) /\ UNCHANGED <<cut, full>> /\ Len(values) # 1
      BY <1>4, <2>6
    <3>2. Return("NORMAL", v) /\ Plain(fns, v, objects) /\ r.k = "arg"
      BY <1>4, <2>3, <3>1
    <3> HIDE DEF r, v
    <3>3. Good(fns, v, objects)
      BY <3>2 DEF Plain
    <3> QED
      BY <1>1, <3>1, <3>2, <3>3, SetValueReturn
  <2> QED
    BY <2>5, <2>6
<1> QED
  BY <1>2, <1>3, <1>4 DEF CallUsesParameter
--------------------------------------------------------------------------------
(* The end of a closure *)

LEMMA LocalsAbove ==
  ASSUME NEW os, IsList(os), os # <<>>, NEW d, d <= Len(os) - 1, d \in Nat, NEW L, HasLocals(d, L, os)
  PROVE  HasLocals(d, L, Tail(os))
<1> DEFINE rs == Tail(os)
<1>1. Len(rs) = Len(os) - 1
  BY TailFacts
<1>2. \A i \in 1..Len(rs) : rs[i] = os[i + 1]
  BY TailFacts
<1>3. Len(os) \in Nat
  BY ListFacts
<1> HIDE DEF rs
<1>4. CASE d = 0
  BY <1>4 DEF HasLocals
<1>5. CASE d # 0
  <2>1. d \in 1..Len(rs) /\ Len(rs) + 1 - d \in 1..Len(rs) /\ (Len(rs) + 1 - d) + 1 = Len(os) + 1 - d
    BY <1>1, <1>3, <1>5
  <2>2. rs[Len(rs) + 1 - d] = os[Len(os) + 1 - d]
    BY <1>2, <2>1
  <2>3. HasLocals(d, L, rs)
    BY <1>5, <2>1, <2>2 DEF HasLocals
  <2> QED
    BY <2>3 DEF rs
<1> QED
  BY <1>4, <1>5 DEF HasLocals

LEMMA TailApart ==
  ASSUME NEW ps, NEW is, NEW os, IsList(is), IsList(os), is # <<>>, os # <<>>, ApartIn(ps, is, os)
  PROVE  ApartIn(ps, Tail(is), Tail(os))
<1> DEFINE js == Tail(is)
           rs == Tail(os)
<1>1. Len(rs) = Len(os) - 1
  BY TailFacts
<1>2. \A i \in 1..Len(rs) : rs[i] = os[i + 1]
  BY TailFacts
<1>3. Len(js) = Len(is) - 1
  BY TailFacts
<1>4. \A i \in 1..Len(js) : js[i] = is[i + 1]
  BY TailFacts
<1> HIDE DEF js, rs
<1>5. Len(os) \in Nat /\ Len(is) = Len(os)
  BY ListFacts DEF ApartIn
<1>6. \A i \in 1..Len(rs) : i + 1 \in 1..Len(os) /\ rs[i] = os[i + 1] /\ js[i] = is[i + 1]
  BY <1>1, <1>2, <1>3, <1>4, <1>5
<1>7. \A i, j \in 1..Len(rs) : i < j => i + 1 < j + 1
  BY <1>1, <1>5
<1>8. Len(js) = Len(rs)
  BY <1>1, <1>3, <1>5
<1>9. \A i \in 1..Len(rs) : DOMAIN rs[i] = 0..(js[i].size - 1)
  BY <1>6 DEF ApartIn
<1>10. \A i \in 1..Len(rs) : js[i].start + js[i].size <= PoolSize
  BY <1>6 DEF ApartIn
<1>11. \A i, j \in 1..Len(rs) : i < j => js[j].start + js[j].size <= js[i].start
  BY <1>6, <1>7 DEF ApartIn
<1>12. \A i \in 1..Len(rs) : \A l \in DOMAIN rs[i] : rs[i][l] # Unset => ps[js[i].start + l] = rs[i][l]
  <2> TAKE i \in 1..Len(rs)
  <2> DEFINE m == i + 1
  <2>1. m \in 1..Len(os) /\ rs[i] = os[m] /\ js[i] = is[m]
    BY <1>6
  <2> HIDE DEF m
  <2>2. \A l \in DOMAIN os[m] : os[m][l] # Unset => ps[is[m].start + l] = os[m][l]
    BY <2>1 DEF ApartIn
  <2> QED
    BY <2>1, <2>2
<1>13. ApartIn(ps, js, rs)
  BY <1>8, <1>9, <1>10, <1>11, <1>12 DEF ApartIn
<1> QED
  BY <1>13 DEF js, rs

LEMMA ClosureEndsKeeps == ASSUME Parameters, NEW c, Inv(c), ClosureEnds PROVE Inv(c)'
<1>1. /\ acts # <<>> /\ Closes(top) /\ UNCHANGED <<program, runFlag>>
      /\ infos' = IF infos = <<>> THEN infos ELSE Tail(infos)
      /\ own' = Tail(own) /\ acts' = Tail(acts) /\ how' = "NORMAL" /\ out' = out
      /\ UNCHANGED <<globals, pool, objects, cut, full, crashed>>
  BY DEF ClosureEnds, At, Closes, Return
<1>2. /\ HoldGood(fns, globals, pool, infos, objects) /\ IsList(own) /\ IsList(infos) /\ Apart /\ Plain(fns, out, objects)
      /\ Here(c, fns) /\ IsList(acts)
  BY <1>1, Begins DEF Inv, Stacked, StackedIn, HoldGood
<1> PICK d, ds : Waiting(d, ds, c, fns, Tail(acts), own, objects) /\ OnTop(d, c, fns, top, how, own, objects)
  BY <1>2 DEF Here, StackedIn, top
<1>3. Len(own) = d + 1 /\ d \in Nat
  BY <1>1 DEF OnTop, Waiting
<1>4. own # <<>>
  BY <1>2, <1>3, NoLength
<1>5. IsList(own') /\ Len(own') = d
  BY <1>1, <1>2, <1>3, <1>4, TailFacts
<1>6. IsList(acts')
  BY <1>1, <1>2, TailFacts
<1>7. Grown(objects, objects') /\ objects' = objects
  BY <1>1, <1>2, SameGrown DEF HoldGood
<1>8. HoldGood(fns, globals, pool, infos', objects)
  <2>1. CASE infos = <<>>
    BY <1>1, <1>2, <2>1
  <2>2. CASE infos # <<>>
    <3> DEFINE js == Tail(infos)
    <3>1. IsList(js) /\ Len(infos) >= 1
      BY <1>2, <2>2, TailFacts
    <3>2. Len(js) = Len(infos) - 1
      BY <1>2, <2>2, TailFacts
    <3>3. \A i \in 1..Len(js) : js[i] = infos[i + 1]
      BY <1>2, <2>2, TailFacts
    <3>4. infos' = js
      BY <1>1, <2>2
    <3> HIDE DEF js
    <3>5. DOMAIN js = 1..Len(js) /\ DOMAIN infos = 1..Len(infos) /\ Len(infos) \in Nat
      BY <1>2, <3>1, ListFacts
    <3>6. \A i \in DOMAIN js : i + 1 \in DOMAIN infos
      BY <3>2, <3>5
    <3>7. Len(js) <= Len(infos)
      BY <3>2, <3>5
    <3>8. Len(js) <= MaxLevel
      <4>1. Len(infos) <= MaxLevel
        BY <1>2 DEF HoldGood
      <4> DEFINE n == Len(infos)
                 m == Len(js)
      <4>2. m = n - 1 /\ n \in Nat /\ n <= MaxLevel /\ MaxLevel \in Nat
        BY <3>2, <3>5, <4>1 DEF Parameters
      <4> HIDE DEF n, m
      <4>3. m <= MaxLevel
        BY <4>2
      <4> QED
        BY <4>3 DEF m
    <3> QED
      BY <1>2, <3>1, <3>3, <3>4, <3>5, <3>6, <3>8 DEF HoldGood
  <2> QED
    BY <2>1, <2>2
<1>9. Lasts(fns)
  <2>1. ASSUME ~full, ~crashed PROVE ApartIn(pool, infos', own')
    <3>1. ApartIn(pool, infos, own)
      BY <1>2, <2>1 DEF Apart
    <3>2. infos # <<>>
      BY <1>2, <1>3, <3>1, NoLength DEF ApartIn
    <3> QED
      BY <1>1, <1>2, <1>4, <3>1, <3>2, TailApart
  <2> QED
    BY <1>1, <1>8, <2>1 DEF Lasts
<1>10. Waiting(d, ds, c, fns, acts', own', objects')
  <2>1. \A e \in 0..d : \A L : HasLocals(e, L, own) => HasLocals(e, L, own')
    <3> TAKE e \in 0..d
    <3>1. e \in Nat /\ e <= Len(own) - 1
      BY <1>3
    <3> QED
      BY <1>1, <1>2, <1>4, <3>1, LocalsAbove
  <2> QED
    BY <1>1, <1>7, <2>1, WaitingMoves
<1>11. StackedIn(c, fns, acts', how', own', objects') /\ (acts' # <<>> => acts'[1].at # "function")
  <2>1. CASE acts' = <<>>
    BY <1>5, <1>6, <2>1 DEF StackedIn
  <2>2. CASE acts' # <<>>
    <3>1. Waiting(ds[1], Tail(ds), c, fns, Tail(acts'), own', objects')
      BY <1>10, <2>2, TakeOff
    <3>2. d = IF Closes(acts'[1]) THEN ds[1] + 1 ELSE ds[1]
      BY <1>10, <2>2, TakeOff
    <3>3. PICK L \in DOMAIN c : HasLocals(ds[1], L, own') /\ GoodAct(fns, acts'[1], "NORMAL", L, c[L], objects')
      BY <1>10, <2>2, TakeOff
    <3>4. OnTop(ds[1], c, fns, acts'[1], how', own', objects')
      BY <1>1, <1>5, <3>2, <3>3 DEF OnTop
    <3> QED
      BY <1>5, <1>6, <3>1, <3>3, <3>4, AnyResult DEF StackedIn
  <2> QED
    BY <2>1, <2>2
<1>12. Goes(c, fns) /\ Sober'
  BY <1>1, <1>2, <1>11 DEF Goes, Sober, top
<1> QED
  BY <1>1, <1>9, <1>12, Concludes

--------------------------------------------------------------------------------
(* Other statements *)

LEMMA TopFacts ==
  ASSUME NEW c, NEW L, Ready(c, L)
  PROVE  /\ Fields(top) /\ top.s \in c[L] /\ Plain(fns, top.val, objects) /\ IsStatement(fns, top.s, L, c[L])
         /\ top.at \notin {"named", "body", "method", "chosen", "goto", "each"} => top.at = top.s.op
BY DEF Ready, GoodAct

LEMMA OperandInside == ASSUME NEW L \in Nat, NEW C, NEW x \in OperandsIn(L, C), x.k = "do" PROVE x.s \in C /\ x.s.op # "function"
BY OperandGood DEF OperandsIn

LEMMA BecomesList ==
  ASSUME NEW c, Inv(c), NEW L, Ready(c, L), UNCHANGED <<program, runFlag>>, Quiet, NEW s \in Lists(c[L]), Become(Act(s))
  PROVE  Inv(c)'
<1>1. s \in c[L] /\ s.op = "block" /\ IsStatement(fns, s, L, c[L])
  BY DEF Lists, Ready
<1>2. GoodAct(fns, Act(s), "go", L, c[L], objects) /\ Act(s).at = "block" /\ ~Closes(Act(s))
  BY <1>1, ActOfStatement
<1> QED
  BY <1>2, QuietBecome

LEMMA ValueRunsKeeps == ASSUME Parameters, NEW c, Inv(c), ValueRuns PROVE Inv(c)'
<1>1. acts # <<>> /\ top.at = "value" /\ UNCHANGED <<program, runFlag>>
  BY DEF ValueRuns, At
<1> PICK L : Ready(c, L)
  BY <1>1, Starts
<1>2. top.s.value \in VariablesIn(L) \cup Constants /\ L \in Nat
  BY <1>1, TopFacts DEF IsStatement, Ready
<1>3. CASE ~runFlag
  BY <1>1, <1>3, QuietGivesUp DEF ValueRuns
<1>4. CASE runFlag /\ Endless(top.s.value)
  BY <1>1, <1>4, QuietCrash DEF ValueRuns
<1>5. CASE runFlag /\ ~Endless(top.s.value)
  <2>1. Quiet /\ Return("NORMAL", Deref(top.s.value))
    BY <1>5 DEF ValueRuns
  <2>2. Plain(fns, Deref(top.s.value), objects)
    BY <1>2, <1>5, ValueOfOperand
  <2> QED
    BY <1>1, <2>1, <2>2, QuietReturn
<1> QED
  BY <1>3, <1>4, <1>5

LEMMA FunctionDefinedKeeps == ASSUME Parameters, NEW c, Inv(c), FunctionDefined PROVE Inv(c)'
<1> DEFINE r == [k |-> "global", n |-> top.s.var]
           v == [k |-> "fn", n |-> top.s.fn]
<1>1. acts # <<>> /\ top.at = "function" /\ UNCHANGED <<program, runFlag, cut, full>> /\ SetValue(r, v) /\ Return("NORMAL", v)
  BY DEF FunctionDefined, At
<1> PICK L : Ready(c, L)
  BY <1>1, Starts
<1>2. top.s.fn \in fns
  BY <1>1, TopFacts DEF IsStatement
<1>3. r.k = "global" /\ v.k = "fn" /\ v.n = top.s.fn
  OBVIOUS
<1> HIDE DEF r, v
<1>4. Plain(fns, v, objects) /\ Good(fns, v, objects)
  BY <1>2, <1>3 DEF Plain, Good, IsRef
<1> QED
  BY <1>1, <1>3, <1>4, SetValueReturn

LEMMA LiteralBeginsKeeps == ASSUME NEW c, Inv(c), LiteralBegins PROVE Inv(c)'
<1> DEFINE t == [top EXCEPT !.ix = 1, !.val = ObjectValue(Len(objects) + 1)]
<1>1. /\ acts # <<>> /\ top.at = "literal" /\ how = "go" /\ UNCHANGED <<program, runFlag>>
      /\ objects' = Append(objects, NewObject) /\ Become(t) /\ UNCHANGED <<globals, pool, infos, cut, full, own>>
  BY DEF LiteralBegins, At
<1> PICK L : Ready(c, L)
  BY <1>1, Starts
<1>2. crashed' = crashed
  BY <1>1 DEF Become
<1>3. Kept(fns) /\ Plain(fns, ObjectValue(Len(objects) + 1), objects')
  BY <1>1, <1>2, NewObjectGood, ObjectAddedKept
<1>4. Fields(top) /\ top.s \in c[L] /\ top.at = top.s.op
  BY <1>1, TopFacts
<1>5. t.at = "literal" /\ t.s = top.s /\ t.ix = 1 /\ t.val = ObjectValue(Len(objects) + 1) /\ Fields(t)
  BY <1>1, <1>4 DEF Fields
<1>6. t.val.k = "obj"
  BY <1>5 DEF ObjectValue
<1> HIDE DEF t
<1>7. GoodAct(fns, t, "go", L, c[L], objects') /\ ~Closes(t)
  BY <1>1, <1>3, <1>4, <1>5, <1>6 DEF GoodAct, Closes
<1> QED
  BY <1>1, <1>3, <1>5, <1>7, KeptBecome DEF Sits

LEMMA LiteralRunsKeeps == ASSUME Parameters, NEW c, Inv(c), LiteralRuns PROVE Inv(c)'
<1>1. /\ acts # <<>> /\ top.at = "literal" /\ how = "go" /\ UNCHANGED <<program, runFlag>> /\ top.ix > 0 /\ Quiet
      /\ IF top.ix > Len(top.s.values) THEN Return("NORMAL", top.val) ELSE Evaluate(top, top.s.values[top.ix])
  BY DEF LiteralRuns, At
<1> PICK L : Ready(c, L)
  BY <1>1, Starts
<1>2. Fields(top) /\ top.s.values \in Seq(OperandsIn(L, c[L])) /\ Plain(fns, top.val, objects)
  BY <1>1, TopFacts DEF IsStatement
<1>3. top.ix \in Nat
  BY <1>1 DEF Ready, GoodAct
<1>4. CASE top.ix > Len(top.s.values)
  BY <1>1, <1>2, <1>4, QuietReturn
<1>5. CASE ~(top.ix > Len(top.s.values))
  <2>1. top.ix \in 1..Len(top.s.values)
    BY <1>1, <1>2, <1>3, <1>5
  <2>2. top.s.values[top.ix] \in OperandsIn(L, c[L])
    BY <1>2, <2>1
  <2>3. GoodAct(fns, top, "NORMAL", L, c[L], objects) /\ ~Closes(top)
    BY <1>1, <1>3 DEF Ready, GoodAct
  <2> QED
    BY <1>1, <1>5, <2>2, <2>3, QuietEvaluate
<1> QED
  BY <1>4, <1>5

LEMMA LiteralGrowsKeeps == ASSUME NEW c, Inv(c), LiteralGrows PROVE Inv(c)'
<1> DEFINE t == [top EXCEPT !.ix = @ + 1]
           o == top.val.n
<1>1. acts # <<>> /\ top.at = "literal" /\ how # "go" /\ UNCHANGED <<program, runFlag, globals, pool, infos, cut, full, own>> /\ Become(t)
  BY DEF LiteralGrows, At
<1> PICK v \in IF out = Stale THEN {Stale, Invalid} ELSE {out} : objects' = [objects EXCEPT ![o] = Put(objects[o], top.s.keys[top.ix], v)]
  BY DEF LiteralGrows
<1> PICK L : Ready(c, L)
  BY <1>1, Starts
<1>2. Plain(fns, v, objects)
  BY SimpleValues DEF Inv, Stale, Invalid
<1>3. Fields(top) /\ top.s \in c[L] /\ top.at = top.s.op /\ Plain(fns, top.val, objects)
  BY <1>1, TopFacts
<1>4. top.ix \in Nat /\ top.ix # 0 /\ top.val.k = "obj"
  BY <1>1 DEF Ready, GoodAct
<1>5. o \in DOMAIN objects /\ GoodObject(fns, objects[o], objects)
  BY <1>3, <1>4 DEF Plain, Good, Inv, HoldGood
<1>6. crashed' = crashed
  BY <1>1 DEF Become
<1> DEFINE obj == Put(objects[o], top.s.keys[top.ix], v)
<1>7. GoodObject(fns, obj, objects) /\ Size(obj) >= Size(objects[o])
  BY <1>2, <1>5, PutFacts
<1>8. objects' = [objects EXCEPT ![o] = obj]
  OBVIOUS
<1> HIDE DEF obj
<1>9. Kept(fns)
  BY <1>1, <1>6, <1>7, <1>8, ObjectChangedKept
<1>10. t.at = "literal" /\ t.s = top.s /\ t.ix = top.ix + 1 /\ t.val = top.val /\ Fields(t)
  BY <1>1, <1>3 DEF Fields
<1> HIDE DEF t, o
<1>11. Plain(fns, top.val, objects')
  BY <1>3, <1>9, GoodGrows DEF Kept, Moved
<1>12. t.ix \in Nat /\ t.ix # 0
  BY <1>4, <1>10
<1>13. GoodAct(fns, t, "go", L, c[L], objects') /\ ~Closes(t)
  BY <1>1, <1>3, <1>4, <1>10, <1>11, <1>12 DEF GoodAct, Closes
<1> QED
  BY <1>1, <1>9, <1>10, <1>13, KeptBecome DEF Sits

LEMMA JumpsKeeps == ASSUME NEW c, Inv(c), Jumps PROVE Inv(c)'
<1>1. acts # <<>> /\ top.at \in {"break", "continue"} /\ UNCHANGED <<program, runFlag>> /\ Quiet
  BY DEF Jumps, At
<1> PICK L : Ready(c, L)
  BY <1>1, Starts
<1>2. Plain(fns, Stale, objects)
  BY SimpleValues DEF Stale
<1> QED
  BY <1>1, <1>2, QuietReturn DEF Jumps

LEMMA LeavesKeeps == ASSUME Parameters, NEW c, Inv(c), Leaves PROVE Inv(c)'
<1>1. acts # <<>> /\ top.at \in {"return", "goto"} /\ UNCHANGED <<program, runFlag>> /\ Quiet
  BY DEF Leaves, At
<1> PICK L : Ready(c, L)
  BY <1>1, Starts
<1>2. Plain(fns, Stale, objects) /\ Plain(fns, out, objects)
  BY SimpleValues DEF Stale, Inv
<1>3. CASE Return("NORMAL", Stale) \/ Return("RETURN", out) \/ Return("GOTO", out)
  BY <1>1, <1>2, <1>3, QuietReturn
<1>4. CASE how = "go" /\ ~(top.s.value = Invalid \/ top.s.value.k = "none") /\ Evaluate(top, top.s.value)
  <2>1. top.s.op \in {"return", "goto"}
    BY <1>1, <1>4 DEF Ready, GoodAct
  <2>2. top.s.value \in OperandsIn(L, c[L])
    BY <1>4, <2>1, TopFacts DEF IsStatement
  <2>3. GoodAct(fns, top, "NORMAL", L, c[L], objects) /\ ~Closes(top)
    BY <1>1, <1>4 DEF Ready, GoodAct
  <2> QED
    BY <1>1, <1>4, <2>2, <2>3, QuietEvaluate
<1> QED
  BY <1>3, <1>4 DEF Leaves, At

LEMMA IfTestsKeeps == ASSUME Parameters, NEW c, Inv(c), IfTests PROVE Inv(c)'
<1>1. /\ acts # <<>> /\ top.at = "if" /\ how = "go" /\ UNCHANGED <<program, runFlag>> /\ Quiet
      /\ CASE top.ix < Len(top.s.arms) -> Evaluate(top, top.s.arms[top.ix + 1].test)
           [] OTHER -> Become(Act(top.s.else))
  BY DEF IfTests, At
<1> PICK L : Ready(c, L)
  BY <1>1, Starts
<1>2. top.s.op = "if" /\ top.ix \in Nat
  BY <1>1 DEF Ready, GoodAct
<1>3. top.s.arms \in Seq([test : OperandsIn(L, c[L]), then : Lists(c[L])]) /\ top.s.else \in Lists(c[L])
  BY <1>2, TopFacts DEF IsStatement
<1>4. CASE top.ix < Len(top.s.arms)
  <2>1. top.ix + 1 \in 1..Len(top.s.arms)
    BY <1>2, <1>3, <1>4
  <2> DEFINE arms == top.s.arms
             arm == arms[top.ix + 1]
             S == [test : OperandsIn(L, c[L]), then : Lists(c[L])]
  <2>2. arms \in Seq(S) /\ top.ix + 1 \in 1..Len(arms)
    BY <1>3, <2>1
  <2>3. Evaluate(top, arm.test)
    BY <1>1, <1>4
  <2> HIDE DEF arms, S
  <2>4. arm \in S
    BY <2>2
  <2>5. arm \in [test : OperandsIn(L, c[L]), then : Lists(c[L])]
    BY <2>4 DEF S
  <2> HIDE DEF arm
  <2>6. arm.test \in OperandsIn(L, c[L])
    BY <2>5
  <2>7. GoodAct(fns, top, "NORMAL", L, c[L], objects) /\ ~Closes(top)
    BY <1>1, <1>4 DEF Ready, GoodAct
  <2> QED
    BY <1>1, <2>3, <2>6, <2>7, QuietEvaluate
<1>5. CASE ~(top.ix < Len(top.s.arms))
  BY <1>1, <1>3, <1>5, BecomesList
<1> QED
  BY <1>4, <1>5

LEMMA IfBranchesKeeps == ASSUME NEW c, Inv(c), IfBranches PROVE Inv(c)'
<1> DEFINE t == [top EXCEPT !.ix = @ + 1]
<1>1. acts # <<>> /\ top.at = "if" /\ how # "go" /\ UNCHANGED <<program, runFlag>> /\ Quiet
  BY DEF IfBranches, At
<1> PICK n : IF n = 0 THEN Become(t) ELSE Become(Act(top.s.arms[top.ix + 1].then))
  BY DEF IfBranches
<1> PICK L : Ready(c, L)
  BY <1>1, Starts
<1>2. top.s.op = "if" /\ top.ix \in Nat /\ top.ix < Len(top.s.arms)
  BY <1>1 DEF Ready, GoodAct
<1>3. top.s.arms \in Seq([test : OperandsIn(L, c[L]), then : Lists(c[L])]) /\ Fields(top) /\ top.s \in c[L] /\ Plain(fns, top.val, objects)
  BY <1>2, TopFacts DEF IsStatement
<1>4. CASE n = 0
  <2>1. t.at = "if" /\ t.s = top.s /\ t.ix = top.ix + 1 /\ t.val = top.val /\ Fields(t)
    BY <1>1, <1>3 DEF Fields
  <2> HIDE DEF t
  <2>2. t.ix \in Nat
    BY <1>2, <2>1
  <2>3. GoodAct(fns, t, "go", L, c[L], objects) /\ ~Closes(t)
    BY <1>2, <1>3, <2>1, <2>2 DEF GoodAct, Closes
  <2> QED
    BY <1>1, <1>4, <2>1, <2>3, QuietBecome
<1>5. CASE n # 0
  <2>1. top.ix + 1 \in 1..Len(top.s.arms)
    BY <1>2, <1>3
  <2> DEFINE arms == top.s.arms
             arm == arms[top.ix + 1]
             S == [test : OperandsIn(L, c[L]), then : Lists(c[L])]
  <2>2. arms \in Seq(S) /\ top.ix + 1 \in 1..Len(arms)
    BY <1>3, <2>1
  <2>3. Become(Act(arm.then))
    BY <1>5
  <2> HIDE DEF arms, S
  <2>4. arm \in S
    BY <2>2
  <2>5. arm \in [test : OperandsIn(L, c[L]), then : Lists(c[L])]
    BY <2>4 DEF S
  <2> HIDE DEF arm
  <2>6. arm.then \in Lists(c[L])
    BY <2>5
  <2> QED
    BY <1>1, <2>3, <2>6, BecomesList
<1> QED
  BY <1>4, <1>5

LEMMA ConditionTestsKeeps == ASSUME Parameters, NEW c, Inv(c), ConditionTests PROVE Inv(c)'
<1>1. acts # <<>> /\ top.at \in {"?", "ifgoto"} /\ how = "go" /\ UNCHANGED <<program, runFlag>> /\ Quiet /\ Evaluate(top, top.s.test)
  BY DEF ConditionTests, At
<1> PICK L : Ready(c, L)
  BY <1>1, Starts
<1>2. top.s.test \in OperandsIn(L, c[L])
  BY <1>1, TopFacts DEF IsStatement
<1>3. GoodAct(fns, top, "NORMAL", L, c[L], objects) /\ ~Closes(top)
  BY <1>1 DEF Ready, GoodAct
<1> QED
  BY <1>1, <1>2, <1>3, QuietEvaluate

LEMMA ConditionBranchesKeeps == ASSUME Parameters, NEW c, Inv(c), ConditionBranches PROVE Inv(c)'
<1>1. acts # <<>> /\ top.at \in {"?", "chosen", "ifgoto"} /\ how # "go" /\ UNCHANGED <<program, runFlag>> /\ Quiet
  BY DEF ConditionBranches, At
<1> PICK L : Ready(c, L)
  BY <1>1, Starts
<1>2. Fields(top) /\ top.s \in c[L] /\ Plain(fns, top.val, objects) /\ IsStatement(fns, top.s, L, c[L]) /\ L \in Nat
  BY TopFacts DEF Ready
<1>3. Plain(fns, Stale, objects) /\ Plain(fns, out, objects)
  BY SimpleValues DEF Stale, Inv
<1>4. CASE top.at = "?"
  <2> DEFINE t == [top EXCEPT !.at = "chosen"]
  <2> PICK n : Evaluate(t, IF n # 0 THEN top.s.then ELSE top.s.else)
    BY <1>4 DEF ConditionBranches, At
  <2>1. top.s.op = "?"
    BY <1>4 DEF Ready, GoodAct
  <2>2. top.s.then \in OperandsIn(L, c[L]) /\ top.s.else \in OperandsIn(L, c[L])
    BY <1>2, <2>1 DEF IsStatement
  <2>3. t.at = "chosen" /\ t.s = top.s /\ t.val = top.val /\ Fields(t)
    BY <1>2 DEF Fields
  <2> HIDE DEF t
  <2>4. GoodAct(fns, t, "NORMAL", L, c[L], objects) /\ ~Closes(t)
    BY <1>2, <2>1, <2>3 DEF GoodAct, Closes
  <2> DEFINE x == IF n # 0 THEN top.s.then ELSE top.s.else
  <2>5. x \in OperandsIn(L, c[L]) /\ Evaluate(t, x)
    BY <2>2
  <2> HIDE DEF x
  <2> QED
    BY <1>1, <2>4, <2>5, QuietEvaluate
<1>5. CASE top.at = "chosen"
  <2>1. Return("NORMAL", out)
    BY <1>5 DEF ConditionBranches, At
  <2> QED
    BY <1>1, <1>3, <2>1, QuietReturn
<1>6. CASE top.at = "ifgoto"
  <2> DEFINE t == [top EXCEPT !.at = "goto"]
  <2> PICK n : CASE n = 0 -> Return("NORMAL", Stale)
                 [] n # 0 /\ top.s.goto.k = "do" -> Descend(t, top.s.goto.s)
                 [] OTHER -> Return("GOTO", Stale)
    BY <1>6 DEF ConditionBranches, At
  <2>1. top.s.op = "ifgoto"
    BY <1>6 DEF Ready, GoodAct
  <2>2. top.s.goto \in OperandsIn(L, c[L])
    BY <1>2, <2>1 DEF IsStatement
  <2>3. t.at = "goto" /\ t.s = top.s /\ t.val = top.val /\ Fields(t)
    BY <1>2 DEF Fields
  <2> HIDE DEF t
  <2>4. CASE Return("NORMAL", Stale) \/ Return("GOTO", Stale)
    BY <1>1, <1>3, <2>4, QuietReturn
  <2>5. CASE top.s.goto.k = "do" /\ Descend(t, top.s.goto.s)
    <3>1. GoodAct(fns, t, "NORMAL", L, c[L], objects) /\ ~Closes(t)
      BY <1>2, <2>1, <2>3 DEF GoodAct, Closes
    <3>2. top.s.goto.s \in c[L] /\ top.s.goto.s.op # "function"
      BY <1>2, <2>2, <2>5, OperandInside
    <3> QED
      BY <1>1, <2>5, <3>1, <3>2, QuietDescend
  <2> QED
    BY <2>4, <2>5
<1> QED
  BY <1>1, <1>4, <1>5, <1>6

LEMMA ForBeginsKeeps == ASSUME NEW c, Inv(c), ForBegins PROVE Inv(c)'
<1> DEFINE t == [top EXCEPT !.ix = 1]
<1>1. /\ acts # <<>> /\ top.at = "for" /\ UNCHANGED <<program, runFlag>> /\ Quiet
      /\ IF top.s.init.k = "do" THEN Descend(t, top.s.init.s) ELSE Become(t)
  BY DEF ForBegins, At
<1> PICK L : Ready(c, L)
  BY <1>1, Starts
<1>2. Fields(top) /\ top.s \in c[L] /\ Plain(fns, top.val, objects) /\ top.s.op = "for" /\ L \in Nat
  BY <1>1, TopFacts DEF Ready
<1>3. top.s.init.k = "do" => top.s.init \in OperandsIn(L, c[L])
  BY <1>2, TopFacts DEF IsStatement
<1>4. t.at = "for" /\ t.s = top.s /\ t.ix = 1 /\ t.val = top.val /\ Fields(t)
  BY <1>1, <1>2 DEF Fields
<1> HIDE DEF t
<1>5. GoodAct(fns, t, "NORMAL", L, c[L], objects) /\ GoodAct(fns, t, "go", L, c[L], objects) /\ ~Closes(t)
  BY <1>2, <1>4 DEF GoodAct, Closes
<1>6. CASE top.s.init.k = "do"
  <2>1. top.s.init.s \in c[L] /\ top.s.init.s.op # "function"
    BY <1>2, <1>3, <1>6, OperandInside
  <2> QED
    BY <1>1, <1>5, <1>6, <2>1, QuietDescend
<1>7. CASE top.s.init.k # "do"
  BY <1>1, <1>4, <1>5, <1>7, QuietBecome
<1> QED
  BY <1>6, <1>7

LEMMA ForTestsKeeps == ASSUME Parameters, NEW c, Inv(c), ForTests PROVE Inv(c)'
<1> DEFINE t(n) == [top EXCEPT !.ix = n]
<1>1. acts # <<>> /\ top.at = "for" /\ UNCHANGED <<program, runFlag>>
  BY DEF ForTests, At
<1> PICK L : Ready(c, L)
  BY <1>1, Starts
<1>2. /\ Fields(top) /\ top.s \in c[L] /\ Plain(fns, top.val, objects) /\ top.s.op = "for"
      /\ top.s.test \in OperandsIn(L, c[L]) /\ top.s.body \in Lists(c[L])
  BY <1>1, TopFacts DEF IsStatement
<1>3. ASSUME NEW n \in {2, 3} PROVE GoodAct(fns, t(n), "NORMAL", L, c[L], objects) /\ ~Closes(t(n))
  <2>1. t(n).at = "for" /\ t(n).s = top.s /\ t(n).ix = n /\ t(n).val = top.val /\ Fields(t(n))
    BY <1>1, <1>2 DEF Fields
  <2> HIDE DEF t
  <2> QED
    BY <1>2, <2>1 DEF GoodAct, Closes
<1>4. CASE ~runFlag
  <2>1. GivesUp
    BY <1>4 DEF ForTests, MayGoOn
  <2> QED
    BY <1>1, <1>4, <2>1, QuietGivesUp
<1>5. CASE runFlag /\ top.s.test = Invalid
  <2>1. Descend(t(3), top.s.body) /\ Quiet
    BY <1>5 DEF ForTests, MayGoOn
  <2>2. top.s.body \in c[L] /\ top.s.body.op # "function"
    BY <1>2 DEF Lists
  <2> HIDE DEF t
  <2> QED
    BY <1>1, <1>3, <2>1, <2>2, QuietDescend
<1>6. CASE runFlag /\ top.s.test # Invalid
  <2>1. Evaluate(t(2), top.s.test) /\ Quiet
    BY <1>6 DEF ForTests, MayGoOn
  <2> HIDE DEF t
  <2> QED
    BY <1>1, <1>2, <1>3, <2>1, QuietEvaluate
<1> QED
  BY <1>4, <1>5, <1>6

LEMMA ForRunsKeeps == ASSUME NEW c, Inv(c), ForRuns PROVE Inv(c)'
<1>1. acts # <<>> /\ top.at = "for" /\ how # "go" /\ UNCHANGED <<program, runFlag>> /\ Quiet
  BY DEF ForRuns, At
<1> PICK L : Ready(c, L)
  BY <1>1, Starts
<1>2. /\ Fields(top) /\ top.s \in c[L] /\ Plain(fns, top.val, objects) /\ top.s.op = "for" /\ L \in Nat /\ top.s.body \in Lists(c[L])
      /\ top.s.step.k = "do" => top.s.step \in OperandsIn(L, c[L])
  BY <1>1, TopFacts DEF Ready, IsStatement
<1>3. top.ix \in 1..3 /\ Plain(fns, out, objects)
  BY <1>1 DEF Ready, GoodAct, Inv
<1>4. CASE top.ix = 1
  <2>1. Become(top)
    BY <1>4 DEF ForRuns
  <2>2. GoodAct(fns, top, "go", L, c[L], objects) /\ ~Closes(top)
    BY <1>1, <1>4 DEF Ready, GoodAct
  <2> QED
    BY <1>1, <2>1, <2>2, QuietBecome
<1>5. CASE top.ix = 2
  <2> DEFINE t == [top EXCEPT !.ix = 3]
  <2> PICK passes : IF passes THEN Descend(t, top.s.body) ELSE Return("NORMAL", top.val)
    BY <1>5 DEF ForRuns
  <2>1. t.at = "for" /\ t.s = top.s /\ t.ix = 3 /\ t.val = top.val /\ Fields(t)
    BY <1>1, <1>2 DEF Fields
  <2> HIDE DEF t
  <2>2. GoodAct(fns, t, "NORMAL", L, c[L], objects) /\ ~Closes(t)
    BY <1>2, <2>1 DEF GoodAct, Closes
  <2>3. top.s.body \in c[L] /\ top.s.body.op # "function"
    BY <1>2 DEF Lists
  <2>4. CASE Return("NORMAL", top.val)
    BY <1>1, <1>2, <2>4, QuietReturn
  <2>5. CASE Descend(t, top.s.body)
    BY <1>1, <2>2, <2>3, <2>5, QuietDescend
  <2> QED
    BY <2>4, <2>5
<1>6. CASE top.ix = 3
  <2> DEFINE t == [top EXCEPT !.ix = 1, !.val = out]
  <2>1. t.at = "for" /\ t.s = top.s /\ t.ix = 1 /\ t.val = out /\ Fields(t)
    BY <1>1, <1>2 DEF Fields
  <2>2. AfterBody(IF top.s.step.k = "do" THEN Descend(t, top.s.step.s) ELSE Become(t))
    BY <1>6 DEF ForRuns
  <2> HIDE DEF t
  <2>3. GoodAct(fns, t, "NORMAL", L, c[L], objects) /\ GoodAct(fns, t, "go", L, c[L], objects) /\ ~Closes(t)
    BY <1>2, <1>3, <2>1 DEF GoodAct, Closes
  <2>4. CASE how \in {"RETURN", "BREAK"}
    BY <1>1, <1>3, <2>2, <2>4, QuietReturn DEF AfterBody
  <2>5. CASE how \notin {"RETURN", "BREAK"} /\ top.s.step.k = "do"
    <3>1. Descend(t, top.s.step.s)
      BY <2>2, <2>5 DEF AfterBody
    <3>2. top.s.step.s \in c[L] /\ top.s.step.s.op # "function"
      BY <1>2, <2>5, OperandInside
    <3> QED
      BY <1>1, <2>3, <3>1, <3>2, QuietDescend
  <2>6. CASE how \notin {"RETURN", "BREAK"} /\ top.s.step.k # "do"
    <3>1. Become(t)
      BY <2>2, <2>6 DEF AfterBody
    <3> QED
      BY <1>1, <2>1, <2>3, <3>1, QuietBecome
  <2> QED
    BY <2>4, <2>5, <2>6
<1> QED
  BY <1>3, <1>4, <1>5, <1>6

\* The variables of a loop.
LEMMA LoopVariables ==
  ASSUME NEW c, Inv(c), NEW L, Ready(c, L), top.s.op \in {"loop", "looplist", "foreach"}
  PROVE  /\ top.s.var.k = top.s.key.k
         /\ top.s.var.k = "local" => own # <<>> /\ top.s.var.n \in DOMAIN own[1] /\ top.s.key.n \in DOMAIN own[1]
<1>1. /\ top.s.var \in VariablesIn(L) /\ top.s.key \in VariablesIn(L) /\ top.s.var.k = top.s.key.k
      /\ L \in Nat /\ HasLocals(Len(own), L, own) /\ IsList(own)
  BY TopFacts DEF IsStatement, Ready, Inv, Stacked, StackedIn
<1> QED
  BY <1>1, LocalIn

LEMMA RoundStarts ==
  ASSUME Parameters, NEW c, Inv(c), NEW L, Ready(c, L), UNCHANGED <<program, runFlag>>,
         top.s.op \in {"loop", "looplist", "foreach"}, NEW key, NEW v, Plain(fns, key, objects), Plain(fns, v, objects),
         RoundBegins(key, v), NEW t, GoodAct(fns, t, "NORMAL", L, c[L], objects), ~Closes(t), Descend(t, top.s.body)
  PROVE  Inv(c)'
<1>1. HoldGood(fns, globals, pool, infos, objects) /\ IsList(own) /\ Apart
  BY DEF Inv, Stacked, StackedIn
<1>2. crashed' = crashed /\ objects' = objects /\ cut' = cut
  BY DEF Descend, RoundBegins
<1>3. Kept(fns)
  BY <1>1, <1>2, LoopVariables, RoundKeeps
<1>4. top.s.body \in c[L] /\ top.s.body.op # "function"
  BY TopFacts DEF IsStatement, Lists
<1> QED
  BY <1>2, <1>3, <1>4, KeptDescend DEF Sits

LEMMA LoopBeginsKeeps == ASSUME Parameters, NEW c, Inv(c), LoopBegins PROVE Inv(c)'
<1>1. acts # <<>> /\ top.at \in {"loop", "looplist", "foreach"} /\ top.ix = 0 /\ UNCHANGED <<program, runFlag>> /\ Quiet
  BY DEF LoopBegins, At
<1> PICK L : Ready(c, L)
  BY <1>1, Starts
<1>2. Fields(top) /\ top.s \in c[L] /\ Plain(fns, top.val, objects) /\ top.s.op = top.at /\ IsStatement(fns, top.s, L, c[L])
  BY <1>1, TopFacts
<1>3. CASE top.at # "foreach" /\ how = "go" /\ Evaluate(top, top.s.over)
  <2>1. top.s.over \in OperandsIn(L, c[L])
    BY <1>1, <1>2, <1>3 DEF IsStatement
  <2>2. GoodAct(fns, top, "NORMAL", L, c[L], objects) /\ ~Closes(top)
    BY <1>1, <1>3 DEF Ready, GoodAct
  <2> QED
    BY <1>1, <1>3, <2>1, <2>2, QuietEvaluate
<1>4. ASSUME NEW v, Become([top EXCEPT !.ix = 1, !.vals = v]), top.at = "foreach" => v[1] = Len(top.s.values),
             top.at = "looplist" => v[1] = 0 \/ (v[2] \in DOMAIN objects /\ v[1] \in 0..Size(objects[v[2]]))
      PROVE  Inv(c)'
  <2> DEFINE t == [top EXCEPT !.ix = 1, !.vals = v]
  <2>1. t.at = top.at /\ t.s = top.s /\ t.ix = 1 /\ t.val = top.val /\ t.vals = v /\ Fields(t)
    BY <1>2 DEF Fields
  <2> HIDE DEF t
  <2>2. GoodAct(fns, t, "go", L, c[L], objects) /\ ~Closes(t)
    BY <1>1, <1>2, <1>4, <2>1 DEF GoodAct, Closes
  <2> QED
    BY <1>1, <1>4, <2>1, <2>2, QuietBecome DEF t
<1>5. CASE top.at = "loop" /\ Become([top EXCEPT !.ix = 1, !.vals = <<IF IsInt(out) THEN out.n ELSE 0>>])
  BY <1>4, <1>5
<1>6. CASE top.at = "looplist" /\ Become([top EXCEPT !.ix = 1, !.vals = IF out.k = "obj" THEN <<Size(objects[out.n]), out.n>> ELSE <<0>>])
  <2> DEFINE v == IF out.k = "obj" THEN <<Size(objects[out.n]), out.n>> ELSE <<0>>
  <2>1. out.k = "obj" => out.n \in DOMAIN objects /\ Size(objects[out.n]) \in Nat
    BY ObjectSizes DEF Inv, Plain, Good, HoldGood
  <2>2. v[1] = 0 \/ (v[2] \in DOMAIN objects /\ v[1] \in 0..Size(objects[v[2]]))
    BY <2>1
  <2> HIDE DEF v
  <2> QED
    BY <1>4, <1>6, <2>2 DEF v
<1>7. CASE top.at = "foreach" /\ Become([top EXCEPT !.ix = 1, !.vals = <<Len(top.s.values)>>])
  <2> DEFINE v == <<Len(top.s.values)>>
  <2>1. v[1] = Len(top.s.values)
    OBVIOUS
  <2> HIDE DEF v
  <2> QED
    BY <1>4, <1>7, <2>1 DEF v
<1> QED
  BY <1>3, <1>5, <1>6, <1>7 DEF LoopBegins, At

LEMMA LoopRunsKeeps == ASSUME Parameters, NEW c, Inv(c), LoopRuns PROVE Inv(c)'
<1>1. acts # <<>> /\ top.at \in {"loop", "looplist"} /\ how = "go" /\ top.ix > 0 /\ UNCHANGED <<program, runFlag>>
  BY DEF LoopRuns, At
<1> PICK L : Ready(c, L)
  BY <1>1, Starts
<1>2. Fields(top) /\ top.s \in c[L] /\ Plain(fns, top.val, objects) /\ top.s.op = top.at
  BY <1>1, TopFacts
<1>3. top.ix \in Nat
  BY <1>1 DEF Ready, GoodAct
<1>4. CASE top.ix > top.vals[1]
  BY <1>1, <1>2, <1>4, QuietReturn DEF LoopRuns
<1>5. CASE ~(top.ix > top.vals[1]) /\ ~runFlag
  BY <1>1, <1>5, QuietGivesUp DEF LoopRuns
<1>6. CASE ~(top.ix > top.vals[1]) /\ runFlag
  <2> DEFINE t == [top EXCEPT !.ix = @ + 1]
             member == objects[top.vals[2]].members[top.ix]
  <2>1. /\ IF top.at = "loop" THEN RoundBegins(Num(top.ix - 1), Num(top.ix - 1)) ELSE RoundBegins(Key(member, top.ix - 1), member.v)
        /\ Descend(t, top.s.body)
    BY <1>6 DEF LoopRuns
  <2>2. t.at = top.at /\ t.s = top.s /\ t.ix = top.ix + 1 /\ t.val = top.val /\ t.vals = top.vals /\ Fields(t)
    BY <1>2 DEF Fields
  <2>3. top.at = "looplist" => top.vals[1] = 0 \/ (top.vals[2] \in DOMAIN objects /\ top.vals[1] \in 0..Size(objects[top.vals[2]]))
    BY <1>1 DEF Ready, GoodAct
  <2> HIDE DEF t
  <2>4. t.ix \in Nat
    BY <1>3, <2>2
  <2>5. GoodAct(fns, t, "NORMAL", L, c[L], objects) /\ ~Closes(t)
    BY <1>1, <1>2, <2>2, <2>3, <2>4 DEF GoodAct, Closes
  <2>6. CASE top.at = "loop"
    <3>1. Plain(fns, Num(top.ix - 1), objects)
      BY SimpleValues DEF Num
    <3> QED
      BY <1>1, <1>2, <2>1, <2>5, <2>6, <3>1, RoundStarts
  <2>7. CASE top.at = "looplist"
    <3> DEFINE o == objects[top.vals[2]]
    <3>1. top.vals[2] \in DOMAIN objects /\ top.vals[1] \in 0..Size(o)
      BY <1>1, <1>3, <1>6, <2>3, <2>7
    <3>2. GoodObject(fns, o, objects)
      BY <3>1 DEF Inv, HoldGood
    <3>3. Size(o) \in Nat /\ DOMAIN o.members = 1..Size(o)
      BY <3>2, ObjectSizes
    <3>4. top.ix \in DOMAIN o.members
      BY <1>1, <1>3, <1>6, <3>1, <3>3
    <3>5. Plain(fns, member.v, objects)
      BY <3>2, <3>4 DEF GoodObject
    <3> HIDE DEF member, o
    <3>6. Plain(fns, Key(member, top.ix - 1), objects)
      BY SimpleValues DEF Key, Num, Name
    <3>7. RoundBegins(Key(member, top.ix - 1), member.v)
      BY <2>1, <2>7
    <3> QED
      BY <1>1, <1>2, <2>1, <2>5, <3>5, <3>6, <3>7, RoundStarts
  <2> QED
    BY <1>1, <2>6, <2>7
<1> QED
  BY <1>4, <1>5, <1>6

LEMMA ForEachRunsKeeps == ASSUME Parameters, NEW c, Inv(c), ForEachRuns PROVE Inv(c)'
<1>1. acts # <<>> /\ top.at \in {"foreach", "each"} /\ UNCHANGED <<program, runFlag>>
  BY DEF ForEachRuns, At
<1> PICK L : Ready(c, L)
  BY <1>1, Starts
<1>2. Fields(top) /\ top.s \in c[L] /\ Plain(fns, top.val, objects) /\ top.s.op = "foreach" /\ top.ix \in Nat /\ Plain(fns, out, objects)
  BY <1>1, TopFacts DEF Ready, GoodAct, Inv
<1>3. top.s.values \in Seq(OperandsIn(L, c[L]))
  BY <1>2, TopFacts DEF IsStatement
<1>4. CASE top.at = "foreach" /\ top.ix > 0
  <2>1. how = "go" /\ top.vals[1] = Len(top.s.values)
    BY <1>2, <1>4 DEF ForEachRuns, At, Ready, GoodAct
  <2>2. CASE top.ix > top.vals[1] /\ ~(top.ix <= top.vals[1])
    <3>1. Return("NORMAL", top.val) /\ Quiet
      BY <1>4, <2>2 DEF ForEachRuns, At
    <3> QED
      BY <1>1, <1>2, <3>1, QuietReturn
  <2>3. CASE top.ix <= top.vals[1] /\ ~(top.ix > top.vals[1]) /\ ~runFlag
    BY <1>1, <1>4, <2>3, QuietGivesUp DEF ForEachRuns, At
  <2>4. CASE top.ix <= top.vals[1] /\ ~(top.ix > top.vals[1]) /\ runFlag /\ top.s.values[top.ix] # Invalid
    <3> DEFINE t == [top EXCEPT !.at = "each"]
    <3>1. Evaluate(t, top.s.values[top.ix]) /\ Quiet
      BY <1>4, <2>4 DEF ForEachRuns, At
    <3>2. t.at = "each" /\ t.s = top.s /\ t.ix = top.ix /\ t.val = top.val /\ t.vals = top.vals /\ Fields(t)
      BY <1>2 DEF Fields
    <3> HIDE DEF t
    <3>3. GoodAct(fns, t, "NORMAL", L, c[L], objects) /\ ~Closes(t)
      BY <1>2, <1>4, <2>1, <3>2 DEF GoodAct, Closes
    <3>4. top.s.values[top.ix] \in OperandsIn(L, c[L])
      BY <1>2, <1>3, <1>4, <2>1, <2>4
    <3> QED
      BY <1>1, <3>1, <3>3, <3>4, QuietEvaluate
  <2>5. CASE top.ix <= top.vals[1] /\ ~(top.ix > top.vals[1]) /\ runFlag /\ top.s.values[top.ix] = Invalid
    <3> DEFINE t == [top EXCEPT !.ix = @ + 1]
    <3>1. Descend(t, top.s.body) /\ Quiet
      BY <1>4, <2>5 DEF ForEachRuns, At
    <3>2. t.at = "foreach" /\ t.s = top.s /\ t.ix = top.ix + 1 /\ t.val = top.val /\ t.vals = top.vals /\ Fields(t)
      BY <1>2, <1>4 DEF Fields
    <3> HIDE DEF t
    <3>3. t.ix \in Nat /\ t.ix > 0
      BY <1>2, <3>2
    <3>4. GoodAct(fns, t, "NORMAL", L, c[L], objects) /\ ~Closes(t)
      BY <1>2, <2>1, <3>2, <3>3 DEF GoodAct, Closes
    <3>5. top.s.body \in c[L] /\ top.s.body.op # "function"
      BY <1>2, TopFacts DEF IsStatement, Lists
    <3> QED
      BY <1>1, <3>1, <3>4, <3>5, QuietDescend
  <2>6. top.ix <= top.vals[1] <=> ~(top.ix > top.vals[1])
    BY <1>2, <1>3, <2>1
  <2> QED
    BY <2>2, <2>3, <2>4, <2>5, <2>6
<1>5. CASE top.at = "each"
  <2> DEFINE t == [top EXCEPT !.at = "foreach", !.ix = @ + 1]
  <2>1. RoundBegins(Num(top.ix - 1), out) /\ Descend(t, top.s.body)
    BY <1>5 DEF ForEachRuns, At
  <2>2. top.ix > 0 /\ top.vals[1] = Len(top.s.values)
    BY <1>2, <1>5 DEF Ready, GoodAct
  <2>3. t.at = "foreach" /\ t.s = top.s /\ t.ix = top.ix + 1 /\ t.val = top.val /\ t.vals = top.vals /\ Fields(t)
    BY <1>2 DEF Fields
  <2> HIDE DEF t
  <2>4. t.ix \in Nat /\ t.ix > 0
    BY <1>2, <2>3
  <2>5. GoodAct(fns, t, "NORMAL", L, c[L], objects) /\ ~Closes(t)
    BY <1>2, <2>2, <2>3, <2>4 DEF GoodAct, Closes
  <2>6. Plain(fns, Num(top.ix - 1), objects)
    BY SimpleValues DEF Num
  <2> QED
    BY <1>1, <1>2, <2>1, <2>5, <2>6, RoundStarts
<1> QED
  BY <1>4, <1>5 DEF ForEachRuns, At

LEMMA RoundEndsKeeps == ASSUME NEW c, Inv(c), RoundEnds PROVE Inv(c)'
<1> DEFINE t == [top EXCEPT !.val = out]
<1>1. /\ acts # <<>> /\ top.at \in {"loop", "looplist", "foreach"} /\ how # "go" /\ top.ix > 0 /\ UNCHANGED <<program, runFlag>> /\ Quiet
      /\ AfterBody(Become(t))
  BY DEF RoundEnds, At
<1> PICK L : Ready(c, L)
  BY <1>1, Starts
<1>2. Fields(top) /\ top.s \in c[L] /\ top.s.op = top.at /\ Plain(fns, out, objects) /\ top.ix \in Nat
  BY <1>1, TopFacts DEF Ready, GoodAct, Inv
<1>3. CASE how \in {"RETURN", "BREAK"}
  BY <1>1, <1>2, <1>3, QuietReturn DEF AfterBody
<1>4. CASE how \notin {"RETURN", "BREAK"}
  <2>1. Become(t)
    BY <1>1, <1>4 DEF AfterBody
  <2>2. t.at = top.at /\ t.s = top.s /\ t.ix = top.ix /\ t.val = out /\ t.vals = top.vals /\ Fields(t)
    BY <1>2 DEF Fields
  <2> HIDE DEF t
  <2>3. GoodAct(fns, t, "go", L, c[L], objects) /\ ~Closes(t)
    BY <1>1, <1>2, <2>2 DEF Ready, GoodAct, Closes
  <2> QED
    BY <1>1, <2>1, <2>2, <2>3, QuietBecome
<1> QED
  BY <1>3, <1>4

--------------------------------------------------------------------------------
(* The invariant holds *)

LEMMA InitInv == ASSUME Parameters, Init, NEW c, Translated(program, c) PROVE Inv(c)
<1>1. /\ acts = <<Act(program.main)>> /\ how = "go" /\ out = Stale /\ own = <<>> /\ infos = <<>> /\ objects = <<>>
      /\ globals = [g \in Globals |-> Invalid] /\ pool = [i \in 0..(PoolSize - 1) |-> Invalid] /\ cut = FALSE
  BY DEF Init
<1>2. IsList(<<>>) /\ Len(<<>>) = 0 /\ DOMAIN <<>> = {}
  BY EmptyList
<1>3. \A v \in {Invalid, Stale} : Plain(fns, v, objects) /\ Good(fns, v, objects) /\ v.k \notin {"local", "arg"}
  BY SimpleValues DEF Invalid, Stale, Plain
<1>4. HoldGood(fns, globals, pool, infos, objects)
  BY <1>1, <1>2, <1>3 DEF HoldGood, Parameters
<1>5. 0 \in DOMAIN c /\ program.main \in c[0] /\ IsStatement(fns, program.main, 0, c[0])
  BY DEF Translated, fns
<1>6. GoodAct(fns, Act(program.main), "go", 0, c[0], objects) /\ ~Closes(Act(program.main))
  BY <1>5, ActOfStatement
<1>7. IsList(acts) /\ acts[1] = Act(program.main) /\ Tail(acts) = <<>>
  <2> DEFINE a == Act(program.main)
  <2> HIDE DEF a
  <2>1. IsList(<<a>>) /\ <<a>>[1] = a /\ Tail(<<a>>) = <<>>
    BY SingleFacts
  <2> QED
    BY <1>1, <2>1 DEF a
<1>8. Waiting(0, <<>>, c, fns, Tail(acts), own, objects)
  <2> DEFINE none == <<>>
  <2>1. IsList(none) /\ Len(none) = 0 /\ 0 \in Nat
    BY <1>2
  <2>2. Tail(acts) = none /\ ~(none # <<>>)
    BY <1>7
  <2> HIDE DEF none
  <2>3. \A i \in 1..Len(none) : FALSE
    BY <2>1
  <2>4. \A i \in 2..Len(none) : FALSE
    BY <2>1
  <2>5. Waiting(0, none, c, fns, none, own, objects)
    BY <2>1, <2>2, <2>3, <2>4 DEF Waiting
  <2> QED
    BY <2>2, <2>5 DEF none
<1>9. OnTop(0, c, fns, acts[1], how, own, objects)
  BY <1>1, <1>2, <1>5, <1>6, <1>7 DEF OnTop, HasLocals
<1>10. Stacked(c)
  BY <1>1, <1>2, <1>7, <1>8, <1>9 DEF Stacked, StackedIn
<1>11. Apart
  BY <1>1, <1>2 DEF Apart, ApartIn
<1> QED
  BY <1>1, <1>3, <1>4, <1>10, <1>11 DEF Inv, Halted

\* A step of another thread, or none.
LEMMA OthersKeep ==
  ASSUME NEW c, Inv(c), UNCHANGED <<program, acts, how, out, data, crashed, cut, full, own>>, runFlag' => runFlag
  PROVE  Inv(c)'
<1>1. fns' = fns /\ Translated(program, c)'
  BY DEF Inv, fns
<1>2. HoldGood(fns, globals, pool, infos, objects)' /\ Plain(fns, out, objects)' /\ Stacked(c)'
  BY <1>1 DEF Inv, data, Stacked
<1>3. Apart' /\ Halted'
  BY DEF Inv, data, Apart, Halted, Sober, top
<1> QED
  BY <1>1, <1>2, <1>3 DEF Inv

LEMMA NextInv == ASSUME Parameters, NEW c, Inv(c), [Next]_vars PROVE Inv(c)'
<1>1. CASE BlockRuns
  BY <1>1, BlockRunsKeeps
<1>2. CASE BlockResumes
  BY <1>2, BlockResumesKeeps
<1>3. CASE CallTakesOperand
  BY <1>3, CallTakesOperandKeeps
<1>4. CASE CallTakesResult
  BY <1>4, CallTakesResultKeeps
<1>5. CASE CallGivesUp
  BY <1>5, CallGivesUpKeeps
<1>6. CASE CallAssigns
  BY <1>6, CallAssignsKeeps
<1>7. CASE CallComputes
  BY <1>7, CallComputesKeeps
<1>8. CASE CallOperatesAndAssigns
  BY <1>8, CallOperatesAndAssignsKeeps
<1>9. CASE CallSteps
  BY <1>9, CallStepsKeeps
<1>10. CASE CallReadsParameters
  BY <1>10, CallReadsParametersKeeps
<1>11. CASE CallsVariable
  BY <1>11, CallsVariableKeeps
<1>12. CASE CallIsComma
  BY <1>12, CallIsCommaKeeps
<1>13. CASE CallFindsFunction
  BY <1>13, CallFindsFunctionKeeps
<1>14. CASE CallsResult
  BY <1>14, CallsResultKeeps
<1>15. CASE ClosureEnds
  BY <1>15, ClosureEndsKeeps
<1>16. CASE ValueRuns
  BY <1>16, ValueRunsKeeps
<1>17. CASE FunctionDefined
  BY <1>17, FunctionDefinedKeeps
<1>18. CASE LiteralBegins
  BY <1>18, LiteralBeginsKeeps
<1>19. CASE LiteralRuns
  BY <1>19, LiteralRunsKeeps
<1>20. CASE LiteralGrows
  BY <1>20, LiteralGrowsKeeps
<1>21. CASE Jumps
  BY <1>21, JumpsKeeps
<1>22. CASE Leaves
  BY <1>22, LeavesKeeps
<1>23. CASE IfTests
  BY <1>23, IfTestsKeeps
<1>24. CASE IfBranches
  BY <1>24, IfBranchesKeeps
<1>25. CASE ConditionTests
  BY <1>25, ConditionTestsKeeps
<1>26. CASE ConditionBranches
  BY <1>26, ConditionBranchesKeeps
<1>27. CASE ForBegins
  BY <1>27, ForBeginsKeeps
<1>28. CASE ForTests
  BY <1>28, ForTestsKeeps
<1>29. CASE ForRuns
  BY <1>29, ForRunsKeeps
<1>30. CASE LoopBegins
  BY <1>30, LoopBeginsKeeps
<1>31. CASE LoopRuns
  BY <1>31, LoopRunsKeeps
<1>32. CASE ForEachRuns
  BY <1>32, ForEachRunsKeeps
<1>33. CASE RoundEnds
  BY <1>33, RoundEndsKeeps
<1>34. CASE CallUsesParameter
  BY <1>34, CallUsesParameterKeeps
<1>35. CASE StopScript
  BY <1>35, OthersKeep DEF StopScript
<1>36. CASE UNCHANGED vars
  BY <1>36, OthersKeep DEF vars, state, data
<1> QED
  BY <1>1, <1>2, <1>3, <1>4, <1>5, <1>6, <1>7, <1>8, <1>9, <1>10, <1>11, <1>12, <1>13, <1>14, <1>15, <1>16, <1>17, <1>18,
     <1>19, <1>20, <1>21, <1>22, <1>23, <1>24, <1>25, <1>26, <1>27, <1>28, <1>29, <1>30, <1>31, <1>32, <1>33, <1>34, <1>35, <1>36
     DEF Next, Step

\* What the calls of Execute that are under way have in common with the frames and the objects.
THEOREM StackInvariant == ASSUME AreTranslated PROVE Spec => [](\E c : Inv(c))
<1>1. Init => \E c : Inv(c)
  BY InitInv, ParametersAssumption DEF AreTranslated, Init
<1>2. (\E c : Inv(c)) /\ [Next]_vars => (\E c : Inv(c))'
  BY NextInv, ParametersAssumption
<1> QED
  BY <1>1, <1>2, PTL DEF Spec

\* For every script, any number of cells and any depth of calls: as long as the frames fit into
\* m_StackInfos, a call finds in its cells what it wrote there, whatever it has called since,
\* and no reference to a local variable is kept where it could outlive its frame.
THEOREM VariablesKept == ASSUME AreTranslated PROVE Spec => []CallsKeepTheirVariables
<1>1. ASSUME NEW c, Inv(c) PROVE CallsKeepTheirVariables
  <2> SUFFICES ASSUME ~full, ~crashed
               PROVE  /\ Len(own) = Len(infos)
                      /\ \A i \in DOMAIN own : \A l \in DOMAIN own[i] :
                           own[i][l] # Unset => pool[infos[i].start + l] = own[i][l]
                      /\ \A g \in Globals : globals[g].k \notin {"local", "arg"}
                      /\ \A i \in DOMAIN infos : \A j \in DOMAIN infos[i].params : ~IsRef(infos[i].params[j])
    BY DEF CallsKeepTheirVariables
  <2>1. ApartIn(pool, infos, own)
    BY <1>1 DEF Inv, Apart
  <2>2. DOMAIN own = 1..Len(own)
    BY <1>1, ListFacts DEF Inv, Stacked, StackedIn
  <2>3. Len(own) = Len(infos)
    BY <2>1 DEF ApartIn
  <2>4. \A i \in DOMAIN own : \A l \in DOMAIN own[i] : own[i][l] # Unset => pool[infos[i].start + l] = own[i][l]
    BY <2>1, <2>2 DEF ApartIn
  <2>5. /\ \A g \in Globals : globals[g].k \notin {"local", "arg"}
        /\ \A i \in DOMAIN infos : \A j \in DOMAIN infos[i].params : ~IsRef(infos[i].params[j])
    BY <1>1 DEF Inv, HoldGood, Plain
  <2> QED
    BY <2>3, <2>4, <2>5
<1>2. (\E c : Inv(c)) => CallsKeepTheirVariables
  BY <1>1
<1> QED
  BY <1>2, StackInvariant, PTL
--------------------------------------------------------------------------------
(* After an Execute has given up *)

LEMMA ClosureLeaves ==
  ASSUME NEW os, IsList(os), os # <<>>
  PROVE  LET t == Tail(os) IN Len(t) <= Len(os) /\ \A i \in DOMAIN t : t[Len(t) + 1 - i] = os[Len(os) + 1 - i]
<1> DEFINE t == Tail(os)
           n == Len(os)
<1>1. IsList(t)
  BY TailFacts
<1>2. Len(t) = n - 1
  BY TailFacts
<1>3. \A i \in 1..Len(t) : t[i] = os[i + 1]
  BY TailFacts
<1>4. n \in Nat /\ DOMAIN t = 1..Len(t)
  BY <1>1, ListFacts
<1> HIDE DEF t, n
<1>5. ASSUME NEW i \in DOMAIN t PROVE t[Len(t) + 1 - i] = os[n + 1 - i]
  <2>1. Len(t) + 1 - i \in 1..Len(t) /\ (Len(t) + 1 - i) + 1 = n + 1 - i
    BY <1>2, <1>4
  <2> QED
    BY <1>3, <2>1
<1>6. Len(t) <= n
  BY <1>2, <1>4
<1> QED
  BY <1>5, <1>6 DEF t, n

Untouched == UNCHANGED <<globals, own>> /\ (top.at # "literal" => objects' = objects)

\* With the flag off no statement writes a variable, and only a literal an object.
LEMMA CutUntouched ==
  ASSUME NEW c, Inv(c), cut, acts # <<>>, ~UsesCutResult, Next, ~ClosureEnds
  PROVE  Untouched
<1>1. ~runFlag /\ top.at \notin {"function", "each", "named"}
  BY DEF Inv, Halted, Sober, UsesCutResult
<1>2. GivesUp \/ Quiet => Untouched
  BY DEF GivesUp, Quiet, data, Untouched
<1>3. ~Applies
  BY <1>1 DEF Applies
<1>4. CASE BlockRuns \/ BlockResumes \/ CallTakesOperand \/ CallTakesResult \/ CallGivesUp
  <2>1. BlockRuns => GivesUp \/ Quiet
    BY DEF BlockRuns
  <2>2. CallTakesOperand => GivesUp \/ Quiet
    BY DEF CallTakesOperand
  <2>3. BlockResumes => Quiet
    BY ZenonT(30) DEF BlockResumes
  <2>4. CallTakesResult \/ CallGivesUp => GivesUp \/ Quiet
    BY DEF CallTakesResult, CallGivesUp
  <2> QED
    BY <1>2, <1>4, <2>1, <2>2, <2>3, <2>4
<1>5. CASE \/ CallAssigns \/ CallComputes \/ CallOperatesAndAssigns \/ CallSteps \/ CallReadsParameters
           \/ CallUsesParameter \/ CallsVariable \/ CallIsComma \/ CallFindsFunction
  BY <1>3, <1>5 DEF CallAssigns, CallComputes, CallOperatesAndAssigns, CallSteps, CallReadsParameters, CallUsesParameter,
                    CallsVariable, CallIsComma, CallFindsFunction
<1>6. CASE CallsResult \/ FunctionDefined \/ LiteralBegins \/ LiteralRuns \/ LiteralGrows
  BY <1>1, <1>2, <1>6 DEF CallsResult, FunctionDefined, LiteralBegins, LiteralRuns, LiteralGrows, At, Untouched
<1>7. CASE Jumps \/ Leaves \/ IfTests \/ IfBranches \/ ConditionTests \/ ConditionBranches \/ ForBegins \/ ForRuns \/ LoopBegins \/ RoundEnds
  <2>1. Jumps \/ Leaves \/ IfTests \/ IfBranches => Quiet
    BY DEF Jumps, Leaves, IfTests, IfBranches
  <2>2. ConditionTests \/ ConditionBranches \/ RoundEnds => Quiet
    BY DEF ConditionTests, ConditionBranches, RoundEnds
  <2>3. ForBegins \/ ForRuns \/ LoopBegins => Quiet
    BY DEF ForBegins, ForRuns, LoopBegins
  <2> QED
    BY <1>2, <1>7, <2>1, <2>2, <2>3
<1>8. CASE ValueRuns \/ ForTests
  BY <1>1, <1>2, <1>8 DEF ValueRuns, ForTests, MayGoOn
<1>9. CASE LoopRuns
  BY <1>1, <1>2, <1>9 DEF LoopRuns
<1>10. CASE ForEachRuns
  BY <1>1, <1>2, <1>10 DEF ForEachRuns, At
<1>11. ~StopScript
  BY <1>1 DEF StopScript
<1> QED
  BY <1>4, <1>5, <1>6, <1>7, <1>8, <1>9, <1>10, <1>11 DEF Next, Step

\* The part of the property about one step.
LEMMA CutStep ==
  ASSUME NEW c, Inv(c), cut, acts # <<>>, ~UsesCutResult, Next
  PROVE  /\ Len(own') <= Len(own)
         /\ globals' = globals
         /\ \A i \in DOMAIN own' : own'[Len(own') + 1 - i] = own[Len(own) + 1 - i]
         /\ top.at # "literal" => objects' = objects
<1>1. IsList(own) /\ Len(own) \in Nat
  BY ListFacts DEF Inv, Stacked, StackedIn
<1>2. CASE ClosureEnds
  <2>1. own' = Tail(own) /\ UNCHANGED <<globals, objects>> /\ Closes(top)
    BY <1>2 DEF ClosureEnds, At, Closes
  <2>2. PICK d : Len(own) = d + 1 /\ d \in Nat
    BY <2>1 DEF Inv, Stacked, StackedIn, OnTop, Waiting, top
  <2>3. own # <<>>
    BY <1>1, <2>2, NoLength
  <2> QED
    BY <1>1, <2>1, <2>3, ClosureLeaves
<1>3. CASE ~ClosureEnds
  BY <1>1, <1>3, CutUntouched DEF Untouched
<1> QED
  BY <1>2, <1>3

\* For every script: after an Execute has given up, the ones around it write no variable, change
\* no object that a script can reach and enter no closure, but for the two places that do.
THEOREM CutResultUnused == ASSUME AreTranslated PROVE Spec => NothingActsOnCutResult
<1>1. (\E c : Inv(c)) /\ [Next]_vars =>
        [cut /\ acts # <<>> /\ ~UsesCutResult =>
           /\ Len(own') <= Len(own)
           /\ globals' = globals
           /\ \A i \in DOMAIN own' : own'[Len(own') + 1 - i] = own[Len(own) + 1 - i]
           /\ top.at # "literal" => objects' = objects]_vars
  BY CutStep
<1> QED
  BY <1>1, StackInvariant, PTL DEF Spec, NothingActsOnCutResult
================================================================================
