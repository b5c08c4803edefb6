----------------------------- MODULE MCInterpreter -----------------------------
(***************************************************************************)
(* The interpreter on scripts made of all combinations of a few statements *)
(* in each kind of loop, on every operator, and on scripts that recurse,   *)
(* use objects, never end, or do what they had better not do.  Beside it,  *)
(* what a script means: the statements evaluated in the usual recursive    *)
(* way, over variables that hold values, with as many local variables as   *)
(* it takes, and objects without accessors.                                *)
(***************************************************************************)
EXTENDS Interpreter

(* Scripts.  The global variables: 1 result, 2 counter, 3 another, 4 function. *)
Global(n) == [k |-> "global", n |-> n]
Local(n) == [k |-> "local", n |-> n]
Arg(n) == [k |-> "arg", n |-> n]
None == [k |-> "none"]
Do(s) == [k |-> "do", s |-> s]
Block(body) == [op |-> "block", body |-> body]
Api(name, args) == [op |-> "call", name |-> name, args |-> args]
Set(r, v) == Api("=", <<r, v>>)
Plus(r, v) == [op |-> "call", name |-> "op=", proxy |-> "+", args |-> <<r, v>>]
Less(a, b) == Do(Api("<", <<a, b>>))
CallOf(fn, args, property) == [op |-> "call", name |-> "call", fn |-> fn, args |-> args, property |-> property]
Call(g, args) == CallOf(Global(g), args, FALSE)
Member(o, key) == Do(CallOf(o, <<key>>, FALSE))
Get(o, key) == Do(CallOf(Member(o, key), <<Invalid>>, TRUE))
SetMember(o, key, v) == CallOf(Member(o, key), <<v>>, TRUE)
Method(o, key, args) == CallOf(Member(o, key), args, FALSE)
Literal(keys, values) == [op |-> "literal", keys |-> keys, values |-> values]
Array(values) == Literal([i \in DOMAIN values |-> Num(i - 1)], values)
Function(g, f) == [op |-> "function", var |-> g, fn |-> f]
ReturnOf(v) == [op |-> "return", value |-> v]
Goto(n) == [op |-> "goto", value |-> Num(n)]
If(test, then, else) == [op |-> "if", arms |-> <<[test |-> test, then |-> Block(then)]>>, else |-> Block(else)]
For(init, test, step, body) == [op |-> "for", init |-> init, test |-> test, step |-> step, body |-> Block(body)]
While(test, body) == For(None, test, None, body)
LoopOver(op, key, var, x, body) == [op |-> op, over |-> x, key |-> key, var |-> var, body |-> Block(body)]
ForEach(key, var, values, body) == [op |-> "foreach", values |-> values, key |-> key, var |-> var, body |-> Block(body)]
Body(args, locals, body) == [params |-> args, locals |-> locals, body |-> Block(body)]
Script(main, functions) == [main |-> Block(main), functions |-> functions]

\* What the rounds of the generated loops are made of; locals 1 and 2 are those of the loop.
Pieces == {Plus(Global(2), Num(1)), Set(Local(0), Do(Api("+", <<Local(0), Num(1)>>))), Api("++", <<Local(1)>>),
           If(Less(Num(0), Local(2)), <<[op |-> "break"]>>, <<[op |-> "continue"]>>),
           If(Less(Global(2), Num(2)), <<Goto(2)>>, <<>>),
           [op |-> "ifgoto", test |-> Less(Local(2), Num(1)), goto |-> Do(Api("-", <<Num(3), Num(1)>>))],
           ReturnOf(Do([op |-> "?", test |-> Local(2), then |-> Local(0), else |-> Num(3)])), ReturnOf(None)}
Loops(body) == {LoopOver("loop", Local(1), Local(2), Num(2), body),
                ForEach(Local(1), Local(2), <<Num(0), Do(Api("+", <<Num(0), Local(0)>>))>>, body),
                LoopOver("looplist", Local(1), Local(2), Do(Array(<<Num(0), Num(1)>>)), body),
                For(Do(Set(Local(2), Num(0))), Less(Local(2), Num(2)), Do(Plus(Local(2), Num(1))), body)}

\* f(1) is a function around one loop of three pieces, the last of them counting.
Generated ==
  {Script(<<Function(4, 1), Set(Global(2), Num(0)), Set(Global(1), Do(Call(4, <<Num(1)>>)))>>,
          <<Body(<<0>>, 3, <<loop, Plus(Local(0), Global(2))>>)>>) :
   loop \in UNION {Loops(<<a, b, Plus(Global(2), Num(1))>>) : a \in Pieces, b \in Pieces}}

\* sum(n) is 0 for 0 and n + sum(n - 1) otherwise.
Sum(n) ==
  Script(<<Function(4, 1), Set(Global(1), Do(Call(4, <<Num(n)>>)))>>,
    <<Body(<<0>>, 2,
       <<If(Less(Local(0), Num(1)), <<ReturnOf(Num(0))>>, <<>>),
         Set(Local(1), Do(Call(4, <<Do(Api("+", <<Local(0), Num(-1)>>))>>))),
         ReturnOf(Do(Api("+", <<Local(0), Local(1)>>)))>>)>>)

\* Every operator on two and three numbers, collected in arrays.
Operands == {-8, -3, -1, 0, 2, 7}
Pairs == {<<Num(a), Num(b)>> : a \in Operands, b \in Operands}
Defined(name, v) == name \in {"/", "%"} => ~\E i \in 2..Len(v) : v[i].n \in {0, -1}
RECURSIVE ListOf(_)
ListOf(S) == IF S = {} THEN <<>> ELSE LET x == CHOOSE x \in S : TRUE IN <<x>> \o ListOf(S \ {x})
Inputs(name) ==
  IF name \in Unary THEN {<<Num(a)>> : a \in Operands}
  ELSE {v \in Pairs \cup {<<Num(a), Num(b), Num(2)>> : a \in {-3, 0, 2}, b \in {2, 7}} : Defined(name, v)}
       \cup (IF name \in {"+", "-"} THEN {<<Num(a)>> : a \in Operands} ELSE {})
Computes(name) ==
  LET all == ListOf(Inputs(name))
      part(i) == SubSeq(all, 3 * i + 1, IF 3 * i + 3 < Len(all) THEN 3 * i + 3 ELSE Len(all))
  IN {Script(<<Set(Global(1), Do(Array([j \in DOMAIN part(i) |-> Do(Api(name, part(i)[j]))])))>>, <<>>) : i \in 0..((Len(all) - 1) \div 3)}

\* An object with members added by name and by index, a method that adds members while it is
\* called, and loops over members and parameters.
X == Name(1)
Y == Name(2)
M == Name(3)
Objects ==
  Script(<<Function(4, 1), Set(Global(1), Do(Literal(<<X>>, <<Num(1)>>))),
           SetMember(Global(1), Num(2), Num(3)), SetMember(Global(1), M, Global(4)),
           Set(Global(2), Do(Method(Global(1), M, <<Num(2)>>))),
           SetMember(Global(1), X, Do(Api("+", <<Get(Global(1), X), Get(Global(1), Y)>>)))>>,
    <<Body(<<0, 1>>, 5,
       <<SetMember(Local(0), Y, Local(1)),
         LoopOver("looplist", Local(2), Local(3), Local(0), <<SetMember(Local(0), Num(5), Local(3))>>),
         Set(Global(3), Get(Local(0), Name(SizeName))),
         Set(Local(4), Do(Api("args", <<>>))),
         ReturnOf(Do(Api("+", <<Get(Local(4), Num(1)), Do(Api("arg", <<Num(1)>>)), Do(Api("argnum", <<>>))>>)))>>)>>)

\* A function that reads and writes its parameters, and constants that are Invalid: an index,
\* a test, a value of a foreach, the operand of return and of goto.
Omissions ==
  Script(<<Function(4, 1), Set(Global(2), Num(0)), Set(Global(1), Do(Call(4, <<Num(3), Num(5)>>)))>>,
    <<Body(<<0>>, 4,
       <<Api("arg", <<Num(1), Do(Api("+", <<Local(0), Do(Api("arg", <<Num(1)>>))>>))>>),
         Set(Local(1), Do(Api("arg", <<Num(-1), Num(1)>>))),
         While(Invalid, <<Api("++", <<Local(1)>>), If(Less(Local(1), Do(Api("arg", <<Num(-1)>>))), <<[op |-> "continue"]>>, <<[op |-> "break"]>>)>>),
         ForEach(Local(2), Local(3), <<Num(2), Invalid>>, <<Plus(Global(2), Local(3))>>),
         Set(Global(3), Do(Array(<<Do(Api("arg", <<Local(2), Num(7)>>)), Do(Api("arg", <<Name(1)>>)), Do(Api("arg", <<>>)),
                                   Do(Api("arg", <<Num(0)>>))>>))),
         ReturnOf(Invalid), [op |-> "goto", value |-> Invalid],
         While(Name(1), <<Plus(Global(2), Num(1))>>),
         ReturnOf(Do(Api("+", <<Local(1), Do(Api("arg", <<Num(1)>>))>>)))>>)>>)

Endlessly ==
  {Script(<<Function(4, 1), s>>, <<Body(<<>>, 0, <<ReturnOf(Num(1))>>)>>) :
   s \in {While(Num(1), <<>>),
          While(Do(Call(4, <<>>)), <<Set(Global(1), Do(Call(4, <<>>)))>>),
          Block(<<Set(Global(1), Num(1)), Goto(-1)>>),
          While(Num(1), <<If(Num(1), <<[op |-> "continue"]>>, <<>>)>>)}}

\* References to references, names of nothing, jumps out of the script, a zero divisor, a
\* jump to a constant, a method of its own object that has gone, too many members, an
\* argument outside of functions.
Others ==
  {Script(body, <<Body(<<>>, 1, <<Set(Global(1), Arg(0)), Set(Local(0), Arg(0)), Set(Arg(0), Num(7)), Set(Global(2), Local(0))>>)>>) :
   body \in {<<Set(Global(1), Num(1)), Set(Global(2), Num(2)), Set(Global(3), Global(1)), Set(Global(1), Global(2)),
               Set(Global(2), Global(3)), Set(Global(3), Do(Api("+", <<Global(1), Num(0)>>)))>>,
             <<Function(4, 1), Call(4, <<Num(5)>>), Set(Global(1), Do(Call(3, <<Num(1), Global(2)>>))), Call(3, <<>>)>>,
             <<Api("--", <<Global(1)>>), [op |-> "value", value |-> Global(1)], Goto(-1), Set(Global(1), Num(1))>>,
             <<[op |-> "ifgoto", test |-> Num(1), goto |-> Num(2)], Set(Global(1), Do(Api("/", <<Num(1), Global(2)>>)))>>,
             <<[op |-> "value", value |-> Num(1)], Goto(-2)>>,
             <<Set(Global(1), Do(Array(<<>>))), Set(Global(2), Member(Global(1), X)), SetMember(Global(1), X, Num(1)),
               Set(Global(2), Member(Global(1), X)), SetMember(Global(1), Num(4), Num(2)), Call(2, <<Num(3)>>)>>,
             <<Set(Global(1), Do(Array(<<>>))), SetMember(Global(1), Num(-1), Num(1)), SetMember(Global(1), Num(99), Num(1)),
               Set(Global(2), Get(Global(1), Num(-1))), Method(Global(1), Num(0), <<Num(1)>>), Api("args", <<>>)>>,
             <<Set(Global(1), Do(Api("arg", <<Num(-1)>>))), Set(Global(2), Do(Api("arg", <<Num(0)>>)))>>}}

MCPrograms ==
  Generated \cup {Sum(n) : n \in 0..3} \cup UNION {Computes(name) : name \in Operators} \cup {Objects, Omissions} \cup Endlessly \cup Others

\* A statement with the statements inside it, and those of a script by the number of local
\* variables of their function: all scripts here are what the proofs take a script to be.
RECURSIVE Inside(_)
InOperand(x) == IF x.k = "do" THEN Inside(x.s) ELSE {}
InOperands(xs) == UNION {InOperand(xs[i]) : i \in DOMAIN xs}
Inside(s) ==
  {s} \cup
  CASE s.op = "block" -> UNION {Inside(s.body[i]) : i \in DOMAIN s.body}
    [] s.op = "call" -> InOperands(s.args) \cup IF s.name = "call" THEN InOperand(s.fn) ELSE {}
    [] s.op \in {"value", "return", "goto"} -> InOperand(s.value)
    [] s.op = "literal" -> InOperands(s.values)
    [] s.op = "foreach" -> InOperands(s.values) \cup Inside(s.body)
    [] s.op = "if" -> UNION {InOperand(arm.test) \cup Inside(arm.then) : arm \in {s.arms[i] : i \in DOMAIN s.arms}}
                      \cup Inside(s.else)
    [] s.op = "?" -> InOperands(<<s.test, s.then, s.else>>)
    [] s.op = "ifgoto" -> InOperands(<<s.test, s.goto>>)
    [] s.op = "for" -> InOperands(<<s.init, s.test, s.step>>) \cup Inside(s.body)
    [] s.op \in {"loop", "looplist"} -> InOperand(s.over) \cup Inside(s.body)
    [] OTHER -> {}
StatementsOf(p) ==
  LET bodies(L) == {p.functions[n].body : n \in {n \in DOMAIN p.functions : p.functions[n].locals = L}}
  IN [L \in {0} \cup {p.functions[n].locals : n \in DOMAIN p.functions} |->
        UNION {Inside(s) : s \in bodies(L) \cup (IF L = 0 THEN {p.main} ELSE {})}]

ASSUME ScriptsAreTranslated == \A p \in Programs : Translated(p, StatementsOf(p))

--------------------------------------------------------------------------------
(* What a script means.  An environment has the global variables g, and the locals l and
   arguments a of the call, and the objects o; an outcome adds how the statement ends and
   its value v. *)

Look(env, x) ==
  CASE x.k = "global" -> env.g[x.n]
    [] x.k = "local" -> env.l[x.n]
    [] x.k = "arg" -> IF x.n < Len(env.a) THEN env.a[x.n + 1] ELSE Stale
    [] OTHER -> x
Give(env, x, v) ==
  CASE x.k = "global" -> [env EXCEPT !.g[x.n] = v]
    [] x.k = "local" -> [env EXCEPT !.l[x.n] = v]
    [] x.k = "arg" -> [env EXCEPT !.a[x.n + 1] = v]
    [] OTHER -> env
Ends(env, h, v) == [env |-> env, how |-> h, v |-> v]
Truth(v) == IsInt(v) /\ v.n # 0

\* The members of an object: a name or none, and a value.
Place(ms, key) ==
  IF key.k = "num" THEN key.n + 1
  ELSE IF \E i \in DOMAIN ms : ms[i].name = key.n THEN CHOOSE i \in DOMAIN ms : ms[i].name = key.n ELSE Len(ms) + 1
With(ms, key, v) ==
  LET p == Place(ms, key)
  IN [i \in 1..(IF p > Len(ms) THEN p ELSE Len(ms)) |->
        CASE i = p /\ i <= Len(ms) -> [ms[i] EXCEPT !.v = v]
          [] i = p /\ i > Len(ms) -> [name |-> IF key.k = "name" THEN key.n ELSE NoName, v |-> v]
          [] i # p /\ i <= Len(ms) -> ms[i]
          [] OTHER -> [name |-> NoName, v |-> Invalid]]
KeyOf(ms, i) == IF ms[i].name = NoName THEN Num(i - 1) ELSE Name(ms[i].name)

\* What the operators mean, said in another way.
Fit(n) == CHOOSE m \in -8..7 : (m - n) % 16 = 0
DividedBy(a, b) ==
  CHOOSE q \in -8..8 : /\ Abs(a - q * b) < Abs(b)
                       /\ (a - q * b = 0 \/ ((a - q * b < 0) = (a < 0)))
Digit(n, i) == ((n + 16) \div 2^i) % 2
Digits(f(_, _), a, b) == Fit(f(Digit(a, 0), Digit(b, 0)) + 2 * f(Digit(a, 1), Digit(b, 1))
                             + 4 * f(Digit(a, 2), Digit(b, 2)) + 8 * f(Digit(a, 3), Digit(b, 3)))
Binary(name, a, b) ==
  CASE name = "+" -> Fit(a + b) [] name = "-" -> Fit(a - b) [] name = "*" -> Fit(a * b)
    [] name = "/" -> Fit(DividedBy(a, b)) [] name = "%" -> a - b * DividedBy(a, b)
    [] name = "&" -> Digits(LAMBDA x, y : x * y, a, b)
    [] name = "|" -> Digits(LAMBDA x, y : x + y - x * y, a, b)
    [] name = "^" -> Digits(LAMBDA x, y : (x + y) % 2, a, b)
    [] name = "<<" -> Fit(a * 2^(b % 4))
    [] name = ">>" -> CHOOSE m \in -8..7 : m * 2^(b % 4) <= a /\ a < (m + 1) * 2^(b % 4)
    [] name = ">>>" -> Fit(((a + 16) % 16) \div 2^(b % 4))
Ascending(name, v) ==
  CASE name = "<" -> \A i, j \in DOMAIN v : i < j => v[i].n < v[j].n
    [] name = "<=" -> \A i, j \in DOMAIN v : i < j => v[i].n <= v[j].n
    [] name = ">" -> \A i, j \in DOMAIN v : i < j => v[i].n > v[j].n
    [] name = ">=" -> \A i, j \in DOMAIN v : i < j => v[i].n >= v[j].n
    [] name = "==" -> \A i, j \in DOMAIN v : v[i].n = v[j].n
    [] name = "!=" -> v[1].n \notin {v[i].n : i \in 2..Len(v)}
Truths(name, v) == IF name = "&&" THEN \A i \in DOMAIN v : v[i].n # 0 ELSE \E i \in DOMAIN v : v[i].n = 1
MeansOperator(name, v) ==
  CASE ~\A i \in DOMAIN v : IsInt(v[i]) -> Result(name, v)
    [] name \in Comparisons -> Flag(Ascending(name, v))
    [] name \in {"&&", "||"} -> Flag(Truths(name, v))
    [] name = "!" -> Flag(v[1].n = 0)
    [] name = "~" -> Num(Digits(LAMBDA x, y : 1 - x, v[1].n, 0))
    [] Len(v) = 1 -> Num(IF name = "-" THEN Fit(-v[1].n) ELSE v[1].n)
    [] Len(v) = 2 -> Num(Binary(name, v[1].n, v[2].n))
    [] Len(v) = 3 -> Num(Binary(name, Binary(name, v[1].n, v[2].n), v[3].n))

RECURSIVE Means(_, _, _), ListMeans(_, _, _, _, _), OperandsMean(_, _, _, _), RoundsMean(_, _, _, _, _, _), ForMeans(_, _, _, _)

ValueOf(p, x, env) == IF x.k = "do" THEN Means(p, x.s, env) ELSE Ends(env, "NORMAL", Look(env, x))

\* The operands in order: the environment after them and their values.
OperandsMean(p, xs, env, vs) ==
  IF xs = <<>> THEN [env |-> env, values |-> vs]
  ELSE LET o == ValueOf(p, Head(xs), env) IN OperandsMean(p, Tail(xs), o.env, Append(vs, o.v))

ListMeans(p, body, ix, env, v) ==
  IF ix > Len(body) THEN Ends(env, "NORMAL", v)
  ELSE LET o == Means(p, body[ix], env)
       IN IF o.how \in {"RETURN", "BREAK", "CONTINUE"} THEN o
          ELSE ListMeans(p, body, IF o.how = "GOTO" /\ Truth(o.v) THEN ix + o.v.n ELSE ix + 1, o.env, o.v)

\* The rounds of a loop over values, with their keys.
RoundsMean(p, s, keys, xs, env, v) ==
  IF xs = <<>> THEN Ends(env, "NORMAL", v)
  ELSE LET x == ValueOf(p, Head(xs), env)
           omitted == s.op = "foreach" /\ Head(xs) = Invalid
           o == Means(p, s.body, IF omitted THEN env ELSE Give(Give(x.env, s.key, Head(keys)), s.var, x.v))
       IN CASE o.how = "RETURN" -> o
            [] o.how = "BREAK" -> Ends(o.env, "NORMAL", o.v)
            [] OTHER -> RoundsMean(p, s, Tail(keys), Tail(xs), o.env, o.v)

ForMeans(p, s, env, v) ==
  LET test == ValueOf(p, s.test, env)
      goesOn == s.test = Invalid \/ Truth(test.v)
      o == Means(p, s.body, test.env)
  IN CASE ~goesOn -> Ends(test.env, "NORMAL", v)
       [] goesOn /\ o.how = "RETURN" -> o
       [] goesOn /\ o.how = "BREAK" -> Ends(o.env, "NORMAL", o.v)
       [] OTHER -> ForMeans(p, s, IF s.step.k = "do" THEN Means(p, s.step.s, o.env).env ELSE o.env, o.v)

\* f(a)
Calling(p, f, a, env) ==
  LET local(l) == \E i \in DOMAIN f.params : f.params[i] = l
      o == Means(p, f.body, [env EXCEPT !.a = a, !.l = [l \in 0..(f.locals - 1) |->
                               IF local(l) THEN a[CHOOSE i \in DOMAIN f.params : f.params[i] = l] ELSE Invalid]])
  IN Ends([o.env EXCEPT !.a = env.a, !.l = env.l], "NORMAL", o.v)

Using(p, s, env, a) ==
  LET inner == s.fn.s
      o == Look(env, inner.fn).n
      ms == env.o[o]
      key == inner.args[1]
  IN CASE ~s.property -> Calling(p, p.functions[ms[Place(ms, key)].v.n], <<ObjectValue(o)>> \o a, env)
       [] s.property /\ a = <<Invalid>> /\ key = Name(SizeName) -> Ends(env, "NORMAL", Num(Len(ms)))
       [] s.property /\ a = <<Invalid>> /\ key # Name(SizeName) -> Ends(env, "NORMAL", ms[Place(ms, key)].v)
       [] OTHER -> Ends([env EXCEPT !.o[o] = With(@, key, a[1])], "NORMAL", a[1])

Made(env, vs, keys) ==
  LET members[i \in 0..Len(vs)] == IF i = 0 THEN <<>> ELSE With(members[i - 1], keys[i], vs[i])
  IN Ends([env EXCEPT !.o = Append(@, members[Len(vs)])], "NORMAL", ObjectValue(Len(env.o) + 1))

\* arg: the number of parameters, one of them, or one that is given another value.
ArgMeans(env, a) ==
  CASE a = <<>> \/ ~IsInt(a[1]) -> Ends(env, "NORMAL", Invalid)
    [] Len(a) = 1 /\ IsInt(a[1]) -> Ends(env, "NORMAL", IF a[1].n < 0 THEN Num(Len(env.a)) ELSE Look(env, Arg(a[1].n)))
    [] OTHER -> Ends(IF a[1].n < 0 THEN env ELSE Give(env, Arg(a[1].n), a[2]), "NORMAL", a[2])

Means(p, s, env) ==
  CASE s.op = "block" -> ListMeans(p, s.body, 1, env, Stale)
    [] s.op = "value" -> Ends(env, "NORMAL", Look(env, s.value))
    [] s.op = "break" -> Ends(env, "BREAK", Stale)
    [] s.op = "continue" -> Ends(env, "CONTINUE", Stale)
    [] s.op \in {"goto", "return"} ->
         IF s.value \in {Invalid, None} THEN Ends(env, "NORMAL", Stale)
         ELSE [ValueOf(p, s.value, env) EXCEPT !.how = IF s.op = "goto" THEN "GOTO" ELSE "RETURN"]
    [] s.op = "function" -> LET f == [k |-> "fn", n |-> s.fn] IN Ends(Give(env, Global(s.var), f), "NORMAL", f)
    [] s.op = "if" -> LET test == ValueOf(p, s.arms[1].test, env)
                      IN Means(p, IF Truth(test.v) THEN s.arms[1].then ELSE s.else, test.env)
    [] s.op = "?" -> LET test == ValueOf(p, s.test, env) IN ValueOf(p, IF Truth(test.v) THEN s.then ELSE s.else, test.env)
    [] s.op = "ifgoto" -> LET test == ValueOf(p, s.test, env)
                          IN IF Truth(test.v) THEN [ValueOf(p, s.goto, test.env) EXCEPT !.how = "GOTO"] ELSE Ends(test.env, "NORMAL", Stale)
    [] s.op = "loop" -> LET ns == [i \in 1..s.over.n |-> Num(i - 1)] IN RoundsMean(p, s, ns, ns, env, Stale)
    [] s.op = "looplist" ->
         LET over == ValueOf(p, s.over, env)
             ms == over.env.o[over.v.n]
         IN RoundsMean(p, s, [i \in DOMAIN ms |-> KeyOf(ms, i)], [i \in DOMAIN ms |-> ms[i].v], over.env, Stale)
    [] s.op = "foreach" -> RoundsMean(p, s, [i \in DOMAIN s.values |-> Num(i - 1)], s.values, env, Stale)
    [] s.op = "for" -> ForMeans(p, s, IF s.init.k = "do" THEN Means(p, s.init.s, env).env ELSE env, Stale)
    [] s.op = "literal" -> LET os == OperandsMean(p, s.values, [env EXCEPT !.o = Append(@, <<>>)], <<>>)
                               made == Made(env, os.values, s.keys)
                           IN Ends([os.env EXCEPT !.o[made.v.n] = made.env.o[made.v.n]], "NORMAL", made.v)
    [] s.op = "call" ->
         LET os == OperandsMean(p, s.args, env, <<>>)
             a == os.values
             step == IF s.name = "++" THEN 1 ELSE -1
             assign(v) == Ends(Give(os.env, s.args[1], v), "NORMAL", v)
         IN CASE s.name = "=" -> assign(a[2])
              [] s.name = "op=" -> assign(MeansOperator(s.proxy, a))
              [] s.name \in {"++", "--"} -> assign(Num(Fit(a[1].n + step)))
              [] s.name \in Operators -> Ends(os.env, "NORMAL", MeansOperator(s.name, a))
              [] s.name = "argnum" -> Ends(env, "NORMAL", Num(Len(env.a)))
              [] s.name = "arg" -> ArgMeans(os.env, a)
              [] s.name = "args" -> Made(env, env.a, [i \in DOMAIN env.a |-> Num(i - 1)])
              [] s.name = "call" ->
                   IF s.fn.k = "do" THEN Using(p, s, os.env, a)
                   ELSE Calling(p, p.functions[os.env.g[s.fn.n].n], a, os.env)

Meaning(p) == Means(p, p.main, [g |-> [g \in Globals |-> Invalid], l |-> <<>>, a |-> <<>>, o |-> <<>>]).env

\* A script outside Others that nobody stops ends with the variables and the objects that it
\* means, for every combination of jumps out of and inside lists, loops and functions, every
\* operator and members added in every way, as long as the frames fit (AddApi ...
\* LiteralObjectStatement, ObjectBase and RuntimeFunctionCall of calc.cpp).
EndsAsItMeans ==
  acts = <<>> /\ ~cut /\ ~full /\ ~crashed /\ program \notin Others =>
    LET meaning == Meaning(program)
    IN globals = meaning.g /\ [o \in DOMAIN objects |-> objects[o].members] = meaning.o
================================================================================
