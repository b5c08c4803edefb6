----------------------------- MODULE Interpreter -----------------------------
(***************************************************************************)
(* The execution of a script by Common/SimpleScript/calc.cpp: statements,  *)
(* calls, variables and the run flag that ScriptThread::stop clears.  The  *)
(* C++ calls of Execute that are under way are the sequence acts, the      *)
(* innermost first; a step runs the innermost one up to the next Execute   *)
(* it calls or the next look at the flag.  A program is what               *)
(* PrepareRuntimeObject leaves: statements are records with a field op,    *)
(* operands are values, variables or statements.  Values are integers,     *)
(* closures, objects, accessors of members and, as the code stores them,   *)
(* references to variables; a value that nobody has written for this use   *)
(* is Stale.                                                               *)
(***************************************************************************)
EXTENDS ScriptObject, FiniteSets

CONSTANTS Programs,   \* [main, functions]
          Globals,    \* indexes in m_ValuePool
          PoolSize,   \* STACK_VALUE_POOL_SIZE
          MaxLevel,   \* MAX_STACK_LEVEL
          MaxValues   \* size of the pool of parameter arrays, MAX_FUNCTION_LEVEL * MAX_STACK_LEVEL

Parameters == IsFiniteSet(Globals) /\ PoolSize \in Nat /\ MaxLevel \in Nat \ {0}

ASSUME ParametersAssumption == Parameters

VARIABLES program,
          runFlag,    \* *m_pRunFlag
          acts,       \* the calls of Execute under way, the innermost first
          how,        \* "go", or the result with which the last Execute has returned
          out,        \* what it wrote to *pRetValue
          globals,    \* m_ValuePool
          pool,       \* m_StackValuePool
          infos,      \* m_StackInfos, the front first
          objects,    \* the objects, by number
          crashed,    \* the process has gone
          cut,        \* history: an Execute has given up because the flag was off
          full,       \* history: a frame was not pushed
          own         \* history: the locals each closure under way has written

state == <<program, runFlag, acts, how, out, globals, pool, infos, objects, crashed>>
vars == <<state, cut, full, own>>
data == <<globals, pool, infos, objects>>

Unset == [k |-> "unset", n |-> 0]
IsRef(v) == v.k \in {"global", "local", "arg"}
\* What GetInt makes of a value.
Ints(v) == IF IsInt(v) THEN {v.n} ELSE IF v = Invalid THEN {0} ELSE {0, 1}

Act(s) == [at |-> s.op, s |-> s, ix |-> IF s.op = "block" THEN 1 ELSE 0, vals |-> <<>>, val |-> Stale]
top == acts[1]

Init ==
  /\ program \in Programs
  /\ runFlag = TRUE
  /\ acts = <<Act(program.main)>>
  /\ how = "go"
  /\ out = Stale
  /\ globals = [g \in Globals |-> Invalid]
  /\ pool = [i \in 0..(PoolSize - 1) |-> Invalid]
  /\ infos = <<>>
  /\ objects = <<>>
  /\ crashed = FALSE
  /\ cut = FALSE /\ full = FALSE /\ own = <<>>

--------------------------------------------------------------------------------
(* Variables *)

Start(r) == infos[1].start + r.n
Exists(r) == r.k = "global" \/ (infos # <<>> /\ (r.k = "local" => Start(r) < PoolSize))
Cell(r) ==
  CASE r.k = "global" -> globals[r.n]
    [] r.k = "local" -> pool[Start(r)]
    [] r.k = "arg" -> IF r.n < Len(infos[1].params) THEN infos[1].params[r.n + 1] ELSE Stale

\* ReplaceVariableWithValue follows references to a value. What is still a reference after
\* as many steps as there are variables would be followed for ever.
Target(v) == IF IsRef(v) /\ Exists(v) THEN Cell(v) ELSE v
Deref(v) ==
  LET steps == Cardinality(Globals) + PoolSize + 1
      after[i \in 0..steps] == IF i = 0 THEN {v} ELSE {Target(w) : w \in after[i - 1]}
  IN CHOOSE w \in after[steps] : TRUE
Endless(v) == IsRef(Deref(v))

SetValue(r, v) ==
  /\ globals' = IF r.k = "global" THEN [globals EXCEPT ![r.n] = v] ELSE globals
  /\ pool' = IF r.k = "local" THEN [pool EXCEPT ![Start(r)] = v] ELSE pool
  /\ infos' = IF r.k = "arg" /\ r.n < Len(infos[1].params) THEN [infos EXCEPT ![1].params[r.n + 1] = v] ELSE infos
  /\ own' = IF r.k = "local" THEN [own EXCEPT ![1][r.n] = v] ELSE own
  /\ UNCHANGED objects

--------------------------------------------------------------------------------
(* Control *)

Crash == /\ crashed' = TRUE /\ acts' = <<>> /\ how' = "go" /\ out' = Stale
Return(h, v) == /\ acts' = Tail(acts) /\ how' = h /\ out' = v /\ UNCHANGED crashed
Become(act) == /\ acts' = <<act>> \o Tail(acts) /\ how' = "go" /\ out' = Stale /\ UNCHANGED crashed
Descend(act, s) == /\ acts' = <<Act(s), act>> \o Tail(acts) /\ how' = "go" /\ out' = Stale /\ UNCHANGED crashed
\* The value of an operand is what the activation act gets back next.
Evaluate(act, operand) ==
  CASE operand.k = "do" -> Descend(act, operand.s)
    [] operand.k # "do" /\ Endless(operand) -> Crash
    [] OTHER -> /\ acts' = <<act>> \o Tail(acts) /\ how' = "NORMAL" /\ out' = Deref(operand)
                /\ UNCHANGED crashed

GivesUp == Return("NORMAL", top.val) /\ cut' = TRUE /\ UNCHANGED <<data, full, own>>

\* A statement reads and writes no variable itself.
Quiet == UNCHANGED <<data, cut, full, own>>

At(op, back) == acts # <<>> /\ top.at = op /\ (how # "go") = back /\ UNCHANGED <<program, runFlag>>

--------------------------------------------------------------------------------
(* Statement lists: RuntimeStatementBlock, and Interpreter itself *)

BlockRuns ==
  /\ At("block", FALSE)
  /\ LET body == top.s.body
         ix == top.ix
     IN IF ix <= Len(body) /\ ~runFlag THEN GivesUp
        ELSE /\ CASE ix \in DOMAIN body -> Descend(top, body[ix])
                  [] ix > Len(body) -> Return("NORMAL", top.val)
                  [] OTHER -> Crash                   \* goto a place before the list
             /\ Quiet

\* Mutant: the statement after the goto is not counted.
JumpShort(n) == IF n = 0 THEN 1 ELSE n + 1
Jump(n) == IF n = 0 THEN 1 ELSE n
BlockResumes ==
  /\ At("block", TRUE)
  /\ IF how \in {"RETURN", "BREAK", "CONTINUE"} THEN Return(how, out)
     ELSE \E n \in IF how = "GOTO" THEN Ints(out) ELSE {0} :
            Become([top EXCEPT !.ix = @ + Jump(n), !.val = out])
  /\ Quiet

--------------------------------------------------------------------------------
(* Calls: RuntimeFunctionCall, the functions of InnerApi, Closure, objects *)

Holds(act) == act.at \in {"call", "named", "body", "method"}
\* A method is called from inside MemberAccessor::Execute, which holds parameters of its own.
ValuesInUse == Cardinality({i \in DOMAIN acts : Holds(acts[i])}) + Cardinality({i \in DOMAIN acts : acts[i].at = "method"})
NoValuesLeft == ValuesInUse > MaxValues

CallTakesOperand ==
  /\ At("call", FALSE)
  /\ top.ix < Len(top.s.args)
  /\ IF ~runFlag THEN GivesUp
     ELSE LET arg == top.s.args[top.ix + 1]
              next == [top EXCEPT !.ix = @ + 1]
          IN /\ CASE NoValuesLeft -> Crash
                  [] ~NoValuesLeft /\ arg.k = "do" -> Descend(next, arg.s)
                  [] OTHER -> Become([next EXCEPT !.vals = Append(@, arg)])
             /\ Quiet

\* A result other than NORMAL is only reported as an error.
CallTakesResult ==
  /\ At("call", TRUE)
  /\ Become([top EXCEPT !.vals = Append(@, out)])
  /\ Quiet

\* Mutant: the flag is not looked at again when the operands are there.
AppliesAlways == At("call", FALSE) /\ top.ix = Len(top.s.args)
Applies == At("call", FALSE) /\ top.ix = Len(top.s.args) /\ runFlag

CallGivesUp ==
  /\ At("call", FALSE)
  /\ top.ix = Len(top.s.args)
  /\ ~runFlag
  /\ GivesUp

\* A variable is assigned as a reference, unless it could outlive what it refers to.
\* Mutant: always as a reference.
AssignedRef(r, v) == v
Assigned(r, v) == IF r.k = "global" /\ v.k \in {"arg", "local"} THEN Deref(v) ELSE v

NoValueIn(vs) == \E i \in DOMAIN vs : Endless(vs[i])
Values(vs) == [i \in DOMAIN vs |-> Deref(vs[i])]

CallAssigns ==
  /\ Applies
  /\ top.s.name = "="
  /\ LET r == top.vals[1]
         v == top.vals[2]
     IN IF Endless(v) \/ (IsRef(r) /\ ~Exists(r)) THEN Crash /\ Quiet
        ELSE /\ SetValue(r, Assigned(r, v))
             /\ Return("NORMAL", Deref(v))
             /\ UNCHANGED <<cut, full>>

CallComputes ==
  /\ Applies
  /\ top.s.name \in Operators
  /\ IF NoValueIn(top.vals) \/ Result(top.s.name, Values(top.vals)) = Trap THEN Crash
     ELSE Return("NORMAL", Result(top.s.name, Values(top.vals)))
  /\ Quiet

\* += and the others: AssignOpApi with the operator as m_pProxyApi.
CallOperatesAndAssigns ==
  /\ Applies
  /\ top.s.name = "op="
  /\ IF NoValueIn(top.vals) \/ Result(top.s.proxy, Values(top.vals)) = Trap THEN Crash /\ Quiet
     ELSE LET v == Result(top.s.proxy, Values(top.vals))
          IN /\ SetValue(top.vals[1], v)
             /\ Return("NORMAL", v)
             /\ UNCHANGED <<cut, full>>

\* ++ and --
CallSteps ==
  /\ Applies
  /\ top.s.name \in {"++", "--"}
  /\ LET r == top.vals[1]
         v == Deref(r)
         next == IF IsInt(v) THEN Num(Wrap(v.n + (IF top.s.name = "++" THEN 1 ELSE -1))) ELSE v
     IN IF Endless(r) THEN Crash /\ Quiet
        ELSE IF v = Invalid THEN Return("NORMAL", Stale) /\ Quiet
        ELSE /\ SetValue(r, next)
             /\ Return("NORMAL", next)
             /\ UNCHANGED <<cut, full>>

params == IF infos = <<>> THEN <<>> ELSE infos[1].params
Parameter(n) == IF n < 0 THEN Num(Len(params)) ELSE IF n + 1 \in DOMAIN params THEN params[n + 1] ELSE Stale

\* argnum() and args(), a new object with the parameters.
CallReadsParameters ==
  /\ Applies
  /\ top.s.name \in {"argnum", "args"}
  /\ CASE top.s.name = "argnum" -> Return("NORMAL", Parameter(-1)) /\ UNCHANGED objects
       [] top.s.name = "args" ->
            LET given[i \in 0..Len(params)] == IF i = 0 THEN NewObject ELSE Put(given[i - 1], Num(i - 1), params[i])
            IN objects' = Append(objects, given[Len(params)]) /\ Return("NORMAL", ObjectValue(Len(objects) + 1))
  /\ UNCHANGED <<globals, pool, infos, cut, full, own>>

\* arg(i) and arg(i, v), which writes the parameter, and returns v for a negative i as well.
\* Outside of functions there are no parameters at all.
Indexes(values) ==
  CASE Len(values) \notin {1, 2} -> {}
    [] Len(values) \in {1, 2} /\ values[1] = Stale -> {0, 1}
    [] OTHER -> {n \in {values[1].n} : IsInt(values[1])}
CallUsesParameter ==
  /\ Applies
  /\ top.s.name = "arg"
  /\ LET values == Values(top.vals)
     IN \/ /\ NoValueIn(top.vals) \/ (infos = <<>> /\ \E n \in Indexes(values) : n >= 0)
           /\ Crash /\ Quiet
        \/ /\ ~NoValueIn(top.vals)
           /\ Len(values) \in {1, 2} => ~IsInt(values[1])
           /\ Return("NORMAL", Invalid) /\ Quiet
        \/ /\ ~NoValueIn(top.vals)
           /\ \E n \in Indexes(values) :
                /\ infos = <<>> => n < 0
                /\ Return("NORMAL", IF Len(values) = 1 THEN Parameter(n) ELSE values[2])
                /\ IF Len(values) = 1 \/ n < 0 THEN Quiet
                   ELSE SetValue([k |-> "arg", n |-> n], values[2]) /\ UNCHANGED <<cut, full>>

\* PushStackInfo
\* Mutant: a frame begins where the one below begins.
FrameStartBelow == IF infos = <<>> THEN 0 ELSE infos[1].start
FrameStart == IF infos = <<>> THEN 0 ELSE infos[1].start + infos[1].size
Frame(f, values) == [start |-> FrameStart, size |-> f.locals, params |-> values]
Pushed(f, values) == IF Len(infos) < MaxLevel THEN <<Frame(f, values)>> \o infos ELSE infos

\* Closure::Execute up to its statements.
Enter(n, values, at) ==
  LET f == program.functions[n]
      frame == Pushed(f, values)[1]
      bound == {i \in DOMAIN f.params : i <= Len(values)}
      value(l) == values[CHOOSE i \in bound : f.params[i] = l]
      isBound(l) == \E i \in bound : f.params[i] = l
  IN IF frame.start + f.locals > PoolSize THEN Crash /\ Quiet
     ELSE /\ infos' = Pushed(f, values)
          /\ pool' = [i \in DOMAIN pool |-> IF isBound(i - frame.start) THEN value(i - frame.start) ELSE pool[i]]
          /\ full' = (full \/ Len(infos) = MaxLevel)
          /\ own' = <<[l \in 0..(f.locals - 1) |-> IF isBound(l) THEN value(l) ELSE Unset]>> \o own
          /\ acts' = <<Act(f.body), [top EXCEPT !.at = at]>> \o Tail(acts)
          /\ how' = "go"
          /\ out' = Stale
          /\ UNCHANGED <<globals, objects, crashed, cut>>

\* An object returns an accessor, the accessor reads, writes or calls the member.
Finds(o, values) ==
  LET access == Access(objects[o], o, values[1])
  IN IF Len(values) # 1 THEN Return("NORMAL", Stale) /\ Quiet
     ELSE /\ objects' = [objects EXCEPT ![o] = access.obj]
          /\ Return("NORMAL", access.value)
          /\ UNCHANGED <<globals, pool, infos, cut, full, own>>

Uses(acc, values) ==
  LET obj == objects[acc.n]
      ix == MemberOf(acc, obj)
      given == Given(values)
      member == obj.members[ix + 1].v
      done == Operate(obj, ix, given, top.s.property)
      breaks == Dangles(acc, obj) \/ ValuesInUse + 1 > MaxValues
  IN CASE breaks -> Crash /\ Quiet
       [] ~breaks /\ Calls(obj, ix, given, top.s.property) ->
            IF member.k = "fn" THEN Enter(member.n, <<ObjectValue(acc.n)>> \o given, "method")
            ELSE Return("NORMAL", Stale) /\ Quiet
       [] OTHER ->
            /\ objects' = [objects EXCEPT ![acc.n] = done.obj]
            /\ Return("NORMAL", done.value)
            /\ UNCHANGED <<globals, pool, infos, cut, full, own>>

IsExpressionApi(f) == f.k \in {"fn", "obj", "member", "temp"}
Execute(f) ==
  IF NoValueIn(top.vals) THEN Crash /\ Quiet
  ELSE CASE f.k = "fn" -> Enter(f.n, Values(top.vals), "body")
         [] f.k = "obj" -> Finds(f.n, Values(top.vals))
         [] f.k \in {"member", "temp"} -> Uses(f, Values(top.vals))

CallsVariable ==
  /\ Applies
  /\ top.s.name = "call"
  /\ IsRef(top.s.fn)
  /\ IsExpressionApi(Deref(top.s.fn))
  /\ Execute(Deref(top.s.fn))

\* The name stands for no function: the call is a comma expression.
CallIsComma ==
  /\ Applies
  /\ top.s.name = "call"
  /\ IsRef(top.s.fn)
  /\ ~IsExpressionApi(Deref(top.s.fn))
  /\ IF top.vals = <<>> THEN Return("NORMAL", Stale)
     ELSE IF NoValueIn(top.vals) \/ Endless(top.s.fn) THEN Crash
     ELSE Return("NORMAL", Deref(top.vals[Len(top.vals)]))
  /\ Quiet

\* The function is what a statement returns: a member, for one.
CallFindsFunction ==
  /\ Applies
  /\ top.s.name = "call"
  /\ top.s.fn.k = "do"
  /\ Descend([top EXCEPT !.at = "named"], top.s.fn.s)
  /\ Quiet

\* If that statement has given up, the function is what an earlier call left in the cell.
LeftInCell ==
  {[k |-> "fn", n |-> n] : n \in DOMAIN program.functions} \cup {ObjectValue(o) : o \in DOMAIN objects}
  \cup {TempAccessor(o) : o \in DOMAIN objects}
  \cup UNION {{Accessor(o, ix, cap) : ix \in 0..(Size(objects[o]) - 1), cap \in 1..objects[o].cap} : o \in DOMAIN objects}
CallsResult ==
  /\ At("named", TRUE)
  /\ \E f \in IF out = Stale THEN {Invalid} \cup LeftInCell ELSE {out} :
       IF IsExpressionApi(f) THEN Execute(f) ELSE Return("NORMAL", Stale) /\ Quiet

\* PopStackInfo; how the body ended does not matter to the caller.
ClosureEnds ==
  /\ At("body", TRUE) \/ At("method", TRUE)
  /\ infos' = IF infos = <<>> THEN infos ELSE Tail(infos)
  /\ own' = Tail(own)
  /\ Return("NORMAL", out)
  /\ UNCHANGED <<globals, pool, objects, cut, full>>

--------------------------------------------------------------------------------
(* Other statements *)

\* RuntimeValue
ValueRuns ==
  /\ At("value", FALSE)
  /\ IF ~runFlag THEN GivesUp
     ELSE /\ IF Endless(top.s.value) THEN Crash ELSE Return("NORMAL", Deref(top.s.value))
          /\ Quiet

FunctionDefined ==
  /\ At("function", FALSE)
  /\ SetValue([k |-> "global", n |-> top.s.var], [k |-> "fn", n |-> top.s.fn])
  /\ Return("NORMAL", [k |-> "fn", n |-> top.s.fn])
  /\ UNCHANGED <<cut, full>>

\* [v, ...] and {k : v, ...}: a new object; the flag is not looked at.
LiteralBegins ==
  /\ At("literal", FALSE) /\ top.ix = 0
  /\ objects' = Append(objects, NewObject)
  /\ Become([top EXCEPT !.ix = 1, !.val = ObjectValue(Len(objects) + 1)])
  /\ UNCHANGED <<globals, pool, infos, cut, full, own>>

LiteralRuns ==
  /\ At("literal", FALSE) /\ top.ix > 0
  /\ IF top.ix > Len(top.s.values) THEN Return("NORMAL", top.val) ELSE Evaluate(top, top.s.values[top.ix])
  /\ Quiet

LiteralGrows ==
  /\ At("literal", TRUE)
  /\ \E v \in IF out = Stale THEN {Stale, Invalid} ELSE {out} :
       objects' = [objects EXCEPT ![top.val.n] = Put(@, top.s.keys[top.ix], v)]
  /\ Become([top EXCEPT !.ix = @ + 1])
  /\ UNCHANGED <<globals, pool, infos, cut, full, own>>

Jumps ==
  /\ \/ At("break", FALSE) /\ Return("BREAK", Stale)
     \/ At("continue", FALSE) /\ Return("CONTINUE", Stale)
  /\ Quiet

\* return and goto: the operand, and then the result. Without a value they do nothing.
Leaves ==
  /\ \/ /\ At("return", FALSE) \/ At("goto", FALSE)
        /\ IF top.s.value = Invalid \/ top.s.value.k = "none" THEN Return("NORMAL", Stale)
           ELSE Evaluate(top, top.s.value)
     \/ At("return", TRUE) /\ Return("RETURN", out)
     \/ At("goto", TRUE) /\ Return("GOTO", out)
  /\ Quiet

IfTests ==
  /\ At("if", FALSE)
  /\ CASE top.ix < Len(top.s.arms) -> Evaluate(top, top.s.arms[top.ix + 1].test)
       [] OTHER -> Become(Act(top.s.else))
  /\ Quiet

IfBranches ==
  /\ At("if", TRUE)
  /\ \E n \in Ints(out) :
       IF n = 0 THEN Become([top EXCEPT !.ix = @ + 1])
       ELSE Become(Act(top.s.arms[top.ix + 1].then))
  /\ Quiet

\* c ? x : y and if(c) goto(s)
ConditionTests ==
  /\ At("?", FALSE) \/ At("ifgoto", FALSE)
  /\ Evaluate(top, top.s.test)
  /\ Quiet

ConditionBranches ==
  /\ \/ At("?", TRUE) /\ \E n \in Ints(out) :
          Evaluate([top EXCEPT !.at = "chosen"], IF n # 0 THEN top.s.then ELSE top.s.else)
     \/ At("chosen", TRUE) /\ Return("NORMAL", out)
     \/ At("ifgoto", TRUE) /\ \E n \in Ints(out) :
          CASE n = 0 -> Return("NORMAL", Stale)
            [] n # 0 /\ top.s.goto.k = "do" -> Descend([top EXCEPT !.at = "goto"], top.s.goto.s)
            [] OTHER -> Return("GOTO", Stale)      \* a constant or a variable is not taken
  /\ Quiet

\* What a loop does with the result of its statements, and otherwise goes on with next.
AfterBody(next) ==
  CASE how = "RETURN" -> Return("RETURN", out)
    [] how = "BREAK" -> Return("NORMAL", out)
    [] OTHER -> next

\* for and while: the beginning, the test, the statements, the step. A test that is the
\* constant Invalid is left out, one whose value is no integer ends the loop.
ForBegins ==
  /\ At("for", FALSE) /\ top.ix = 0
  /\ IF top.s.init.k = "do" THEN Descend([top EXCEPT !.ix = 1], top.s.init.s) ELSE Become([top EXCEPT !.ix = 1])
  /\ Quiet

\* Mutant: the loop does not look at the flag.
MayGoOnAlways == TRUE
MayGoOn == runFlag
ForTests ==
  /\ At("for", FALSE) /\ top.ix = 1
  /\ CASE ~MayGoOn -> GivesUp
       [] MayGoOn /\ top.s.test = Invalid -> Descend([top EXCEPT !.ix = 3], top.s.body) /\ Quiet
       [] OTHER -> Evaluate([top EXCEPT !.ix = 2], top.s.test) /\ Quiet

Passes(v) == IF v = Stale THEN BOOLEAN ELSE {IsInt(v) /\ v.n # 0}
ForRuns ==
  /\ At("for", TRUE)
  /\ CASE top.ix = 1 -> Become(top)
       [] top.ix = 2 -> \E passes \in Passes(out) :
            IF passes THEN Descend([top EXCEPT !.ix = 3], top.s.body) ELSE Return("NORMAL", top.val)
       [] top.ix = 3 ->
            LET next == [top EXCEPT !.ix = 1, !.val = out]
            IN AfterBody(IF top.s.step.k = "do" THEN Descend(next, top.s.step.s) ELSE Become(next))
  /\ Quiet

\* loop(n), looplist(o) and foreach(values): ix counts the rounds from 1, vals holds their
\* number, and the object.
LoopBegins ==
  /\ \/ /\ At("loop", FALSE) \/ At("looplist", FALSE)
        /\ top.ix = 0
        /\ Evaluate(top, top.s.over)
     \/ /\ At("loop", TRUE)
        /\ top.ix = 0
        /\ Become([top EXCEPT !.ix = 1, !.vals = <<IF IsInt(out) THEN out.n ELSE 0>>])
     \/ /\ At("looplist", TRUE)
        /\ top.ix = 0
        /\ Become([top EXCEPT !.ix = 1, !.vals = IF out.k = "obj" THEN <<Size(objects[out.n]), out.n>> ELSE <<0>>])
     \/ /\ At("foreach", FALSE)
        /\ top.ix = 0
        /\ Become([top EXCEPT !.ix = 1, !.vals = <<Len(top.s.values)>>])
  /\ Quiet

\* The variables of a loop, in a function two of its locals.
RoundBegins(key, v) ==
  LET r == top.s.var
  IN /\ globals' = IF r.k = "global" THEN [globals EXCEPT ![top.s.key.n] = key, ![r.n] = v] ELSE globals
     /\ pool' = IF r.k = "local" THEN [pool EXCEPT ![Start(top.s.key)] = key, ![Start(r)] = v] ELSE pool
     /\ own' = IF r.k = "local" THEN [own EXCEPT ![1][top.s.key.n] = key, ![1][r.n] = v] ELSE own
     /\ UNCHANGED <<infos, objects, cut, full>>

Key(member, i) == IF member.name = NoName THEN Num(i) ELSE Name(member.name)

LoopRuns ==
  /\ At("loop", FALSE) \/ At("looplist", FALSE)
  /\ top.ix > 0
  /\ CASE top.ix > top.vals[1] -> Return("NORMAL", top.val) /\ Quiet
       [] ~(top.ix > top.vals[1]) /\ ~runFlag -> GivesUp
       [] OTHER ->
            /\ IF top.at = "loop" THEN RoundBegins(Num(top.ix - 1), Num(top.ix - 1))
               ELSE LET member == objects[top.vals[2]].members[top.ix] IN RoundBegins(Key(member, top.ix - 1), member.v)
            /\ Descend([top EXCEPT !.ix = @ + 1], top.s.body)

ForEachRuns ==
  \/ /\ At("foreach", FALSE) /\ top.ix > 0
     /\ CASE top.ix > top.vals[1] -> Return("NORMAL", top.val) /\ Quiet
          [] ~(top.ix > top.vals[1]) /\ ~runFlag -> GivesUp
          [] ~(top.ix > top.vals[1]) /\ runFlag /\ top.s.values[top.ix] = Invalid ->
               Descend([top EXCEPT !.ix = @ + 1], top.s.body) /\ Quiet   \* no variable is assigned
          [] OTHER -> Evaluate([top EXCEPT !.at = "each"], top.s.values[top.ix]) /\ Quiet
  \/ /\ At("each", TRUE)
     /\ RoundBegins(Num(top.ix - 1), out)
     /\ Descend([top EXCEPT !.at = "foreach", !.ix = @ + 1], top.s.body)

RoundEnds ==
  /\ At("loop", TRUE) \/ At("looplist", TRUE) \/ At("foreach", TRUE)
  /\ top.ix > 0
  /\ AfterBody(Become([top EXCEPT !.val = out]))
  /\ Quiet

--------------------------------------------------------------------------------
Step ==
  \/ BlockRuns \/ BlockResumes
  \/ CallTakesOperand \/ CallTakesResult \/ CallGivesUp
  \/ CallAssigns \/ CallComputes \/ CallOperatesAndAssigns \/ CallSteps \/ CallReadsParameters \/ CallUsesParameter
  \/ CallsVariable \/ CallIsComma \/ CallFindsFunction \/ CallsResult \/ ClosureEnds
  \/ ValueRuns \/ FunctionDefined \/ LiteralBegins \/ LiteralRuns \/ LiteralGrows \/ Jumps \/ Leaves \/ IfTests \/ IfBranches \/ ConditionTests \/ ConditionBranches
  \/ ForBegins \/ ForTests \/ ForRuns \/ LoopBegins \/ LoopRuns \/ ForEachRuns \/ RoundEnds

\* ScriptThread::stop, by another thread at any time.
StopScript ==
  /\ runFlag
  /\ acts # <<>>
  /\ runFlag' = FALSE
  /\ UNCHANGED <<program, acts, how, out, data, crashed, cut, full, own>>

Next == Step \/ StopScript

Spec == Init /\ [][Next]_vars /\ WF_vars(Step)

--------------------------------------------------------------------------------
(* Scripts as PrepareRuntimeObject leaves them *)

\* Operands of a statement in a function with L locals, one of the statements C.
VariablesIn(L) == [k : {"global"}, n : Globals] \cup [k : {"local"}, n : 0..(L - 1)] \cup [k : {"arg"}, n : Nat]
Constants == [k : {"num", "name"}, n : Int] \cup {Invalid}
OperandsIn(L, C) == [k : {"do"}, s : {s \in C : s.op # "function"}] \cup VariablesIn(L) \cup Constants
Lists(C) == {s \in C : s.op = "block"}

Assignments == {"=", "op=", "++", "--"}

\* An assignment goes to a variable, and no variable is assigned to an argument: that would
\* be stored as a reference, which arg() hands out.
IsCall(s, L, C) ==
  /\ s.args \in Seq(OperandsIn(L, C))
  /\ s.name \in Operators \cup Assignments \cup {"argnum", "arg", "args", "call"}
  /\ s.name \in Assignments => s.args # <<>> /\ s.args[1] \in VariablesIn(L)
  /\ s.name = "=" => Len(s.args) = 2 /\ (s.args[1].k = "arg" => ~IsRef(s.args[2]))
  /\ s.name = "op=" => s.proxy \in Operators
  /\ s.name = "call" => s.fn \in OperandsIn(L, C) \ Constants

Operations == {"block", "call", "value", "function", "literal", "break", "continue", "return", "goto", "if", "?",
               "ifgoto", "for", "loop", "looplist", "foreach"}

\* The beginning and the step of a for are executed with nowhere to put a result, which only
\* the assignments do not mind.
IsStatement(F, s, L, C) ==
  /\ s.op \in Operations
  /\ s.op = "block" => s.body \in Seq(C)
  /\ s.op = "call" => IsCall(s, L, C)
  /\ s.op = "value" => s.value \in VariablesIn(L) \cup Constants
  /\ s.op = "function" => s.var \in Globals /\ s.fn \in F
  /\ s.op \in {"literal", "foreach"} => s.values \in Seq(OperandsIn(L, C))
  /\ s.op = "return" => s.value \in OperandsIn(L, C) \/ s.value.k = "none"
  /\ s.op = "goto" => s.value \in OperandsIn(L, C)
  /\ s.op = "if" => /\ s.arms \in Seq([test : OperandsIn(L, C), then : Lists(C)])
                    /\ s.else \in Lists(C)
  /\ s.op \in {"?", "ifgoto", "for"} => s.test \in OperandsIn(L, C)
  /\ s.op = "?" => s.then \in OperandsIn(L, C) /\ s.else \in OperandsIn(L, C)
  /\ s.op = "ifgoto" => s.goto \in OperandsIn(L, C)
  /\ s.op = "for" => \A x \in {s.init, s.step} : x.k = "do" =>
       x \in OperandsIn(L, C) /\ x.s.op = "call" /\ x.s.name \in Assignments
  /\ s.op \in {"for", "loop", "looplist", "foreach"} => s.body \in Lists(C)
  /\ s.op \in {"loop", "looplist"} => s.over \in OperandsIn(L, C)
  /\ s.op \in {"loop", "looplist", "foreach"} =>
       s.var \in VariablesIn(L) /\ s.key \in VariablesIn(L) /\ s.var.k = s.key.k /\ s.var.k # "arg"

\* c[L] has the statements of the functions with L locals, and c[0] also those outside of
\* functions, with the statements inside them.
Translated(p, c) ==
  /\ 0 \in DOMAIN c /\ DOMAIN c \subseteq Nat
  /\ p.main \in c[0]
  /\ \A n \in DOMAIN p.functions :
       LET f == p.functions[n]
       IN f.locals \in DOMAIN c /\ f.body \in Lists(c[f.locals]) /\ f.params \in Seq(0..(f.locals - 1))
  /\ \A L \in DOMAIN c : \A s \in c[L] : IsStatement(DOMAIN p.functions, s, L, c[L])

AreTranslated == \A p \in Programs : \E c : Translated(p, c)

--------------------------------------------------------------------------------
(* Properties *)

\* Once the flag is off the script comes to an end, however its loops, gotos and calls are
\* nested (IsRunFlagEnable in the loops, lists and calls is there for this).
StopEndsScript == [](~runFlag => <>(acts = <<>>))

\* When an Execute has given up, its result is not used: no variable and no object that a
\* script can reach changes any more and no closure is entered. Two places do use it: a
\* foreach, which assigns it (calc.cpp:1978), and a call of what a statement returns, which
\* runs whatever an earlier call has left in the cell (calc.cpp:4806, 4820).
UsesCutResult == top.at \in {"each", "named"}
NothingActsOnCutResult ==
  [][cut /\ acts # <<>> /\ ~UsesCutResult =>
       /\ Len(own') <= Len(own)
       /\ globals' = globals
       /\ \A i \in DOMAIN own' : own'[Len(own') + 1 - i] = own[Len(own) + 1 - i]
       /\ top.at # "literal" => objects' = objects]_vars

\* As long as the frames fit into m_StackInfos, every call under way, however deep, finds in
\* m_StackValuePool what it wrote to its locals, and no global variable and no argument
\* refers to a variable of a frame, which it could outlive.
CallsKeepTheirVariables ==
  ~full /\ ~crashed =>
    /\ Len(own) = Len(infos)
    /\ \A i \in DOMAIN own : \A l \in DOMAIN own[i] :
         own[i][l] # Unset => pool[infos[i].start + l] = own[i][l]
    /\ \A g \in Globals : globals[g].k \notin {"local", "arg"}
    /\ \A i \in DOMAIN infos : \A j \in DOMAIN infos[i].params : ~IsRef(infos[i].params[j])
================================================================================
