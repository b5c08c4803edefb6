----------------------------- MODULE ScriptObject -----------------------------
(***************************************************************************)
(* ObjectBase and MemberAccessor of Common/SimpleScript/calc.cpp: members  *)
(* in the order in which they were added, found by index or by name.  A    *)
(* script reaches a member in two steps: the object gives an accessor for  *)
(* a name or an index, and the accessor reads or writes the member or      *)
(* calls it.  For a member that is not there the object gives the one      *)
(* temporary accessor it has, and keeps the name aside; writing through it *)
(* adds the member.  Names are numbers.                                    *)
(***************************************************************************)
EXTENDS CalcOperators

CONSTANTS CapacityDelta,  \* MEMBER_INFO_CAPACITY_DELTA_SIZE
          MaxMembers      \* MAX_MEMBER_NUM
ASSUME ObjectAssumption == CapacityDelta \in Nat \ {0} /\ MaxMembers \in Nat

Name(n) == [k |-> "name", n |-> n]
SizeName == 0               \* "size"
NoName == -1
SizeIndex == -1             \* indexes of members start after those of the inner members
NoIndex == -2

\* cap is m_Capacity; the accessors are made anew whenever it grows.
NewObject == [members |-> <<>>, cap |-> 0, temp |-> [name |-> NoName, ix |-> NoIndex]]
ObjectValue(o) == [k |-> "obj", n |-> o]
Accessor(o, ix, cap) == [k |-> "member", n |-> o, ix |-> ix, cap |-> cap]
TempAccessor(o) == [k |-> "temp", n |-> o]
Size(obj) == Len(obj.members)

\* GetMemberIndex
GetMemberIndex(obj, name) ==
  LET named == {i \in DOMAIN obj.members : obj.members[i].name = name}
  IN IF named # {} THEN (CHOOSE i \in named : TRUE) - 1 ELSE IF name = SizeName THEN SizeIndex ELSE NoIndex

\* ObjectBase::Execute with a name or an index: the accessor, and the object o after it.
Access(obj, o, key) ==
  LET ix == CASE key.k = "name" -> GetMemberIndex(obj, key.n)
              [] key.k = "num" -> IF key.n \in 0..(Size(obj) - 1) THEN key.n ELSE NoIndex
              [] OTHER -> NoIndex
      temp == [name |-> IF key.k = "name" THEN key.n ELSE NoName,
               ix |-> IF key.k = "name" THEN Size(obj) ELSE key.n]
  IN CASE key.k \notin {"name", "num"} -> [obj |-> obj, value |-> Stale]
       [] key.k \in {"name", "num"} /\ ix # NoIndex -> [obj |-> obj, value |-> Accessor(o, ix, IF ix = SizeIndex THEN 0 ELSE obj.cap)]
       [] OTHER -> [obj |-> [obj EXCEPT !.temp = temp], value |-> TempAccessor(o)]

\* Resize until there is room for the index ix.
Capacity(cap, ix) == IF ix < cap THEN cap ELSE cap + CapacityDelta * (((ix - cap) \div CapacityDelta) + 1)

\* AddTempToMember
AddTempToMember(obj, ix, v) ==
  IF ix >= MaxMembers THEN obj
  ELSE [members |-> obj.members \o [i \in 1..(ix - Size(obj)) |-> [name |-> NoName, v |-> Invalid]]
                    \o <<[name |-> obj.temp.name, v |-> v]>>,
        cap |-> Capacity(obj.cap, ix),
        temp |-> [name |-> NoName, ix |-> NoIndex]]

\* The member accessor acc of the object obj refers to.
MemberOf(acc, obj) == IF acc.k = "temp" THEN obj.temp.ix ELSE acc.ix
\* The accessor was deleted when the object grew.
Dangles(acc, obj) == acc.k = "member" /\ acc.ix # SizeIndex /\ acc.cap # obj.cap

\* MemberAccessor::Execute: a single Invalid parameter stands for none.
Given(params) == IF Len(params) = 1 /\ params[1] = Invalid THEN <<>> ELSE params

\* ObjectBase::Execute through an accessor: whether it calls the member, or else the object and the result.
Calls(obj, ix, params, property) == ix \in 0..(Size(obj) - 1) /\ ~(property /\ Len(params) < 2)
Operate(obj, ix, params, property) ==
  CASE ix = SizeIndex /\ params = <<>> -> [obj |-> obj, value |-> Num(Size(obj))]
    [] ix \in 0..(Size(obj) - 1) /\ property /\ params = <<>> -> [obj |-> obj, value |-> obj.members[ix + 1].v]
    [] ix \in 0..(Size(obj) - 1) /\ property /\ Len(params) = 1 ->
         [obj |-> [obj EXCEPT !.members[ix + 1].v = params[1]], value |-> params[1]]
    [] ix \in Nat /\ ix >= Size(obj) /\ property /\ Len(params) = 1 ->
         [obj |-> AddTempToMember(obj, ix, params[1]), value |-> params[1]]
    [] OTHER -> [obj |-> obj, value |-> Stale]

\* Interpreter::CallMember as the literals and args() use it.
Put(obj, key, v) ==
  LET access == Access(obj, 0, key)
  IN Operate(access.obj, MemberOf(access.value, access.obj), Given(<<v>>), TRUE).obj
================================================================================
