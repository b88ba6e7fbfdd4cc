------------------------------ MODULE Operands ------------------------------
(***************************************************************************)
(* The operands of a MEMOIR call: how the macros of cmemoir.h and the      *)
(* builder lay them out, and where the instruction classes look for them.  *)
(* A call is written, SSA construction rebuilds it or sets its operands,   *)
(* ReifyTempArgs gives folds more closed values, the types of allocations  *)
(* are rebuilt; throughout, what the classes read is what was written.     *)
(*                                                                         *)
(* An operand is <<"val", name>>, <<"const", n>>, <<"end">>, a keyword     *)
(* <<"kw", name>> or the call that makes a type, <<"type", op, operands>>. *)
(* What is written is a record [via, macro, ty, obj, at, val, range,       *)
(* input, closed, reverse, type, selection]: the object and the indices,   *)
(* the other operands where the macro has them, and where "reverse" is.    *)
(***************************************************************************)
EXTENDS Integers, Sequences, FiniteSets, SequencesExt

CONSTANTS
  Calls,          (* what is written                                       *)
  TypeOfObject,   (* the types of the objects, by their operands           *)
  Places,         (* the addresses of calls                                *)
  MaxAdded        (* bound: the closed values added                        *)

VARIABLES
  call,           (* what was written                                      *)
  inst,           (* the call: [op, ty, args]                              *)
  place,          (* its address                                           *)
  wrappers,       (* llvm_to_memoir: the class of the wrapper at a place   *)
  phase,          (* "written", "raised", "retyped" or "stopped"           *)
  added           (* the values that the fold was made to close on         *)

operandVars == <<call, inst, place, wrappers, phase, added>>

-----------------------------------------------------------------------------
(* Keywords.                                                               *)

Kw(name) == <<"kw", name>>

is_keyword(operand) == operand[1] = "kw"

(* The first keyword behind the k-th operand, or the end of the operands.  *)
find_end_of_keyword(args, k) ==
  Min({n \in k + 1 .. Len(args) : is_keyword(args[n])} \cup {Len(args) + 1})

kw_begin(args) == find_end_of_keyword(args, 0)

(* Where a keyword is, or 0.                                               *)
get_keyword(args, name) ==
  LET found == {n \in DOMAIN args : args[n] = Kw(name)} IN IF found = {} THEN 0 ELSE Min(found)

(* The operands of a keyword.                                              *)
Under(args, name) ==
  LET k == get_keyword(args, name)
  IN  IF k = 0 THEN <<>> ELSE SubSeq(args, k + 1, find_end_of_keyword(args, k) - 1)

-----------------------------------------------------------------------------
(* Types: <<"u", width>>, <<"i", width>>, <<"ptr">>, <<"void">>,           *)
(* <<"ref", type>>, <<"tuple", types>>, <<"seq", element, selection>>,     *)
(* <<"assoc", key, value, selection>> and <<"array", element, length>>.    *)

IsCollectionType(t) == t[1] \in {"assoc", "seq", "array"}

ElementOf(t) == IF t[1] = "assoc" THEN t[3] ELSE t[2]

Stopped == <<"stopped">>

SelectionOperands(sel) == IF sel = "" THEN <<>> ELSE <<Kw("selection"), <<"val", sel>> >>

(* The call that makes a type, by the macros of cmemoir.h or, without the  *)
(* types it does not know, by the builder's CreateTypeInst.                *)
RECURSIVE TypeCall(_, _)
TypeCall(t, builder) ==
  CASE t[1] \in {"u", "i"} ->
         IF builder /\ t = <<"u", 2>> THEN Stopped
         ELSE <<"type", IF t[2] = 1 THEN <<"u", 1>> ELSE t, <<>> >>
    [] t[1] \in {"ptr", "void"} -> <<"type", t, <<>> >>
    [] t[1] = "array" ->
         IF builder THEN Stopped
         ELSE <<"type", "array", <<TypeCall(t[2], builder), <<"const", t[3]>> >> >>
    [] t[1] = "ref" -> <<"type", "ref", <<TypeCall(t[2], builder)>> >>
    [] t[1] = "tuple" -> <<"type", "tuple", [i \in DOMAIN t[2] |-> TypeCall(t[2][i], builder)]>>
    [] t[1] = "assoc" ->
         <<"type", "assoc",
           <<TypeCall(t[2], builder), TypeCall(t[3], builder)>> \o SelectionOperands(t[4])>>
    [] t[1] = "seq" -> <<"type", "seq", <<TypeCall(t[2], builder)>> \o SelectionOperands(t[3])>>

CreateTypeInst(t) == TypeCall(t, TRUE)

(* What cannot be made stops the compiler, wherever in the type it is.     *)
RECURSIVE Made(_)
Made(operand) ==
  operand # Stopped /\ (operand[1] = "type" => \A i \in DOMAIN operand[3] : Made(operand[3][i]))

SelectionOf(args) == IF Under(args, "selection") = <<>> THEN "" ELSE Under(args, "selection")[1][2]

(* type_of such a call, by the accessors of its class.                     *)
RECURSIVE TypeOf(_)
TypeOf(operand) ==
  LET op == operand[2]
      args == operand[3]
  IN  CASE op = "ref" -> <<"ref", TypeOf(args[1])>>
        [] op = "tuple" -> <<"tuple", [i \in 1 .. kw_begin(args) - 1 |-> TypeOf(args[i])]>>
        [] op = "assoc" -> <<"assoc", TypeOf(args[1]), TypeOf(args[2]), SelectionOf(args)>>
        [] op = "seq" -> <<"seq", TypeOf(args[1]), SelectionOf(args)>>
        [] op = "array" -> <<"array", TypeOf(args[1]), args[2][2]>>
        [] OTHER -> op

(* The functions for reads, writes and folds of a type: the name of the    *)
(* type in that of the function.                                           *)
EnumForPrimitiveType(t) ==
  CASE t[1] \in {"u", "i"} -> IF t = <<"u", 2>> THEN Stopped ELSE IF t[2] = 1 THEN <<"u", 1>> ELSE t
    [] t[1] \in {"ptr", "ref"} -> <<t[1]>>
    [] OTHER -> Stopped

EnumForType(t) ==
  CASE t[1] = "ref" -> Stopped
    [] IsCollectionType(t) -> <<"ref">>
    [] OTHER -> EnumForPrimitiveType(t)

-----------------------------------------------------------------------------
(* cmemoir.h: the call that a macro becomes.  memoir_closed and            *)
(* memoir_reverse are written among the last operands of a fold.           *)

ClosedOperands(c) == IF c.closed = <<>> THEN <<>> ELSE <<Kw("closed")>> \o c.closed

Reversed(c, where) == IF c.reverse = where THEN <<Kw("reverse")>> ELSE <<>>

RangeOperands(c) == IF c.range = <<>> THEN <<>> ELSE <<Kw("range")>> \o c.range

InputOperands(c) == <<Kw("input")>> \o c.input

Folding == <<"body">>

Expanded(c) ==
  CASE c.macro \in {"read", "get", "size", "has"} ->
         [op |-> c.macro, ty |-> c.ty, args |-> <<c.obj>> \o c.at]
    [] c.macro = "write" -> [op |-> "mut_write", ty |-> c.ty, args |-> <<c.val, c.obj>> \o c.at]
    [] c.macro = "clear" -> [op |-> "mut_clear", ty |-> c.ty, args |-> <<c.obj>> \o c.at]
    [] c.macro = "insert" -> [op |-> "mut_insert", ty |-> c.ty, args |-> <<c.obj>> \o c.at]
    [] c.macro = "insert_value" ->
         [op |-> "mut_insert", ty |-> c.ty, args |-> <<c.obj>> \o c.at \o <<Kw("value"), c.val>>]
    [] c.macro = "push_back" ->
         [op |-> "mut_insert", ty |-> c.ty, args |-> <<c.obj, <<"end">> >> \o c.at \o <<Kw("value"), c.val>>]
    [] c.macro = "insert_range" ->
         [op |-> "mut_insert", ty |-> c.ty, args |-> <<c.obj>> \o c.at \o InputOperands(c) \o RangeOperands(c)]
    [] c.macro = "remove" -> [op |-> "mut_remove", ty |-> c.ty, args |-> <<c.obj>> \o c.at \o RangeOperands(c)]
    [] c.macro = "pop_back" -> [op |-> "mut_remove", ty |-> c.ty, args |-> <<c.obj>> \o c.at \o << <<"end">> >>]
    [] c.macro = "copy" -> [op |-> "copy", ty |-> c.ty, args |-> <<c.obj>> \o c.at \o RangeOperands(c)]
    [] c.macro = "fold" ->
         [op |-> "fold", ty |-> c.ty,
          args |-> <<Folding, c.val, c.obj>> \o Reversed(c, "rfold") \o c.at \o Reversed(c, "before")
                     \o ClosedOperands(c) \o Reversed(c, "after")]
    [] c.macro = "allocate" ->
         [op |-> "allocate", ty |-> c.ty, args |-> <<TypeCall(c.type, FALSE)>> \o c.at \o SelectionOperands(c.selection)]

(* The builder's functions.                                                *)
CreateWriteInst(val, obj, indices) == <<val, obj>> \o indices

OnObject(obj, rest) == <<obj>> \o rest

CreateClearInst(obj, extra_args) == <<obj>>

CreateFoldInst(body, initial, obj, indices, closed) ==
  <<body, initial, obj>> \o indices \o (IF closed = <<>> THEN <<>> ELSE <<Kw("closed")>> \o closed)

Built(c) ==
  CASE c.macro \in {"read", "get", "size", "has", "insert", "remove", "copy"} ->
         [op |-> c.macro, ty |-> IF c.macro = "read" THEN EnumForPrimitiveType(c.type) ELSE c.ty,
          args |-> OnObject(c.obj, c.at \o RangeOperands(c))]
    [] c.macro = "write" ->
         [op |-> "write", ty |-> EnumForPrimitiveType(c.type), args |-> CreateWriteInst(c.val, c.obj, c.at)]
    [] c.macro = "clear" -> [op |-> "clear", ty |-> c.ty, args |-> CreateClearInst(c.obj, c.at)]
    [] c.macro = "fold" ->
         [op |-> "fold", ty |-> EnumForType(c.type),
          args |-> CreateFoldInst(Folding, c.val, c.obj, c.at, c.closed)]
    [] c.macro = "allocate" ->
         [op |-> "allocate", ty |-> c.ty, args |-> <<CreateTypeInst(c.type)>> \o c.at]

-----------------------------------------------------------------------------
(* What the classes read: of the class of the wrapper, not of the call.    *)

Class(op) == op

ObjectNo(class) == CASE class \in {"write", "mut_write"} -> 2 [] class = "fold" -> 3 [] OTHER -> 1

indices(class, args) == SubSeq(args, ObjectNo(class) + 1, kw_begin(args) - 1)

closed(args) == Under(args, "closed")

isReverse(args) == get_keyword(args, "reverse") # 0

(* The type of what some indices lead to.                                  *)
RECURSIVE TypeAt(_, _)
TypeAt(t, at) ==
  IF at = <<>> THEN t
  ELSE TypeAt(IF t[1] = "tuple" THEN t[2][Head(at)[2]] ELSE IF IsCollectionType(t) THEN ElementOf(t) ELSE t,
              Tail(at))

(* The type of an object, whichever of its versions the operand is.        *)
ObjectType(obj) == TypeOfObject[obj[2]]

getElementType(class, i) ==
  IF class \in {"read", "write", "mut_write"} /\ i.ty \notin {<<"u", 2>>, <<"ref">>} THEN i.ty
  ELSE TypeAt(ObjectType(i.args[ObjectNo(class)]), indices(class, i.args))

(* The parameters of the body of a fold, counted from 1: 0 is none.        *)
HasElement(i) == ElementOf(getElementType("fold", i)) # <<"void">>

(* MUTANT: the keyword itself is counted.                                  *)
ClosedArgumentLate(i, use) ==
  LET keyword == get_keyword(i.args, "closed")
  IN  IF keyword = 0 \/ keyword >= use THEN 0
      ELSE use - keyword + (IF HasElement(i) THEN 4 ELSE 3)

(* The parameter that a closed value is handed to.                         *)
getClosedArgument(i, use) ==
  LET keyword == get_keyword(i.args, "closed")
  IN  IF keyword = 0 \/ keyword >= use THEN 0
      ELSE use - keyword + (IF HasElement(i) THEN 3 ELSE 2)

getElementArgument(i) == IF HasElement(i) THEN 3 ELSE 0

ClosedUses(args) ==
  LET keyword == get_keyword(args, "closed")
  IN  IF keyword = 0 THEN {} ELSE keyword + 1 .. find_end_of_keyword(args, keyword) - 1

getOperandForArgument(i, param) ==
  LET found == {use \in ClosedUses(i.args) : getClosedArgument(i, use) = param}
  IN  IF param = 1 THEN 2 ELSE IF found = {} THEN 0 ELSE Min(found)

(* lower_fold: what the body is called with.                               *)
Passed(i) ==
  << <<"accumulator">>, <<"key">> >> \o (IF HasElement(i) THEN << <<"element">> >> ELSE <<>>) \o closed(i.args)

-----------------------------------------------------------------------------
(* MUTANT: the wrapper that was found is returned as it is.                *)
GotFound(ws, at, class) == IF ws[at] = "none" THEN [ws EXCEPT ![at] = class] ELSE ws

(* MemOIRInst::get: a wrapper that is there is made anew in its place.     *)
Got(ws, at, class) == [ws EXCEPT ![at] = class]

Reaching(v) == IF v[1] = "val" /\ v[2] \in DOMAIN TypeOfObject THEN <<"phi", v[2]>> ELSE v

SetOperands(args, which) == [n \in DOMAIN args |-> IF n \in which THEN Reaching(args[n]) ELSE args[n]]

InputUse(args) == LET k == get_keyword(args, "input") IN IF k = 0 THEN {} ELSE {k + 1}

(* The visitors of SSA construction; the cast of a closed integer to the   *)
(* width of its parameter is left out.                                     *)
Raised(class, i) ==
  LET args == i.args
      orig == args[ObjectNo(class)]
      curr == Reaching(orig)
      rest == SubSeq(SetOperands(args, InputUse(args)), ObjectNo(class) + 1, Len(args))
  IN  CASE class = "mut_write" ->
             [op |-> "write", ty |-> EnumForPrimitiveType(getElementType(class, i)),
              args |-> CreateWriteInst(args[1], curr, indices(class, args))]
        [] class = "mut_insert" -> [i EXCEPT !.op = "insert", !.args = OnObject(curr, rest)]
        [] class = "mut_remove" -> [i EXCEPT !.op = "remove", !.args = OnObject(curr, rest)]
        [] class = "mut_clear" ->
             [i EXCEPT !.op = "clear", !.args = CreateClearInst(curr, indices(class, args))]
        [] class \in {"read", "get", "has"} -> [i EXCEPT !.args = SetOperands(args, {1})]
        [] class = "fold" -> [i EXCEPT !.args = SetOperands(args, {2, 3} \cup ClosedUses(args))]
        [] OTHER -> [i EXCEPT !.args = SetOperands(args, DOMAIN args)]

is_primitive_type(t) == t[1] \in {"u", "i", "ptr"}

(* prepare_keywords: the value of an insertion is coerced to the element's *)
(* type, which has to be primitive.                                        *)
CannotCoerce(class, i) ==
  /\ class \in {"mut_insert", "mut_remove"} /\ get_keyword(i.args, "value") # 0
  /\ ~is_primitive_type(getElementType(class, i))

Rebuilt(class) == class \in {"mut_write", "mut_insert", "mut_remove", "mut_clear"}

(* Where the wrapper of the call is made anew, the class is that of it; a  *)
(* call that replaces another has a place of its own, and the map of the   *)
(* wrappers goes with the pass.                                            *)
Raise ==
  /\ phase = "written"
  /\ LET class == Got(wrappers, place, Class(inst.op))[place]
         made == Raised(class, inst)
     IN  /\ inst' = made
         /\ phase' = IF made.ty = Stopped \/ CannotCoerce(class, inst) THEN "stopped" ELSE "raised"
         /\ place' \in IF Rebuilt(class) THEN Places \ {place} ELSE {place}
         /\ wrappers' = [at \in Places |-> IF at = place' THEN Class(made.op) ELSE "none"]
  /\ UNCHANGED <<call, added>>

Extra(n) == <<"val", "extra", n>>

(* ReifyTempArgs: one value more behind the operands, after the keyword if *)
(* the fold had none; the call is another, maybe where one was before.     *)
Close ==
  /\ phase = "raised" /\ inst.op = "fold" /\ added < MaxAdded
  /\ LET keyword == IF get_keyword(inst.args, "closed") = 0 THEN <<Kw("closed")>> ELSE <<>>
     IN  inst' = [inst EXCEPT !.args = @ \o keyword \o <<Extra(added + 1)>>]
  /\ added' = added + 1
  /\ place' \in Places \ {place}
  /\ wrappers' = Got(wrappers, place', Class(inst.op))
  /\ UNCHANGED <<call, phase>>

(* The type of an allocation made anew from the type it has.               *)
Retype ==
  /\ phase = "raised" /\ inst.op = "allocate"
  /\ LET made == CreateTypeInst(TypeOf(inst.args[1]))
     IN  IF Made(made) THEN inst' = [inst EXCEPT !.args[1] = made] /\ phase' = "retyped"
         ELSE phase' = "stopped" /\ UNCHANGED inst
  /\ UNCHANGED <<call, place, wrappers, added>>

Ended ==
  /\ phase # "written"
  /\ UNCHANGED operandVars

(* The calls that the compiler finds, with what was at these places        *)
(* before.                                                                 *)
OperandsInit ==
  /\ call \in Calls
  /\ inst = IF call.via = "c" THEN Expanded(call) ELSE Built(call)
  /\ inst.ty # Stopped /\ \A n \in DOMAIN inst.args : Made(inst.args[n])
  /\ place = CHOOSE at \in Places : TRUE
  /\ wrappers \in [Places -> {"none", "write", "read"}]
  /\ phase = "written" /\ added = 0

OperandsNext == Raise \/ Close \/ Retype \/ Ended

-----------------------------------------------------------------------------
(* What is written, and what the classes read.                             *)
IndicesOf(c) == IF c.macro \in {"push_back", "pop_back"} THEN c.at \o << <<"end">> >> ELSE c.at

Meant ==
  LET now(v) == IF phase = "written" THEN v ELSE Reaching(v)
      each(s) == [n \in DOMAIN s |-> now(s[n])]
      c == call
  IN  [object |-> IF c.macro = "allocate" THEN <<>> ELSE <<now(c.obj)>>,
       indices |-> IndicesOf(c),
       value |-> IF c.macro \in {"write", "insert_value", "push_back"} THEN <<c.val>> ELSE <<>>,
       initial |-> IF c.macro = "fold" THEN <<now(c.val)>> ELSE <<>>,
       range |-> c.range,
       input |-> each(c.input),
       closed |-> each(c.closed) \o [n \in 1 .. added |-> Extra(n)],
       reverse |-> c.reverse # "",
       type |-> IF c.macro = "allocate" THEN c.type ELSE <<>>,
       selection |-> c.selection]

Said(class, i) ==
  LET args == i.args IN
  [object |-> IF class = "allocate" THEN <<>> ELSE <<args[ObjectNo(class)]>>,
   indices |-> indices(class, args),
   value |-> IF class \in {"write", "mut_write"} THEN <<args[1]>> ELSE Under(args, "value"),
   initial |-> IF class = "fold" THEN <<args[2]>> ELSE <<>>,
   range |-> Under(args, "range"),
   input |-> Under(args, "input"),
   closed |-> closed(args),
   reverse |-> isReverse(args),
   type |-> IF class = "allocate" THEN TypeOf(args[1]) ELSE <<>>,
   selection |-> IF class = "allocate" THEN SelectionOf(args) ELSE ""]

(* What they do not handle: the indices of a clear are dropped when it is  *)
(* rebuilt, those of memoir_rfold are behind its keyword, those of         *)
(* memoir_push_back behind the end, and what is added to a fold whose last *)
(* keyword is "reverse" is not closed on.                                  *)
Handled ==
  /\ call.macro = "clear" => call.at = <<>>
  /\ call.reverse = "rfold" \/ call.macro = "push_back" => call.at = <<>>
  /\ call.reverse = "after" => added = 0

(* Types with two bits, unsigned, and arrays cannot be made again, neither *)
(* can calls be found that write them.                                     *)
RECURSIVE Remade(_)
Remade(t) ==
  CASE t[1] = "array" \/ t = <<"u", 2>> -> FALSE
    [] t[1] = "tuple" -> \A n \in DOMAIN t[2] : Remade(t[2][n])
    [] t[1] = "assoc" -> Remade(t[2]) /\ Remade(t[3])
    [] t[1] \in {"seq", "ref"} -> Remade(t[2])
    [] OTHER -> TRUE

(* The classes read what was written, when the call is seen and whatever   *)
(* was at its place before, and the wrapper that is there is of its class  *)
(* (MemOIRInst::get, AccessInst::indices, Keyword).                        *)
OperandsAreRead ==
  Handled /\ phase # "stopped" =>
    LET ws == Got(wrappers, place, Class(inst.op)) IN Said(ws[place], inst) = Meant

(* The body of a fold is called with each closed value for the parameter   *)
(* that getClosedArgument tells, which getOperandForArgument leads back    *)
(* from, and with an element where getElementArgument is.                  *)
BodiesAreGivenWhatTheyTake ==
  inst.op = "fold" /\ Handled =>
    /\ \A use \in ClosedUses(inst.args) :
         LET param == getClosedArgument(inst, use)
         IN  /\ param \in DOMAIN Passed(inst) /\ Passed(inst)[param] = inst.args[use]
             /\ getOperandForArgument(inst, param) = use
    /\ \A param \in DOMAIN Passed(inst) :
         /\ (getElementArgument(inst) = param) = (Passed(inst)[param] = <<"element">>)
         /\ param > 3 => getOperandForArgument(inst, param) # 0

(* A call that reads or writes an element by the function for its type is  *)
(* known to do so, before and after it is rebuilt, and the compiler stops  *)
(* at what it cannot make only.                                            *)
ElementsAreKnown ==
  /\ inst.op \in {"read", "write", "mut_write"} /\ phase # "stopped" =>
       LET t == TypeAt(ObjectType(call.obj), call.at)
       IN  EnumForPrimitiveType(t) = inst.ty => EnumForPrimitiveType(getElementType(inst.op, inst)) = inst.ty
  /\ phase = "stopped" /\ call.type # <<>> => ~Remade(call.type)
  /\ phase = "stopped" /\ call.type = <<>> =>
       ~is_primitive_type(TypeAt(ObjectType(call.obj), IndicesOf(call)))
=============================================================================
