----------------------------- MODULE TypeCheck -----------------------------
(***************************************************************************)
(* TypeChecker::type_of: the type of a value is looked for along its       *)
(* definition, by a recursion with a type variable for each PHI and each   *)
(* argument, which a union-find binds.  The recursion is a stack machine.  *)
(* A value of a graph is a record [op, t, of]:                             *)
(*   "typed": an allocation, assertion or type instruction; its type is t; *)
(*   "null":  any other LLVM value, which has no type;                     *)
(*   "arg":   an argument without an assertion;                            *)
(*   "same":  an update, a fold, a UsePHI, a RetPHI or a call: the type of *)
(*            its object, initial value, input or returned value;          *)
(*   "copy":  a copy of an object in a collection;                         *)
(*   "get", "read": a nested object; a reference read from a collection;   *)
(*   "load":  a load, with the values stored to its pointer;               *)
(*   "phi":   a PHI, with its incoming values.                             *)
(* get and read ask for the type of their collection by a call of type_of, *)
(* with a TypeChecker of its own.                                          *)
(***************************************************************************)
EXTENDS Integers, Sequences, FiniteSets

CONSTANTS
  Graphs,     (* functions from values to records                          *)
  Root,       (* the value asked for                                       *)
  Element,    (* the element type of each collection type                  *)
  Referenced, (* the type that each reference type refers to               *)
  MaxDepth    (* bound: the depth of the recursion                         *)

VARIABLES
  g,          (* the graph                                                 *)
  stack,      (* the calls of visit: [val, next, bound, vars]; a call of   *)
              (* type_of keeps the checker of its caller                   *)
  bound,      (* value_bindings: the type variables of PHIs                *)
  vars,       (* type_bindings, a list                                     *)
  ret,        (* what the last call returned, or <<>>                      *)
  status      (* "running", "done", "type error", "refused", "too deep"    *)

checkVars == <<g, stack, bound, vars, ret, status>>

Null == <<"null">>

Type(t) == <<"type", t>>

Var(n) == <<"var", n>>

IsType(t) == t[1] = "type"

IsVar(t) == t[1] = "var"

Top == stack[Len(stack)]

Popped == SubSeq(stack, 1, Len(stack) - 1)

Next_(k) == [stack EXCEPT ![Len(stack)].next = k]

Frame(v) == [val |-> v, next |-> 0, bound |-> <<>>, vars |-> <<>>]

(* find                                                                    *)
Find(bindings, t) ==
  LET up[n \in 0 .. Len(bindings)] ==
        IF n = 0 THEN t
        ELSE LET s == up[n - 1] IN IF IsVar(s) THEN bindings[s[2]] ELSE s
  IN  up[Len(bindings)]

(* unify: two types that are both known must be the same.                  *)
Unifiable(t, u) ==
  LET x == Find(vars, t)
      y == Find(vars, u) IN
  IsType(x) /\ IsType(y) => x = y

(* MUTANT: a type that is found is bound to a variable of its own.         *)
UnifiedBackwards(t, u) ==
  LET x == Find(vars, t)
      y == Find(vars, u) IN
  IF IsVar(x) /\ ~IsType(y) THEN [vars EXCEPT ![x[2]] = y] ELSE vars

(* The variable of either is bound to the other; an unknown type (NULL) is *)
(* what the variable of the first is bound to, too.                        *)
Unified(t, u) ==
  LET x == Find(vars, t)
      y == Find(vars, u) IN
  IF x = y THEN vars
  ELSE IF IsVar(x) THEN [vars EXCEPT ![x[2]] = y]
  ELSE IF IsVar(y) /\ x # Null THEN [vars EXCEPT ![y[2]] = x]
  ELSE vars

-----------------------------------------------------------------------------
Init ==
  /\ g \in Graphs
  /\ stack = <<Frame(Root)>>
  /\ bound = <<>>
  /\ vars = <<>>
  /\ ret = <<>>
  /\ status = "running"

Return(t) == ret' = t /\ stack' = Popped /\ UNCHANGED <<g, status>>

Fail(s) == status' = s /\ UNCHANGED <<g, stack, bound, vars, ret>>

Push(s, v) ==
  /\ stack' = Append(s, Frame(v))
  /\ ret' = <<>>
  /\ UNCHANGED <<g, status>>

Entering(op) ==
  /\ status = "running" /\ stack # <<>> /\ ret = <<>>
  /\ Len(stack) < MaxDepth
  /\ g[Top.val].op = op

Resuming(op) ==
  /\ status = "running" /\ stack # <<>> /\ ret # <<>>
  /\ g[Top.val].op = op

Operand(k) == g[Top.val].of[k]

VisitTyped == Entering("typed") /\ Return(Type(g[Top.val].t)) /\ UNCHANGED <<bound, vars>>

VisitNull == Entering("null") /\ Return(Null) /\ UNCHANGED <<bound, vars>>

VisitArgument ==
  /\ Entering("arg")
  /\ vars' = Append(vars, Var(Len(vars) + 1))
  /\ Return(Var(Len(vars) + 1))
  /\ UNCHANGED bound

(* The call that returns what its operand returns takes its place.         *)
VisitSame == Entering("same") /\ Push(Popped, Operand(1)) /\ UNCHANGED <<bound, vars>>

VisitCopy == Entering("copy") /\ Push(Next_(1), Operand(1)) /\ UNCHANGED <<bound, vars>>

NestedType ==
  /\ Resuming("copy")
  /\ IF IsType(ret) /\ ret[2] \in DOMAIN Element
     THEN Return(Type(Element[ret[2]])) /\ UNCHANGED <<bound, vars>>
     ELSE Fail("refused")

(* getElementType: a TypeChecker of its own.                               *)
VisitAccess ==
  /\ Entering("get") \/ Entering("read")
  /\ Push([stack EXCEPT ![Len(stack)] = [@ EXCEPT !.next = 1, !.bound = bound, !.vars = vars]], Operand(1))
  /\ bound' = <<>>
  /\ vars' = <<>>

ElementType ==
  LET t == IF ret[2] \in DOMAIN Element THEN Element[ret[2]] ELSE ret[2] IN
  /\ Resuming("get") \/ Resuming("read")
  /\ IF ~IsType(ret) THEN Fail("refused")
     ELSE /\ bound' = Top.bound
          /\ vars' = Top.vars
          /\ IF g[Top.val].op = "get" THEN Return(Type(t))
             ELSE IF t \in DOMAIN Referenced THEN Return(Type(Referenced[t]))
             ELSE Return(Null)

(* The first value stored that has a type, known or not yet known.         *)
VisitLoad ==
  \/ /\ Entering("load")
     /\ IF g[Top.val].of = <<>> THEN Return(Null) ELSE Push(Next_(1), Operand(1))
     /\ UNCHANGED <<bound, vars>>
  \/ /\ Resuming("load")
     /\ IF ret # Null \/ Top.next = Len(g[Top.val].of) THEN Return(ret)
        ELSE Push(Next_(Top.next + 1), Operand(Top.next + 1))
     /\ UNCHANGED <<bound, vars>>

(* MUTANT: a PHI that was visited is visited again.                        *)
EnterPHIAgain ==
  LET v == Var(Len(vars) + 1) IN
  /\ Entering("phi")
  /\ vars' = Append(vars, v)
  /\ bound' = [w \in DOMAIN bound \cup {Top.val} |-> IF w = Top.val THEN v ELSE bound[w]]
  /\ Push(Next_(1), Operand(1))

(* visitPHINode: a PHI that was visited is its type variable.              *)
EnterPHI ==
  /\ Entering("phi")
  /\ IF Top.val \in DOMAIN bound THEN Return(bound[Top.val]) /\ UNCHANGED <<bound, vars>>
     ELSE LET v == Var(Len(vars) + 1) IN
          /\ vars' = Append(vars, v)
          /\ bound' = [w \in DOMAIN bound \cup {Top.val} |-> IF w = Top.val THEN v ELSE bound[w]]
          /\ Push(Next_(1), Operand(1))

ResumePHI ==
  LET mine == bound[Top.val]
      k    == Top.next IN
  /\ Resuming("phi")
  /\ IF ~Unifiable(mine, ret) THEN Fail("type error")
     ELSE /\ vars' = Unified(mine, ret)
          /\ UNCHANGED bound
          /\ IF k < Len(g[Top.val].of) THEN Push(Next_(k + 1), Operand(k + 1))
             ELSE Return(Find(Unified(mine, ret), mine))

TooDeep == status = "running" /\ ret = <<>> /\ Len(stack) = MaxDepth /\ Fail("too deep")

Finish ==
  /\ status = "running" /\ stack = <<>>
  /\ status' = "done"
  /\ ret' = IF IsType(ret) THEN ret ELSE Null
  /\ UNCHANGED <<g, stack, bound, vars>>

Done == status # "running" /\ UNCHANGED checkVars

Step ==
  \/ VisitTyped \/ VisitNull \/ VisitArgument \/ VisitSame
  \/ VisitCopy \/ NestedType \/ VisitAccess \/ ElementType
  \/ VisitLoad \/ EnterPHI \/ ResumePHI \/ TooDeep \/ Finish

Next == Step \/ Done

Spec == Init /\ [][Next]_checkVars /\ WF_checkVars(Step)

-----------------------------------------------------------------------------
(* Properties                                                              *)

(* The reference: the types that can reach a value along definitions.      *)
Reaching ==
  LET of(v, near) == UNION {near[g[v].of[k]] : k \in DOMAIN g[v].of}
      elems(ts) == {Element[t] : t \in ts \cap DOMAIN Element}
      flow[n \in 0 .. Cardinality(DOMAIN g)] ==
        IF n = 0 THEN [v \in DOMAIN g |-> {}]
        ELSE LET near == flow[n - 1] IN
             [v \in DOMAIN g |->
                CASE g[v].op = "typed" -> {g[v].t}
                  [] g[v].op \in {"same", "load", "phi"} -> of(v, near)
                  [] g[v].op \in {"copy", "get"} -> elems(of(v, near))
                  [] g[v].op = "read" ->
                       {Referenced[t] : t \in elems(of(v, near)) \cap DOMAIN Referenced}
                  [] OTHER -> {}]
  IN  flow[Cardinality(DOMAIN g)]

(* The values along definitions from v, one step or more.                  *)
Along(v) ==
  LET reach[n \in 0 .. Cardinality(DOMAIN g)] ==
        IF n = 0 THEN {g[v].of[k] : k \in DOMAIN g[v].of}
        ELSE LET near == reach[n - 1] IN
             near \cup UNION {{g[w].of[k] : k \in DOMAIN g[w].of} : w \in near}
  IN  reach[Cardinality(DOMAIN g)]

(* A load or an access whose type depends on itself.                       *)
Endless == \E v \in DOMAIN g : g[v].op \in {"load", "get", "read"} /\ v \in Along(v)

(* The recursion ends, through any cycle of PHIs.                          *)
EndlessOnlyInLoads == status = "too deep" => Endless

TypeOfEnds == <>(status # "running")

(* No type comes to some PHI or argument on the way: a PHI that merges it  *)
(* with others gives it theirs.                                            *)
SomeAreGuessed ==
  \E v \in {Root} \cup Along(Root) : g[v].op \in {"arg", "phi"} /\ Reaching[v] = {}

(* A type that is found is one that reaches the value, and an error in the *)
(* types is reported only where two of them meet, or meet a guess.         *)
FindsAReachingType ==
  /\ status = "done" /\ ret # Null => ret[2] \in Reaching[Root]
  /\ status = "type error" => SomeAreGuessed \/ \E v \in DOMAIN g : Cardinality(Reaching[v]) > 1

(* Nothing on the way is without a type.                                   *)
OnlyKnown ==
  \A v \in {Root} \cup Along(Root) : g[v].op \in {"typed", "arg", "same", "phi"}

(* The types that meet are compared: when nothing on the way is without a  *)
(* type, a value to which two types come is not given one of them.         *)
ConflictsAreFound ==
  status = "done" /\ OnlyKnown => Cardinality(Reaching[Root]) <= 1

(* When one type comes to the value, and nothing on the way is without     *)
(* one, it is found.                                                       *)
TypesAreFound ==
  status = "done" /\ OnlyKnown /\ Cardinality(Reaching[Root]) = 1 => ret # Null

(* "Indexing into non-object type": an object whose type is a collection's *)
(* is never refused.                                                       *)
ObjectsAreNotRefused ==
  status = "refused" /\ g[Top.val].op = "copy" =>
    Reaching[g[Top.val].of[1]] \cap DOMAIN Element = {}
=============================================================================
