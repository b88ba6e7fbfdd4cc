----------------------------- MODULE MutateType -----------------------------
(***************************************************************************)
(* How the types of allocations are changed (mutate_types, mutate_type):   *)
(* the functions with encoded parameters are cloned, then each allocation  *)
(* gets its type, with the assertions, accesses and bodies of folds that   *)
(* its redefinitions reach, and bodies are cloned for their parameters.    *)
(*                                                                         *)
(* Types are [kind, ...]: "prim" (name), "tuple" (fields), "seq" (elem,    *)
(* sel) and "assoc" (key, elem, sel), sel being the selection or Null.     *)
(* A program has for each function its parameters and instructions,        *)
(*   [op, def, obj, path, in, fun, type]:                                  *)
(*   alloc, assert (type), read, write (type: what the called function     *)
(*   takes), insert, phi (in), retphi, fold (in: initial value, closed     *)
(*   values; fun: body), call (in, fun), copy,                             *)
(* the LLVM types of the parameters, which of them are encoded, the bodies *)
(* without a parameter for the element, and the objects to enumerate.      *)
(* A path has a field for a tuple and ELEMS for a collection; copy c of a  *)
(* function F is <<F, c>>, and its values are <<F, c, name>>.              *)
(* No association becomes a sequence: convert_to_sequence_type has no      *)
(* caller.                                                                 *)
(***************************************************************************)
EXTENDS Integers, Sequences, FiniteSets, SequencesExt, FiniteSetsExt, TLC

CONSTANTS
  Mutations,     (* the programs                                           *)
  Size,          (* the type of identifiers                                *)
  LLVMType(_),   (* the LLVM type of a type                                *)
  Null

VARIABLES
  p,         (* the program                                                *)
  current,   (* the copy of each function that is called                   *)
  typed,     (* the type of each instruction <<F, n, c>>                   *)
  param,     (* the LLVM type of parameter j of a copy, <<F, j, c>>        *)
  wanted,    (* allocs_to_mutate: the type of each allocation <<F, n>>     *)
  handle,    (* the instruction that allocs_to_mutate has for it           *)
  pending,   (* the allocations not yet mutated                            *)
  toClone,   (* the functions to clone, with parameters and types          *)
  status     (* "collect", "params", "types", "done", "crashed"            *)

mtVars == <<p, current, typed, param, wanted, handle, pending, toClone, status>>

ELEMS == -1

-----------------------------------------------------------------------------
(* Types.                                                                  *)
IsCollection(t) == t.kind \in {"seq", "assoc"}

Nested(t, o) ==
  IF IsCollection(t) THEN t.elem ELSE IF t.kind = "tuple" THEN t.fields[o] ELSE t

(* Object::type and Difference::convert_type, which stays where there is   *)
(* nothing to go down to.                                                  *)
TypeAt(t, offsets) == FoldLeft(Nested, t, offsets)

(* The offset -1 of a tuple is out of bounds.                              *)
RECURSIVE InBounds(_, _)
InBounds(t, offsets) ==
  \/ offsets = <<>>
  \/ /\ IsCollection(t) \/ (t.kind = "tuple" /\ offsets[1] \in DOMAIN t.fields)
     /\ InBounds(Nested(t, offsets[1]), Tail(offsets))

Implementation(t, nested) ==
  IF t.sel # Null THEN t.sel
  ELSE IF t.elem.kind = "void" THEN IF nested THEN "nested set" ELSE "set" ELSE "map"

(* convert_element_type: Size at the offsets, or as the keys there.        *)
RECURSIVE Converted(_, _, _)
Converted(t, offsets, nested) ==
  CASE t.kind = "tuple" ->
         [t EXCEPT !.fields[offsets[1]] = Converted(@, Tail(offsets), nested)]
    [] t.kind = "seq" -> [t EXCEPT !.elem = Converted(@, Tail(offsets), TRUE)]
    [] t.kind = "assoc" /\ offsets = <<>> ->
         [t EXCEPT !.key = Size, !.sel = Implementation(t, nested)]
    [] t.kind = "assoc" -> [t EXCEPT !.elem = Converted(@, Tail(offsets), TRUE)]
    [] OTHER -> Size

(* type_differences: where the types differ, and in what, in order.        *)
Selections(at, base, other) ==
  IF base.sel = other.sel THEN <<>> ELSE <<[differs |-> "selection", at |-> at]>>

RECURSIVE Differences(_, _, _)
Differences(at, base, other) ==
  CASE base = other -> <<>>
    [] base.kind = "prim" -> <<[differs |-> "type", at |-> at]>>
    [] base.kind = "tuple" ->
         FlattenSeq([i \in DOMAIN base.fields |->
                       Differences(Append(at, i), base.fields[i], other.fields[i])])
    [] base.kind = "assoc" ->
         Differences(at, base.key, other.key)
           \o Differences(Append(at, ELEMS), base.elem, other.elem)
           \o Selections(at, base, other)
    [] base.kind = "seq" ->
         Differences(Append(at, ELEMS), base.elem, other.elem) \o Selections(at, base, other)

(* Differences::find takes the first at the offsets.                       *)
TypeDiffers(diffs, at) ==
  \E i \in DOMAIN diffs : /\ diffs[i].at = at /\ diffs[i].differs = "type"
                          /\ \A j \in 1 .. i - 1 : diffs[j].at # at

-----------------------------------------------------------------------------
(* The program.                                                            *)
Fns == DOMAIN p.code
Sites == UNION {{<<F, n>> : n \in DOMAIN p.code[F]} : F \in Fns}
At(x) == p.code[x[1]][x[2]]
Allocs == {s \in Sites : At(s).op = "alloc"}

Param(F, j) == <<F, current[F], p.params[F][j]>>
HasElem(F) == F \notin p.keysOnly
ClosedParam(F, j) == Param(F, (IF HasElem(F) THEN 2 ELSE 1) + j)

UsersOf(v) == {<<v[1], n, v[2]>> : n \in DOMAIN p.code[v[1]]}
ObjectOf(x) == <<x[1], x[3], At(x).obj>>
DefOf(x) == <<x[1], x[3], At(x).def>>
Takes(x, v) == {j \in DOMAIN At(x).in : <<x[1], x[3], At(x).in[j]>> = v}

(* gather_redefinitions, one user x of the object o in v.                  *)
RedefinedBy(x, v, o) ==
  LET i == At(x) IN
  CASE i.op = "phi" -> {<<DefOf(x), o>> : j \in Takes(x, v)}
    [] i.op \in {"retphi", "write", "insert"} -> {<<DefOf(x), o>> : y \in {ObjectOf(x)} \cap {v}}
    [] i.op = "call" -> {<<Param(i.fun, j), o>> : j \in Takes(x, v)}
    [] i.op = "fold" ->
         (UNION {IF j = 1 THEN {<<Param(i.fun, 1), o>>, <<DefOf(x), o>>}
                         ELSE {<<ClosedParam(i.fun, j), o>>} : j \in Takes(x, v)})
           \cup {<<Param(i.fun, 3), o \o i.path \o <<ELEMS>> >> :
                   y \in {z \in {v} : ObjectOf(x) = z /\ HasElem(i.fun)}}
    [] OTHER -> {}

RECURSIVE Gathered(_, _)
Gathered(seen, new) ==
  IF new = {} THEN seen
  ELSE Gathered(seen \cup new,
                (UNION {UNION {RedefinedBy(x, r[1], r[2]) : x \in UsersOf(r[1])} : r \in new})
                  \ (seen \cup new))

Redefinitions(x) == Gathered({}, {<<DefOf(x), <<>> >>})

-----------------------------------------------------------------------------
(* What mutate_type changes.                                               *)
(* update_assertions and update_accesses: instructions on a redefinition,  *)
(* with their new types.                                                   *)
OnObjects(redefs, ops) ==
  {<<x, r[2]>> : <<x, r>> \in {<<y, r>> \in UNION {UsersOf(r[1]) \X {r} : r \in redefs} :
                                 At(y).op \in ops /\ ObjectOf(y) = r[1]}}

Asserted(redefs, t) == {<<u[1], TypeAt(t, u[2])>> : u \in OnObjects(redefs, {"assert"})}

Accessed(redefs, t) ==
  {<<u[1], TypeAt(t, u[2] \o At(u[1]).path)>> : u \in OnObjects(redefs, {"read", "write"})}

(* update_phis: the PHIs that take v and have another LLVM type.           *)
RECURSIVE Phis(_, _, _, _)
Phis(types, seen, vs, lt) ==
  LET new == {x \in UNION {UsersOf(v) : v \in vs} :
                At(x).op = "phi" /\ (\E v \in vs : Takes(x, v) # {}) /\ types[x] # lt} \ seen
  IN  IF new = {} THEN seen ELSE Phis(types, seen \cup new, {DefOf(x) : x \in new}, lt)

PhisOfReads(types, accesses) ==
  UNION {Phis(types, {}, {DefOf(u[1])}, LLVMType(u[2])) \X {LLVMType(u[2])} :
           u \in {w \in accesses : At(w[1]).op = "read" /\ LLVMType(w[2]) # LLVMType(types[w[1]])}}

Retyped(types, changes) ==
  [x \in DOMAIN types |->
     IF \E u \in changes : u[1] = x THEN (CHOOSE u \in changes : u[1] = x)[2] ELSE types[x]]

(* gather_offsets: the type it goes by stays that of the object, and an    *)
(* index that is no constant does not select a field.                      *)
OffsetsOf(t, path) == [i \in DOMAIN path |-> IF t.kind = "tuple" THEN path[i] ELSE ELEMS]
NoField(t, path) == t.kind = "tuple" /\ \E i \in DOMAIN path : path[i] = ELEMS

(* The LLVM type of the key, Null where the parent is no collection.       *)
KeyOf(t) ==
  CASE t.kind = "assoc" -> LLVMType(t.key) [] t.kind = "seq" -> LLVMType(Size) [] OTHER -> Null

(* find_arguments, the fold x over the object o.                           *)
KeyArgument(x, o, offsets, diffs, t) ==
  IF TypeDiffers(diffs, offsets)
  THEN {<<At(x).fun, 2, KeyOf(TypeAt(TypeAt(t, o), offsets))>>} ELSE {}

ElementArgument(x, offsets, diffs, t) ==
  IF HasElem(At(x).fun) /\ TypeDiffers(diffs, Append(offsets, ELEMS))
  THEN {<<At(x).fun, 3, LLVMType(TypeAt(TypeAt(t, offsets), Append(offsets, ELEMS)))>>} ELSE {}

FoldOffsets(u, t) == u[2] \o OffsetsOf(TypeAt(t, u[2]), At(u[1]).path)

Arguments(folds, diffs, t) ==
  UNION {KeyArgument(u[1], u[2], FoldOffsets(u, t), diffs, t)
           \cup ElementArgument(u[1], FoldOffsets(u, t), diffs, t) : u \in folds}

(* Where find_arguments does not come to a type.                           *)
Fails(folds, diffs, t) ==
  \/ \E u \in folds : \/ NoField(TypeAt(t, u[2]), At(u[1]).path)
                      \/ HasElem(At(u[1]).fun) /\ ~InBounds(t, FoldOffsets(u, t))
  \/ \E a \in Arguments(folds, diffs, t) : a[3] = Null

-----------------------------------------------------------------------------
(* Cloning F: its instructions and parameters, with new parameter types.   *)
NewTypes(F, c, types) ==
  types @@ [x \in {<<F, n, c + 1>> : n \in DOMAIN p.code[F]} |-> types[<<F, x[2], c>>]]

NewParams(F, c, args) ==
  param @@ [x \in {<<F, j, c + 1>> : j \in DOMAIN p.params[F]} |->
              IF \E a \in args : a[2] = x[2] THEN (CHOOSE a \in args : a[2] = x[2])[3]
              ELSE param[<<F, x[2], c>>]]

(* update_arguments has the PHIs of the new parameters follow.             *)
PhisOfParams(F, c, types, params) ==
  UNION {Phis(types, {}, {<<F, c, p.params[F][j]>>}, params[<<F, j, c>>]) \X {params[<<F, j, c>>]} :
           j \in DOMAIN p.params[F]}

Init ==
  /\ p \in Mutations
  /\ current = [F \in Fns |-> 0]
  /\ typed = [x \in {<<s[1], s[2], 0>> : s \in Sites} |-> At(x).type]
  /\ param = [x \in UNION {{<<F, j, 0>> : j \in DOMAIN p.params[F]} : F \in Fns} |->
                p.paramTypes[x[1]][x[2]]]
  /\ wanted = <<>> /\ handle = <<>> /\ pending = {} /\ toClone = {} /\ status = "collect"

(* collect_types_to_mutate: encoded parameters of other types than Size,   *)
(* and the new types of the allocations.                                   *)
CollectTypesToMutate ==
  /\ status = "collect"
  /\ toClone' = {<<a[1], a[2], LLVMType(Size)>> :
                   a \in {e \in p.encoded : param[<<e[1], e[2], 0>>] # LLVMType(Size)}}
  /\ pending' = {o[1] : o \in p.objects}
  /\ wanted' = [s \in pending' |->
                  FoldSet(LAMBDA o, t : Converted(t, o[2], FALSE), At(s).type,
                          {o \in p.objects : o[1] = s})]
  /\ handle' = [s \in pending' |-> <<s[1], s[2], 0>>]
  /\ status' = "params"
  /\ UNCHANGED <<p, current, typed, param>>

(* mutate_found_types clones a function for its parameters: the allocations *)
(* to mutate stay those of the old function, which goes in the end.        *)
CloneForParams(F) ==
  /\ status = "params"
  /\ \E a \in toClone : a[1] = F
  /\ typed' = NewTypes(F, current[F], typed)
  /\ param' = NewParams(F, current[F], {a \in toClone : a[1] = F})
  /\ current' = [current EXCEPT ![F] = @ + 1]
  /\ toClone' = {a \in toClone : a[1] # F}
  /\ UNCHANGED <<p, wanted, handle, pending, status>>

ParamsCloned ==
  /\ status = "params" /\ toClone = {}
  /\ status' = "types"
  /\ UNCHANGED <<p, current, typed, param, wanted, handle, pending, toClone>>

(* mutate_type up to update_arguments; allocations come in the order of    *)
(* the classes, which is not determined.                                   *)
Mutate(x, t, diffs, redefs, changes) ==
  /\ typed' = Retyped(typed, {<<x, t>>} \cup Asserted(redefs, t) \cup changes
                               \cup PhisOfReads(typed, changes))
  /\ IF (\A i \in DOMAIN diffs : diffs[i].differs # "type")
     THEN toClone' = {} /\ status' = "types"
     ELSE IF Fails(OnObjects(redefs, {"fold"}), diffs, t)
     THEN toClone' = {} /\ status' = "crashed"
     ELSE toClone' = Arguments(OnObjects(redefs, {"fold"}), diffs, t) /\ status' = "types"

MutateDiffering(x, t, diffs, redefs) ==
  Mutate(x, t, diffs, redefs,
         IF \A i \in DOMAIN diffs : diffs[i].differs # "type" THEN {} ELSE Accessed(redefs, t))

MutateType(s) ==
  /\ status = "types" /\ toClone = {} /\ s \in pending
  /\ pending' = pending \ {s}
  /\ IF typed[handle[s]] = wanted[s] THEN UNCHANGED <<typed, toClone, status>>
     ELSE MutateDiffering(handle[s], wanted[s], Differences(<<>>, typed[handle[s]], wanted[s]),
                          Redefinitions(handle[s]))
  /\ UNCHANGED <<p, current, param, wanted, handle>>

(* MUTANT: the callback is default_on_func_clone.                          *)
NotTold(F, c) == handle

(* The callback: allocations still to be mutated are those of the clone.   *)
OnFuncClone(F, c) ==
  [s \in DOMAIN handle |->
     IF s \in pending /\ handle[s][1] = F /\ handle[s][3] = c
     THEN <<F, s[2], c + 1>> ELSE handle[s]]

(* update_arguments, one function: the old one is deleted.                 *)
UpdateArguments(F) ==
  /\ status = "types"
  /\ \E a \in toClone : a[1] = F
  /\ param' = NewParams(F, current[F], {a \in toClone : a[1] = F})
  /\ current' = [current EXCEPT ![F] = @ + 1]
  /\ typed' = Retyped(NewTypes(F, current[F], typed),
                      PhisOfParams(F, current'[F], NewTypes(F, current[F], typed), param'))
  /\ handle' = OnFuncClone(F, current[F])
  /\ toClone' = {a \in toClone : a[1] # F}
  /\ UNCHANGED <<p, wanted, pending, status>>

(* The functions that were cloned for their parameters go.                 *)
CleanUp ==
  /\ status = "types" /\ toClone = {} /\ pending = {}
  /\ status' = "done"
  /\ UNCHANGED <<p, current, typed, param, wanted, handle, pending, toClone>>

Terminated == status \in {"done", "crashed"} /\ UNCHANGED mtVars

MTNext ==
  \/ CollectTypesToMutate
  \/ \E F \in Fns : CloneForParams(F)
  \/ ParamsCloned
  \/ \E s \in pending : MutateType(s)
  \/ \E F \in Fns : UpdateArguments(F)
  \/ CleanUp
  \/ Terminated

-----------------------------------------------------------------------------
(* Allocations in a function that is cloned for its parameters.            *)
Lost(s) == \E e \in p.encoded : e[1] = s[1] /\ p.paramTypes[e[1]][e[2]] # LLVMType(Size)

Current(s) == <<s[1], s[2], current[s[1]]>>

FoldsOn(s) == OnObjects(Redefinitions(Current(s)), {"fold"})

(* The path of the fold goes through a tuple and through collections.      *)
MixedPath(s, u) ==
  \E i \in DOMAIN At(u[1]).path :
    IsCollection(TypeAt(wanted[s], u[2] \o SubSeq(At(u[1]).path, 1, i - 1)))
      # IsCollection(TypeAt(wanted[s], u[2]))

(* Folds that find_arguments takes for others: on an element of an outer   *)
(* fold, and through both tuples and collections.                          *)
Mistaken(s) == {u \in FoldsOn(s) : u[2] # <<>> \/ MixedPath(s, u)}

Kept == {s \in DOMAIN wanted : ~Lost(s)}
MistakenBodies == UNION {{At(u[1]).fun : u \in Mistaken(s)} : s \in DOMAIN wanted}

AccessesAgree(s) ==
  \A u \in Accessed(Redefinitions(Current(s)), wanted[s])
       \cup Asserted(Redefinitions(Current(s)), wanted[s]) : typed[u[1]] = u[2]

BodiesAgree(s) ==
  \A u \in FoldsOn(s) \ Mistaken(s) :
    LET t == TypeAt(wanted[s], u[2] \o At(u[1]).path)
        F == At(u[1]).fun
    IN  /\ param[<<F, 2, current[F]>>] = KeyOf(t)
        /\ HasElem(F) => param[<<F, 3, current[F]>>] = LLVMType(t.elem)

(* A PHI has the type of what it joins.                                    *)
Joining == {Current(s) : s \in {y \in Sites : At(y).op = "phi"}}

PhiAgrees(x) ==
  /\ \A y \in {Current(s) : s \in {z \in Sites : z[1] = x[1] /\ At(z).op \in {"read", "phi"}}} :
       Takes(x, DefOf(y)) # {} => typed[x] = (IF y \in Joining THEN typed[y] ELSE LLVMType(typed[y]))
  /\ \A j \in DOMAIN p.params[x[1]] :
       Takes(x, Param(x[1], j)) # {} => typed[x] = param[<<x[1], j, x[3]>>]

(* In the end each allocation has the type that enumeration wants, in the  *)
(* copies of the functions that are left, and so have, through all the     *)
(* cloning, the functions that its accesses call, the assertions, the      *)
(* parameters of folds and the PHIs on the way; except for an allocation   *)
(* in a function with an encoded parameter of another type, which is       *)
(* mutated in the copy that goes, and for the bodies of the folds that     *)
(* find_arguments mistakes; and only on these it fails.                    *)
MutatedTypesAgree ==
  /\ status = "done" =>
       /\ \A x \in Joining : x[1] \notin MistakenBodies => PhiAgrees(x)
       /\ \A s \in Kept : /\ typed[Current(s)] = wanted[s]
                          /\ AccessesAgree(s)
                          /\ BodiesAgree(s)
  /\ status = "crashed" => \E s \in DOMAIN wanted : Mistaken(s) # {}
=============================================================================
