------------------------------ MODULE Lowering ------------------------------
(***************************************************************************)
(* What SSADestruction makes of an access to a nested object: calls that   *)
(* fetch the object it is in, then a call on that object.  The program and *)
(* the lowered program run side by side, an instruction at a time: the     *)
(* program on trees, the lowered one on the runtime's heap.                *)
(*                                                                         *)
(* An instruction is [op, obj, type, indices, place, args, input, range,   *)
(* to]: the object by its name, its type, the indices of the element (one  *)
(* of which may be End) and the place they stand for, the value written or *)
(* the sizes, the object of an "input" keyword with indices of its own,    *)
(* the bounds of a "range" keyword, the name of a copy.                    *)
(***************************************************************************)
EXTENDS Integers, Sequences, FiniteSets, SequencesExt, Functions

(***************************************************************************)
(* Nested objects, as a program in MEMOIR sees them and as the runtime     *)
(* stores them.  A type is                                                 *)
(*   <<"value">>, <<"void">>, <<"seq", t>>, <<"assoc", t>> or              *)
(*   <<"tuple", the types of its fields from 0>>,                          *)
(* and an object a function from its indices, keys or field numbers.  To   *)
(* the program, it is one tree.  To the runtime, a collection in a         *)
(* collection is a pointer to a heap object of its own, while a tuple lies *)
(* within its collection, and the fields of a tuple within the tuple, a    *)
(* collection too: a pointer is a heap object and a path into it.          *)
(***************************************************************************)

CONSTANTS
  Vals,       (* the values that a program writes                          *)
  Zero,       (* the value of what C++ default-constructs                  *)
  Undef       (* the value of what a program did not write                 *)

Kind(t) == t[1]

(* The type of an element, and of a field.                                 *)
Inner(t, i) == IF Kind(t) = "tuple" THEN t[2][i] ELSE t[2]

IsCollection(t) == Kind(t) \in {"seq", "assoc"}

IsObject(t) == IsCollection(t) \/ Kind(t) = "tuple"

is_unsized(t) == IsCollection(t)

TypeAt(t, path) == FoldLeft(Inner, t, path)

At(tree, path) == FoldLeft(LAMBDA node, i : node[i], tree, path)

Replaced(tree, path, new) ==
  LET from[n \in 0 .. Len(path)] ==
        IF n = Len(path) THEN new
        ELSE [At(tree, SubSeq(path, 1, n)) EXCEPT ![path[n + 1]] = from[n + 1]]
  IN  from[0]

Length(s) == Cardinality(DOMAIN s)

Empty == [i \in {} |-> 0]

Repeated(n, v) == [i \in 0 .. n - 1 |-> v]

Slice(s, from, to) == [i \in 0 .. to - from - 1 |-> s[from + i]]

Inserted(s, at, new) ==
  [i \in 0 .. Length(s) + Length(new) - 1 |->
     IF i < at THEN s[i] ELSE IF i < at + Length(new) THEN new[i - at] ELSE s[i - Length(new)]]

Without(s, from, to) ==
  [i \in 0 .. Length(s) - (to - from) - 1 |-> IF i < from THEN s[i] ELSE s[i + (to - from)]]

With(m, k, v) == [x \in DOMAIN m \cup {k} |-> IF x = k THEN v ELSE m[x]]

(* What a program finds in an object that it did not fill.                 *)
RECURSIVE Fresh(_)
Fresh(t) ==
  CASE Kind(t) = "tuple" -> [i \in DOMAIN t[2] |-> Fresh(t[2][i])]
    [] IsCollection(t) -> Empty
    [] OTHER -> Undef

(* The places of an object.                                                *)
RECURSIVE Places(_, _)
Places(t, tree) ==
  {<<>>} \cup
    IF ~IsObject(t) THEN {}
    ELSE UNION {{<<i>> \o p : p \in Places(Inner(t, i), tree[i])} : i \in DOMAIN tree}

-----------------------------------------------------------------------------
(* The runtime.  A pointer is [addr, path]; Nil is the null pointer.       *)

Nil == 0

Pointer(a) == [addr |-> a, path |-> <<>>]

Into(ptr, i) == [ptr EXCEPT !.path = Append(@, i)]

Node(h, ptr) == At(h[ptr.addr], ptr.path)

Stored(h, ptr, node) == [h EXCEPT ![ptr.addr] = Replaced(@, ptr.path, node)]

NewAddress(h) == CHOOSE a \in 1 .. Cardinality(DOMAIN h) + 1 : a \notin DOMAIN h

(* What C++ constructs by default, as an element of a collection or as a   *)
(* field of a tuple.                                                       *)
RECURSIVE Default(_, _)
Default(t, in_tuple) ==
  CASE Kind(t) = "tuple" -> [i \in DOMAIN t[2] |-> Default(t[2][i], TRUE)]
    [] IsCollection(t) /\ in_tuple -> Empty
    [] IsCollection(t) /\ ~in_tuple -> Nil
    [] OTHER -> Zero

Element(t) == Default(t[2], FALSE)

(* The heap objects that a node holds on to.                               *)
RECURSIVE Held(_, _, _)
Held(h, t, node) ==
  IF ~IsObject(t) THEN {}
  ELSE UNION {IF IsCollection(t) /\ is_unsized(t[2])
              THEN IF node[i] \notin DOMAIN h THEN {}
                   ELSE {node[i]} \cup Held(h, t[2], h[node[i]])
              ELSE Held(h, Inner(t, i), node[i]) : i \in DOMAIN node}

(* A program cannot tell an object from what the runtime stores.           *)
RECURSIVE Represents(_, _, _, _)
Represents(h, t, node, tree) ==
  IF ~IsObject(t) THEN tree = Undef \/ node = tree
  ELSE /\ DOMAIN node = DOMAIN tree
       /\ \A i \in DOMAIN tree :
            IF IsCollection(t) /\ is_unsized(t[2])
            THEN node[i] \in DOMAIN h /\ Represents(h, t[2], h[node[i]], tree[i])
            ELSE Represents(h, Inner(t, i), node[i], tree[i])

-----------------------------------------------------------------------------
(* The operations of the implementations (impl/*/instantiation.h) and how  *)
(* many arguments they take after the object.                              *)

SeqOps ==
  [allocate |-> 1, free |-> 0, read |-> 1, write |-> 2, get |-> 1, copy |-> 0, copy_range |-> 2,
   remove |-> 1, remove_range |-> 2, insert |-> 1, insert_value |-> 2, insert_input |-> 2,
   insert_input_range |-> 4, size |-> 0, has |-> 1, clear |-> 0, begin |-> 0]

MapOps ==
  [allocate |-> 0, free |-> 0, read |-> 1, write |-> 2, get |-> 1, copy |-> 0, remove |-> 1,
   insert |-> 1, insert_value |-> 2, size |-> 0, has |-> 1, clear |-> 0, begin |-> 0]

SetOps ==
  [allocate |-> 0, free |-> 0, copy |-> 0, remove |-> 1, insert |-> 1, insert_input |-> 1,
   size |-> 0, has |-> 1, clear |-> 0, begin |-> 0]

Operations(t) ==
  CASE Kind(t) = "seq" -> SeqOps
    [] Kind(t) = "assoc" /\ Kind(t[2]) = "void" -> SetOps
    [] OTHER -> MapOps

(* The arguments for which C++ defines what Vector<T> does.                *)
SeqDefined(h, s, op, args) ==
  CASE op \in {"read", "write", "get", "remove"} -> args[1] \in DOMAIN s
    [] op \in {"insert", "insert_value"} -> args[1] \in 0 .. Length(s)
    [] op = "insert_input" -> args[1] \in 0 .. Length(s) /\ args[2].addr \in DOMAIN h
    [] op = "insert_input_range" ->
         /\ args[1] \in 0 .. Length(s)
         /\ args[2].addr \in DOMAIN h
         /\ 0 <= args[3] /\ args[3] <= args[4] /\ args[4] <= Length(Node(h, args[2]))
    [] op \in {"copy_range", "remove_range"} -> 0 <= args[1] /\ args[1] <= args[2] /\ args[2] <= Length(s)
    [] OTHER -> TRUE

SeqAfter(h, t, s, op, args) ==
  CASE op = "write" -> [s EXCEPT ![args[1]] = args[2]]
    [] op = "insert" -> Inserted(s, args[1], Repeated(1, Element(t)))
    [] op = "insert_value" -> Inserted(s, args[1], Repeated(1, args[2]))
    [] op = "insert_input" -> Inserted(s, args[1], Node(h, args[2]))
    [] op = "insert_input_range" -> Inserted(s, args[1], Slice(Node(h, args[2]), args[3], args[4]))
    [] op = "remove" -> Without(s, args[1], args[1] + 1)
    [] op = "remove_range" -> Without(s, args[1], args[2])
    [] op = "clear" -> Empty
    [] OTHER -> s

AssocDefined(h, m, op, args) ==
  CASE op \in {"read", "write"} -> args[1] \in DOMAIN m
    [] op = "insert_input" -> args[1].addr \in DOMAIN h
    [] OTHER -> TRUE

(* get of std::unordered_map inserts what is not there.                    *)
AssocAfter(h, t, m, op, args) ==
  CASE op \in {"write", "insert_value"} -> With(m, args[1], args[2])
    [] op \in {"insert", "get"} -> IF args[1] \in DOMAIN m THEN m ELSE With(m, args[1], Element(t))
    [] op = "insert_input" -> [k \in DOMAIN m \cup DOMAIN Node(h, args[1]) |-> Zero]
    [] op = "remove" -> Restrict(m, DOMAIN m \ {args[1]})
    [] op = "clear" -> Empty
    [] OTHER -> m

ValueOf(node, op, args) ==
  CASE op = "read" -> node[args[1]]
    [] op = "has" -> args[1] \in DOMAIN node
    [] op = "size" -> Length(node)
    [] OTHER -> Nil

Outcome(status, h, value) == [status |-> status, heap |-> h, value |-> value]

(* What an operation makes of its collection, and returns.                 *)
Applied(h, t, op, ptr, args, node) ==
  LET defined == IF Kind(t) = "seq" THEN SeqDefined(h, node, op, args) ELSE AssocDefined(h, node, op, args)
      after == IF Kind(t) = "seq" THEN SeqAfter(h, t, node, op, args) ELSE AssocAfter(h, t, node, op, args)
  IN  CASE ~defined -> Outcome("undefined", h, Nil)
        [] op = "free" -> Outcome("ran", Restrict(h, DOMAIN h \ {ptr.addr}), Nil)
        [] op \in {"copy", "copy_range"} ->
             Outcome("ran",
                     With(h, NewAddress(h), IF op = "copy" THEN node ELSE Slice(node, args[1], args[2])),
                     Pointer(NewAddress(h)))
        [] OTHER ->
             Outcome("ran", Stored(h, ptr, after),
                     IF op = "get" THEN Into(ptr, args[1]) ELSE ValueOf(node, op, args))

(* A call of an operation: the compiler stops if there is none that takes  *)
(* the arguments, and a call may be undefined.  The copies are new.        *)
Call(h, t, op, ptr, args) ==
  IF op \notin DOMAIN Operations(t) \/ Len(args) # Operations(t)[op] THEN Outcome("stopped", h, Nil)
  ELSE IF op = "allocate"
  THEN Outcome("ran", With(h, NewAddress(h), IF Kind(t) = "seq" THEN Repeated(args[1], Element(t)) ELSE Empty),
               Pointer(NewAddress(h)))
  ELSE IF ptr.addr \notin DOMAIN h THEN Outcome("undefined", h, Nil)
  ELSE Applied(h, t, op, ptr, args, Node(h, ptr))

-----------------------------------------------------------------------------

CONSTANTS
  Typings,      (* the types of the objects that programs have names for   *)
  End,          (* the result of memoir_end, as an index                   *)
  EndOps,       (* the operations that take End for their last index       *)
  CopyNested,   (* do programs copy collections of collections?            *)
  MaxSize(_),   (* a bound on the size that a sequence is allocated with   *)
  MaxLen(_),    (* a bound on the length that it is given by insertions    *)
  KeysOf(_)     (* the keys that the programs on these objects use         *)

VARIABLES
  typing,     (* the type of each name                                     *)
  src,        (* the objects of the program: the tree of each name         *)
  heap,       (* the runtime's heap                                        *)
  env,        (* the pointer that the lowered program has for each name    *)
  fold,       (* the fold that runs: [obj, on, ptr, type, left], and for   *)
              (* its body [path, elem]: the place of the element and the   *)
              (* pointer to it                                             *)
  last        (* what came of the last instruction                         *)

loweringVars == <<typing, src, heap, env, fold, last>>

Elem == "elem"       (* the name of the element, in the body of a fold     *)

Unallocated == Undef

None == ""         (* no name                                               *)

NoResult == <<>>

NoInst == <<>>

(* What came of an instruction: did the lowered one return what the other  *)
(* did, and, if it did not run, which instruction it was.                  *)
Came(inst, status, meant, got) ==
  [inst |-> IF status = "ran" THEN NoInst ELSE inst, status |-> status,
   agrees |-> status # "ran" \/ meant \in {NoResult, <<Undef>>} \/ meant = <<got>>]

NothingYet == Came(NoInst, "ran", NoResult, Nil)

NoFold ==
  [obj |-> None, on |-> <<>>, ptr |-> Nil, type |-> <<"void">>, left |-> {}, path |-> <<>>, elem |-> Nil]

Folding == fold.obj # None

Live(o) == o \in DOMAIN src /\ src[o] # Unallocated

(* The element of a fold is no object of its own in the program.           *)
Root(o) == IF o = Elem THEN fold.obj ELSE o

RootPath(o) == IF o = Elem THEN fold.path ELSE <<>>

TypeOf(o) == IF o = Elem THEN TypeAt(typing[fold.obj], fold.path) ELSE typing[o]

PointerOf(o) == IF o = Elem THEN fold.elem ELSE env[o]

Tree(o, path) == At(src[Root(o)], RootPath(o) \o path)

-----------------------------------------------------------------------------
(* get_nested_object: the innermost object that the indices lead to, with  *)
(* the indices left for the operation; with "fully_qualified", the object  *)
(* that all of them lead to.                                               *)

Fetch(element_type) == IF is_unsized(element_type) THEN "read" ELSE "get"

Nested(status, h, ptr, t, rest) == [status |-> status, heap |-> h, ptr |-> ptr, type |-> t, rest |-> rest]

RECURSIVE get_nested_object(_, _, _, _, _), fetched(_, _, _, _)
get_nested_object(h, ptr, t, indices, fully_qualified) ==
  CASE ~IsObject(t) -> Nested("stopped", h, ptr, t, indices)
    [] indices = <<>> -> Nested("ran", h, ptr, t, <<>>)
    [] IsObject(t) /\ indices # <<>> /\ Kind(t) = "tuple" ->
         LET field == t[2][Head(indices)]
         IN  IF ~IsObject(field) THEN Nested("ran", h, ptr, t, indices)
             ELSE get_nested_object(h, Into(ptr, Head(indices)), field, Tail(indices), fully_qualified)
    [] OTHER ->
         IF Len(indices) = 1 /\ ~fully_qualified THEN Nested("ran", h, ptr, t, indices)
         ELSE fetched(Call(h, t, Fetch(t[2]), ptr, <<Head(indices)>>), t[2], Tail(indices), fully_qualified)

(* The element t that a call got, and what the indices lead to in it.      *)
fetched(got, t, indices, fully_qualified) ==
  IF got.status # "ran" THEN Nested(got.status, got.heap, Pointer(Nil), t, indices)
  ELSE get_nested_object(got.heap, IF Fetch(t) = "read" THEN Pointer(got.value) ELSE got.value,
                         t, indices, fully_qualified)

-----------------------------------------------------------------------------
(* contextualize_end: the index that End stands for, from the size of the  *)
(* object that the indices before it lead to.                              *)

(* MUTANT: an index that is not the last one is not decremented.           *)
minus_one_last(op, indices, k) == op \in {"read", "write", "size", "remove", "remove_range"}

minus_one(op, indices, k) ==
  \/ op \in {"read", "write", "size", "remove", "remove_range"}
  \/ k < Len(indices)

OnNested(op, info) ==
  IF info.status # "ran" THEN Outcome(info.status, info.heap, Nil)
  ELSE IF ~IsCollection(info.type) THEN Outcome("stopped", info.heap, Nil)
  ELSE Call(info.heap, info.type, op, info.ptr, info.rest)

Sizes(h, o, indices) == OnNested("size", get_nested_object(h, PointerOf(o), TypeOf(o), indices, TRUE))

(* The indices of an instruction, from the first on, since the size of an  *)
(* object is asked for with the indices that were found before.            *)
RECURSIVE contextualized(_, _, _, _)
contextualized(op, o, indices, k) ==
  IF k > Len(indices) THEN indices
  ELSE IF indices[k] # End THEN contextualized(op, o, indices, k + 1)
  ELSE LET size == Sizes(heap, o, SubSeq(indices, 1, k - 1)).value
           less == IF minus_one(op, indices, k) THEN 1 ELSE 0
       IN  contextualized(op, o, [indices EXCEPT ![k] = size - less], k + 1)

(* The bounds of a range; an End among them is asked for with all indices  *)
(* of the instruction.                                                     *)
Bounds(range, size) ==
  IF End \in Range(range) /\ size.status # "ran" THEN Outcome(size.status, heap, Nil)
  ELSE Outcome("ran", heap, [k \in DOMAIN range |-> IF range[k] = End THEN size.value ELSE range[k]])

contextualized_range(inst, indices) == Bounds(inst.range, Sizes(heap, inst.obj, indices))

-----------------------------------------------------------------------------
(* construct_collection_allocation: a sequence is allocated with its size, *)
(* and a loop allocates the collections that are its elements.             *)
RECURSIVE Allocated(_, _, _), Filled(_, _, _, _)
Allocated(h, t, sizes) ==
  LET arg == IF Kind(t) = "assoc" THEN <<>> ELSE IF sizes = <<>> THEN <<0>> ELSE <<Head(sizes)>>
  IN  Filled(Call(h, t, "allocate", Pointer(Nil), arg), t, sizes, 0)

(* The loop, from n on.                                                    *)
Filled(call, t, sizes, n) ==
  IF Kind(t) # "seq" \/ ~IsCollection(t[2]) \/ sizes = <<>> \/ n = Head(sizes) THEN call
  ELSE LET Write(inner) == Call(inner.heap, t, "write", call.value, <<n, inner.value.addr>>)
           after == Write(Allocated(call.heap, t[2], Tail(sizes)))
       IN  Filled(Outcome("ran", after.heap, call.value), t, sizes, n + 1)

(* visitAllocInst.                                                         *)
visitAllocInst(inst) ==
  LET t == TypeOf(inst.obj)
  IN  IF IsCollection(t) THEN Allocated(heap, t, inst.args)
      ELSE Outcome("ran", With(heap, NewAddress(heap), Default(t, FALSE)), Pointer(NewAddress(heap)))

visitDeleteInst(inst) ==
  IF IsCollection(TypeOf(inst.obj)) THEN Call(heap, TypeOf(inst.obj), "free", PointerOf(inst.obj), <<>>)
  ELSE Outcome("ran", Restrict(heap, DOMAIN heap \ {PointerOf(inst.obj).addr}), Nil)

-----------------------------------------------------------------------------
(* The visitors of accesses.                                               *)

fully_qualified(inst) ==
  \/ inst.op \in {"copy", "copy_range", "clear", "size", "fold"}
  \/ inst.op \in {"insert_input", "insert_input_range"} /\ Kind(TypeOf(inst.obj)) = "assoc"

(* The fields of a tuple are read and written by functions of its own.     *)
visitField(inst, info) ==
  LET node == Node(info.heap, info.ptr)
  IN  IF inst.op = "read" THEN Outcome("ran", info.heap, node[Head(info.rest)])
      ELSE Outcome("ran", Stored(info.heap, Into(info.ptr, Head(info.rest)), inst.args[1]), Nil)

(* MUTANT: a new element that is a collection is not allocated.            *)
OperandsAsGiven(inst, info, input, range) ==
  [op |-> inst.op, heap |-> info.heap,
   args |-> inst.args \o (IF inst.input = <<>> THEN <<>> ELSE <<input.ptr>>) \o range]

(* The arguments after the indices; of an insertion of an element that is  *)
(* a collection, a new one: [op, heap, args].                              *)
Operands(inst, info, input, range) ==
  LET element == TypeAt(TypeOf(inst.obj), inst.indices)
      WithNew(new) == [op |-> "insert_value", heap |-> new.heap, args |-> <<new.value.addr>>]
  IN  IF inst.op = "insert" /\ is_unsized(element)
      THEN WithNew(Allocated(info.heap, element, IF Kind(element) = "seq" THEN <<0>> ELSE <<>>))
      ELSE [op |-> inst.op, heap |-> info.heap,
            args |-> inst.args \o (IF inst.input = <<>> THEN <<>> ELSE <<input.ptr>>) \o range]

CallWith(info, call) == Call(call.heap, info.type, call.op, info.ptr, info.rest \o call.args)

(* With the object of the access, that of its input, and its range.        *)
visitWith(inst, info, input, range) ==
  CASE info.status # "ran" -> Outcome(info.status, heap, Nil)
    [] info.status = "ran" /\ input.status # "ran" -> Outcome(input.status, heap, Nil)
    [] {info.status, input.status} = {"ran"} /\ range.status # "ran" -> Outcome(range.status, heap, Nil)
    [] OTHER ->
         IF Kind(info.type) = "tuple"
         THEN IF inst.op \in {"read", "write"} THEN visitField(inst, info) ELSE Outcome("stopped", heap, Nil)
         ELSE IF inst.input # <<>> /\ Kind(input.type) # Kind(info.type) THEN Outcome("undefined", heap, Nil)
         ELSE CallWith(info, Operands(inst, info, input, range.value))

NestedOf(o, indices, whole) == get_nested_object(heap, PointerOf(o), TypeOf(o), indices, whole)

InputOf(inst) ==
  IF inst.input = <<>> THEN Nested("ran", heap, Pointer(Nil), <<"void">>, <<>>)
  ELSE NestedOf(inst.input[1], inst.input[2], TRUE)

visitAt(inst, indices) ==
  visitWith(inst, NestedOf(inst.obj, indices, fully_qualified(inst)), InputOf(inst),
            contextualized_range(inst, indices))

visitAccess(inst) == visitAt(inst, contextualized(inst.op, inst.obj, inst.indices, 1))

-----------------------------------------------------------------------------
(* What the instruction does in the program.                               *)

Reaches(o, path) ==
  LET from[n \in 0 .. Len(path)] ==
        IF n = 0 THEN TRUE
        ELSE IF ~from[n - 1] THEN FALSE ELSE path[n] \in DOMAIN Tree(o, SubSeq(path, 1, n - 1))
  IN  from[Len(path)]

Inserts == {"insert", "insert_value", "insert_input", "insert_input_range"}

(* End is the last element; but where an element is inserted, the place    *)
(* after it.                                                               *)
RECURSIVE Meant(_, _, _, _)
Meant(op, o, path, k) ==
  IF k > Len(path) \/ ~Reaches(o, SubSeq(path, 1, k - 1)) THEN path
  ELSE IF path[k] # End THEN Meant(op, o, path, k + 1)
  ELSE LET size == Length(Tree(o, SubSeq(path, 1, k - 1)))
           at == IF k = Len(path) /\ op \in Inserts THEN size ELSE size - 1
       IN  Meant(op, o, [path EXCEPT ![k] = at], k + 1)

Place(inst) == inst.place

InputTree(inst) == Tree(inst.input[1], inst.input[2])

(* The End of a range is the size of what the range is of.                 *)
MeantRange(inst) ==
  LET whole == IF inst.input # <<>> THEN InputTree(inst) ELSE Tree(inst.obj, Place(inst))
  IN  [k \in DOMAIN inst.range |-> IF inst.range[k] = End THEN Length(whole) ELSE inst.range[k]]

(* The collection of the element at a place, after the instruction.        *)
Updated(inst, s, i) ==
  LET seq == Kind(TypeAt(TypeOf(inst.obj), Front(Place(inst)))) = "seq"
      element == TypeAt(TypeOf(inst.obj), Place(inst))
      with(v) == IF seq THEN Inserted(s, i, Repeated(1, v)) ELSE With(s, i, v)
  IN  CASE inst.op = "write" -> With(s, i, inst.args[1])
        [] inst.op = "insert_value" -> with(inst.args[1])
        [] inst.op = "insert" -> with(Fresh(element))
        [] inst.op = "insert_input" -> Inserted(s, i, InputTree(inst))
        [] inst.op = "insert_input_range" ->
             Inserted(s, i, Slice(InputTree(inst), MeantRange(inst)[1], MeantRange(inst)[2]))
        [] OTHER -> IF seq THEN Without(s, i, i + 1) ELSE Restrict(s, DOMAIN s \ {i})

RECURSIVE New(_, _)
New(t, sizes) ==
  IF Kind(t) = "seq" /\ sizes # <<>> THEN Repeated(Head(sizes), New(t[2], Tail(sizes))) ELSE Fresh(t)

SetUnion(inst) == inst.op = "insert_input" /\ Kind(TypeAt(inst.type, inst.indices)) = "assoc"

(* The trees after an instruction.                                         *)
Meaning(inst) ==
  LET place == Place(inst)
      put(path, tree) == [src EXCEPT ![Root(inst.obj)] = Replaced(@, RootPath(inst.obj) \o path, tree)]
  IN  CASE inst.op = "alloc" -> [src EXCEPT ![inst.obj] = New(typing[inst.obj], inst.args)]
        [] inst.op = "delete" -> [src EXCEPT ![inst.obj] = Unallocated]
        [] inst.op = "copy" -> [src EXCEPT ![inst.to] = Tree(inst.obj, place)]
        [] inst.op = "copy_range" ->
             [src EXCEPT ![inst.to] = Slice(Tree(inst.obj, place), MeantRange(inst)[1], MeantRange(inst)[2])]
        [] inst.op = "remove_range" ->
             put(place, Without(Tree(inst.obj, place), MeantRange(inst)[1], MeantRange(inst)[2]))
        [] inst.op = "clear" -> put(place, Empty)
        [] SetUnion(inst) ->
             put(place, [k \in DOMAIN Tree(inst.obj, place) \cup DOMAIN InputTree(inst) |-> Undef])
        [] inst.op \in {"read", "has", "size"} -> src
        [] OTHER -> put(Front(place), Updated(inst, Tree(inst.obj, Front(place)), Last(place)))

(* What it returns.                                                        *)
Returned(inst) ==
  CASE inst.op = "read" -> <<Tree(inst.obj, Place(inst))>>
    [] inst.op = "has" -> <<Last(inst.indices) \in DOMAIN Tree(inst.obj, Front(Place(inst)))>>
    [] inst.op = "size" -> <<Length(Tree(inst.obj, Place(inst)))>>
    [] OTHER -> NoResult

-----------------------------------------------------------------------------
(* An instruction on both sides.  Heap objects that nothing holds on to    *)
(* any more are forgotten; the runtime leaks them.                         *)

Inst(op, o, indices, args, input, range, to) ==
  [op |-> op, obj |-> o, type |-> TypeOf(o), indices |-> indices, place |-> Meant(op, o, indices, 1),
   args |-> args, input |-> input, range |-> range, to |-> to]

visit(inst) ==
  CASE inst.op = "alloc" -> visitAllocInst(inst)
    [] inst.op = "delete" -> visitDeleteInst(inst)
    [] OTHER -> visitAccess(inst)

Kept(h, pointers, trees) ==
  LET roots == {o \in DOMAIN trees : trees[o] # Unallocated /\ pointers[o].addr \in DOMAIN h}
      held == UNION {{pointers[o].addr} \cup Held(h, typing[o], h[pointers[o].addr]) : o \in roots}
  IN  Restrict(h, held)

NothingAllocated ==
  [src |-> [o \in DOMAIN typing |-> Unallocated], heap |-> Empty, env |-> [o \in DOMAIN typing |-> Pointer(Nil)]]

(* There is no more to say of a program that does not compile or has no    *)
(* meaning.                                                                *)
Abandoned ==
  /\ src' = NothingAllocated.src /\ heap' = NothingAllocated.heap /\ env' = NothingAllocated.env
  /\ fold' = NoFold

Outcomes(inst, out, meaning) ==
  LET target == IF inst.op = "alloc" THEN inst.obj ELSE inst.to
      pointers == IF target = None THEN env ELSE [env EXCEPT ![target] = out.value]
  IN  /\ last' = Came(inst, out.status, Returned(inst), out.value)
      /\ IF out.status # "ran" THEN Abandoned
         ELSE /\ src' = meaning
              /\ env' = pointers
              /\ heap' = Kept(out.heap, pointers, meaning)
              /\ UNCHANGED fold
      /\ UNCHANGED typing

Execute(inst) == Outcomes(inst, visit(inst), Meaning(inst))

-----------------------------------------------------------------------------
(* The instructions of a program.  It reads what was written, refers to    *)
(* what is there and inserts what is not, and does not insert into or      *)
(* remove from what it folds over, nor what that is in.                    *)

InBody == Folding /\ fold.path # <<>>

Names == {o \in DOMAIN src : Live(o)} \cup IF InBody /\ IsObject(TypeOf(Elem)) THEN {Elem} ELSE {}

(* The indices of the objects that are there, and of those next to them.   *)
RECURSIVE Addresses(_, _)
Addresses(t, tree) ==
  LET indices == CASE Kind(t) = "seq" -> 0 .. MaxSize(typing) \cup {End}
                   [] Kind(t) = "assoc" -> KeysOf(typing)
                   [] OTHER -> DOMAIN t[2]
      Found(i) == IF i = End THEN Length(tree) - 1 ELSE i
      under(i) == IF Found(i) \in DOMAIN tree THEN Addresses(Inner(t, i), tree[Found(i)]) ELSE {<<>>}
  IN  {<<>>} \cup IF IsObject(t) THEN UNION {{<<i>> \o p : p \in under(i)} : i \in indices} ELSE {}

Addressed(o) == Addresses(TypeOf(o), Tree(o, <<>>))

MayChange(o, path) == (Folding /\ Root(o) = fold.obj) => ~IsPrefix(RootPath(o) \o path, fold.on)

Meets(inst, kinds) ==
  /\ Reaches(inst.obj, Place(inst))
  /\ Kind(TypeAt(TypeOf(inst.obj), inst.indices)) \in kinds
  /\ (inst.indices # <<>> /\ Last(inst.indices) = End) => inst.op \in EndOps

(* The collection of an element, which need not be there.                  *)
MeetsCollection(inst) ==
  /\ inst.indices # <<>>
  /\ Reaches(inst.obj, Front(Place(inst)))
  /\ IsCollection(TypeAt(TypeOf(inst.obj), Front(inst.indices)))
  /\ Last(inst.indices) = End => inst.op \in EndOps

Vacant(inst) ==
  LET s == Tree(inst.obj, Front(Place(inst)))
  IN  IF Kind(TypeAt(TypeOf(inst.obj), Front(inst.indices))) = "seq"
      THEN Last(Place(inst)) \in 0 .. Length(s) /\ Length(s) < MaxLen(typing)
      ELSE Last(Place(inst)) \notin DOMAIN s

Collections == {"seq", "assoc"}

Read(o, path) ==
  LET inst == Inst("read", o, path, <<>>, <<>>, <<>>, None)
  IN  Meets(inst, {"value"}) /\ Tree(o, Place(inst)) # Undef /\ Execute(inst)

Write(o, path, v) ==
  LET inst == Inst("write", o, path, <<v>>, <<>>, <<>>, None)
  IN  Meets(inst, {"value"}) /\ Execute(inst)

Has(o, path) ==
  LET inst == Inst("has", o, path, <<>>, <<>>, <<>>, None)
  IN  MeetsCollection(inst) /\ Execute(inst)

Size(o, path) ==
  LET inst == Inst("size", o, path, <<>>, <<>>, <<>>, None)
  IN  Meets(inst, Collections) /\ Execute(inst)

Clear(o, path) ==
  LET inst == Inst("clear", o, path, <<>>, <<>>, <<>>, None)
  IN  Meets(inst, Collections) /\ MayChange(o, Place(inst)) /\ Execute(inst)

Insert(o, path) ==
  LET inst == Inst("insert", o, path, <<>>, <<>>, <<>>, None)
  IN  /\ MeetsCollection(inst) /\ Vacant(inst) /\ MayChange(o, Front(Place(inst)))
      /\ Execute(inst)

InsertValue(o, path, v) ==
  LET inst == Inst("insert_value", o, path, <<v>>, <<>>, <<>>, None)
  IN  /\ MeetsCollection(inst) /\ Vacant(inst) /\ MayChange(o, Front(Place(inst)))
      /\ Kind(TypeAt(TypeOf(o), path)) = "value"
      /\ Execute(inst)

RemoveOne(o, path) ==
  LET inst == Inst("remove", o, path, <<>>, <<>>, <<>>, None)
  IN  /\ MeetsCollection(inst) /\ Meets(inst, {"value", "void", "seq", "assoc", "tuple"})
      /\ MayChange(o, Front(Place(inst)))
      /\ Execute(inst)

(* A range of the elements of s.                                           *)
Ranges(s) == {r \in (0 .. MaxSize(typing)) \X (0 .. MaxSize(typing) \cup {End}) :
                r[1] <= Length(s) /\ (r[2] # End => r[1] <= r[2] /\ r[2] <= Length(s))}

RemoveRange(o, path) ==
  LET inst(r) == Inst("remove_range", o, path, <<>>, <<>>, r, None)
  IN  /\ Meets(inst(<<>>), {"seq"}) /\ MayChange(o, Place(inst(<<>>)))
      /\ \E r \in Ranges(Tree(o, Place(inst(<<>>)))) : Execute(inst(r))

(* The copies of the runtime are shallow.                                  *)
RECURSIVE Flat(_)
Flat(t) ==
  CASE IsCollection(t) -> ~is_unsized(t[2]) /\ Flat(t[2])
    [] Kind(t) = "tuple" -> \A i \in DOMAIN t[2] : Flat(t[2][i])
    [] OTHER -> TRUE

Copy(o, path, to) ==
  LET inst(op, r) == Inst(op, o, path, <<>>, <<>>, r, to)
      t == TypeAt(TypeOf(o), path)
  IN  /\ Meets(inst("copy", <<>>), Collections) /\ typing[to] = t
      /\ CopyNested \/ Flat(t)
      /\ MayChange(to, <<>>)
      /\ \/ Execute(inst("copy", <<>>))
         \/ /\ Kind(t) = "seq"
            /\ \E r \in Ranges(Tree(o, Place(inst("copy", <<>>)))) : Execute(inst("copy_range", r))

(* Elements of another sequence, which is not the one inserted into.       *)
InsertInput(o, path, other, there) ==
  LET inst(op, r) == Inst(op, o, path, <<>>, <<other, there>>, r, None)
      one == inst("insert_input", <<>>)
      t == TypeAt(TypeOf(o), Front(path))
  IN  /\ MeetsCollection(one) /\ MayChange(o, Front(Place(one)))
      /\ TypeAt(TypeOf(other), there) = t
      /\ <<Root(o), RootPath(o) \o Front(Place(one))>> # <<Root(other), RootPath(other) \o there>>
      /\ Kind(t) = "seq" /\ (CopyNested \/ Flat(t))
      /\ Last(Place(one)) \in 0 .. Length(Tree(o, Front(Place(one))))
      /\ Length(Tree(o, Front(Place(one)))) + Length(Tree(other, there)) <= MaxLen(typing)
      /\ \/ Execute(one)
         \/ \E r \in Ranges(Tree(other, there)) : Execute(inst("insert_input_range", r))

Union(o, path, other, there) ==
  LET inst == Inst("insert_input", o, path, <<>>, <<other, there>>, <<>>, None)
      t == TypeAt(TypeOf(o), path)
  IN  /\ Meets(inst, {"assoc"}) /\ MayChange(o, Place(inst))
      /\ TypeAt(TypeOf(other), there) = t
      /\ Kind(t[2]) = "void"
      /\ Execute(inst)

Alloc(o, sizes) ==
  /\ MayChange(o, <<>>)
  /\ Len(sizes) <= (IF Kind(typing[o]) # "seq" THEN 0 ELSE IF Kind(typing[o][2]) = "seq" THEN 2 ELSE 1)
  /\ Execute(Inst("alloc", o, <<>>, sizes, <<>>, <<>>, None))

Delete(o) == Live(o) /\ MayChange(o, <<>>) /\ Execute(Inst("delete", o, <<>>, <<>>, <<>>, <<>>, None))

(* visitFoldInst and lower_fold_header: begin, and next until it fails.    *)
(* The loop hands on the index or the key, and the element: a pointer, if  *)
(* that is an object.                                                      *)
Begun(inst, info, begin, keys) ==
  LET found == IF begin.status = "ran" THEN DOMAIN Node(info.heap, info.ptr) ELSE {}
  IN  /\ last' = Came(inst, begin.status, <<keys>>, found)
      /\ IF begin.status # "ran" THEN Abandoned
         ELSE /\ heap' = begin.heap
              /\ fold' = [obj |-> Root(inst.obj), on |-> RootPath(inst.obj) \o Place(inst), ptr |-> info.ptr,
                          type |-> info.type, left |-> keys, path |-> <<>>, elem |-> Nil]
              /\ UNCHANGED <<src, env>>

BeginOn(inst, info) == Begun(inst, info, OnNested("begin", info), DOMAIN Tree(inst.obj, Place(inst)))

FoldOver(inst) ==
  /\ ~Folding /\ Meets(inst, Collections)
  /\ BeginOn(inst, NestedOf(inst.obj, contextualized("fold", inst.obj, inst.indices, 1), TRUE))
  /\ UNCHANGED typing

FoldBegin(o, path) == FoldOver(Inst("fold", o, path, <<>>, <<>>, <<>>, None))

FoldNext ==
  /\ Folding
  /\ \E i \in fold.left :
       LET node == Node(heap, fold.ptr)
           element == fold.type[2]
           tree == At(src[fold.obj], Append(fold.on, i))
       IN  /\ Kind(fold.type) = "seq" => \A j \in fold.left : i <= j
           /\ fold' = [fold EXCEPT !.left = @ \ {i}, !.path = Append(fold.on, i),
                                   !.elem = IF is_unsized(element) THEN Pointer(node[i]) ELSE Into(fold.ptr, i)]
           /\ last' = IF IsObject(element) THEN NothingYet ELSE Came(NoInst, "ran", <<tree>>, node[i])
  /\ UNCHANGED <<typing, src, heap, env>>

FoldEnd ==
  /\ Folding /\ fold.left = {}
  /\ fold' = NoFold
  /\ last' = NothingYet
  /\ UNCHANGED <<typing, src, heap, env>>

Init ==
  /\ typing \in Typings
  /\ src = NothingAllocated.src /\ heap = NothingAllocated.heap /\ env = NothingAllocated.env
  /\ fold = NoFold
  /\ last = NothingYet

Going == last.status = "ran"

Ask ==
  /\ Going
  /\ \E o \in Names : \E path \in Addressed(o) : Read(o, path) \/ Has(o, path) \/ Size(o, path)

Change ==
  /\ Going
  /\ \E o \in Names : \E path \in Addressed(o) :
       Clear(o, path) \/ \E v \in Vals : Write(o, path, v)

Grow ==
  /\ Going
  /\ \E o \in Names : \E path \in Addressed(o) :
       Insert(o, path) \/ \E v \in Vals : InsertValue(o, path, v)

Shrink ==
  /\ Going
  /\ \E o \in Names : \E path \in Addressed(o) : RemoveOne(o, path) \/ RemoveRange(o, path)

CopyFrom ==
  /\ Going
  /\ \E o \in Names : \E path \in Addressed(o) : \E to \in DOMAIN typing : Copy(o, path, to)

TakeInput ==
  /\ Going
  /\ \E o, other \in Names : \E path \in Addressed(o) :
       \E there \in Places(TypeOf(other), Tree(other, <<>>)) :
         InsertInput(o, path, other, there) \/ Union(o, path, other, there)

Objects ==
  /\ Going
  /\ \E o \in DOMAIN typing :
       \/ Delete(o)
       \/ \E sizes \in {<<>>, <<MaxSize(typing), 1>>} \cup {<<n>> : n \in 0 .. MaxSize(typing)} : Alloc(o, sizes)

Folds ==
  /\ Going
  /\ \/ \E o \in Names : \E path \in Addressed(o) : FoldBegin(o, path)
     \/ FoldNext \/ FoldEnd

LNext == Ask \/ Change \/ Grow \/ Shrink \/ CopyFrom \/ TakeInput \/ Objects \/ Folds

LSpec == Init /\ [][LNext]_loweringVars

-----------------------------------------------------------------------------
(* A program cannot tell its objects from what the lowered program has     *)
(* made of them: whatever the names, and in the body of a fold the         *)
(* element, lead to on the heap is the tree that they stand for, no two    *)
(* of them share a nested collection by accident, and the last instruction *)
(* returned what it should (the visitors of SSADestruction.cpp and the     *)
(* header of lower_fold).                                                  *)
LoweredAgrees ==
  /\ \A o \in DOMAIN src :
       src[o] # Unallocated =>
         /\ env[o].addr \in DOMAIN heap
         /\ Represents(heap, typing[o], heap[env[o].addr], src[o])
  /\ (InBody /\ IsObject(TypeOf(Elem))) =>
       Represents(heap, TypeOf(Elem), Node(heap, fold.elem), Tree(Elem, <<>>))
  /\ last.agrees

InputOps == {"insert_input", "insert_input_range"}

InCollection(inst) ==
  inst.indices # <<>> /\ IsCollection(TypeAt(inst.type, Front(inst.indices)))

(* A range is removed from the outermost collection, input is inserted by  *)
(* the outermost type alone, and the End of a range of input is asked of   *)
(* what it is inserted into.                                               *)
Unsupported(inst) ==
  \/ inst.op = "remove_range" /\ InCollection(inst)
  \/ inst.op \in InputOps /\ ~SetUnion(inst) /\ Kind(inst.type) = "assoc"
  \/ SetUnion(inst) /\ Kind(inst.type) # "assoc" /\ InCollection(inst)
  \/ inst.op \in InputOps /\ End \in Range(inst.range)

(* All other accesses to what is there compile, and call no operation for  *)
(* arguments without a meaning: in particular, no index that End was       *)
(* replaced with is out of bounds.                                         *)
SupportedAccessesRun == last.status # "ran" => Unsupported(last.inst)

(* The index of a single element that End was replaced with is not off by  *)
(* one (contextualize_end).                                                *)
EndIsTheLast == last.status = "undefined" => End \notin Range(last.inst.indices)
=============================================================================
