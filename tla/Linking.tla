------------------------------- MODULE Linking ------------------------------
(***************************************************************************)
(* The linking of implementations: the types that a program allocates or   *)
(* asserts are given their default selections, an implementation is        *)
(* instantiated for each collection, a struct for each tuple, and C++      *)
(* declarations of all are emitted for clang++ to compile.  SSADestruction *)
(* then looks for their functions by name.                                 *)
(*                                                                         *)
(* A type is <<"int", width>>, <<"void">>, <<"ref", t>>, <<"tuple",        *)
(* fields>>, <<"seq", t, selection>> or <<"assoc", key, t, selection>>.    *)
(***************************************************************************)
EXTENDS Integers, Sequences, FiniteSets, SequencesExt

CONSTANTS
  Modules,        (* sequences of the types that programs allocate         *)
  Registered,     (* the implementations: what each of them implements     *)
  DefaultOf,      (* the default implementation of each kind               *)
  NoSelection     (* no selection, or ":DEFAULT:"                          *)

VARIABLES
  types,        (* the types that are allocated or asserted                *)
  next,         (* which of them is next, in this phase                    *)
  phase,
  structs,      (* structs_to_emit: [type, fields]                         *)
  collections,  (* collections_to_emit: instantiations [name, types]       *)
  todo,         (* those that the loop of emit has still to visit          *)
  declared      (* what was emitted, in order: [what, of]                  *)

linkVars == <<types, next, phase, structs, collections, todo, declared>>

IsCollection(t) == t[1] \in {"seq", "assoc"}

IsTuple(t) == t[1] = "tuple"

ElementType(t) == IF t[1] = "seq" THEN t[2] ELSE t[3]

Selection(t) == t[Len(t)]

(* What there are implementations of; a type variable matches any type but *)
(* void (detail::match).                                                   *)
Template(t) == IF t[1] = "seq" THEN "seq" ELSE IF t[3] = <<"void">> THEN "set" ELSE "map"

-----------------------------------------------------------------------------
(* Type::get_code, as the sequence of its parts: parts are joined by "_",  *)
(* and types may have the same.                                            *)
RECURSIVE get_code(_)
get_code(t) ==
  LET codes(s) == FlattenSeq([i \in DOMAIN s |-> get_code(s[i])])
      selected(name) == IF Selection(t) = NoSelection THEN name ELSE Selection(t)
  IN  CASE t[1] = "int" -> <<ToString(t[2])>>
        [] t[1] = "ref" -> get_code(t[2]) \o <<"ref">>
        [] t[1] = "tuple" -> <<"T" \o ToString(Len(t[2]))>> \o codes(t[2])
        [] t[1] = "seq" -> <<selected("Seq")>> \o get_code(t[2])
        [] t[1] = "assoc" -> <<selected("Assoc")>> \o get_code(t[2]) \o get_code(t[3])
        [] OTHER -> t

(* Instantiation::get_prefix, which all names of an instantiation begin    *)
(* with.                                                                   *)
get_prefix(inst) == FlattenSeq([i \in DOMAIN inst.types |-> get_code(inst.types[i])]) \o <<inst.name>>

get_default_implementation(t) == DefaultOf[Template(t)]

(* get_implementation.  The implementation must have been registered and   *)
(* match.                                                                  *)
get_implementation(t) ==
  IF Selection(t) = NoSelection THEN get_default_implementation(t) ELSE Selection(t)

(* What link_implementation takes for a selection that is not registered.  *)
implementation_to_link(t) ==
  IF Selection(t) \in DOMAIN Registered THEN Selection(t) ELSE get_default_implementation(t)

Matches(impl, t) == impl \in DOMAIN Registered /\ Registered[impl] = Template(t)

(* Implementation::instantiate: what the type variables are bound to.      *)
instantiate(impl, t) ==
  [name |-> impl,
   types |-> CASE Template(t) = "seq" -> <<t[2]>>
               [] Template(t) = "set" -> <<t[2]>>
               [] OTHER -> <<t[2], t[3]>>]

RECURSIVE canonicalize(_)
canonicalize(t) ==
  LET selection == get_implementation(t)
  IN  CASE t[1] = "seq" -> <<"seq", canonicalize(t[2]), selection>>
        [] t[1] = "assoc" -> <<"assoc", t[2], canonicalize(t[3]), selection>>
        [] t[1] = "tuple" -> <<"tuple", [i \in DOMAIN t[2] |-> canonicalize(t[2][i])]>>
        [] OTHER -> t

-----------------------------------------------------------------------------
(* What is implemented: [structs, collections, failed].                    *)

NoField == [name |-> NoSelection, types |-> <<>>]

(* implement(Type): the fields of a tuple.                                 *)
RECURSIVE implement(_, _)
implement(linked, t) ==
  IF ~IsTuple(t) \/ \E struct \in linked.structs : struct.type = t THEN linked
  ELSE LET field(u) == IF IsCollection(u) THEN instantiate(get_implementation(u), u) ELSE NoField
           fields == [i \in DOMAIN t[2] |-> field(t[2][i])]
           failed == \E u \in Range(t[2]) : IsCollection(u) /\ ~Matches(get_implementation(u), u)
           inner == FoldLeft(implement, linked, t[2])
       IN  [inner EXCEPT !.structs = @ \cup {[type |-> t, fields |-> fields]}, !.failed = @ \/ failed]

(* implement(Instantiation): one for each name and codes of types.         *)
implement_instantiation(linked, inst) ==
  LET bound == FoldLeft(implement, linked, inst.types)
      codes(i) == [k \in DOMAIN i.types |-> get_code(i.types[k])]
      known == \E other \in linked.collections : other.name = inst.name /\ codes(other) = codes(inst)
  IN  [bound EXCEPT !.collections = IF known THEN @ ELSE @ \cup {inst}]

(* MUTANT: what is in a collection is not looked at.                       *)
link_outermost(linked, t) ==
  IF ~IsCollection(t) THEN linked
  ELSE LET impl == implementation_to_link(t)
       IN  IF ~Matches(impl, t) THEN [linked EXCEPT !.failed = TRUE]
           ELSE implement_instantiation(linked, instantiate(impl, t))

(* link_implementation: a collection, its elements, and so on.             *)
RECURSIVE link_implementation(_, _)
link_implementation(linked, t) ==
  IF ~IsCollection(t) THEN linked
  ELSE LET impl == implementation_to_link(t)
       IN  IF ~Matches(impl, t) THEN [linked EXCEPT !.failed = TRUE]
           ELSE link_implementation(implement_instantiation(linked, instantiate(impl, t)), ElementType(t))

(* A type that the program allocates.                                      *)
link_type(linked, t) ==
  IF IsTuple(t) THEN FoldLeft(link_implementation, implement(linked, t), t[2])
  ELSE link_implementation(linked, t)

-----------------------------------------------------------------------------
(* The C++ that is emitted.                                                *)

Declaration(what, of) == [what |-> what, of |-> of]

(* MUTANT: a collection is declared again for each struct that has it and  *)
(* when the collections are.                                               *)
emit_collection_again(decls, inst) == Append(decls, Declaration("collection", inst))

emit_collection(decls, inst) ==
  IF Contains(decls, Declaration("collection", inst)) THEN decls
  ELSE Append(decls, Declaration("collection", inst))

(* The collections and tuples that are fields of a tuple come before it.   *)
RECURSIVE emit_tuple(_, _)
emit_tuple(decls, struct) ==
  IF Contains(decls, Declaration("struct", struct.type)) THEN decls
  ELSE LET held == SelectSeq(struct.fields, LAMBDA inst : inst # NoField)
           tuples == SelectSeq(struct.type[2], IsTuple)
           inner(ds, t) == FoldLeft(emit_tuple, ds, SetToSeq({s \in structs : s.type = t}))
       IN  Append(FoldLeft(inner, FoldLeft(emit_collection, decls, held), tuples),
                  Declaration("struct", struct.type))

Begin(name, loop) == phase' = name /\ todo' = loop

LInit ==
  /\ types \in Modules
  /\ next = 1 /\ phase = "canonicalize"
  /\ structs = {} /\ collections = {} /\ todo = {} /\ declared = <<>>

Canonicalize ==
  /\ phase = "canonicalize" /\ next <= Len(types)
  /\ types' = [types EXCEPT ![next] = canonicalize(@)]
  /\ next' = next + 1
  /\ UNCHANGED <<phase, structs, collections, todo, declared>>

StartLinking ==
  /\ phase = "canonicalize" /\ next > Len(types)
  /\ next' = 1 /\ Begin("link", {})
  /\ UNCHANGED <<types, structs, collections, declared>>

(* An allocation or an assertion.                                          *)
Link ==
  /\ phase = "link" /\ next <= Len(types)
  /\ LET linked == link_type([structs |-> structs, collections |-> collections, failed |-> FALSE], types[next])
     IN  /\ structs' = linked.structs /\ collections' = linked.collections
         /\ phase' = IF linked.failed THEN "failed" ELSE phase
  /\ next' = next + 1
  /\ UNCHANGED <<types, todo, declared>>

StartEmission ==
  /\ phase = "link" /\ next > Len(types)
  /\ Begin("structs", structs)
  /\ UNCHANGED <<types, next, structs, collections, declared>>

(* Structs and collections are visited in the order of pointers, and the   *)
(* instantiations of what was declared in the order of a hash set.         *)
EmitStruct ==
  /\ phase = "structs"
  /\ IF todo = {} THEN Begin("collections", collections) /\ UNCHANGED declared
     ELSE \E struct \in todo :
            /\ declared' = emit_tuple(declared, struct)
            /\ todo' = todo \ {struct} /\ UNCHANGED phase
  /\ UNCHANGED <<types, next, structs, collections>>

EmitCollection ==
  /\ phase = "collections"
  /\ IF todo = {}
     THEN /\ Begin("functions", {decl.of : decl \in {d \in Range(declared) : d.what = "collection"}})
          /\ UNCHANGED declared
     ELSE \E inst \in todo :
            /\ declared' = emit_collection(declared, inst)
            /\ todo' = todo \ {inst} /\ UNCHANGED phase
  /\ UNCHANGED <<types, next, structs, collections>>

(* The functions of collections, then those of structs, use names that     *)
(* were all declared; their order matters to none.                         *)
EmitFunctions ==
  /\ phase = "functions"
  /\ declared' = declared \o SetToSeq({Declaration("functions", inst) : inst \in todo})
                          \o SetToSeq({Declaration("struct functions", struct.type) : struct \in structs})
  /\ Begin("done", {})
  /\ UNCHANGED <<types, next, structs, collections>>

LinkNext ==
  \/ Canonicalize \/ StartLinking \/ Link
  \/ StartEmission \/ EmitStruct \/ EmitCollection \/ EmitFunctions

LinkSpec == LInit /\ [][LinkNext]_linkVars

-----------------------------------------------------------------------------
(* The objects that SSADestruction may meet on the way to an element: a    *)
(* path is a sequence of types, from the one allocated inwards.            *)
Inners(t) == IF IsTuple(t) THEN Range(t[2]) ELSE IF IsCollection(t) THEN {ElementType(t)} ELSE {}

RECURSIVE Nestings(_)
Nestings(t) == {<<t>>} \cup UNION {{<<t>> \o path : path \in Nestings(u)} : u \in Inners(t)}

(* What is in a collection that is the field of a tuple which is in        *)
(* something else: implement(Type) instantiates the fields of a tuple, but *)
(* does not look into them.                                                *)
InFieldOfInner(path) ==
  \E i \in 2 .. Len(path) - 2 : IsTuple(path[i]) /\ IsCollection(path[i + 1])

FunctionsNeeded(t) ==
  IF IsCollection(t) THEN <<"functions", get_prefix(instantiate(get_implementation(t), t))>>
  ELSE <<"struct functions", get_code(t)>>

Name(decl) ==
  <<decl.what, IF decl.what \in {"collection", "functions"} THEN get_prefix(decl.of) ELSE get_code(decl.of)>>

Names == {Name(decl) : decl \in Range(declared)}

(* It stops at a selection that is not registered or does not match.       *)
Destructible(t) ==
  \/ IsTuple(t)
  \/ IsCollection(t) /\ Matches(get_implementation(t), t)

(* SSADestruction finds the functions of every collection and tuple that   *)
(* the program can get at, but of those in a collection that is the field  *)
(* of an inner tuple (ImplLinkerPass.cpp: link_implementation).            *)
LinkedIsEnough ==
  phase = "done" =>
    \A k \in DOMAIN types : \A path \in Nestings(types[k]) :
      Destructible(Last(path)) /\ ~InFieldOfInner(path) => FunctionsNeeded(Last(path)) \in Names

(* The structs and collections that a declaration names.  A reference to   *)
(* a tuple names its struct as well; nothing sees to it that there is one, *)
(* and it is left out.                                                     *)
UsedType(t) == IF IsTuple(t) THEN {<<"struct", get_code(t)>>} ELSE {}

Uses(decl) ==
  CASE decl.what = "collection" -> UNION {UsedType(t) : t \in Range(decl.of.types)}
    [] decl.what = "struct" ->
         UNION {IF IsCollection(t) THEN {<<"collection", get_prefix(instantiate(get_implementation(t), t))>>}
                ELSE UsedType(t) : t \in Range(decl.of[2])}
    [] OTHER -> {}

(* Collections that are fields are declared when the first struct is that  *)
(* has them; collections of tuples may then come too early.                *)
IsField(decl) ==
  decl.what = "collection" /\ \E struct \in structs : Contains(struct.fields, decl.of)

(* Nothing is declared twice, and all that a declaration uses is declared  *)
(* before, in whatever order pointers lead to them; but for collections of *)
(* tuples that are fields (ImplLinker.cpp: emit, emit_tuple).              *)
DeclaredBeforeUse ==
  /\ \A i, j \in DOMAIN declared : Name(declared[i]) = Name(declared[j]) => i = j
  /\ \A i \in DOMAIN declared :
       ~IsField(declared[i]) =>
         Uses(declared[i]) \subseteq {Name(declared[j]) : j \in 1 .. i - 1}
=============================================================================
