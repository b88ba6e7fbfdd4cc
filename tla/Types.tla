------------------------------- MODULE Types --------------------------------
(***************************************************************************)
(* MEMOIR's types (ir/src/Types.cpp) and how tuples of them are laid out   *)
(* (TypeLayout.hpp).  There is one object for each type, so that types are *)
(* compared as pointers: the getters look a type up by its parts and make  *)
(* it only if they do not find it.  The types of which there is one each   *)
(* are there from the start.  A pointer is the place of a type in made.    *)
(*                                                                         *)
(* TypeConverter gives a tuple its LLVM struct: it goes over the fields,   *)
(* one a step, and packs integers whose width is no power of two of bytes  *)
(* into one element of the struct.                                         *)
(***************************************************************************)
EXTENDS Integers, Sequences, FiniteSets, SequencesExt

CONSTANTS
  Primitives,     (* the types of which there is one each, in a sequence   *)
  Selections, NoSelection, Lengths,
  FieldTypes,     (* the types of the fields that are laid out             *)
  MaxMade,        (* bound: the types made                                 *)
  MaxFields       (* bound: the fields laid out                            *)

VARIABLES
  made,           (* the types: [kind, parts, sel], what parts it has,     *)
                  (* pointers all, and its selection, length or width      *)
  tuple_types,    (* [size, type], multimap by size                        *)
  array_types,    (* [elem, type], multimap by element                     *)
  table,          (* the maps: type by [kind, parts, sel]                  *)
  answer,         (* the type that was asked for last, and that returned   *)
  fields,         (* the LLVM types of the fields laid out                 *)
  widths,         (* current_field_width after each of them                *)
  offsets, ranges, elements,
  phase           (* "types", "fields" or "done"                           *)

tables == <<made, tuple_types, array_types, table, answer>>

layout == <<fields, widths, offsets, ranges, elements>>

typesVars == <<tables, layout, phase>>

-----------------------------------------------------------------------------
(* The types.                                                              *)

Type(kind, parts, sel) == [kind |-> kind, parts |-> parts, sel |-> sel]

Primitive(kind, width) == Type(kind, <<>>, width)

ReferenceType(t) == Type("ref", <<t>>, NoSelection)

TupleType(parts) == Type("tuple", parts, NoSelection)

ArrayType(elem, length) == Type("array", <<elem>>, length)

AssocArrayType(key, value, selection) == Type("assoc", <<key, value>>, selection)

SequenceType(elem, selection) == Type("seq", <<elem>>, selection)

IsCollection(type) == type.kind \in {"array", "assoc", "seq"}

(* set_selection, of collections only: an array remains as it is.          *)
Selected(type, selection) == IF type.kind = "array" THEN type ELSE [type EXCEPT !.sel = selection]

Pointers == DOMAIN made

(* What a type is, whatever its parts are called: all of it, as a tree.    *)
Tree ==
  LET tree[t \in Pointers] ==
        [made[t] EXCEPT !.parts = [i \in DOMAIN made[t].parts |-> tree[made[t].parts[i]]]]
  IN  tree

Asked(type) == [type EXCEPT !.parts = [i \in DOMAIN type.parts |-> Tree[type.parts[i]]]]

Returned(type, t) == answer' = [asked |-> Asked(type), type |-> t]

MakeType(type) ==
  /\ Len(made) < Len(Primitives) + MaxMade
  /\ made' = Append(made, type)
  /\ Returned(type, Len(made) + 1)

(* MUTANT: tuples of a size are taken for one another.                     *)
KnownBySize(parts) == {i \in DOMAIN tuple_types : tuple_types[i].size = Len(parts)}

(* The entries of a multimap whose type is the one that is asked for.      *)
KnownTuples(parts) ==
  {i \in DOMAIN tuple_types : tuple_types[i].size = Len(parts) /\ made[tuple_types[i].type].parts = parts}

KnownArrays(elem, length) ==
  {i \in DOMAIN array_types : array_types[i].elem = elem /\ made[array_types[i].type].sel = length}

(* A type of which there is one.                                           *)
GetPrimitive ==
  \E t \in DOMAIN Primitives :
    /\ Returned(Primitives[t], t)
    /\ UNCHANGED <<made, tuple_types, array_types, table>>

GetTuple ==
  \E parts \in SeqOf(Pointers, 2) \ {<<>>} :
    LET type == TupleType(parts)
        known == KnownTuples(parts)
    IN  /\ UNCHANGED <<array_types, table>>
        /\ IF known # {}
             THEN /\ \E i \in known : Returned(type, tuple_types[i].type)
                  /\ UNCHANGED <<made, tuple_types>>
             ELSE /\ MakeType(type)
                  /\ tuple_types' = Append(tuple_types, [size |-> Len(parts), type |-> Len(made) + 1])

GetArray ==
  \E elem \in Pointers, length \in Lengths :
    LET type == ArrayType(elem, length)
        known == KnownArrays(elem, length)
    IN  /\ UNCHANGED <<tuple_types, table>>
        /\ IF known # {}
             THEN /\ \E i \in known : Returned(type, array_types[i].type)
                  /\ UNCHANGED <<made, array_types>>
             ELSE /\ MakeType(type)
                  /\ array_types' = Append(array_types, [elem |-> elem, type |-> Len(made) + 1])

(* References, maps and sequences are looked up in maps.                   *)
Find(type) ==
  /\ UNCHANGED <<tuple_types, array_types>>
  /\ IF type \in DOMAIN table
       THEN Returned(type, table[type]) /\ UNCHANGED <<made, table>>
       ELSE /\ MakeType(type)
            /\ table' = [k \in DOMAIN table \cup {type} |->
                           IF k = type THEN Len(made) + 1 ELSE table[k]]

GetReference == \E t \in Pointers : Find(ReferenceType(t))

GetAssoc == \E key, value \in Pointers, s \in Selections : Find(AssocArrayType(key, value, s))

GetSequence == \E elem \in Pointers, s \in Selections : Find(SequenceType(elem, s))

SetSelection ==
  \E t \in Pointers, s \in Selections :
    /\ IsCollection(made[t])
    /\ IF made[t].kind = "array"
         THEN Returned(made[t], t) /\ UNCHANGED <<made, tuple_types, array_types, table>>
         ELSE Find(Selected(made[t], s))

(* operator<=: pointers again, but for collections whose keys and elements *)
(* are at most those of the other, whatever the selections.                *)
AtMost(t, u) ==
  LET Steps == Len(made)
      atMost[n \in 0 .. Steps] ==
        IF n = 0 THEN {<<x, x>> : x \in Pointers}
        ELSE atMost[n - 1] \cup
               {<<x, y>> \in Pointers \X Pointers :
                  /\ made[x].kind = made[y].kind /\ made[x].kind \in {"assoc", "seq"}
                  /\ \A i \in DOMAIN made[x].parts :
                       <<made[x].parts[i], made[y].parts[i]>> \in atMost[n - 1]}
  IN  <<t, u>> \in atMost[Steps]

-----------------------------------------------------------------------------
(* Codes, as sequences of the words that "_" joins.                        *)

IsInteger(tree) == tree.kind \in {"u", "i"}

Unknown == Type("unknown", <<>>, NoSelection)

PrimitiveCode(type) == << <<type.kind, type.sel>> >>

(* What the other types make of the codes of their parts, joined.          *)
ReferenceCode(parts) == parts \o << <<"ref">> >>

TupleCode(type, parts) == << <<"T", Len(type.parts)>> >> \o parts

ArrayCode == << <<"collection">> >>

SelectedCode(type, parts) ==
  << <<IF type.sel = NoSelection THEN type.kind ELSE type.sel>> >> \o parts

get_code ==
  LET code[t \in Pointers] ==
        LET type == made[t]
            parts == FlattenSeq([i \in DOMAIN type.parts |-> code[type.parts[i]]])
        IN  CASE type.kind = "ref" -> ReferenceCode(parts)
              [] type.kind = "tuple" -> TupleCode(type, parts)
              [] type.kind = "array" -> ArrayCode
              [] type.kind \in {"seq", "assoc"} -> SelectedCode(type, parts)
              [] OTHER -> PrimitiveCode(type)
  IN  code

(* The widths that each sign is decoded with.                              *)
Widths(sign) == IF sign = "u" THEN {2, 8, 16, 32, 64} ELSE {8, 16, 32, 64}

(* The sign and width are those at the start of the code, whatever follows *)
(* them; tuples and collections are not decoded.                           *)
from_code(code) ==
  LET decode[n \in 0 .. Len(code)] ==
        IF n = 0 THEN Unknown
        ELSE IF code[1][1] \in {"u", "i"} /\ code[1][2] \in Widths(code[1][1])
          THEN Primitive(code[1][1], code[1][2])
        ELSE IF n = 1 /\ code[1][1] \in {"f", "ptr", "boolean", "void"}
          THEN Primitive(code[1][1], code[1][2])
        ELSE IF n > 1 /\ code[n] = <<"ref">>
          THEN IF decode[n - 1] = Unknown THEN Unknown ELSE ReferenceType(decode[n - 1])
        ELSE Unknown
  IN  decode[Len(code)]

-----------------------------------------------------------------------------
(* The layout of a tuple.                                                  *)

Integer(w) == <<"int", w>>

is_size(n) == n \in {8, 16, 32, 64, 128}

RECURSIVE NextPower(_, _)
NextPower(p, n) == IF p >= n THEN p ELSE NextPower(2 * p, n)

(* The bits of n >> 3, less one, are smeared downwards: the bytes are      *)
(* rounded up to a power of two, after the bits were rounded down to bytes. *)
get_next_size(n) == IF n < 8 THEN 8 ELSE 8 * NextPower(1, n \div 8)

(* The LLVM type of each type: pointers are opaque.                        *)
RECURSIVE LLVM(_)
LLVM(type) ==
  CASE type.kind \in {"u", "i", "boolean"} -> Integer(type.sel)
    [] type.kind \in {"ptr", "ref", "assoc", "seq"} -> <<"ptr", "opaque">>
    [] type.kind = "array" -> <<"array", LLVM(type.parts[1])>>
    [] OTHER -> <<type.kind, type.parts>>

IsBitField(llvm) == llvm[1] = "int" /\ get_next_size(llvm[2]) # llvm[2]

Width == IF widths = <<>> THEN 0 ELSE Last(widths)

NoRange == <<0, 0>>

(* MUTANT: the bits before a field of another kind are forgotten.          *)
CommitNone(llvm) == elements

(* A bit field that is ended by a field of another kind.                   *)
Commit(llvm) ==
  IF ~IsBitField(llvm) /\ Width # 0 THEN Append(elements, Integer(Width)) ELSE elements

(* The field's own type follows, for a bit field that fills a size too.    *)
LayField(type) ==
  LET llvm == LLVM(type)
      bits == IsBitField(llvm)
      width == IF bits THEN Width + llvm[2] ELSE 0
      offset == IF fields = <<>> THEN 0
                ELSE Last(offsets).next + (IF ~bits /\ Width # 0 THEN 1 ELSE 0)
      ends == ~bits \/ is_size(width)
  IN  /\ fields' = Append(fields, llvm)
      /\ widths' = Append(widths, IF ends THEN 0 ELSE width)
      /\ ranges' = Append(ranges, IF bits THEN <<Width, width>> ELSE NoRange)
      /\ offsets' = Append(offsets, [at |-> offset, next |-> IF ends THEN offset + 1 ELSE offset])
      /\ elements' = Commit(llvm)
                       \o (IF bits /\ ends THEN <<Integer(width)>> ELSE <<>>)
                       \o (IF ends THEN <<llvm>> ELSE <<>>)

EndFields ==
  elements' = IF Width # 0 THEN Append(elements, Integer(get_next_size(Width))) ELSE elements

-----------------------------------------------------------------------------
TypesInit ==
  /\ made = Primitives
  /\ tuple_types = <<>> /\ array_types = <<>> /\ table = [k \in {} |-> 0]
  /\ answer = [asked |-> Primitives[1], type |-> 1]
  /\ fields = <<>> /\ widths = <<>> /\ offsets = <<>> /\ ranges = <<>> /\ elements = <<>>
  /\ phase \in {"types", "fields"}

Get ==
  /\ phase = "types"
  /\ GetPrimitive \/ GetTuple \/ GetArray \/ GetReference \/ GetAssoc \/ GetSequence \/ SetSelection
  /\ UNCHANGED <<layout, phase>>

Lay ==
  /\ phase = "fields"
  /\ UNCHANGED tables
  /\ \/ /\ Len(fields) < MaxFields
        /\ \E type \in FieldTypes : LayField(type)
        /\ UNCHANGED phase
     \/ EndFields /\ phase' = "done" /\ UNCHANGED <<fields, widths, offsets, ranges>>

LaidOut == phase = "done" /\ UNCHANGED typesVars

TypesNext == Get \/ Lay \/ LaidOut

-----------------------------------------------------------------------------
(* There is one object for each type, and a getter returns the one that it *)
(* was asked for: types that are compared as pointers are compared rightly *)
(* (Type::operator==).                                                     *)
TypesAreUnique ==
  /\ \A t, u \in Pointers : Tree[t] = Tree[u] => t = u
  /\ Tree[answer.type] = answer.asked

(* A code is decoded to the type that it was made for, or not at all; but  *)
(* that of a reference to an integer is decoded to the integer, and        *)
(* arrays, tuples, other collections and i2 are not decoded.               *)
ReferredTo(t) ==
  LET to[u \in Pointers] == IF made[u].kind = "ref" THEN to[made[u].parts[1]] ELSE made[u] IN to[t]

CodesAreRead ==
  \A t \in Pointers :
    LET inner == ReferredTo(t)
    IN  from_code(get_code[t]) =
          IF inner.kind \in {"tuple", "array", "seq", "assoc"} \/ (inner.kind = "i" /\ inner.sel = 2)
            THEN Unknown
          ELSE IF IsInteger(inner) THEN inner ELSE Tree[t]

(* A type is at most another exactly if they differ in the selections of   *)
(* collections only, but below references, tuples and arrays in nothing;   *)
(* so it is an equivalence (operator<=).                                   *)
Unselected ==
  LET tree[t \in Pointers] ==
        IF made[t].kind \in {"assoc", "seq"}
          THEN [Selected(made[t], NoSelection) EXCEPT
                  !.parts = [i \in DOMAIN made[t].parts |-> tree[made[t].parts[i]]]]
          ELSE Tree[t]
  IN  tree

SelectionsAreIgnored ==
  \A t, u \in Pointers : AtMost(t, u) <=> Unselected[t] = Unselected[u]

(* Fields do not overlap, and each is in the element that it is said to be *)
(* in, whose type is its own or an integer with its bits.  But a tuple has *)
(* room for too many elements after bits that fill a size, and for too few *)
(* bits if its last element is left with more than a byte of them.         *)
FillsASize ==
  \E f \in DOMAIN fields : f < Len(fields) /\ IsBitField(fields[f]) /\ widths[f] = 0

LeavesBits == Width > 8 /\ Width % 8 # 0

LayoutHolds ==
  (phase = "done" /\ ~FillsASize /\ ~LeavesBits) =>
    \A f \in DOMAIN fields :
      LET at == offsets[f].at IN
      /\ at < Len(elements)
      /\ IF ranges[f] = NoRange
           THEN elements[at + 1] = fields[f]
           ELSE elements[at + 1][1] = "int" /\ ranges[f][2] <= elements[at + 1][2]
      /\ \A g \in DOMAIN fields \ {f} :
           offsets[g].at = at => ranges[f][2] <= ranges[g][1] \/ ranges[g][2] <= ranges[f][1]
=============================================================================
