------------------------------- MODULE Coerce -------------------------------
(***************************************************************************)
(* CoercePass: front ends emit collection operations with integers of any  *)
(* width; the pass casts the indices of an access, and the value that it   *)
(* writes, to the type the collection has for them.                        *)
(* A MEMOIR type is [kind |-> "assoc", key, elem], [kind |-> "seq", elem], *)
(* [kind |-> "tuple", fields] or [kind |-> "plain", as] with an LLVM type, *)
(* which is <<"int", width>>, <<"float", width>> or <<"ptr">>.             *)
(* An access has [obj, index, field, value, op]: the type of its object,   *)
(* the LLVM types of its indices, the numbers they are if they are         *)
(* constants (of tuple fields), the LLVM type of the value written and the *)
(* one the operation is named for (write_u32), or <<>> without.            *)
(***************************************************************************)
EXTENDS Integers, Sequences

CONSTANTS
  Accesses,   (* the accesses to check                                     *)
  SizeType    (* the LLVM type of size_t                                   *)

VARIABLES
  access,     (* the access                                                *)
  indices,    (* the LLVM types of its indices, casts included             *)
  written,    (* the LLVM type of the value written, casts included        *)
  object,     (* obj_type                                                  *)
  position,   (* the index that is visited; 0 when the visit has ended     *)
  failed      (* an assertion failed                                       *)

coerceVars == <<access, indices, written, object, position, failed>>

IsCollection(t) == t.kind \in {"assoc", "seq"}

LLVMType(t) == IF t.kind = "plain" THEN t.as ELSE <<"ptr">>

KeyType(t) == IF t.kind = "assoc" THEN LLVMType(t.key) ELSE SizeType

(* coerce(use, ...): integers and floats are cast to their own kind only.  *)
Cast(from, to) ==
  IF from[1] = to[1] /\ from[1] \in {"int", "float"} THEN to ELSE from

(* The type below an index.                                                *)
Below(a, t, k) ==
  IF IsCollection(t) THEN t.elem
  ELSE IF t.kind = "tuple" /\ a.field[k] \in DOMAIN t.fields THEN t.fields[a.field[k]]
  ELSE t

(* The type of what an access reaches with the indices before the k-th.    *)
Accessed(a, k) ==
  LET down[n \in 1 .. Len(a.index) + 1] ==
        IF n = 1 THEN a.obj ELSE LET above == down[n - 1] IN Below(a, above, n - 1)
  IN  down[k]

(* What the operation is named for, or else the type of what it accesses.  *)
ElementType(a) ==
  IF a.op # <<>> THEN a.op ELSE LLVMType(Accessed(a, Len(a.index) + 1))

(* The program was built for the types it names: an index finds a          *)
(* collection or a field of a tuple.                                       *)
AccessesAreTyped ==
  \A a \in Accesses :
    /\ Len(a.index) \in Nat /\ DOMAIN a.index = 1 .. Len(a.index)
    /\ \A k \in 1 .. Len(a.index) :
         LET t == Accessed(a, k) IN
         IsCollection(t) \/ (t.kind = "tuple" /\ a.field[k] \in DOMAIN t.fields)

CoInit ==
  /\ access \in Accesses
  /\ indices = access.index
  /\ written = access.value
  /\ object = access.obj
  /\ position = 1
  /\ failed = FALSE

(* An index into a collection: the object stays what it was.               *)
CoerceIndex ==
  /\ position \in DOMAIN indices /\ IsCollection(object) /\ ~failed
  /\ indices' = [indices EXCEPT ![position] = Cast(@, KeyType(object))]
  /\ position' = position + 1
  /\ UNCHANGED <<access, written, object, failed>>

(* MUTANT: the object stays what it was for a field, too.                  *)
StayAtField ==
  /\ position \in DOMAIN indices /\ object.kind = "tuple" /\ ~failed
  /\ position' = position + 1
  /\ UNCHANGED <<access, indices, written, object, failed>>

(* A field of a tuple: the object is the field.                            *)
EnterField ==
  /\ position \in DOMAIN indices /\ object.kind = "tuple" /\ ~failed
  /\ LET field == access.field[position] IN
     IF field \in DOMAIN object.fields
     THEN object' = object.fields[field] /\ position' = position + 1 /\ UNCHANGED failed
     ELSE failed' = TRUE /\ UNCHANGED <<object, position>>
  /\ UNCHANGED <<access, indices, written>>

UnknownObject ==
  /\ position \in DOMAIN indices /\ object.kind = "plain" /\ ~failed
  /\ failed' = TRUE
  /\ UNCHANGED <<access, indices, written, object, position>>

(* The value written or inserted, by the type of the element.              *)
CoerceValue ==
  /\ position = Len(access.index) + 1
  /\ written' = IF written = <<>> THEN written ELSE Cast(written, ElementType(access))
  /\ position' = 0
  /\ UNCHANGED <<access, indices, object, failed>>

CoNext ==
  \/ CoerceIndex \/ EnterField \/ UnknownObject \/ CoerceValue
  \/ ((position = 0 \/ failed) /\ UNCHANGED coerceVars)

CoSpec == CoInit /\ [][CoNext]_coerceVars

-----------------------------------------------------------------------------
(* Properties                                                              *)

(* What the code can cast has the type of what it indexes.                 *)
Fits(k) ==
  LET t == Accessed(access, k) IN
  IsCollection(t) => indices[k] = Cast(access.index[k], KeyType(t))

(* An index below a collection is an index all the same.                   *)
BelowCollections(k) == \E m \in 1 .. k - 1 : IsCollection(Accessed(access, m))

(* Indices down to the first collection, through any fields, and the       *)
(* values written have the types that the collections have for them; the   *)
(* pass does not fail on any object.                                       *)
OuterIndicesAreCoerced ==
  /\ position = 0 => \A k \in DOMAIN indices : BelowCollections(k) \/ Fits(k)
  /\ position = 0 /\ written # <<>> => written = Cast(access.value, ElementType(access))
  /\ ~failed

(* "If the index doesn't match the correct type, we need to coerce it": so *)
(* of all indices, those of nested collections too.                        *)
IndicesAreCoerced == position = 0 => \A k \in DOMAIN indices : Fits(k)
=============================================================================
