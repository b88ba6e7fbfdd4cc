----------------------------- MODULE AssocSpec -----------------------------
(***************************************************************************)
(* What the compiler expects of a runtime map (an Assoc<K, V>), whichever  *)
(* implementation is selected: the operations SSADestruction emits calls   *)
(* of, and the loop LowerFold makes of a fold,                             *)
(*   begin(it, map); while (next(it)) body                                 *)
(* which has to see each key once.  A key inserted without a value has any *)
(* value until it is written.  A program reads and writes keys that are    *)
(* there, and does not go on with a fold once it has inserted or removed.  *)
(* Extra and Kept are empty for a map; the module of an implementation     *)
(* whose fold sees more than the map holds, or whose insertion of a value  *)
(* leaves a key that is there as it is, names the keys concerned.          *)
(***************************************************************************)
EXTENDS FiniteSets

CONSTANTS
  Keys, Vals,
  Extra,      (* keys a fold may also see although they are not there      *)
  Kept        (* keys that may keep their value when one is inserted       *)

VARIABLES
  contents,   (* the value of each key that is there                       *)
  left,       (* the keys the current fold has yet to see                  *)
  last        (* the last operation, its arguments and what it returned    *)

Init ==
  /\ contents = [k \in {} |-> 0]
  /\ left = {}
  /\ last = <<"new">>

Put(k, v) == [x \in DOMAIN contents \cup {k} |-> IF x = k THEN v ELSE contents[x]]

(* An operation that inserts or removes ends a fold.                       *)
Changed(op) == left' = {} /\ last' = op

Insert(k) ==
  /\ IF k \in DOMAIN contents THEN UNCHANGED contents
     ELSE \E v \in Vals : contents' = Put(k, v)
  /\ Changed(<<"insert", k>>)

InsertValue(k, v) ==
  /\ \/ contents' = Put(k, v)
     \/ k \in Kept \cap DOMAIN contents /\ UNCHANGED contents
  /\ Changed(<<"insert_value", k, v>>)

Remove(k) ==
  /\ contents' = [x \in DOMAIN contents \ {k} |-> contents[x]]
  /\ Changed(<<"remove", k>>)

Clear == contents' = [k \in {} |-> 0] /\ Changed(<<"clear">>)

Write(k, v) ==
  /\ k \in DOMAIN contents
  /\ contents' = [contents EXCEPT ![k] = v]
  /\ last' = <<"write", k, v>>
  /\ UNCHANGED left

Read(k) ==
  /\ k \in DOMAIN contents
  /\ last' = <<"read", k, contents[k]>>
  /\ UNCHANGED <<contents, left>>

Has(k) ==
  /\ last' = <<"has", k, k \in DOMAIN contents>>
  /\ UNCHANGED <<contents, left>>

Size == last' = <<"size", Cardinality(DOMAIN contents)>> /\ UNCHANGED <<contents, left>>

Begin == left' = DOMAIN contents /\ last' = <<"begin">> /\ UNCHANGED contents

Yield(k) ==
  /\ k \in left
  /\ left' = left \ {k}
  /\ last' = <<"next", k, contents[k]>>
  /\ UNCHANGED contents

YieldExtra(k) ==
  /\ k \in Extra \ DOMAIN contents
  /\ \E v \in Vals : last' = <<"next", k, v>>
  /\ UNCHANGED <<contents, left>>

End == left = {} /\ last' = <<"end">> /\ UNCHANGED <<contents, left>>

Next ==
  \/ \E k \in Keys : Insert(k) \/ Remove(k) \/ Read(k) \/ Has(k) \/ Yield(k)
  \/ \E k \in Keys, v \in Vals : InsertValue(k, v) \/ Write(k, v)
  \/ \E k \in Extra : YieldExtra(k)
  \/ Clear \/ Size \/ Begin \/ End

Spec == Init /\ [][Next]_<<contents, left, last>>
=============================================================================
