------------------------------ MODULE SetSpec ------------------------------
(***************************************************************************)
(* What the compiler expects of runtime sets (Assoc<K, void>), several of  *)
(* them, because insert_input takes two: a set of keys each, a copy that   *)
(* shares nothing, and the loop LowerFold makes of a fold over one of them *)
(* which sees each key once.  A program does not go on with a fold over a  *)
(* set once it has changed that set; it may change the others.             *)
(***************************************************************************)
EXTENDS FiniteSets

CONSTANTS Keys, Sets

VARIABLES
  contents,   (* the keys of each set                                      *)
  over,       (* the set the current fold is over                          *)
  left,       (* the keys the fold has yet to see                          *)
  last        (* the last operation, its arguments and what it returned    *)

Init ==
  /\ contents = [s \in Sets |-> {}]
  /\ over \in Sets
  /\ left = {}
  /\ last = <<"new">>

Becomes(s, keys, op) ==
  /\ contents' = [contents EXCEPT ![s] = keys]
  /\ left' = IF s = over THEN {} ELSE left
  /\ last' = op
  /\ UNCHANGED over

Insert(s, k) == Becomes(s, contents[s] \cup {k}, <<"insert", s, k>>)

Remove(s, k) == Becomes(s, contents[s] \ {k}, <<"remove", s, k>>)

InsertInput(s, t) == Becomes(s, contents[s] \cup contents[t], <<"insert_input", s, t>>)

Copy(s, t) == Becomes(t, contents[s], <<"copy", s, t>>)

Clear(s) == Becomes(s, {}, <<"clear", s>>)

Has(s, k) == last' = <<"has", s, k, k \in contents[s]>> /\ UNCHANGED <<contents, over, left>>

Size(s) == last' = <<"size", s, Cardinality(contents[s])>> /\ UNCHANGED <<contents, over, left>>

Begin(s) ==
  /\ over' = s
  /\ left' = contents[s]
  /\ last' = <<"begin", s>>
  /\ UNCHANGED contents

Yield(k) ==
  /\ k \in left
  /\ left' = left \ {k}
  /\ last' = <<"next", k>>
  /\ UNCHANGED <<contents, over>>

End == left = {} /\ last' = <<"end">> /\ UNCHANGED <<contents, over, left>>

Next ==
  \/ \E s \in Sets, k \in Keys : Insert(s, k) \/ Remove(s, k) \/ Has(s, k)
  \/ \E s, t \in Sets : InsertInput(s, t) \/ Copy(s, t)
  \/ \E s \in Sets : Clear(s) \/ Size(s) \/ Begin(s)
  \/ \E k \in Keys : Yield(k)
  \/ End

Spec == Init /\ [][Next]_<<contents, over, left, last>>
=============================================================================
