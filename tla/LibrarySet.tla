----------------------------- MODULE LibrarySet ----------------------------
(***************************************************************************)
(* The runtime's sets that are a library's: stl_unordered_set,             *)
(* abseil_flat_hash_set, boost_flat_set and sparse_bitset (a Roaring       *)
(* bitmap), one of which the compiler selects for a type.  The library     *)
(* itself is external: a set of keys that is walked in some order, the     *)
(* flat set's and the Roaring bitmap's in that of the keys.  A Roaring     *)
(* bitmap takes 32 bits of the size_t it is given.  insert_input hands the *)
(* library the range of another set, which may not be one of the set that  *)
(* it is inserted into; a Roaring bitmap is or-ed with another, or itself. *)
(***************************************************************************)
EXTENDS Integers, Sequences, FiniteSets

CONSTANTS
  Keys,      (* the keys of a program, numbers                             *)
  Sets,      (* the sets of the program                                    *)
  Roaring    (* how many numbers a Roaring bitmap tells apart, 2^32        *)

VARIABLES
  impl,      (* the implementation selected                                *)
  keys,      (* the library's set for each set of the program              *)
  iter,      (* the program's iterator: its set, the keys from _it to _ie  *)
  last       (* the last operation, its arguments and what it returned     *)

vars == <<impl, keys, iter, last>>

Implementations ==
  {"stl_unordered_set", "abseil_flat_hash_set", "boost_flat_set", "sparse_bitset"}

IsRoaring == impl = "sparse_bitset"

(* The key as the library has it.                                          *)
Key(k) == IF IsRoaring THEN k % Roaring ELSE k

Init ==
  /\ impl \in Implementations
  /\ keys = [s \in Sets |-> {}]
  /\ iter \in [set : Sets, ahead : {<<>>}]
  /\ last = <<"new">>

-----------------------------------------------------------------------------
IsSorted(walk) == \A i, j \in DOMAIN walk : i < j => walk[i] < walk[j]

Seen(walk) == {walk[i] : i \in DOMAIN walk}

SeesOnce(walk) == \A i, j \in DOMAIN walk : walk[i] = walk[j] => i = j

(* The walks through a set, each key once.                                 *)
WalksOf(set) ==
  {walk \in [1 .. Cardinality(set) -> set] : SeesOnce(walk) /\ Seen(walk) = set}

Walks(s) ==
  {walk \in WalksOf(keys[s]) : impl \in {"boost_flat_set", "sparse_bitset"} => IsSorted(walk)}

(* What the wrappers have in common.  Set s changes; the program's         *)
(* iterator is not used further if it is its.                              *)
Becomes(s, new, op) ==
  /\ keys' = [keys EXCEPT ![s] = new]
  /\ iter' = IF iter.set = s THEN [iter EXCEPT !.ahead = <<>>] ELSE iter
  /\ last' = op
  /\ UNCHANGED impl

Returns(op) == last' = op /\ UNCHANGED <<impl, keys, iter>>

(* MUTANT: the copy of a set is the set itself when it is inserted into.   *)
InsertShared(s, k) ==
  /\ keys' = [t \in Sets |-> IF keys[t] = keys[s] THEN keys[t] \cup {Key(k)} ELSE keys[t]]
  /\ iter' = IF iter.set = s THEN [iter EXCEPT !.ahead = <<>>] ELSE iter
  /\ last' = <<"insert", s, k>>
  /\ UNCHANGED impl

Insert(s, k) == Becomes(s, keys[s] \cup {Key(k)}, <<"insert", s, k>>)

Remove(s, k) == Becomes(s, keys[s] \ {Key(k)}, <<"remove", s, k>>)

(* copy, into the variable t.                                              *)
Copy(s, t) == Becomes(t, keys[s], <<"copy", s, t>>)

Clear(s) == Becomes(s, {}, <<"clear", s>>)

Has(s, k) == Returns(<<"has", s, k, Key(k) \in keys[s]>>)

Size(s) == Returns(<<"size", s, Cardinality(keys[s])>>)

Begin(s) ==
  /\ \E walk \in Walks(s) : iter' = [set |-> s, ahead |-> walk]
  /\ last' = <<"begin", s>>
  /\ UNCHANGED <<impl, keys>>

(* iterator::next.                                                         *)
Yield ==
  /\ iter.ahead # <<>>
  /\ last' = <<"next", Head(iter.ahead)>>
  /\ iter' = [iter EXCEPT !.ahead = Tail(@)]
  /\ UNCHANGED <<impl, keys>>

End == iter.ahead = <<>> /\ Returns(<<"end">>)

Common ==
  \/ \E s \in Sets, k \in Keys : Insert(s, k) \/ Remove(s, k) \/ Has(s, k)
  \/ \E s, t \in Sets : Copy(s, t)
  \/ \E s \in Sets : Clear(s) \/ Size(s) \/ Begin(s)
  \/ Yield
  \/ End

-----------------------------------------------------------------------------
(* The wrappers and their insert_input.                                    *)

(* Base::insert(begin, end), of the flat set with ordered_unique_range.    *)
InsertRange(s, t) ==
  s # t /\ Becomes(s, keys[s] \cup keys[t], <<"insert_input", s, t>>)

(* *this |= *other.                                                        *)
Or(s, t) == Becomes(s, keys[s] \cup keys[t], <<"insert_input", s, t>>)

UnorderedSet ==
  impl = "stl_unordered_set" /\ (Common \/ \E s, t \in Sets : InsertRange(s, t))

FlatHashSet ==
  impl = "abseil_flat_hash_set" /\ (Common \/ \E s, t \in Sets : InsertRange(s, t))

FlatSet ==
  impl = "boost_flat_set" /\ (Common \/ \E s, t \in Sets : InsertRange(s, t))

SparseBitSet ==
  IsRoaring /\ (Common \/ \E s, t \in Sets : Or(s, t))

Next == UnorderedSet \/ FlatHashSet \/ FlatSet \/ SparseBitSet

Spec == Init /\ [][Next]_vars

-----------------------------------------------------------------------------
(* Properties                                                              *)

(* The walk is through keys that are there, through each of them once,     *)
(* whatever happened to the other sets meanwhile.                          *)
WalkOK ==
  /\ impl \in Implementations
  /\ \A s \in Sets : keys[s] \subseteq Keys
  /\ iter.ahead \in Seq(keys[iter.set])
  /\ SeesOnce(iter.ahead)

(* Whichever is selected, its sets are sets of the program's keys.         *)
AsSets == INSTANCE SetSpec WITH
            contents <- keys,
            over <- iter.set,
            left <- Seen(iter.ahead)

IsASet == AsSets!Spec
=============================================================================
