----------------------------- MODULE LibraryMap ----------------------------
(***************************************************************************)
(* The runtime's maps that are a library's: stl_unordered_map,             *)
(* abseil_flat_hash_map and boost_flat_map, one of which the compiler      *)
(* selects for a type.  The library itself is external: a map of keys to   *)
(* values that is walked in some order of its keys, the flat map's in      *)
(* theirs.  Each wrapper goes its own way to insert a key or a value:      *)
(* operator[] makes a value where there is none, an assignment through it  *)
(* overwrites, and emplace leaves a key that is there as it is.  read,     *)
(* write and get are of keys that are there: for another one at throws,    *)
(* the wrapper exits, or get inserts it.  copy is the library's.           *)
(***************************************************************************)
EXTENDS Integers, Sequences, FiniteSets

CONSTANTS
  Keys,      (* the keys of a program, numbers                             *)
  Vals,
  Zero       (* Val(), what a value is made as                             *)

VARIABLES
  impl,      (* the implementation selected                                *)
  entries,   (* the library's map                                          *)
  ahead,     (* the keys from the iterator's _it to its _ie                *)
  last       (* the last operation, its arguments and what it returned     *)

vars == <<impl, entries, ahead, last>>

Implementations == {"stl_unordered_map", "abseil_flat_hash_map", "boost_flat_map"}

Init ==
  /\ impl \in Implementations
  /\ entries = [k \in {} |-> Zero]
  /\ ahead = <<>>
  /\ last = <<"new">>

-----------------------------------------------------------------------------
(* The library.                                                            *)

Assigned(k, v) == [x \in DOMAIN entries \cup {k} |-> IF x = k THEN v ELSE entries[x]]

Emplaced(k, v) == IF k \in DOMAIN entries THEN entries ELSE Assigned(k, v)

IsSorted(walk) == \A i, j \in DOMAIN walk : i < j => walk[i] < walk[j]

Seen(walk) == {walk[i] : i \in DOMAIN walk}

SeesOnce(walk) == \A i, j \in DOMAIN walk : walk[i] = walk[j] => i = j

(* The walks through a set of keys, each key once.                         *)
WalksOf(set) ==
  {walk \in [1 .. Cardinality(set) -> set] : SeesOnce(walk) /\ Seen(walk) = set}

(* The ways through the map; a hash map's may change with its table.       *)
Walks == {walk \in WalksOf(DOMAIN entries) : impl = "boost_flat_map" => IsSorted(walk)}

-----------------------------------------------------------------------------
(* What the wrappers have in common.  A program does not go on with an     *)
(* iterator once it has inserted or removed: the libraries invalidate it.  *)

Becomes(map, op) == entries' = map /\ ahead' = <<>> /\ last' = op /\ UNCHANGED impl

Returns(op) == last' = op /\ UNCHANGED <<impl, entries, ahead>>

Remove(k) == Becomes([x \in DOMAIN entries \ {k} |-> entries[x]], <<"remove", k>>)

Clear == Becomes([k \in {} |-> Zero], <<"clear">>)

(* write, and a store through the pointer get returns.                     *)
Write(k, v) ==
  /\ k \in DOMAIN entries
  /\ entries' = [entries EXCEPT ![k] = v]
  /\ last' = <<"write", k, v>>
  /\ UNCHANGED <<impl, ahead>>

Read(k) == k \in DOMAIN entries /\ Returns(<<"read", k, entries[k]>>)

Has(k) == Returns(<<"has", k, k \in DOMAIN entries>>)

Size == Returns(<<"size", Cardinality(DOMAIN entries)>>)

Begin ==
  /\ ahead' \in Walks
  /\ last' = <<"begin">>
  /\ UNCHANGED <<impl, entries>>

(* MUTANT: _it is advanced before the key and the value are taken.         *)
StepFirst(walk) == <<(IF Len(walk) > 1 THEN walk[2] ELSE walk[1]), Tail(walk)>>

(* The key that next hands out, and where it leaves _it.                   *)
Stepped(walk) == <<Head(walk), Tail(walk)>>

Yield ==
  /\ ahead # <<>>
  /\ LET step == Stepped(ahead) IN
     /\ last' = <<"next", step[1], entries[step[1]]>>
     /\ ahead' = step[2]
  /\ UNCHANGED <<impl, entries>>

End == ahead = <<>> /\ Returns(<<"end">>)

Common ==
  \/ \E k \in Keys : Remove(k) \/ Read(k) \/ Has(k)
  \/ \E k \in Keys, v \in Vals : Write(k, v)
  \/ Clear \/ Size \/ Begin \/ Yield \/ End

-----------------------------------------------------------------------------
(* The wrappers.                                                           *)

Insert(k) == Becomes(Emplaced(k, Zero), <<"insert", k>>)

Overwrite(k, v) == Becomes(Assigned(k, v), <<"insert_value", k, v>>)

Emplace(k, v) == Becomes(Emplaced(k, v), <<"insert_value", k, v>>)

(* std::unordered_map: operator[](key), operator[](key) = val.             *)
UnorderedMap ==
  /\ impl = "stl_unordered_map"
  /\ Common \/ \E k \in Keys : Insert(k) \/ \E v \in Vals : Overwrite(k, v)

(* absl::flat_hash_map: emplace(key, Val()), emplace(key, val).            *)
FlatHashMap ==
  /\ impl = "abseil_flat_hash_map"
  /\ Common \/ \E k \in Keys : Insert(k) \/ \E v \in Vals : Emplace(k, v)

(* boost::container::flat_map: operator[](key), emplace(key, val).         *)
FlatMap ==
  /\ impl = "boost_flat_map"
  /\ Common \/ \E k \in Keys : Insert(k) \/ \E v \in Vals : Emplace(k, v)

Next == UnorderedMap \/ FlatHashMap \/ FlatMap

Spec == Init /\ [][Next]_vars

-----------------------------------------------------------------------------
(* Properties                                                              *)

(* The walk is through keys that are there, through each of them once.     *)
WalkOK ==
  /\ impl \in Implementations
  /\ DOMAIN entries \subseteq Keys /\ \A k \in DOMAIN entries : entries[k] \in Vals
  /\ ahead \in Seq(DOMAIN entries) /\ SeesOnce(ahead)

(* Whichever is selected, it is a map: but for the value that is inserted  *)
(* at a key that is there already, which one of the three writes and two   *)
(* drop, as no other of the runtime's maps does.                           *)
Map == INSTANCE AssocSpec WITH
         Extra <- {}, Kept <- Keys,
         contents <- entries, left <- Seen(ahead)

Overwrites ==
  [][\A k \in Keys, v \in Vals :
       impl = "stl_unordered_map" /\ last' = <<"insert_value", k, v>> => entries'[k] = v]_vars

IsAMapButKept == Map!Spec /\ Overwrites
=============================================================================
