------------------------------- MODULE BitMap ------------------------------
(***************************************************************************)
(* memoir/impl/bitmap: a map from small numbers as a dynamic bitset beside *)
(* a vector of values.  Bits and values grow on their own when a key is    *)
(* inserted and never shrink; a removed key leaves its value behind.       *)
(* boost::dynamic_bitset is external: resize keeps the bits there and      *)
(* appends zeros, find_first and find_next return the next bit that is set *)
(* or npos.  A key is below the largest value of size_t, key + 1 does not  *)
(* wrap.  copy is the copy of both members.                                *)
(***************************************************************************)
EXTENDS Integers, FiniteSets

CONSTANTS
  Keys,    (* the keys: numbers, an enumeration's or the program's own     *)
  Vals,
  Zero     (* the value of a value that was never written                  *)

ASSUME KeysAssumption == Keys \subseteq Nat /\ Zero \in Vals

VARIABLES
  bits,    (* the bitset: a function from 0 .. size - 1                    *)
  vals,    (* _vals: likewise                                              *)
  cur,     (* _cur of the program's iterator                               *)
  last     (* the last operation, its arguments and what it returned       *)

vars == <<bits, vals, cur, last>>

Npos == -1

Empty == [i \in {} |-> Zero]

Resized(f, n, z) == [i \in 0 .. n - 1 |-> IF i \in DOMAIN f THEN f[i] ELSE z]

(* resize, for a key that is not within the size.                          *)
GrownFor(f, k, z) == IF k \in DOMAIN f THEN f ELSE Resized(f, k + 1, z)

Members == {k \in DOMAIN bits : bits[k]}

(* MUTANT: bits from the position itself on.                               *)
FindFromOwn(k) ==
  LET later == {i \in Members : i > k - 1} IN
  IF later = {} THEN {Npos} ELSE {i \in later : \A j \in later : i <= j}

(* find_next, and find_first for the position before the first.            *)
FindAfter(k) ==
  LET later == {i \in Members : i > k} IN
  IF later = {} THEN {Npos} ELSE {i \in later : \A j \in later : i <= j}

-----------------------------------------------------------------------------
(* The program's iterator is not used once keys were inserted or removed.  *)
Changed(op) == cur' = Npos /\ last' = op

Init ==
  /\ bits = Empty
  /\ vals = Empty
  /\ cur = Npos
  /\ last = <<"new">>

(* MUTANT: the values grow only when the bits do, and by the bits' size.   *)
InsertedVals(k) == IF k \in DOMAIN bits THEN vals ELSE Resized(vals, k, Zero)

ValsFor(k) == GrownFor(vals, k, Zero)

Insert(k) ==
  /\ bits' = [GrownFor(bits, k, FALSE) EXCEPT ![k] = TRUE]
  /\ vals' = ValsFor(k)
  /\ Changed(<<"insert", k>>)

InsertValue(k, v) ==
  /\ bits' = [GrownFor(bits, k, FALSE) EXCEPT ![k] = TRUE]
  /\ vals' = [ValsFor(k) EXCEPT ![k] = v]
  /\ Changed(<<"insert_value", k, v>>)

Remove(k) ==
  /\ bits' = IF k \in DOMAIN bits THEN [bits EXCEPT ![k] = FALSE] ELSE bits
  /\ UNCHANGED vals
  /\ Changed(<<"remove", k>>)

Clear == bits' = Empty /\ vals' = Empty /\ Changed(<<"clear">>)

(* write, and a store through the pointer get returns.                     *)
Write(k, v) ==
  /\ k \in Members
  /\ vals' = [vals EXCEPT ![k] = v]
  /\ last' = <<"write", k, v>>
  /\ UNCHANGED <<bits, cur>>

Read(k) ==
  /\ k \in Members
  /\ last' = <<"read", k, vals[k]>>
  /\ UNCHANGED <<bits, vals, cur>>

Has(k) ==
  /\ last' = <<"has", k, k \in DOMAIN bits /\ bits[k]>>
  /\ UNCHANGED <<bits, vals, cur>>

Size == last' = <<"size", Cardinality(Members)>> /\ UNCHANGED <<bits, vals, cur>>

Begin ==
  /\ cur' \in FindAfter(-1)
  /\ last' = <<"begin">>
  /\ UNCHANGED <<bits, vals>>

(* iterator::next.                                                         *)
Yield ==
  /\ cur # Npos
  /\ last' = <<"next", cur, vals[cur]>>
  /\ cur' \in FindAfter(cur)
  /\ UNCHANGED <<bits, vals>>

End == cur = Npos /\ last' = <<"end">> /\ UNCHANGED <<bits, vals, cur>>

Next ==
  \/ \E k \in Keys : Insert(k) \/ Remove(k) \/ Read(k) \/ Has(k)
  \/ \E k \in Keys, v \in Vals : InsertValue(k, v) \/ Write(k, v)
  \/ Clear \/ Size \/ Begin \/ Yield \/ End

Spec == Init /\ [][Next]_vars

-----------------------------------------------------------------------------
(* Properties                                                              *)

IsSized(f) == DOMAIN f \subseteq Nat /\ \A i \in DOMAIN f : 0 .. i \subseteq DOMAIN f

(* Bits and values have a size each, and every key that is set has room    *)
(* for its value although the two are resized apart: read and write, which *)
(* check nothing, stay within the vector.  The iterator is at a key that   *)
(* is set or at the end.                                                   *)
RepOK ==
  /\ IsSized(bits) /\ bits \in [DOMAIN bits -> BOOLEAN]
  /\ IsSized(vals) /\ vals \in [DOMAIN vals -> Vals]
  /\ Members \subseteq Keys \cap DOMAIN vals
  /\ cur \in Members \cup {Npos}

(* The map the bitmap stands for, and what its iterator has yet to see.    *)
Contents == [k \in Members |-> vals[k]]

Left == {k \in Members : cur # Npos /\ k >= cur}

(* The bitmap is a map: each operation returns what a map's would, a fold  *)
(* sees each key once, and a key that comes back after its removal may     *)
(* show its old value only where any value is allowed.                     *)
Map == INSTANCE AssocSpec WITH Extra <- {}, Kept <- {}, contents <- Contents, left <- Left

IsAMap == Map!Spec
=============================================================================
