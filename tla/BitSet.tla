------------------------------- MODULE BitSet ------------------------------
(***************************************************************************)
(* memoir/impl/bitset: sets of small numbers as dynamic bitsets, in the    *)
(* default build (BITSET_TRACK_SIZE 0).  A bitset grows when a key beyond  *)
(* its size is inserted and shrinks only when it is cleared, so two sets   *)
(* with the same keys may differ in size: insert_input goes three ways by  *)
(* the sizes of the two.  boost::dynamic_bitset is external: resize keeps  *)
(* the bits there and appends zeros, find_first and find_next return the   *)
(* next bit that is set or npos, |= wants two bitsets of one size.         *)
(***************************************************************************)
EXTENDS Integers, FiniteSets

CONSTANTS
  Keys,    (* the numbers a program puts into its sets                     *)
  Sets     (* the sets of the program                                      *)

VARIABLES
  bits,    (* the bitset of each set, a function from 0 .. size - 1        *)
  iter,    (* the program's iterator: its _set and _cur                    *)
  last     (* the last operation, its arguments and what it returned       *)

vars == <<bits, iter, last>>

Npos == -1

Empty == [i \in {} |-> FALSE]

Resized(f, n) == [i \in 0 .. n - 1 |-> IF i \in DOMAIN f THEN f[i] ELSE FALSE]

Grown(f, k) == IF k \in DOMAIN f THEN f ELSE Resized(f, k + 1)

Members(f) == {k \in DOMAIN f : f[k]}

(* find_next, and find_first for the position before the first.            *)
FindAfter(f, k) ==
  LET later == {i \in Members(f) : i > k} IN
  IF later = {} THEN {Npos} ELSE {i \in later : \A j \in later : i <= j}

SizeOf(f) == Cardinality(DOMAIN f)

Or(f, g) == [i \in DOMAIN f |-> f[i] \/ g[i]]

(* MUTANT: both bitsets are or-ed without resizing the smaller one.        *)
UnionOfSmaller(f, g) ==
  IF SizeOf(f) = 0 THEN g
  ELSE IF SizeOf(f) <= SizeOf(g) THEN Or(f, g)
  ELSE [i \in DOMAIN f |-> f[i] \/ i \in Members(g)]

(* insert_input: the copy, the |= of two of one size, and the loop that    *)
(* sets the bits of the smaller one.                                       *)
InputInto(f, g) ==
  IF SizeOf(f) = 0 THEN g
  ELSE IF SizeOf(f) <= SizeOf(g) THEN Or(Resized(f, SizeOf(g)), g)
  ELSE [i \in DOMAIN f |-> f[i] \/ i \in Members(g)]

-----------------------------------------------------------------------------
(* Set s changes; the program's iterator is not used further if it is its. *)
Becomes(s, f, op) ==
  /\ bits' = [bits EXCEPT ![s] = f]
  /\ iter' = IF iter.set = s THEN [iter EXCEPT !.cur = Npos] ELSE iter
  /\ last' = op

Init ==
  /\ bits = [s \in Sets |-> Empty]
  /\ iter \in [set : Sets, cur : {Npos}]
  /\ last = <<"new">>

Insert(s, k) == Becomes(s, [Grown(bits[s], k) EXCEPT ![k] = TRUE], <<"insert", s, k>>)

Remove(s, k) ==
  Becomes(s, IF k \in DOMAIN bits[s] THEN [bits[s] EXCEPT ![k] = FALSE] ELSE bits[s], <<"remove", s, k>>)

InsertInput(s, t) == Becomes(s, InputInto(bits[s], bits[t]), <<"insert_input", s, t>>)

(* copy, into the variable t.                                              *)
Copy(s, t) == Becomes(t, bits[s], <<"copy", s, t>>)

Clear(s) == Becomes(s, Empty, <<"clear", s>>)

Has(s, k) ==
  /\ last' = <<"has", s, k, k \in DOMAIN bits[s] /\ bits[s][k]>>
  /\ UNCHANGED <<bits, iter>>

Size(s) ==
  /\ last' = <<"size", s, Cardinality(Members(bits[s]))>>
  /\ UNCHANGED <<bits, iter>>

Begin(s) ==
  /\ \E first \in FindAfter(bits[s], -1) : iter' = [set |-> s, cur |-> first]
  /\ last' = <<"begin", s>>
  /\ UNCHANGED bits

(* iterator::next.                                                         *)
Yield ==
  /\ iter.cur # Npos
  /\ last' = <<"next", iter.cur>>
  /\ \E next \in FindAfter(bits[iter.set], iter.cur) : iter' = [iter EXCEPT !.cur = next]
  /\ UNCHANGED bits

End == iter.cur = Npos /\ last' = <<"end">> /\ UNCHANGED <<bits, iter>>

Next ==
  \/ \E s \in Sets, k \in Keys : Insert(s, k) \/ Remove(s, k) \/ Has(s, k)
  \/ \E s, t \in Sets : InsertInput(s, t) \/ Copy(s, t)
  \/ \E s \in Sets : Clear(s) \/ Size(s) \/ Begin(s)
  \/ Yield
  \/ End

Spec == Init /\ [][Next]_vars

-----------------------------------------------------------------------------
(* Properties                                                              *)

IsSized(f) == DOMAIN f \subseteq Nat /\ \A i \in DOMAIN f : 0 .. i \subseteq DOMAIN f

(* Every bitset has a size, and the iterator is at a key of its set or at  *)
(* the end, whatever happened to the other sets meanwhile.                 *)
RepOK ==
  /\ \A s \in Sets : IsSized(bits[s]) /\ bits[s] \in [DOMAIN bits[s] -> BOOLEAN]
  /\ iter.cur \in Members(bits[iter.set]) \cup {Npos}

(* The bitsets are sets: each operation returns what a set's would,        *)
(* whichever way insert_input goes (into itself, too), a copy shares       *)
(* nothing with its original, and a fold sees each key once.               *)
AsSets == INSTANCE SetSpec WITH
            contents <- [s \in Sets |-> Members(bits[s])],
            over <- iter.set,
            left <- {k \in Members(bits[iter.set]) : iter.cur # Npos /\ k >= iter.cur}

IsASet == AsSets!Spec
=============================================================================
