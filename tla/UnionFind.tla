----------------------------- MODULE UnionFind -----------------------------
(***************************************************************************)
(* memoir/support/UnionFind.hpp, which partitions values for data          *)
(* enumeration and the analyses: a forest of parents, shortened by every   *)
(* find, and the size of each tree, by which merge picks the new root.     *)
(* The size of an item that is not a root is what it was when the item was *)
(* one; merging a part with itself adds its size to itself.                *)
(***************************************************************************)
EXTENDS Integers, FiniteSets

CONSTANTS
  Word,     (* bound: the values of size_t, whose arithmetic wraps         *)
  Items,
  None      (* an empty Option                                             *)

VARIABLES
  parent,   (* _parent: a function from the items inserted                 *)
  size,     (* _size: likewise                                             *)
  ufLast    (* the last operation, its arguments and what it returned      *)

(* A word has values enough for the size of an item and for none.          *)
SizesAreWords == Word \in Nat \ {0, 1}

ufVars == <<parent, size, ufLast>>

Nothing == [i \in {} |-> None]

(* The chain of recursive calls from an item up to its root.               *)
Walk(par, t) ==
  LET up[i \in DOMAIN par] == IF par[i] = i THEN {i} ELSE {i} \cup up[par[i]] IN up[t]

Root(par, t) == CHOOSE r \in Walk(par, t) : par[r] = r

(* try_find: each item of the chain is pointed at the root.                *)
Compressed(par, t) == [i \in DOMAIN par |-> IF i \in Walk(par, t) THEN Root(par, t) ELSE par[i]]

(* insert: an item that is there is left alone.                            *)
Inserted(f, t, v) ==
  [i \in DOMAIN f \cup {t} |-> IF i \in DOMAIN f THEN f[i] ELSE v]

(* find: an item that is not there is inserted.                            *)
Found(par, t) == IF t \in DOMAIN par THEN Compressed(par, t) ELSE Inserted(par, t, t)

-----------------------------------------------------------------------------
UFInit ==
  /\ parent = Nothing
  /\ size = Nothing
  /\ ufLast = <<"new">>

UFInsert(t) ==
  /\ parent' = Inserted(parent, t, t)
  /\ size' = Inserted(size, t, 1)
  /\ ufLast' = <<"insert", t>>

Find(t) ==
  /\ parent' = Found(parent, t)
  /\ size' = Inserted(size, t, 1)
  /\ ufLast' = <<"find", t, parent'[t]>>

TryFind(t) ==
  /\ parent' = IF t \in DOMAIN parent THEN Compressed(parent, t) ELSE parent
  /\ ufLast' = <<"try_find", t, IF t \in DOMAIN parent THEN Root(parent, t) ELSE None>>
  /\ UNCHANGED size

(* MUTANT: the second item is linked, not its root.                        *)
MergeItem(t, u) ==
  LET found == Found(Found(parent, t), u)
      sizes == Inserted(Inserted(size, t, 1), u, 1) IN
  /\ parent' = [found EXCEPT ![u] = found[t]]
  /\ size' = sizes
  /\ ufLast' = <<"merge", t, u, found[t]>>

(* merge: the root of the smaller tree goes under the other's.             *)
Merge(t, u) ==
  LET found == Found(Found(parent, t), u)
      sizes == Inserted(Inserted(size, t, 1), u, 1)
      rt    == Root(found, t)
      ru    == Root(found, u)
      top   == IF sizes[rt] < sizes[ru] THEN ru ELSE rt
      under == IF sizes[rt] < sizes[ru] THEN rt ELSE ru IN
  /\ parent' = [found EXCEPT ![under] = top]
  /\ size' = [sizes EXCEPT ![top] = (@ + sizes[under]) % Word]
  /\ ufLast' = <<"merge", t, u, top>>

(* begin: reify finds every item first, so that parents are roots.         *)
Iterate ==
  /\ parent' = [i \in DOMAIN parent |-> Root(parent, i)]
  /\ ufLast' = <<"begin", parent'>>
  /\ UNCHANGED size

Contains(t) == ufLast' = <<"contains", t, t \in DOMAIN parent>> /\ UNCHANGED <<parent, size>>

UFSize == ufLast' = <<"size", Cardinality(DOMAIN parent)>> /\ UNCHANGED <<parent, size>>

UFClear == parent' = Nothing /\ size' = Nothing /\ ufLast' = <<"clear">>

UFNext ==
  \/ \E t \in Items : UFInsert(t) \/ Find(t) \/ TryFind(t) \/ Contains(t)
  \/ \E t, u \in Items : Merge(t, u)
  \/ Iterate \/ UFSize \/ UFClear

UFSpec == UFInit /\ [][UFNext]_ufVars

-----------------------------------------------------------------------------
(* Properties                                                              *)

(* Parents lead to a root, through items that are there, and every item    *)
(* has a size, which find and merge read with at().                        *)
ForestOK ==
  /\ DOMAIN size = DOMAIN parent /\ \A i \in DOMAIN size : size[i] \in 0 .. Word - 1
  /\ \A i \in DOMAIN parent :
       parent[i] \in DOMAIN parent /\ \E r \in Walk(parent, i) : parent[r] = r

(* The forest is a partition: shortening a chain changes no root, a merge  *)
(* joins two whole parts, even when a part is merged with itself and the   *)
(* sizes no longer count its items, and iterating shows every root.        *)
Partition == INSTANCE PartitionSpec WITH
  name <- [i \in DOMAIN parent |-> Root(parent, i)], last <- ufLast

IsAPartition == Partition!Spec
=============================================================================
