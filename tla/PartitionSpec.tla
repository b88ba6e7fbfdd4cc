--------------------------- MODULE PartitionSpec ---------------------------
(***************************************************************************)
(* What the users of UnionFind rely on: the items are partitioned, each    *)
(* part is named by one of its items, find returns that name, and merge    *)
(* joins two parts under the name of one of them.  An item that is asked   *)
(* for and not there becomes a part of its own.                            *)
(***************************************************************************)
EXTENDS FiniteSets

CONSTANTS Items, None

VARIABLES
  name,   (* the name of the part of each item                             *)
  last    (* the last operation, its arguments and what it returned        *)

Init ==
  /\ name = [i \in {} |-> None]
  /\ last = <<"new">>

With(S) == [i \in DOMAIN name \cup S |-> IF i \in DOMAIN name THEN name[i] ELSE i]

Insert(t) == name' = With({t}) /\ last' = <<"insert", t>>

Find(t) == name' = With({t}) /\ last' = <<"find", t, name'[t]>>

TryFind(t) ==
  /\ last' = <<"try_find", t, IF t \in DOMAIN name THEN name[t] ELSE None>>
  /\ UNCHANGED name

Merge(t, u) ==
  LET old == With({t, u}) IN
  \E root \in {old[t], old[u]} :
    /\ name' = [i \in DOMAIN old |-> IF old[i] \in {old[t], old[u]} THEN root ELSE old[i]]
    /\ last' = <<"merge", t, u, root>>

(* The items with their names, as a user iterates over them.               *)
Iterate == last' = <<"begin", name>> /\ UNCHANGED name

Contains(t) == last' = <<"contains", t, t \in DOMAIN name>> /\ UNCHANGED name

Size == last' = <<"size", Cardinality(DOMAIN name)>> /\ UNCHANGED name

Clear == name' = [i \in {} |-> None] /\ last' = <<"clear">>

Next ==
  \/ \E t \in Items : Insert(t) \/ Find(t) \/ TryFind(t) \/ Contains(t)
  \/ \E t, u \in Items : Merge(t, u)
  \/ Iterate \/ Size \/ Clear

Spec == Init /\ [][Next]_<<name, last>>
=============================================================================
