---------------------------- MODULE SparseBitMap ---------------------------
(***************************************************************************)
(* memoir/impl/sparse_bitmap: an ordered map from chunk numbers to chunks, *)
(* each with the bits and the values of ChunkSize keys.  The non-const     *)
(* chunk() makes a chunk that is not there (of zeros), in insert, write,   *)
(* get and remove alike; has looks without making one, and read asks the   *)
(* const chunk(), which throws for a chunk that is not there.              *)
(* absl::btree_map is external: it is walked in the order of its keys.     *)
(***************************************************************************)
EXTENDS Integers, FiniteSetsExt

CONSTANTS
  Keys, Vals, Zero,   (* as in BitMap                                      *)
  ChunkSize           (* a template parameter; 256 unless it is given      *)

VARIABLES
  chunks,   (* the btree: a function from chunk numbers to chunks          *)
  it,       (* <<number of the chunk _it is at, _j>>                       *)
  last      (* the last operation, its arguments and what it returned      *)

vars == <<chunks, it, last>>

hi(k) == k \div ChunkSize

lo(k) == k % ChunkSize

Offsets == 0 .. ChunkSize - 1

NewChunk == [bits |-> {}, vals |-> [o \in Offsets |-> Zero]]

NoChunks == [i \in {} |-> NewChunk]

(* The btree once the non-const chunk(k) was called.                       *)
chunk(k) ==
  [i \in DOMAIN chunks \cup {hi(k)} |-> IF i \in DOMAIN chunks THEN chunks[i] ELSE NewChunk]

Members ==
  {k \in {i * ChunkSize + o : i \in DOMAIN chunks, o \in Offsets} :
     lo(k) \in chunks[hi(k)].bits}

Val(k) == chunks[hi(k)].vals[lo(k)]

(* The iterator past the last chunk (_it = _ie).                           *)
Past == <<-1, 0>>

AtEnd == it = Past

(* The places whose bit is set, in the order a fold walks them.            *)
Places == {p \in (DOMAIN chunks) \X Offsets : p[2] \in chunks[p[1]].bits}

UpTo(p, q) == p[1] < q[1] \/ (p[1] = q[1] /\ p[2] <= q[2])

FirstOf(places) ==
  IF places = {} THEN {Past} ELSE {p \in places : \A q \in places : UpTo(p, q)}

(* MUTANT: the offset is not set back to 0 for the next chunk.             *)
FindFromKept(i, j) == FirstOf({p \in Places : p[1] >= i /\ p[2] >= j})

(* iterator::find_next from offset j of chunk i: the next place whose bit  *)
(* is set, or the end.                                                     *)
FindFrom(i, j) == FirstOf({p \in Places : UpTo(<<i, j>>, p)})

(* begin: offset 0 of the first chunk, whether its bit is set or not.      *)
FirstPlace == FirstOf((DOMAIN chunks) \X {0})

-----------------------------------------------------------------------------
(* The program's iterator is not used once keys were inserted or removed.  *)
Changed(op) == it' = Past /\ last' = op

Init ==
  /\ chunks = NoChunks
  /\ it = Past
  /\ last = <<"new">>

Insert(k) ==
  /\ chunks' = [chunk(k) EXCEPT ![hi(k)].bits = @ \cup {lo(k)}]
  /\ Changed(<<"insert", k>>)

InsertValue(k, v) ==
  /\ chunks' = [chunk(k) EXCEPT ![hi(k)].bits = @ \cup {lo(k)},
                                ![hi(k)].vals[lo(k)] = v]
  /\ Changed(<<"insert_value", k, v>>)

Remove(k) ==
  /\ chunks' = [chunk(k) EXCEPT ![hi(k)].bits = @ \ {lo(k)}]
  /\ Changed(<<"remove", k>>)

Clear == chunks' = NoChunks /\ Changed(<<"clear">>)

(* write, and a store through the pointer get returns.                     *)
Write(k, v) ==
  /\ k \in Members
  /\ chunks' = [chunk(k) EXCEPT ![hi(k)].vals[lo(k)] = v]
  /\ last' = <<"write", k, v>>
  /\ UNCHANGED it

Read(k) ==
  /\ k \in Members
  /\ last' = <<"read", k, Val(k)>>
  /\ UNCHANGED <<chunks, it>>

Has(k) ==
  /\ last' = <<"has", k, hi(k) \in DOMAIN chunks /\ lo(k) \in chunks[hi(k)].bits>>
  /\ UNCHANGED <<chunks, it>>

(* The count of every chunk, summed up.                                    *)
Size ==
  /\ last' = <<"size", MapThenSumSet(LAMBDA i : Cardinality(chunks[i].bits), DOMAIN chunks)>>
  /\ UNCHANGED <<chunks, it>>

Begin ==
  /\ it' \in FirstPlace
  /\ last' = <<"begin">>
  /\ UNCHANGED chunks

(* iterator::next.                                                         *)
Yield ==
  /\ ~AtEnd
  /\ last' = <<"next", it[1] * ChunkSize + it[2], chunks[it[1]].vals[it[2]]>>
  /\ it' \in FindFrom(it[1], it[2] + 1)
  /\ UNCHANGED chunks

End == AtEnd /\ last' = <<"end">> /\ UNCHANGED <<chunks, it>>

Next ==
  \/ \E k \in Keys : Insert(k) \/ Remove(k) \/ Read(k) \/ Has(k)
  \/ \E k \in Keys, v \in Vals : InsertValue(k, v) \/ Write(k, v)
  \/ Clear \/ Size \/ Begin \/ Yield \/ End

Spec == Init /\ [][Next]_vars

-----------------------------------------------------------------------------
(* Properties                                                              *)

(* Bits and values stay within their chunk, and the iterator is at the     *)
(* end, at a key that is set, or at the start of a chunk.                  *)
RepOK ==
  /\ DOMAIN chunks \subseteq {hi(k) : k \in Keys}
  /\ \A i \in DOMAIN chunks :
       chunks[i] \in [bits : SUBSET Offsets, vals : [Offsets -> Vals]]
  /\ \/ AtEnd
     \/ it[1] \in DOMAIN chunks /\ it[2] \in chunks[it[1]].bits \cup {0}

(* What holds of it: a map whose fold sees each key once, and besides may  *)
(* see the first place of a chunk.  Removing a key that was never there    *)
(* makes a chunk and still removes nothing.                                *)
Map == INSTANCE AssocSpec WITH
         Extra <- {hi(k) * ChunkSize : k \in Keys}, Kept <- {},
         contents <- [k \in Members |-> Val(k)],
         left <- {k \in Members : ~AtEnd /\ k >= it[1] * ChunkSize + it[2]}

IsAMapButFolds == Map!Spec

(* next says "Iterate until we find the next set bit": what a fold sees is *)
(* a key of the map.                                                       *)
FoldsSeeKeys == [][Yield => it[1] * ChunkSize + it[2] \in Members]_vars
=============================================================================
