---------------------------- MODULE TwinedBitMap ---------------------------
(***************************************************************************)
(* memoir/impl/twined_bitmap: a vector of chunks, each with the bits and   *)
(* the values of ChunkSize keys.  The vector grows chunk by chunk (new     *)
(* chunks are zero) and never shrinks but for clear; a fold walks chunks   *)
(* and offsets.  Key i has its chunk at base(i), its place at offset(i).   *)
(***************************************************************************)
EXTENDS Integers, FiniteSetsExt

CONSTANTS
  Keys, Vals, Zero,   (* as in BitMap                                      *)
  ChunkSize           (* a template parameter; 256 unless it is given      *)

VARIABLES
  chunks,   (* function from 0 .. size - 1 to chunks                       *)
  it,       (* <<_i, _j>> of the program's iterator, _it is the _i-th      *)
  last      (* the last operation, its arguments and what it returned      *)

vars == <<chunks, it, last>>

base(k) == k \div ChunkSize

offset(k) == k % ChunkSize

Offsets == 0 .. ChunkSize - 1

NewChunk == [bits |-> {}, vals |-> [o \in Offsets |-> Zero]]

NoChunks == [i \in {} |-> NewChunk]

inbounds(k) == base(k) \in DOMAIN chunks

resized(k) ==
  IF inbounds(k) THEN chunks
  ELSE [i \in 0 .. base(k) |-> IF i \in DOMAIN chunks THEN chunks[i] ELSE NewChunk]

Members ==
  {k \in {i * ChunkSize + o : i \in DOMAIN chunks, o \in Offsets} :
     offset(k) \in chunks[base(k)].bits}

Val(k) == chunks[base(k)].vals[offset(k)]

(* The iterator past the last chunk (_it = _ie).                           *)
AtEnd == it[1] \notin DOMAIN chunks

(* The places whose bit is set, in the order a fold walks them.            *)
Places == {p \in (DOMAIN chunks) \X Offsets : p[2] \in chunks[p[1]].bits}

UpTo(p, q) == p[1] < q[1] \/ (p[1] = q[1] /\ p[2] <= q[2])

FirstOf(places) ==
  IF places = {} THEN {<<Cardinality(DOMAIN chunks), 0>>}
  ELSE {p \in places : \A q \in places : UpTo(p, q)}

(* MUTANT: the offset is not set back to 0 for the next chunk.             *)
FindFromKept(i, j) == FirstOf({p \in Places : p[1] >= i /\ p[2] >= j})

(* MUTANT: one place on, whether its bit is set or not.                    *)
FindAny(i, j) == {IF i \in DOMAIN chunks /\ j < ChunkSize THEN <<i, j>> ELSE <<i + 1, 0>>}

(* iterator::find_next from offset j of chunk i: the next place whose bit  *)
(* is set, or the end.                                                     *)
FindFrom(i, j) == FirstOf({p \in Places : UpTo(<<i, j>>, p)})

-----------------------------------------------------------------------------
(* The program's iterator is not used once keys were inserted or removed.  *)
Changed(op) == it' = <<Cardinality(DOMAIN chunks'), 0>> /\ last' = op

Init ==
  /\ chunks = NoChunks
  /\ it = <<0, 0>>
  /\ last = <<"new">>

Insert(k) ==
  /\ chunks' = [resized(k) EXCEPT ![base(k)].bits = @ \cup {offset(k)}]
  /\ Changed(<<"insert", k>>)

InsertValue(k, v) ==
  /\ chunks' = [resized(k) EXCEPT ![base(k)].bits = @ \cup {offset(k)},
                                  ![base(k)].vals[offset(k)] = v]
  /\ Changed(<<"insert_value", k, v>>)

Remove(k) ==
  /\ chunks' = IF inbounds(k) THEN [chunks EXCEPT ![base(k)].bits = @ \ {offset(k)}]
               ELSE chunks
  /\ Changed(<<"remove", k>>)

Clear == chunks' = NoChunks /\ Changed(<<"clear">>)

(* write, and a store through the pointer get returns.                     *)
Write(k, v) ==
  /\ k \in Members
  /\ chunks' = [chunks EXCEPT ![base(k)].vals[offset(k)] = v]
  /\ last' = <<"write", k, v>>
  /\ UNCHANGED it

Read(k) ==
  /\ k \in Members
  /\ last' = <<"read", k, Val(k)>>
  /\ UNCHANGED <<chunks, it>>

Has(k) ==
  /\ last' = <<"has", k, inbounds(k) /\ offset(k) \in chunks[base(k)].bits>>
  /\ UNCHANGED <<chunks, it>>

(* The count of every chunk, summed up.                                    *)
Size ==
  /\ last' = <<"size", MapThenSumSet(LAMBDA i : Cardinality(chunks[i].bits), DOMAIN chunks)>>
  /\ UNCHANGED <<chunks, it>>

Begin ==
  /\ it' \in FindFrom(0, 0)
  /\ last' = <<"begin">>
  /\ UNCHANGED chunks

(* iterator::next.                                                         *)
Yield ==
  /\ ~AtEnd
  /\ last' = <<"next", it[1] * ChunkSize + it[2], chunks[it[1]].vals[it[2]]>>
  /\ it' \in FindFrom(it[1], it[2] + 1)
  /\ UNCHANGED chunks

End == AtEnd /\ last' = <<"end">> /\ UNCHANGED <<chunks, it>>

Next ==
  \/ \E k \in Keys : Insert(k) \/ Remove(k) \/ Read(k) \/ Has(k)
  \/ \E k \in Keys, v \in Vals : InsertValue(k, v) \/ Write(k, v)
  \/ Clear \/ Size \/ Begin \/ Yield \/ End

Spec == Init /\ [][Next]_vars

-----------------------------------------------------------------------------
(* Properties                                                              *)

(* The chunks have the numbers from 0 on, bits and values stay within the  *)
(* chunk, and the iterator is at a key that is set or at the end.          *)
RepOK ==
  /\ DOMAIN chunks = 0 .. Cardinality(DOMAIN chunks) - 1
  /\ \A i \in DOMAIN chunks :
       chunks[i] \in [bits : SUBSET Offsets, vals : [Offsets -> Vals]]
  /\ AtEnd \/ it[2] \in chunks[it[1]].bits

(* Chunked, it is still a map: operations on one key leave the keys of its *)
(* chunk and of the others alone, the sizes of the chunks add up, and a    *)
(* fold sees each key once, over chunk boundaries and empty chunks.        *)
Map == INSTANCE AssocSpec WITH
         Extra <- {}, Kept <- {},
         contents <- [k \in Members |-> Val(k)],
         left <- {k \in Members : ~AtEnd /\ k >= it[1] * ChunkSize + it[2]}

IsAMap == Map!Spec
=============================================================================
