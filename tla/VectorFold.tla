----------------------------- MODULE VectorFold ----------------------------
(***************************************************************************)
(* The four iterators of memoir/impl/stl_vector, which the loops LowerFold *)
(* makes of a fold or a reverse fold over a sequence run on:               *)
(*   begin(it, vec); while (next(it)) body      (rbegin, rnext)            *)
(* Vector<Elem> walks a pair of std::vector iterators and counts an index  *)
(* beside it; Vector<bool> (bits) is a boost::dynamic_bitset and has only  *)
(* the index.  A forward index starts at -1, that is, at the largest       *)
(* size_t, and wraps to 0; size_t has Word values here.  The body may      *)
(* write elements, and leaves the length alone.  The iterator is an alloca *)
(* of the lowered function: _val is any value before it is written.        *)
(***************************************************************************)
EXTENDS Integers, SequencesExt

CONSTANTS
  Word,      (* bound: the values of size_t, whose arithmetic wraps        *)
  Vals,
  MaxLen     (* bound: the longest sequence, shorter than Word - 1         *)

VARIABLES
  bits,      (* the sequence is a Vector<bool>                             *)
  vec,       (* the elements; the i-th is vec[i + 1]                       *)
  reverse,   (* the iterator is a reverse_iterator                         *)
  idx,       (* its _idx                                                   *)
  val,       (* its _val                                                   *)
  rest,      (* how far its _it is from its _ie                            *)
  done,      (* next returned false, or begin was not called yet           *)
  seen       (* how many elements the loop saw so far                      *)

vars == <<bits, vec, reverse, idx, val, rest, done, seen>>

size == Len(vec)

Init ==
  /\ bits \in BOOLEAN
  /\ vec \in SeqOf(Vals, MaxLen)
  /\ reverse = FALSE
  /\ idx = 0
  /\ val \in Vals
  /\ rest = 0
  /\ done = TRUE
  /\ seen = 0

Started(r, i) ==
  /\ done
  /\ reverse' = r
  /\ idx' = i
  /\ val' \in Vals
  /\ rest' = size
  /\ done' = FALSE
  /\ seen' = 0
  /\ UNCHANGED <<bits, vec>>

Begin == Started(FALSE, Word - 1)

RBegin == Started(TRUE, size)

(* MUTANT: the reverse iterator ends at index 1.                           *)
AtEndByIndex == IF reverse THEN idx <= 1 ELSE rest = 0

(* What next's test says: no element is left.                              *)
AtEnd ==
  IF bits THEN idx = (IF reverse THEN 0 ELSE size) ELSE rest = 0

Step == idx' = (idx + (IF reverse THEN Word - 1 ELSE 1)) % Word

(* What next puts in _val.  Vector<bool>'s reverse_iterator tests the bit  *)
(* and drops it; its iterator may test a bit that is not there.            *)
Fetched ==
  IF ~bits THEN val' = vec[IF reverse THEN rest ELSE size - rest + 1]
  ELSE IF reverse THEN val' = val
  ELSE IF idx' < size THEN val' = vec[idx' + 1]
  ELSE val' \in Vals

Yield ==
  /\ ~done
  /\ ~AtEnd
  /\ Step
  /\ Fetched
  /\ rest' = IF bits THEN rest ELSE rest - 1
  /\ seen' = seen + 1
  /\ UNCHANGED <<bits, vec, reverse, done>>

End ==
  /\ ~done
  /\ AtEnd
  /\ done' = TRUE
  /\ UNCHANGED <<bits, vec, reverse, idx, val, rest, seen>>

(* The body writes an element, any of them.                                *)
Write ==
  /\ \E i \in 1 .. size, v \in Vals : vec' = [vec EXCEPT ![i] = v]
  /\ UNCHANGED <<bits, reverse, idx, val, rest, done, seen>>

Next == Begin \/ RBegin \/ Yield \/ End \/ Write

Spec == Init /\ [][Next]_vars

-----------------------------------------------------------------------------
(* Properties                                                              *)

TypeOK ==
  /\ bits \in BOOLEAN
  /\ vec \in Seq(Vals) /\ size <= MaxLen
  /\ reverse \in BOOLEAN /\ done \in BOOLEAN
  /\ idx \in 0 .. Word - 1
  /\ val \in Vals
  /\ rest \in 0 .. size
  /\ seen \in 0 .. MaxLen + 1

(* The index counted beside the walk is the number of elements seen, from  *)
(* the front or from the back, although it starts beyond the largest.      *)
IndexKeepsUp ==
  ~done /\ seen > 0 => idx = IF reverse THEN size - seen ELSE seen - 1

(* The element the body is handed is the one of the index it is handed,    *)
(* whatever was written to the sequence since the fold began.              *)
HandsTheElement == Yield => idx' < size /\ val' = vec[idx' + 1]

(* Each step hands the body an element by its index, and the loop has seen *)
(* every element when it ends.                                             *)
SeesElementsOnce == [][~bits => HandsTheElement /\ (End => seen = size)]_vars

(* "while (next(it, elem)) {body}": the same of a sequence of Booleans.    *)
BooleansAreFolded == [][bits => HandsTheElement]_vars
=============================================================================
