----------------------------- MODULE MCRuntime ------------------------------
(***************************************************************************)
(* The runtime's maps and sets, the folds over its vectors and the forest  *)
(* of the compiler's UnionFind for the model checker: the implementation   *)
(* is chosen first, as the compiler chooses it, and the program then works *)
(* on it alone.  The bitmap's variables have their own names, those of the *)
(* other implementations start with the implementation.                    *)
(***************************************************************************)
EXTENDS BitMap, UnionFind

CONSTANTS
  ChunkSize,      (* the keys of a chunk of the chunked bitmaps            *)
  SetKeys, Sets,  (* the numbers and the sets of a program with bitsets    *)
  MaxLen,         (* bound: the longest vector                             *)
  IndexWord,      (* bound: the values of the size_t of an index           *)
  LibraryKeys,    (* the keys of a program with a library's sets           *)
  RoaringKeys     (* bound: the numbers a Roaring bitmap tells apart       *)

ASSUME ChunksAssumption == ChunkSize \in Nat \ {0}

(* The keys of a bitset are positions.                                     *)
ASSUME SetKeysAssumption == SetKeys \subseteq Nat

(* The compiler selects a Roaring bitmap for enumerated keys only, which   *)
(* count the keys of an enumeration from 0.                                *)
ASSUME RoaringAssumption == RoaringKeys \in Nat /\ LibraryKeys \subseteq 0 .. RoaringKeys - 1

VARIABLES
  chosen,                               (* the implementation              *)
  twinedChunks, twinedIt, twinedLast,
  sparseChunks, sparseIt, sparseLast,
  setBits, setIter, setLast,
  vecBits, vecElems, vecReverse, vecIdx, vecVal, vecRest, vecDone, vecSeen,
  mapImpl, mapEntries, mapAhead, mapLast,
  libImpl, libKeys, libIter, libLast

Twined == INSTANCE TwinedBitMap WITH chunks <- twinedChunks, it <- twinedIt, last <- twinedLast

Sparse == INSTANCE SparseBitMap WITH chunks <- sparseChunks, it <- sparseIt, last <- sparseLast

Bitset == INSTANCE BitSet WITH Keys <- SetKeys, bits <- setBits, iter <- setIter, last <- setLast

Vector == INSTANCE VectorFold WITH
  Word <- IndexWord,
  bits <- vecBits, vec <- vecElems, reverse <- vecReverse, idx <- vecIdx, val <- vecVal,
  rest <- vecRest, done <- vecDone, seen <- vecSeen

LibMap == INSTANCE LibraryMap WITH
  impl <- mapImpl, entries <- mapEntries, ahead <- mapAhead, last <- mapLast

LibSet == INSTANCE LibrarySet WITH
  Keys <- LibraryKeys, Roaring <- RoaringKeys,
  impl <- libImpl, keys <- libKeys, iter <- libIter, last <- libLast

(* The index of a vector has more values than a vector has elements, so    *)
(* that the one before the first is none of theirs.                        *)
ASSUME WordsAssumption ==
  IndexWord \in Nat \ {0, 1} /\ MaxLen \in 0 .. IndexWord - 2 /\ SizesAreWords

twinedVars == <<twinedChunks, twinedIt, twinedLast>>

sparseVars == <<sparseChunks, sparseIt, sparseLast>>

setVars == <<setBits, setIter, setLast>>

vecVars == <<vecBits, vecElems, vecReverse, vecIdx, vecVal, vecRest, vecDone, vecSeen>>

mapVars == <<mapImpl, mapEntries, mapAhead, mapLast>>

libVars == <<libImpl, libKeys, libIter, libLast>>

FirstSet == CHOOSE s \in Sets : TRUE

(* A vector that was not chosen is empty, and an iterator is of some set.  *)
CInit ==
  /\ chosen \in {"bitmap", "twined_bitmap", "sparse_bitmap", "bitset", "vector", "union-find",
                 "library map", "library set"}
  /\ Init /\ Twined!Init /\ Sparse!Init /\ Bitset!Init /\ Vector!Init /\ UFInit
  /\ LibMap!Init /\ LibSet!Init
  /\ chosen # "bitset" => setIter.set = FirstSet
  /\ chosen # "library map" => mapImpl = "boost_flat_map"
  /\ chosen # "library set" => libImpl = "boost_flat_set" /\ libIter.set = FirstSet
  /\ chosen # "vector" => ~vecBits /\ vecElems = <<>> /\ vecVal = Zero

CNext ==
  /\ UNCHANGED chosen
  /\ \/ /\ chosen = "bitmap"
        /\ Next
        /\ UNCHANGED <<twinedVars, sparseVars, setVars, vecVars, ufVars, mapVars, libVars>>
     \/ /\ chosen = "twined_bitmap"
        /\ Twined!Next
        /\ UNCHANGED <<vars, sparseVars, setVars, vecVars, ufVars, mapVars, libVars>>
     \/ /\ chosen = "sparse_bitmap"
        /\ Sparse!Next
        /\ UNCHANGED <<vars, twinedVars, setVars, vecVars, ufVars, mapVars, libVars>>
     \/ /\ chosen = "bitset"
        /\ Bitset!Next
        /\ UNCHANGED <<vars, twinedVars, sparseVars, vecVars, ufVars, mapVars, libVars>>
     \/ /\ chosen = "vector"
        /\ Vector!Next
        /\ UNCHANGED <<vars, twinedVars, sparseVars, setVars, ufVars, mapVars, libVars>>
     \/ /\ chosen = "union-find"
        /\ UFNext
        /\ UNCHANGED <<vars, twinedVars, sparseVars, setVars, vecVars, mapVars, libVars>>
     \/ /\ chosen = "library map"
        /\ LibMap!Next
        /\ UNCHANGED <<vars, twinedVars, sparseVars, setVars, vecVars, ufVars, libVars>>
     \/ /\ chosen = "library set"
        /\ LibSet!Next
        /\ UNCHANGED <<vars, twinedVars, sparseVars, setVars, vecVars, ufVars, mapVars>>

CSpec ==
  CInit /\ [][CNext]_<<chosen, vars, twinedVars, sparseVars, setVars, vecVars, ufVars, mapVars, libVars>>

-----------------------------------------------------------------------------
(* The properties of the implementations, under names of their own; each   *)
(* is stated and explained in the module of the implementation.            *)

(* The representations: every key of the bitmap has room for its value,    *)
(* the chunks of the bitmaps are whole, iterators are at a key, within a   *)
(* chunk or have keys ahead that are there, the index of a vector's counts *)
(* the elements seen from either end, and parents lead to roots that have  *)
(* sizes.                                                                  *)
RepresentationsAreOK ==
  /\ RepOK
  /\ Twined!RepOK /\ Sparse!RepOK /\ Bitset!RepOK
  /\ Vector!TypeOK /\ Vector!IndexKeepsUp
  /\ LibMap!WalkOK /\ LibSet!WalkOK
  /\ ForestOK

(* The twined bitmap is a map.                                             *)
TwinedIsAMap == Twined!IsAMap

(* The sparse bitmap is a map but for where its folds start.               *)
SparseIsAMapButFolds == Sparse!IsAMapButFolds

(* The bitsets are sets.                                                   *)
BitSetIsASet == Bitset!IsASet

(* The libraries' maps and sets are maps and sets, whichever is selected;  *)
(* they differ in what a value inserted at a key that is there becomes.    *)
LibraryContainersAgree == LibMap!IsAMapButKept /\ LibSet!IsASet

(* A fold over a vector sees each element once, and with its index.        *)
VectorSeesElementsOnce == Vector!SeesElementsOnce
=============================================================================
