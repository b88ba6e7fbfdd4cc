-------------------------- MODULE ContainerProofs --------------------------
(***************************************************************************)
(* The containers of the runtime and of the compiler, for any keys,        *)
(* values, items, size of a chunk and width of size_t. The bitmap, the     *)
(* bitmaps in chunks and the bitsets implement the abstract map and sets:  *)
(* each has an inductive invariant, and under it every step is the         *)
(* specification's step of the same name. What the two bitmaps in chunks   *)
(* share is said once, of a function from numbers to chunks. A fold over a *)
(* vector sees each element once and with its index. The union-find        *)
(* implements the partition: its parents never form a circle. The maps and *)
(* sets of the libraries agree. All invariants hold together in MCRuntime, *)
(* whichever container a program uses.                                     *)
(***************************************************************************)
EXTENDS MCRuntime, Sequences, FiniteSetTheorems, Iterations

(* The variables of all containers.                                        *)
Everything == <<chosen, vars, twinedVars, sparseVars, setVars, vecVars, ufVars, mapVars, libVars>>

-----------------------------------------------------------------------------
(* The bitmap: growing                                                     *)

(* Growing for a key keeps what is there, makes room for the key and fills *)
(* up with z.                                                              *)
LEMMA GrowingKeeps ==
  ASSUME NEW f, NEW k \in Nat, NEW z, IsSized(f)
  PROVE  /\ IsSized(GrownFor(f, k, z))
         /\ k \in DOMAIN GrownFor(f, k, z)
         /\ DOMAIN f \subseteq DOMAIN GrownFor(f, k, z)
         /\ \A i \in DOMAIN GrownFor(f, k, z) :
              GrownFor(f, k, z)[i] = IF i \in DOMAIN f THEN f[i] ELSE z
<1>1. CASE k \in DOMAIN f
  BY <1>1 DEF GrownFor
<1>2. CASE k \notin DOMAIN f
  <2>1. \A i \in DOMAIN f : i \in Nat /\ i < k
    BY <1>2 DEF IsSized
  <2>2. DOMAIN GrownFor(f, k, z) = 0 .. k
    BY <1>2 DEF GrownFor, Resized
  <2>3. DOMAIN f \subseteq 0 .. k
    BY <2>1
  <2>4. \A i \in 0 .. k : GrownFor(f, k, z)[i] = IF i \in DOMAIN f THEN f[i] ELSE z
    BY <1>2 DEF GrownFor, Resized
  <2>5. IsSized(GrownFor(f, k, z))
    BY <2>2 DEF IsSized
  <2> QED BY <2>2, <2>3, <2>4, <2>5
<1> QED BY <1>1, <1>2

-----------------------------------------------------------------------------
(* The bitmap: what an insertion does to bits and values                   *)

(* The bits after an insertion: the key joins the members.                 *)
LEMMA BitsOfInsert ==
  ASSUME RepOK, NEW k \in Keys,
         bits' = [GrownFor(bits, k, FALSE) EXCEPT ![k] = TRUE]
  PROVE  /\ IsSized(bits)'
         /\ bits' \in [DOMAIN bits' -> BOOLEAN]
         /\ Members' = Members \cup {k}
<1> DEFINE g == GrownFor(bits, k, FALSE)
<1>1. k \in Nat
  BY KeysAssumption
<1>2. /\ IsSized(g) /\ k \in DOMAIN g /\ DOMAIN bits \subseteq DOMAIN g
      /\ \A i \in DOMAIN g : g[i] = IF i \in DOMAIN bits THEN bits[i] ELSE FALSE
  BY <1>1, GrowingKeeps DEF RepOK
<1>3. DOMAIN bits' = DOMAIN g
  OBVIOUS
<1>4. \A i \in DOMAIN g : bits'[i] = IF i = k THEN TRUE ELSE g[i]
  OBVIOUS
<1> HIDE DEF g
<1>5. \A i \in DOMAIN g : g[i] \in BOOLEAN
  BY <1>2 DEF RepOK
<1>6. IsSized(bits)'
  BY <1>2, <1>3 DEF IsSized
<1>7. bits' \in [DOMAIN bits' -> BOOLEAN]
  <2>1. \A i \in DOMAIN bits' : bits'[i] \in BOOLEAN
    BY <1>3, <1>4, <1>5
  <2>2. bits' = [i \in DOMAIN bits' |-> bits'[i]]
    BY DEF g
  <2> QED BY <2>1, <2>2
<1>8. Members' = Members \cup {k}
  <2>1. ASSUME NEW i \in Members' PROVE i \in Members \cup {k}
    <3>1. i \in DOMAIN g /\ bits'[i]
      BY <1>3 DEF Members
    <3>2. CASE i # k
      <4>1. g[i]
        BY <1>4, <3>1, <3>2
      <4>2. i \in DOMAIN bits /\ bits[i]
        BY <1>2, <3>1, <4>1
      <4> QED BY <4>2 DEF Members
    <3> QED BY <3>2
  <2>2. ASSUME NEW i \in Members PROVE i \in Members'
    <3>1. i \in DOMAIN g /\ bits[i] /\ i \in DOMAIN bits
      BY <1>2 DEF Members
    <3>2. bits'[i]
      BY <1>2, <1>4, <3>1
    <3> QED BY <1>3, <3>1, <3>2 DEF Members
  <2>3. k \in Members'
    BY <1>2, <1>3, <1>4 DEF Members
  <2> QED BY <2>1, <2>2, <2>3
<1> QED BY <1>6, <1>7, <1>8

(* The values grown for a key: those there stay, the key has room.         *)
LEMMA ValuesGrown ==
  ASSUME RepOK, NEW k \in Keys
  PROVE  /\ IsSized(ValsFor(k))
         /\ ValsFor(k) \in [DOMAIN ValsFor(k) -> Vals]
         /\ k \in DOMAIN ValsFor(k) /\ DOMAIN vals \subseteq DOMAIN ValsFor(k)
         /\ \A i \in DOMAIN vals : ValsFor(k)[i] = vals[i]
<1> DEFINE g == ValsFor(k)
<1>1. k \in Nat
  BY KeysAssumption
<1>2. /\ IsSized(g) /\ k \in DOMAIN g /\ DOMAIN vals \subseteq DOMAIN g
      /\ \A i \in DOMAIN g : g[i] = IF i \in DOMAIN vals THEN vals[i] ELSE Zero
  BY <1>1, GrowingKeeps DEF RepOK, ValsFor
<1>3. g = [i \in DOMAIN g |-> g[i]]
  BY DEF ValsFor, GrownFor, Resized, RepOK
<1> HIDE DEF g
<1>4. \A i \in DOMAIN g : g[i] \in Vals
  BY <1>2, KeysAssumption DEF RepOK
<1>5. g \in [DOMAIN g -> Vals]
  BY <1>3, <1>4
<1> QED BY <1>2, <1>5 DEF g

(* The next set bit: a member beyond k with no member between, or none.    *)
LEMMA NextMember ==
  ASSUME RepOK, NEW k \in Int, NEW n \in FindAfter(k)
  PROVE  \/ n = Npos /\ \A i \in Members : i <= k
         \/ n \in Members /\ n > k /\ \A i \in Members : i > k => n <= i
<1> DEFINE later == {i \in Members : i > k}
<1>1. Members \subseteq Nat
  BY DEF RepOK, IsSized, Members
<1>2. CASE later = {}
  <2>1. n = Npos
    BY <1>2 DEF FindAfter
  <2>2. \A i \in Members : i <= k
    BY <1>1, <1>2
  <2> QED BY <2>1, <2>2
<1>3. CASE later # {}
  <2>1. n \in later /\ \A j \in later : n <= j
    BY <1>3 DEF FindAfter
  <2> QED BY <2>1
<1> QED BY <1>2, <1>3

-----------------------------------------------------------------------------
(* The invariant                                                           *)

(* A step keeps the representation: where the values do not shrink, the    *)
(* members have room, and the iterator is only moved to a member.          *)
LEMMA RepIsKept == RepOK /\ [Next]_vars => RepOK'
<1> SUFFICES ASSUME RepOK, [Next]_vars PROVE RepOK'
  OBVIOUS
<1>0. Members \subseteq Nat /\ Npos \notin Members /\ -1 \in Int
  BY DEF RepOK, IsSized, Members, Npos
<1>1. ASSUME NEW k \in Keys, Insert(k) PROVE RepOK'
  <2>1. IsSized(bits)' /\ bits' \in [DOMAIN bits' -> BOOLEAN] /\ Members' = Members \cup {k}
    BY <1>1, BitsOfInsert DEF Insert
  <2>2. /\ vals' = ValsFor(k) /\ IsSized(ValsFor(k)) /\ k \in DOMAIN vals'
        /\ vals' \in [DOMAIN vals' -> Vals] /\ DOMAIN vals \subseteq DOMAIN vals'
    BY <1>1, ValuesGrown DEF Insert
  <2>3. IsSized(vals)'
    BY <2>2 DEF IsSized
  <2>4. cur' = Npos
    BY <1>1 DEF Insert, Changed
  <2> QED BY <2>1, <2>2, <2>3, <2>4 DEF RepOK
<1>2. ASSUME NEW k \in Keys, NEW v \in Vals, InsertValue(k, v) PROVE RepOK'
  <2>1. IsSized(bits)' /\ bits' \in [DOMAIN bits' -> BOOLEAN] /\ Members' = Members \cup {k}
    BY <1>2, BitsOfInsert DEF InsertValue
  <2>2. /\ IsSized(ValsFor(k)) /\ k \in DOMAIN ValsFor(k)
        /\ ValsFor(k) \in [DOMAIN ValsFor(k) -> Vals] /\ DOMAIN vals \subseteq DOMAIN ValsFor(k)
    BY ValuesGrown
  <2>3. vals' = [ValsFor(k) EXCEPT ![k] = v]
    BY <1>2 DEF InsertValue
  <2>4. DOMAIN vals' = DOMAIN ValsFor(k) /\ vals' \in [DOMAIN vals' -> Vals]
    BY <2>2, <2>3
  <2>5. IsSized(vals)'
    BY <2>2, <2>4 DEF IsSized
  <2>6. cur' = Npos
    BY <1>2 DEF InsertValue, Changed
  <2> QED BY <2>1, <2>2, <2>4, <2>5, <2>6 DEF RepOK
<1>3. ASSUME NEW k \in Keys, Remove(k) PROVE RepOK'
  <2>1. DOMAIN bits' = DOMAIN bits /\ bits' \in [DOMAIN bits' -> BOOLEAN] /\ Members' \subseteq Members
    BY <1>3 DEF Remove, RepOK, Members
  <2>2. vals' = vals /\ cur' = Npos
    BY <1>3 DEF Remove, Changed
  <2> QED BY <2>1, <2>2 DEF RepOK, IsSized
<1>4. ASSUME Clear PROVE RepOK'
  <2>1. DOMAIN bits' = {} /\ bits' = Empty /\ vals' = Empty /\ DOMAIN vals' = {} /\ cur' = Npos
    BY <1>4 DEF Clear, Empty, Changed
  <2>2. bits' \in [DOMAIN bits' -> BOOLEAN] /\ vals' \in [DOMAIN vals' -> Vals] /\ Members' = {}
    BY <2>1 DEF Empty, Members
  <2> QED BY <2>1, <2>2 DEF RepOK, IsSized
<1>5. ASSUME NEW k \in Keys, NEW v \in Vals, Write(k, v) PROVE RepOK'
  <2>1. DOMAIN vals' = DOMAIN vals /\ vals' \in [DOMAIN vals' -> Vals]
    BY <1>5 DEF Write, RepOK
  <2>2. bits' = bits /\ cur' = cur /\ Members' = Members
    BY <1>5 DEF Write, Members
  <2> QED BY <2>1, <2>2 DEF RepOK, IsSized
<1>6. ASSUME UNCHANGED <<bits, vals, cur>> PROVE RepOK'
  BY <1>6 DEF RepOK, IsSized, Members
<1>7. ASSUME bits' = bits, vals' = vals, NEW k \in Int, cur' \in FindAfter(k) PROVE RepOK'
  <2>1. cur' \in Members \cup {Npos} /\ Members' = Members
    BY <1>7, NextMember DEF Members
  <2> QED BY <1>7, <2>1 DEF RepOK, IsSized
<1>8. CASE Begin
  BY <1>0, <1>7, <1>8 DEF Begin
<1>9. CASE Yield
  BY <1>0, <1>7, <1>9 DEF Yield, RepOK
<1>10. CASE vars' = vars
  BY <1>6, <1>10 DEF vars
<1>11. ASSUME NEW k \in Keys, Read(k) \/ Has(k) PROVE RepOK'
  BY <1>6, <1>11 DEF Read, Has
<1>12. CASE Size \/ End
  BY <1>6, <1>12 DEF Size, End
<1> QED BY <1>1, <1>2, <1>3, <1>4, <1>5, <1>8, <1>9, <1>10, <1>11, <1>12 DEF Next

(* Nothing is there at first.                                              *)
LEMMA BitmapStarts == Init => RepOK
BY DEF Init, RepOK, IsSized, Empty, Members

(* The representation holds throughout: no operation reads or writes       *)
(* beyond the values, whatever was inserted, removed and cleared before.   *)
THEOREM RepAlwaysOK == Spec => []RepOK
BY BitmapStarts, RepIsKept, PTL DEF Spec

-----------------------------------------------------------------------------
(* The refinement                                                          *)

(* The members after a removal.                                            *)
LEMMA MembersOfRemove ==
  ASSUME RepOK, NEW k \in Keys, Remove(k)
  PROVE  Members' = Members \ {k}
BY DEF Remove, RepOK, Members

(* What insertion and removal leave of a fold: nothing.                    *)
LEMMA NoFoldIsLeft == cur = Npos => Left = {}
BY DEF Left

(* Each step is the map's step of the same name, on what the bitmap stands *)
(* for.                                                                    *)
LEMMA StepsAreTheMaps ==
  RepOK /\ RepOK' /\ [Next]_vars => [Map!Next]_<<Contents, Left, last>>
<1> SUFFICES ASSUME RepOK, RepOK', [Next]_vars PROVE [Map!Next]_<<Contents, Left, last>>
  OBVIOUS
<1>0. Members \subseteq Nat /\ Members \subseteq DOMAIN vals /\ Npos \notin Members /\ -1 \in Int
  BY DEF RepOK, IsSized, Members, Npos
<1>a. DOMAIN Contents = Members /\ \A k \in Members : Contents[k] = vals[k]
  BY DEF Contents
<1>1. ASSUME NEW k \in Keys, Insert(k) PROVE Map!Insert(k)
  <2>1. Members' = Members \cup {k} /\ vals' = ValsFor(k) /\ Left' = {} /\ last' = <<"insert", k>>
    BY <1>1, BitsOfInsert DEF Insert, Changed, Left
  <2>2. /\ k \in DOMAIN vals' /\ vals'[k] \in Vals
        /\ \A i \in DOMAIN vals : vals'[i] = vals[i]
    BY <2>1, ValuesGrown
  <2>3. CASE k \in Members
    <3>1. Contents' = Contents
      BY <1>0, <2>1, <2>2, <2>3 DEF Contents
    <3> QED BY <1>a, <2>1, <2>3, <3>1 DEF Map!Insert, Map!Changed
  <2>4. CASE k \notin Members
    <3>1. Contents' = [x \in Members \cup {k} |-> IF x = k THEN vals'[k] ELSE vals[x]]
      BY <1>0, <2>1, <2>2 DEF Contents
    <3>2. Contents' = Map!Put(k, vals'[k])
      BY <1>a, <3>1 DEF Map!Put
    <3> QED BY <1>a, <2>1, <2>2, <2>4, <3>2 DEF Map!Insert, Map!Changed
  <2> QED BY <2>3, <2>4
<1>2. ASSUME NEW k \in Keys, NEW v \in Vals, InsertValue(k, v) PROVE Map!InsertValue(k, v)
  <2>1. /\ Members' = Members \cup {k} /\ vals' = [ValsFor(k) EXCEPT ![k] = v]
        /\ Left' = {} /\ last' = <<"insert_value", k, v>>
    BY <1>2, BitsOfInsert DEF InsertValue, Changed, Left
  <2>2. vals'[k] = v /\ \A i \in DOMAIN vals : i # k => vals'[i] = vals[i]
    BY <2>1, ValuesGrown
  <2>3. Contents' = [x \in Members \cup {k} |-> IF x = k THEN v ELSE vals[x]]
    BY <1>0, <2>1, <2>2 DEF Contents
  <2>4. Contents' = Map!Put(k, v)
    BY <1>a, <2>3 DEF Map!Put
  <2> QED BY <2>1, <2>4 DEF Map!InsertValue, Map!Changed
<1>3. ASSUME NEW k \in Keys, Remove(k) PROVE Map!Remove(k)
  <2>1. Members' = Members \ {k} /\ vals' = vals /\ Left' = {} /\ last' = <<"remove", k>>
    BY <1>3, MembersOfRemove DEF Remove, Changed, Left
  <2>2. Contents' = [x \in Members \ {k} |-> Contents[x]]
    BY <1>a, <2>1 DEF Contents
  <2> QED BY <1>a, <2>1, <2>2 DEF Map!Remove, Map!Changed
<1>4. ASSUME Clear PROVE Map!Clear
  <2>1. Members' = {} /\ Left' = {} /\ last' = <<"clear">>
    BY <1>4 DEF Clear, Empty, Members, Changed, Left
  <2>2. Contents' = [k \in {} |-> 0]
    BY <2>1 DEF Contents
  <2> QED BY <2>1, <2>2 DEF Map!Clear, Map!Changed
<1>5. ASSUME NEW k \in Keys, NEW v \in Vals, Write(k, v) PROVE Map!Write(k, v)
  <2>1. /\ k \in Members /\ Members' = Members /\ vals' = [vals EXCEPT ![k] = v]
        /\ Left' = Left /\ last' = <<"write", k, v>>
    BY <1>5 DEF Write, Members, Left
  <2>2. Contents' = [Contents EXCEPT ![k] = v]
    BY <1>0, <1>a, <2>1 DEF Contents
  <2> QED BY <1>a, <2>1, <2>2 DEF Map!Write
<1>b. ASSUME bits' = bits, vals' = vals PROVE Contents' = Contents /\ Members' = Members
  BY <1>b DEF Contents, Members
<1>c. ASSUME bits' = bits, cur' = cur PROVE Left' = Left
  BY <1>c DEF Left, Members
<1>6. ASSUME NEW k \in Keys, Read(k) PROVE Map!Read(k)
  BY <1>6, <1>a, <1>b, <1>c DEF Read, Map!Read
<1>7. ASSUME NEW k \in Keys, Has(k) PROVE Map!Has(k)
  <2>1. (k \in DOMAIN bits /\ bits[k]) = (k \in DOMAIN Contents)
    BY <1>a DEF Members
  <2>2. last' = <<"has", k, k \in DOMAIN Contents>>
    BY <1>7, <2>1 DEF Has
  <2> QED BY <1>7, <1>b, <1>c, <2>2 DEF Has, Map!Has
<1>8. ASSUME Size PROVE Map!Size
  <2>1. Map!Cardinality(DOMAIN Contents) = Cardinality(Members)
    BY <1>a DEF Map!Cardinality, Cardinality
  <2> QED BY <1>8, <1>b, <1>c, <2>1 DEF Size, Map!Size
<1>9. ASSUME Begin PROVE Map!Begin
  <2>1. Contents' = Contents /\ Members' = Members /\ last' = <<"begin">>
    BY <1>9, <1>b DEF Begin
  <2>2. Left' = Members
    <3>1. \/ cur' = Npos /\ \A i \in Members : i <= -1
          \/ cur' # Npos /\ \A i \in Members : i > -1 => cur' <= i
      BY <1>0, <1>9, NextMember DEF Begin
    <3>2. \A i \in Members : i > -1
      BY <1>0
    <3>3. \A i \in Members : cur' # Npos /\ i >= cur'
      <4>1. CASE cur' = Npos /\ \A i \in Members : i <= -1
        BY <1>0, <3>2, <4>1
      <4>2. CASE cur' # Npos /\ \A i \in Members : i > -1 => cur' <= i
        <5>1. cur' \in Members
          BY <2>1, <4>2 DEF RepOK
        <5> QED BY <1>0, <3>2, <4>2, <5>1
      <4> QED BY <3>1, <4>1, <4>2
    <3> QED BY <2>1, <3>3 DEF Left
  <2> QED BY <1>a, <2>1, <2>2 DEF Map!Begin
<1>10. ASSUME Yield PROVE cur \in Keys /\ Map!Yield(cur)
  <2>1. /\ Contents' = Contents /\ Members' = Members /\ cur \in Members
        /\ last' = <<"next", cur, Contents[cur]>>
    BY <1>10, <1>a, <1>b DEF Yield, RepOK
  <2>2. Left' = Left \ {cur}
    <3>1. cur \in Int /\ cur' \in FindAfter(cur)
      BY <1>0, <1>10, <2>1 DEF Yield
    <3>2. \/ cur' = Npos /\ \A i \in Members : i <= cur
          \/ cur' \in Members /\ cur' > cur /\ \A i \in Members : i > cur => cur' <= i
      BY <3>1, NextMember
    <3>3. ASSUME NEW i \in Members
          PROVE  (cur' # Npos /\ i >= cur') <=> (cur # Npos /\ i >= cur /\ i # cur)
      <4>1. i \in Nat /\ cur \in Nat /\ cur # Npos /\ cur' # Npos => cur' \in Nat
        BY <1>0, <2>1, <3>2
      <4>2. CASE cur' = Npos /\ \A j \in Members : j <= cur
        BY <1>0, <2>1, <4>2
      <4>3. CASE cur' \in Members /\ cur' > cur /\ \A j \in Members : j > cur => cur' <= j
        <5>1. cur' \in Nat /\ cur' # Npos /\ cur \in Nat /\ cur # Npos /\ i \in Nat
          BY <1>0, <2>1, <4>3
        <5>2. i > cur => cur' <= i
          BY <4>3
        <5> QED BY <4>3, <5>1, <5>2
      <4> QED BY <3>2, <4>2, <4>3
    <3> QED BY <2>1, <3>3 DEF Left
  <2>3. cur \in Left
    BY <1>0, <2>1 DEF Left
  <2>4. cur \in Keys
    BY <2>1 DEF RepOK
  <2> QED BY <2>1, <2>2, <2>3, <2>4 DEF Map!Yield
<1>11. ASSUME End PROVE Map!End
  BY <1>11, <1>b, <1>c, NoFoldIsLeft DEF End, Map!End
<1>12. ASSUME vars' = vars PROVE UNCHANGED <<Contents, Left, last>>
  BY <1>12, <1>b, <1>c DEF vars
<1> QED BY <1>1, <1>2, <1>3, <1>4, <1>5, <1>6, <1>7, <1>8, <1>9, <1>10, <1>11, <1>12 DEF Next, Map!Next

(* The bitmap is a map: what its operations return, and what a fold sees   *)
(* of it, is what a map's would.                                           *)
THEOREM BitMapIsAMap == Spec => IsAMap
<1>1. Init => Map!Init
  <2> SUFFICES ASSUME Init PROVE Map!Init
    OBVIOUS
  <2>1. Members = {} /\ Left = {}
    BY DEF Init, Empty, Members, Left
  <2>2. Contents = [k \in {} |-> 0]
    BY <2>1 DEF Contents
  <2> QED BY <2>1, <2>2 DEF Init, Map!Init
<1> QED BY <1>1, RepAlwaysOK, StepsAreTheMaps, PTL DEF Spec, IsAMap, Map!Spec

-----------------------------------------------------------------------------
(* The union-find                                                          *)

(* Parents are items, and lead out of every set of items but past roots:   *)
(* no set of items is a circle.                                            *)
IsForest(par) ==
  /\ par \in [DOMAIN par -> DOMAIN par]
  /\ \A S \in SUBSET DOMAIN par : S # {} => \E i \in S : par[i] = i \/ par[i] \notin S

(* The inductive invariant.                                                *)
ForestInv ==
  /\ IsForest(parent)
  /\ DOMAIN size = DOMAIN parent
  /\ \A i \in DOMAIN size : size[i] \in 0 .. Word - 1

-----------------------------------------------------------------------------
(* Walks and roots                                                         *)

(* The recursion of find is one: the set of the items above an item that   *)
(* every set closed under parents holds satisfies it.                      *)
LEMMA WalkGoesUp ==
  ASSUME NEW par, IsForest(par), NEW t \in DOMAIN par
  PROVE  Walk(par, t) = IF par[t] = t THEN {t} ELSE {t} \cup Walk(par, par[t])
<1> DEFINE D == DOMAIN par
           Up(f) == f = [i \in D |-> IF par[i] = i THEN {i} ELSE {i} \cup f[par[i]]]
           Closed(S) == \A x \in S : par[x] \in S
           above == [i \in D |-> {j \in D : \A S \in SUBSET D : i \in S /\ Closed(S) => j \in S}]
           up == CHOOSE f : Up(f)
<1>1. \A i \in D : par[i] \in D
  BY DEF IsForest
<1>2. ASSUME NEW i \in D
      PROVE  above[i] = IF par[i] = i THEN {i} ELSE {i} \cup above[par[i]]
  <2>1. CASE par[i] = i
    <3>1. {i} \in SUBSET D /\ Closed({i})
      BY <2>1
    <3>2. above[i] \subseteq {i} /\ i \in above[i]
      BY <3>1
    <3> QED BY <2>1, <3>2
  <2>2. CASE par[i] # i
    <3>1. i \in above[i] /\ above[par[i]] \subseteq above[i]
      BY <1>1
    <3>2. above[i] \subseteq {i} \cup above[par[i]]
      <4> DEFINE T == {i} \cup above[par[i]]
      <4>1. T \in SUBSET D
        BY <1>1
      <4>2. par[i] \in T
        BY <1>1
      <4>3. ASSUME NEW x \in above[par[i]] PROVE par[x] \in above[par[i]]
        BY <1>1, <4>3
      <4>4. Closed(T)
        BY <4>2, <4>3
      <4> HIDE DEF T
      <4>5. i \in T
        BY DEF T
      <4>6. above[i] \subseteq T
        BY <4>1, <4>4, <4>5
      <4> QED BY <4>6 DEF T
    <3> HIDE DEF above
    <3> QED BY <2>2, <3>1, <3>2
  <2> QED BY <2>1, <2>2
<1>3. \E f : Up(f)
  <2> HIDE DEF Closed
  <2>1. above = [i \in D |-> IF par[i] = i THEN {i} ELSE {i} \cup above[par[i]]]
    BY <1>2
  <2> QED BY <2>1
<1>4. Up(up)
  BY <1>3
<1>5. \A i \in D : Walk(par, i) = up[i]
  BY DEF Walk
<1> HIDE DEF up
<1> QED BY <1>1, <1>4, <1>5

(* A walk ends at a root, which its items have in common.                  *)
LEMMA WalkHasRoot ==
  ASSUME NEW par, IsForest(par), NEW t \in DOMAIN par
  PROVE  /\ t \in Walk(par, t) /\ Walk(par, t) \subseteq DOMAIN par
         /\ \E r \in Walk(par, t) :
              par[r] = r /\ \A q \in Walk(par, t) : par[q] = q => q = r
<1> DEFINE D == DOMAIN par
           HasRoot(i) == /\ Walk(par, i) \subseteq D
                         /\ \E r \in Walk(par, i) :
                              par[r] = r /\ \A q \in Walk(par, i) : par[q] = q => q = r
           Bad == {i \in D : ~HasRoot(i)}
<1>1. \A i \in D : par[i] \in D
  BY DEF IsForest
<1>2. ASSUME Bad # {} PROVE FALSE
  <2>1. PICK i \in Bad : par[i] = i \/ par[i] \notin Bad
    BY <1>2 DEF IsForest
  <2>2. Walk(par, i) = IF par[i] = i THEN {i} ELSE {i} \cup Walk(par, par[i])
    BY WalkGoesUp
  <2>3. CASE par[i] = i
    BY <2>2, <2>3
  <2>4. CASE par[i] # i
    <3>1. HasRoot(par[i])
      BY <1>1, <2>1, <2>4
    <3>2. HasRoot(i)
      BY <2>2, <2>4, <3>1
    <3> QED BY <3>2
  <2> QED BY <2>3, <2>4
<1>3. HasRoot(t)
  BY <1>2
<1>4. t \in Walk(par, t)
  BY WalkGoesUp
<1> QED BY <1>3, <1>4

(* Root is the root: of an item that is one itself, of others that of      *)
(* their parent, and the same for all items on the way.                    *)
LEMMA RootFacts ==
  ASSUME NEW par, IsForest(par), NEW t \in DOMAIN par
  PROVE  /\ Root(par, t) \in DOMAIN par /\ Root(par, t) \in Walk(par, t)
         /\ par[Root(par, t)] = Root(par, t)
         /\ par[t] \in DOMAIN par
         /\ Root(par, t) = IF par[t] = t THEN t ELSE Root(par, par[t])
<1>1. par[t] \in DOMAIN par
  BY DEF IsForest
<1>2. PICK r \in Walk(par, t) : par[r] = r /\ \A q \in Walk(par, t) : par[q] = q => q = r
  BY WalkHasRoot
<1>3. Root(par, t) = r
  BY <1>2 DEF Root
<1>4. r \in DOMAIN par
  BY WalkHasRoot
<1>5. Walk(par, t) = IF par[t] = t THEN {t} ELSE {t} \cup Walk(par, par[t])
  BY WalkGoesUp
<1>6. CASE par[t] = t
  BY <1>1, <1>2, <1>3, <1>4, <1>5, <1>6
<1>7. CASE par[t] # t
  <2>1. PICK s \in Walk(par, par[t]) :
          par[s] = s /\ \A q \in Walk(par, par[t]) : par[q] = q => q = s
    BY <1>1, WalkHasRoot
  <2>2. Root(par, par[t]) = s
    BY <2>1 DEF Root
  <2>3. s = r
    BY <1>2, <1>5, <1>7, <2>1
  <2> QED BY <1>1, <1>2, <1>3, <1>4, <1>7, <2>2, <2>3
<1> QED BY <1>6, <1>7

(* A property that a root has, and an item has if its parent does, holds   *)
(* of all items: induction over a forest, the property as a set.           *)
LEMMA ForestInduction ==
  ASSUME NEW par, IsForest(par), NEW P,
         \A i \in DOMAIN par : par[i] = i \/ par[i] \in P => i \in P
  PROVE  DOMAIN par \subseteq P
<1> DEFINE Bad == DOMAIN par \ P
<1>1. ASSUME Bad # {} PROVE FALSE
  <2>1. PICK i \in Bad : par[i] = i \/ par[i] \notin Bad
    BY <1>1 DEF IsForest
  <2>2. par[i] \in DOMAIN par
    BY DEF IsForest
  <2> QED BY <2>1, <2>2
<1> QED BY <1>1

(* Items on one walk have one root.                                        *)
LEMMA RootOnWalk ==
  ASSUME NEW par, IsForest(par), NEW t \in DOMAIN par
  PROVE  \A i \in Walk(par, t) : i \in DOMAIN par /\ Root(par, i) = Root(par, t)
<1> DEFINE P == {j \in DOMAIN par : \A i \in Walk(par, j) : Root(par, i) = Root(par, j)}
<1>1. ASSUME NEW j \in DOMAIN par, par[j] = j \/ par[j] \in P PROVE j \in P
  <2>1. Walk(par, j) = IF par[j] = j THEN {j} ELSE {j} \cup Walk(par, par[j])
    BY WalkGoesUp
  <2>2. Root(par, j) = IF par[j] = j THEN j ELSE Root(par, par[j])
    BY RootFacts
  <2> QED BY <1>1, <2>1, <2>2
<1> HIDE DEF P
<1>2. t \in P
  BY <1>1, ForestInduction
<1> QED BY <1>2, WalkHasRoot DEF P

(* Whatever names an item like its parent, and a root by itself, names all *)
(* items by their roots.                                                   *)
LEMMA NamesAreRoots ==
  ASSUME NEW par, IsForest(par), NEW n,
         \A i \in DOMAIN par : n[i] = IF par[i] = i THEN i ELSE n[par[i]]
  PROVE  \A i \in DOMAIN par : Root(par, i) = n[i]
<1> DEFINE P == {i \in DOMAIN par : Root(par, i) = n[i]}
<1>1. ASSUME NEW i \in DOMAIN par, par[i] = i \/ par[i] \in P PROVE i \in P
  <2>1. Root(par, i) = IF par[i] = i THEN i ELSE Root(par, par[i])
    BY RootFacts
  <2> QED BY <1>1, <2>1
<1> HIDE DEF P
<1>2. DOMAIN par \subseteq P
  BY <1>1, ForestInduction
<1> QED BY <1>2 DEF P

-----------------------------------------------------------------------------
(* What the operations do to the forest                                    *)

(* Pointing the items of a walk at their root keeps all roots.             *)
LEMMA CompressingKeepsRoots ==
  ASSUME NEW par, IsForest(par), NEW t \in DOMAIN par
  PROVE  LET com == Compressed(par, t) IN
         /\ IsForest(com) /\ DOMAIN com = DOMAIN par
         /\ com[t] = Root(par, t)
         /\ \A i \in DOMAIN par : Root(com, i) = Root(par, i)
<1> DEFINE com == Compressed(par, t)
           W == Walk(par, t)
           r == Root(par, t)
<1>1. /\ DOMAIN com = DOMAIN par
      /\ \A i \in DOMAIN par : com[i] = IF i \in W THEN r ELSE par[i]
  BY DEF Compressed
<1>2. r \in DOMAIN par /\ r \in W /\ par[r] = r /\ t \in W /\ W \subseteq DOMAIN par
  BY RootFacts, WalkHasRoot
<1>3. com \in [DOMAIN com -> DOMAIN com]
  BY <1>2 DEF Compressed, IsForest
<1>4. \A i \in W : Root(par, i) = r
  BY RootOnWalk
<1>5. \A i \in DOMAIN par : par[i] \in DOMAIN par
  BY DEF IsForest
<1> HIDE DEF com, W, r
<1>6. ASSUME NEW S \in SUBSET DOMAIN com, S # {}
      PROVE  \E i \in S : com[i] = i \/ com[i] \notin S
  <2>1. CASE S \cap W = {}
    <3>1. PICK i \in S : par[i] = i \/ par[i] \notin S
      BY <1>1, <1>6 DEF IsForest
    <3>2. com[i] = par[i]
      BY <1>1, <2>1
    <3> QED BY <3>1, <3>2
  <2>2. CASE S \cap W # {}
    <3>1. PICK i \in S : i \in W
      BY <2>2
    <3>2. com[i] = r /\ com[r] = r
      BY <1>1, <1>2, <3>1
    <3> QED BY <3>2
  <2> QED BY <2>1, <2>2
<1>7. IsForest(com)
  BY <1>3, <1>6 DEF IsForest
<1> DEFINE n == [i \in DOMAIN par |-> Root(par, i)]
<1>8. ASSUME NEW i \in DOMAIN com PROVE n[i] = IF com[i] = i THEN i ELSE n[com[i]]
  <2>1. i \in DOMAIN par /\ par[i] \in DOMAIN par
    BY <1>1, <1>5
  <2>2. n[i] = Root(par, i) /\ n[par[i]] = Root(par, par[i])
    BY <2>1
  <2>3. Root(par, i) = IF par[i] = i THEN i ELSE Root(par, par[i])
    BY <2>1, RootFacts
  <2>4. Root(par, r) = r
    BY <1>2, <1>4
  <2>5. CASE i \in W
    <3>1. com[i] = r /\ Root(par, i) = r
      BY <1>1, <1>4, <2>1, <2>5
    <3> QED BY <1>2, <2>2, <2>4, <3>1
  <2>6. CASE i \notin W
    <3>1. com[i] = par[i]
      BY <1>1, <2>1, <2>6
    <3> QED BY <2>2, <2>3, <3>1
  <2> QED BY <2>5, <2>6
<1> HIDE DEF n
<1>9. \A i \in DOMAIN com : Root(com, i) = n[i]
  BY <1>7, <1>8, NamesAreRoots
<1>10. com[t] = r
  BY <1>1, <1>2
<1> QED BY <1>1, <1>7, <1>9, <1>10 DEF com, n, r

(* An item that is inserted is its own root; the others keep theirs.       *)
LEMMA InsertingKeepsRoots ==
  ASSUME NEW par, IsForest(par), NEW t
  PROVE  LET ins == Inserted(par, t, t) IN
         /\ IsForest(ins) /\ DOMAIN ins = DOMAIN par \cup {t}
         /\ \A i \in DOMAIN ins : Root(ins, i) = IF i \in DOMAIN par THEN Root(par, i) ELSE i
<1> DEFINE ins == Inserted(par, t, t)
<1>1. /\ DOMAIN ins = DOMAIN par \cup {t}
      /\ \A i \in DOMAIN ins : ins[i] = IF i \in DOMAIN par THEN par[i] ELSE t
  BY DEF Inserted
<1>2. \A i \in DOMAIN par : par[i] \in DOMAIN par
  BY DEF IsForest
<1>3. ins \in [DOMAIN ins -> DOMAIN ins]
  BY <1>2 DEF Inserted
<1> HIDE DEF ins
<1>4. ASSUME NEW S \in SUBSET DOMAIN ins, S # {}
      PROVE  \E i \in S : ins[i] = i \/ ins[i] \notin S
  <2>1. CASE S \subseteq DOMAIN par
    BY <1>1, <1>4, <2>1 DEF IsForest
  <2>2. CASE ~(S \subseteq DOMAIN par)
    <3>1. t \in S /\ t \notin DOMAIN par /\ ins[t] = t
      BY <1>1, <2>2
    <3> QED BY <3>1
  <2> QED BY <2>1, <2>2
<1>5. IsForest(ins)
  BY <1>3, <1>4 DEF IsForest
<1> DEFINE n == [i \in DOMAIN ins |-> IF i \in DOMAIN par THEN Root(par, i) ELSE i]
<1>6. ASSUME NEW i \in DOMAIN ins PROVE n[i] = IF ins[i] = i THEN i ELSE n[ins[i]]
  <2>1. CASE i \in DOMAIN par
    <3>1. ins[i] = par[i] /\ par[i] \in DOMAIN par /\ par[i] \in DOMAIN ins
      BY <1>1, <1>2, <2>1
    <3>2. Root(par, i) = IF par[i] = i THEN i ELSE Root(par, par[i])
      BY <2>1, RootFacts
    <3> QED BY <2>1, <3>1, <3>2
  <2>2. CASE i \notin DOMAIN par
    <3>1. i = t /\ ins[i] = i
      BY <1>1, <2>2
    <3> QED BY <2>2, <3>1
  <2> QED BY <2>1, <2>2
<1> HIDE DEF n
<1>7. \A i \in DOMAIN ins : Root(ins, i) = n[i]
  BY <1>5, <1>6, NamesAreRoots
<1> QED BY <1>1, <1>5, <1>7 DEF n, ins

(* find, of an item that is there or not.                                  *)
LEMMA FindingKeepsRoots ==
  ASSUME NEW par, IsForest(par), NEW t
  PROVE  LET fnd == Found(par, t) IN
         /\ IsForest(fnd) /\ DOMAIN fnd = DOMAIN par \cup {t}
         /\ \A i \in DOMAIN fnd : Root(fnd, i) = IF i \in DOMAIN par THEN Root(par, i) ELSE i
         /\ fnd[t] = Root(fnd, t)
<1>1. CASE t \in DOMAIN par
  <2>1. Found(par, t) = Compressed(par, t)
    BY <1>1 DEF Found
  <2> DEFINE com == Compressed(par, t)
  <2>2. IsForest(com) /\ DOMAIN com = DOMAIN par /\ com[t] = Root(par, t)
    BY <1>1, CompressingKeepsRoots
  <2>3. \A i \in DOMAIN par : Root(com, i) = Root(par, i)
    BY <1>1, CompressingKeepsRoots
  <2> HIDE DEF com
  <2>4. DOMAIN com = DOMAIN par \cup {t} /\ com[t] = Root(com, t)
    BY <1>1, <2>2, <2>3
  <2>5. \A i \in DOMAIN com : Root(com, i) = IF i \in DOMAIN par THEN Root(par, i) ELSE i
    BY <2>2, <2>3
  <2> QED BY <2>1, <2>2, <2>4, <2>5 DEF com
<1>2. CASE t \notin DOMAIN par
  <2>1. Found(par, t) = Inserted(par, t, t) /\ Inserted(par, t, t)[t] = t
    BY <1>2 DEF Found, Inserted
  <2> DEFINE ins == Inserted(par, t, t)
  <2>2. IsForest(ins) /\ DOMAIN ins = DOMAIN par \cup {t}
    BY InsertingKeepsRoots
  <2>3. \A i \in DOMAIN ins : Root(ins, i) = IF i \in DOMAIN par THEN Root(par, i) ELSE i
    BY InsertingKeepsRoots
  <2> HIDE DEF ins
  <2>4. ins[t] = Root(ins, t)
    BY <1>2, <2>1, <2>2, <2>3 DEF ins
  <2> QED BY <2>1, <2>2, <2>3, <2>4 DEF ins
<1> QED BY <1>1, <1>2

(* The root under is linked to the root top.                               *)
Linked(par, under, top) == [par EXCEPT ![under] = top]

(* Linking one root under another joins their parts and no others.         *)
LEMMA LinkingJoins ==
  ASSUME NEW par, IsForest(par), NEW top \in DOMAIN par, NEW under \in DOMAIN par,
         par[top] = top, par[under] = under
  PROVE  LET lnk == Linked(par, under, top) IN
         /\ IsForest(lnk) /\ DOMAIN lnk = DOMAIN par
         /\ \A i \in DOMAIN par :
              Root(lnk, i) = IF Root(par, i) = under THEN top ELSE Root(par, i)
<1> DEFINE lnk == Linked(par, under, top)
<1>1. /\ DOMAIN lnk = DOMAIN par
      /\ \A i \in DOMAIN par : lnk[i] = IF i = under THEN top ELSE par[i]
  BY DEF IsForest, Linked
<1>2. \A i \in DOMAIN par : par[i] \in DOMAIN par
  BY DEF IsForest
<1>3. lnk \in [DOMAIN lnk -> DOMAIN lnk]
  BY <1>2 DEF IsForest, Linked
<1> HIDE DEF lnk
<1>4. ASSUME NEW S \in SUBSET DOMAIN lnk, S # {}
      PROVE  \E i \in S : lnk[i] = i \/ lnk[i] \notin S
  <2>1. CASE top \in S
    BY <1>1, <2>1
  <2>2. CASE top \notin S
    <3>1. PICK i \in S : par[i] = i \/ par[i] \notin S
      BY <1>1, <1>4 DEF IsForest
    <3>2. lnk[i] = IF i = under THEN top ELSE par[i]
      BY <1>1
    <3> QED BY <2>2, <3>1, <3>2
  <2> QED BY <2>1, <2>2
<1>5. IsForest(lnk)
  BY <1>3, <1>4 DEF IsForest
<1> DEFINE n == [i \in DOMAIN par |-> IF Root(par, i) = under THEN top ELSE Root(par, i)]
<1>6. ASSUME NEW i \in DOMAIN lnk PROVE n[i] = IF lnk[i] = i THEN i ELSE n[lnk[i]]
  <2>1. i \in DOMAIN par /\ par[i] \in DOMAIN par /\ lnk[i] = IF i = under THEN top ELSE par[i]
    BY <1>1, <1>2
  <2>2. Root(par, i) = IF par[i] = i THEN i ELSE Root(par, par[i])
    BY <2>1, RootFacts
  <2>3. Root(par, top) = top /\ Root(par, under) = under
    BY RootFacts
  <2>4. CASE i = under
    BY <2>1, <2>2, <2>3, <2>4
  <2>5. CASE i # under
    BY <2>1, <2>2, <2>3, <2>5
  <2> QED BY <2>4, <2>5
<1> HIDE DEF n
<1>7. \A i \in DOMAIN lnk : Root(lnk, i) = n[i]
  BY <1>5, <1>6, NamesAreRoots
<1> QED BY <1>1, <1>5, <1>7 DEF n, lnk

(* reify: every parent becomes the root.                                   *)
LEMMA ReifyingKeepsRoots ==
  ASSUME NEW par, IsForest(par)
  PROVE  LET all == [i \in DOMAIN par |-> Root(par, i)] IN
         IsForest(all) /\ \A i \in DOMAIN par : Root(all, i) = Root(par, i)
<1> DEFINE all == [i \in DOMAIN par |-> Root(par, i)]
<1>1. \A i \in DOMAIN par : all[i] \in DOMAIN par /\ all[all[i]] = all[i]
  <2> TAKE i \in DOMAIN par
  <2>1. Root(par, i) \in DOMAIN par /\ par[Root(par, i)] = Root(par, i)
    BY RootFacts
  <2>2. Root(par, Root(par, i)) = Root(par, i)
    BY <2>1, RootFacts
  <2> QED BY <2>1, <2>2
<1>2. all \in [DOMAIN all -> DOMAIN all] /\ DOMAIN all = DOMAIN par
  BY <1>1
<1> HIDE DEF all
<1>3. IsForest(all)
  BY <1>1, <1>2 DEF IsForest
<1>4. \A i \in DOMAIN all : Root(all, i) = all[i]
  BY <1>1, <1>2, <1>3, NamesAreRoots
<1> QED BY <1>2, <1>3, <1>4 DEF all

-----------------------------------------------------------------------------
(* The refinement                                                          *)

(* The names of the parts, as the partition sees them.                     *)
Names == [i \in DOMAIN parent |-> Root(parent, i)]

(* The sizes grow with the items and stay within size_t.                   *)
LEMMA SizesInserted ==
  ASSUME SizesAreWords, NEW f, NEW t, \A i \in DOMAIN f : f[i] \in 0 .. Word - 1
  PROVE  /\ DOMAIN Inserted(f, t, 1) = DOMAIN f \cup {t}
         /\ \A i \in DOMAIN Inserted(f, t, 1) : Inserted(f, t, 1)[i] \in 0 .. Word - 1
BY DEF SizesAreWords, Inserted

(* What a merge finds: the roots of both items, which are the names that   *)
(* the partition joins.                                                    *)
LEMMA MergeFinds ==
  ASSUME SizesAreWords, ForestInv, NEW t, NEW u
  PROVE  LET found == Found(Found(parent, t), u)
             sizes == Inserted(Inserted(size, t, 1), u, 1)
             D     == DOMAIN parent \cup {t, u} IN
         /\ IsForest(found) /\ DOMAIN found = D /\ DOMAIN sizes = D
         /\ \A i \in D : Root(found, i) = IF i \in DOMAIN parent THEN Root(parent, i) ELSE i
         /\ \A i \in D : sizes[i] \in 0 .. Word - 1
<1> DEFINE first == Found(parent, t)
           sizes1 == Inserted(size, t, 1)
<1>1. /\ IsForest(first) /\ DOMAIN first = DOMAIN parent \cup {t}
      /\ \A i \in DOMAIN first : Root(first, i) = IF i \in DOMAIN parent THEN Root(parent, i) ELSE i
  BY FindingKeepsRoots DEF ForestInv
<1>2. /\ DOMAIN sizes1 = DOMAIN parent \cup {t}
      /\ \A i \in DOMAIN sizes1 : sizes1[i] \in 0 .. Word - 1
  BY SizesInserted DEF ForestInv
<1> HIDE DEF first, sizes1
<1> DEFINE found == Found(first, u)
           sizes == Inserted(sizes1, u, 1)
<1>3. /\ IsForest(found) /\ DOMAIN found = DOMAIN first \cup {u}
      /\ \A i \in DOMAIN found : Root(found, i) = IF i \in DOMAIN first THEN Root(first, i) ELSE i
  <2>1. IsForest(first)
    BY <1>1
  <2>2. /\ IsForest(found) /\ DOMAIN found = DOMAIN first \cup {u}
        /\ \A i \in DOMAIN found : Root(found, i) = IF i \in DOMAIN first THEN Root(first, i) ELSE i
        /\ found[u] = Root(found, u)
    BY <2>1, FindingKeepsRoots
  <2> QED
    BY <2>2
<1>4. /\ DOMAIN sizes = DOMAIN sizes1 \cup {u}
      /\ \A i \in DOMAIN sizes : sizes[i] \in 0 .. Word - 1
  BY <1>2, SizesInserted
<1> HIDE DEF found, sizes
<1>5. DOMAIN found = DOMAIN parent \cup {t, u} /\ DOMAIN sizes = DOMAIN parent \cup {t, u}
  BY <1>1, <1>2, <1>3, <1>4
<1>6. \A i \in DOMAIN found : Root(found, i) = IF i \in DOMAIN parent THEN Root(parent, i) ELSE i
  BY <1>1, <1>3
<1> QED BY <1>3, <1>4, <1>5, <1>6 DEF found, sizes, first, sizes1

(* A merge links one of the two roots under the other.                     *)
LEMMA MergeJoins ==
  ASSUME SizesAreWords, ForestInv, NEW t, NEW u, Merge(t, u)
  PROVE  LET old == Partition!With({t, u}) IN
         /\ ForestInv'
         /\ \E root \in {old[t], old[u]} :
              /\ Names' = [i \in DOMAIN old |-> IF old[i] \in {old[t], old[u]} THEN root ELSE old[i]]
              /\ ufLast' = <<"merge", t, u, root>>
<1> DEFINE found == Found(Found(parent, t), u)
           sizes == Inserted(Inserted(size, t, 1), u, 1)
           D     == DOMAIN parent \cup {t, u}
           rt    == Root(found, t)
           ru    == Root(found, u)
           top   == IF sizes[rt] < sizes[ru] THEN ru ELSE rt
           under == IF sizes[rt] < sizes[ru] THEN rt ELSE ru
           old   == Partition!With({t, u})
<1>1. /\ IsForest(found) /\ DOMAIN found = D /\ DOMAIN sizes = D
      /\ \A i \in D : Root(found, i) = IF i \in DOMAIN parent THEN Root(parent, i) ELSE i
      /\ \A i \in D : sizes[i] \in 0 .. Word - 1
  BY MergeFinds
<1>2. /\ parent' = Linked(found, under, top)
      /\ size' = [sizes EXCEPT ![top] = (@ + sizes[under]) % Word]
      /\ ufLast' = <<"merge", t, u, top>>
  BY DEF Merge, Linked
<1>3. /\ DOMAIN old = D
      /\ \A i \in D : old[i] = IF i \in DOMAIN parent THEN Root(parent, i) ELSE i
  BY DEF Partition!With
<1>4. \A i \in D : old[i] = Root(found, i)
  BY <1>1, <1>3
<1>5. t \in D /\ u \in D
  OBVIOUS
<1> HIDE DEF found, sizes, D, old
<1>6. /\ rt \in D /\ ru \in D /\ found[rt] = rt /\ found[ru] = ru
      /\ old[t] = rt /\ old[u] = ru
  BY <1>1, <1>4, <1>5, RootFacts
<1>7. /\ top \in D /\ under \in D /\ found[top] = top /\ found[under] = under
      /\ {top, under} = {rt, ru}
  BY <1>6
<1> HIDE DEF top, under, rt, ru
<1>8. /\ IsForest(parent') /\ DOMAIN parent' = D
      /\ \A i \in D : Root(parent', i) = IF Root(found, i) = under THEN top ELSE Root(found, i)
  BY <1>1, <1>2, <1>7, LinkingJoins
<1>9. DOMAIN size' = D /\ \A i \in D : size'[i] \in 0 .. Word - 1
  <2>1. sizes[top] \in Int /\ sizes[under] \in Int /\ Word \in Nat /\ Word > 0
    BY <1>1, <1>7 DEF SizesAreWords
  <2>2. (sizes[top] + sizes[under]) % Word \in 0 .. Word - 1
    BY <2>1
  <2> QED BY <1>1, <1>2, <2>2
<1>10. ForestInv'
  BY <1>8, <1>9 DEF ForestInv
<1>11. Names' = [i \in D |-> IF old[i] \in {old[t], old[u]} THEN top ELSE old[i]]
  <2>1. Names' = [i \in D |-> Root(parent', i)]
    BY <1>8 DEF Names
  <2>2. ASSUME NEW i \in D
        PROVE  Root(parent', i) = IF old[i] \in {old[t], old[u]} THEN top ELSE old[i]
    <3>1. Root(parent', i) = IF old[i] = under THEN top ELSE old[i]
      BY <1>4, <1>8
    <3>2. {old[t], old[u]} = {top, under}
      BY <1>6, <1>7
    <3> QED BY <3>1, <3>2
  <2> QED BY <2>1, <2>2
<1>12. top \in {old[t], old[u]}
  BY <1>6, <1>7
<1>13. DOMAIN old = D
  BY <1>3
<1> QED BY <1>2, <1>10, <1>11, <1>12, <1>13 DEF old, top, under, rt, ru, found, sizes

(* Every step keeps the forest and is the step of the partition with the   *)
(* same name.                                                              *)
LEMMA StepsAreThePartitions ==
  ASSUME SizesAreWords
  PROVE  ForestInv /\ [UFNext]_ufVars => ForestInv' /\ [Partition!Next]_<<Names, ufLast>>
<1> SUFFICES ASSUME ForestInv, [UFNext]_ufVars
             PROVE  ForestInv' /\ [Partition!Next]_<<Names, ufLast>>
  OBVIOUS
<1>0. IsForest(parent) /\ DOMAIN Names = DOMAIN parent
  BY DEF ForestInv, Names
<1>a. ASSUME UNCHANGED <<parent, size>> PROVE ForestInv' /\ Names' = Names
  BY <1>a DEF ForestInv, IsForest, Names
<1>b. ASSUME NEW t, size' = Inserted(size, t, 1)
      PROVE  DOMAIN size' = DOMAIN parent \cup {t} /\ \A i \in DOMAIN size' : size'[i] \in 0 .. Word - 1
  BY <1>b DEF SizesAreWords, Inserted, ForestInv
<1>1. ASSUME NEW t \in Items, UFInsert(t) PROVE ForestInv' /\ Partition!Insert(t)
  <2>1. /\ IsForest(parent') /\ DOMAIN parent' = DOMAIN parent \cup {t}
        /\ \A i \in DOMAIN parent' : Root(parent', i) = IF i \in DOMAIN parent THEN Root(parent, i) ELSE i
    BY <1>0, <1>1, InsertingKeepsRoots DEF UFInsert
  <2>2. DOMAIN size' = DOMAIN parent' /\ \A i \in DOMAIN size' : size'[i] \in 0 .. Word - 1
    BY <1>1, <1>b, <2>1 DEF UFInsert
  <2>3. Names' = Partition!With({t})
    BY <2>1 DEF Names, Partition!With
  <2> QED BY <1>1, <2>1, <2>2, <2>3 DEF ForestInv, UFInsert, Names, Partition!Insert
<1>2. ASSUME NEW t \in Items, Find(t) PROVE ForestInv' /\ Partition!Find(t)
  <2>1. /\ IsForest(parent') /\ DOMAIN parent' = DOMAIN parent \cup {t}
        /\ \A i \in DOMAIN parent' : Root(parent', i) = IF i \in DOMAIN parent THEN Root(parent, i) ELSE i
        /\ parent'[t] = Root(parent', t)
    <3> DEFINE found == Found(parent, t)
    <3>1. parent' = found
      BY <1>2 DEF Find
    <3>2. /\ IsForest(found) /\ DOMAIN found = DOMAIN parent \cup {t}
          /\ \A i \in DOMAIN found : Root(found, i) = IF i \in DOMAIN parent THEN Root(parent, i) ELSE i
          /\ found[t] = Root(found, t)
      BY <1>0, FindingKeepsRoots
    <3> HIDE DEF found
    <3> QED
      BY <3>1, <3>2
  <2>2. DOMAIN size' = DOMAIN parent' /\ \A i \in DOMAIN size' : size'[i] \in 0 .. Word - 1
    BY <1>2, <1>b, <2>1 DEF Find
  <2>3. Names' = Partition!With({t})
    BY <2>1 DEF Names, Partition!With
  <2>4. ufLast' = <<"find", t, Names'[t]>>
    BY <1>2, <2>1 DEF Find, Names
  <2> QED BY <2>1, <2>2, <2>3, <2>4 DEF ForestInv, Names, Partition!Find
<1>3. ASSUME NEW t \in Items, TryFind(t) PROVE ForestInv' /\ Partition!TryFind(t)
  <2>1. /\ IsForest(parent') /\ DOMAIN parent' = DOMAIN parent
        /\ \A i \in DOMAIN parent : Root(parent', i) = Root(parent, i)
    BY <1>0, <1>3, CompressingKeepsRoots DEF TryFind
  <2>2. Names' = Names
    BY <2>1 DEF Names
  <2>3. size' = size /\ ufLast' = <<"try_find", t, IF t \in DOMAIN Names THEN Names[t] ELSE None>>
    BY <1>0, <1>3 DEF TryFind, Names
  <2> QED BY <2>1, <2>2, <2>3 DEF ForestInv, Names, Partition!TryFind
<1>4. ASSUME NEW t \in Items, NEW u \in Items, Merge(t, u) PROVE ForestInv' /\ Partition!Merge(t, u)
  BY <1>4, MergeJoins DEF Names, Partition!Merge
<1>5. ASSUME Iterate PROVE ForestInv' /\ Partition!Iterate
  <2>1. parent' = Names /\ size' = size /\ ufLast' = <<"begin", Names>>
    BY <1>5 DEF Iterate, Names
  <2>2. IsForest(parent') /\ \A i \in DOMAIN parent : Root(parent', i) = Root(parent, i)
    BY <1>0, <2>1, ReifyingKeepsRoots DEF Names
  <2>3. Names' = Names /\ DOMAIN parent' = DOMAIN parent
    BY <1>0, <2>1, <2>2 DEF Names
  <2> QED BY <2>1, <2>2, <2>3 DEF ForestInv, Names, Partition!Iterate
<1>6. ASSUME NEW t \in Items, Contains(t) PROVE ForestInv' /\ Partition!Contains(t)
  BY <1>0, <1>6, <1>a DEF Contains, Names, Partition!Contains
<1>7. ASSUME UFSize PROVE ForestInv' /\ Partition!Size
  <2>1. Partition!Cardinality(DOMAIN Names) = Cardinality(DOMAIN parent)
    BY <1>0 DEF Partition!Cardinality, Cardinality
  <2> QED BY <1>7, <1>a, <2>1 DEF UFSize, Names, Partition!Size
<1>8. ASSUME UFClear PROVE ForestInv' /\ Partition!Clear
  <2>1. parent' = Nothing /\ size' = Nothing /\ DOMAIN Nothing = {} /\ ufLast' = <<"clear">>
    BY <1>8 DEF UFClear, Nothing
  <2>2. ForestInv'
    BY <2>1 DEF ForestInv, IsForest, Nothing
  <2>3. Names' = [i \in {} |-> None]
    BY <2>1 DEF Names
  <2> QED BY <2>1, <2>2, <2>3 DEF Names, Partition!Clear
<1>9. ASSUME ufVars' = ufVars PROVE ForestInv' /\ UNCHANGED <<Names, ufLast>>
  BY <1>9, <1>a DEF ufVars
<1> QED BY <1>1, <1>2, <1>3, <1>4, <1>5, <1>6, <1>7, <1>8, <1>9 DEF UFNext, Partition!Next, Names

(* The empty forest is the empty partition.                                *)
LEMMA StartsEmpty == UFInit => ForestInv /\ Partition!Init
<1> SUFFICES ASSUME UFInit PROVE ForestInv /\ Partition!Init
  OBVIOUS
<1>1. parent = Nothing /\ size = Nothing /\ DOMAIN Nothing = {} /\ ufLast = <<"new">>
  BY DEF UFInit, Nothing
<1>2. ForestInv
  BY <1>1 DEF ForestInv, IsForest, Nothing
<1>3. Names = [i \in {} |-> None]
  BY <1>1 DEF Names
<1> QED BY <1>1, <1>2, <1>3 DEF Names, Partition!Init

(* Parents lead to a root through items that are there, and every item has *)
(* a size: find and merge end, and what they read with at() is there.      *)
THEOREM ForestAlwaysOK == ASSUME SizesAreWords PROVE UFSpec => []ForestOK
<1>1. ForestInv => ForestOK
  BY WalkHasRoot DEF ForestInv, ForestOK, IsForest
<1> QED BY <1>1, StartsEmpty, StepsAreThePartitions, PTL DEF UFSpec

(* The union-find is a partition: finding, shortening chains and iterating *)
(* change no part, and a merge joins two whole parts, whatever the sizes   *)
(* say.                                                                    *)
THEOREM UnionFindIsAPartition == ASSUME SizesAreWords PROVE UFSpec => IsAPartition
<1>1. UFInit => ForestInv /\ Partition!Init
  BY StartsEmpty
<1>2. ForestInv /\ [UFNext]_ufVars => ForestInv' /\ [Partition!Next]_<<Names, ufLast>>
  BY StepsAreThePartitions
<1> QED BY <1>1, <1>2, PTL DEF UFSpec, IsAPartition, Partition!Spec, Names

-----------------------------------------------------------------------------
(* The bitset                                                              *)

(* A bitset has a size, and its bits are keys.                             *)
IsBitset(f) ==
  /\ \E n \in Nat : f \in [0 .. n - 1 -> BOOLEAN]
  /\ Bitset!Members(f) \subseteq SetKeys

(* A larger bitset with the bits of a smaller one is one.                  *)
LEMMA BitsetFacts ==
  ASSUME NEW f, IsBitset(f)
  PROVE  /\ Bitset!IsSized(f) /\ f \in [DOMAIN f -> BOOLEAN]
         /\ Bitset!SizeOf(f) \in Nat /\ DOMAIN f = 0 .. Bitset!SizeOf(f) - 1
         /\ Bitset!Members(f) \subseteq Nat /\ Bitset!Npos \notin Bitset!Members(f)
<1>1. PICK n \in Nat : f \in [0 .. n - 1 -> BOOLEAN]
  BY DEF IsBitset
<1>2. DOMAIN f = 0 .. n - 1
  BY <1>1
<1>3. Cardinality(0 .. n - 1) = n
  <2>1. Cardinality(0 .. n - 1) = IF 0 > n - 1 THEN 0 ELSE (n - 1) - 0 + 1
    BY FS_Interval
  <2> QED
    BY <2>1
<1>4. Bitset!SizeOf(f) = n
  <2>1. Bitset!Cardinality(DOMAIN f) = Cardinality(DOMAIN f)
    BY DEF Bitset!Cardinality, Cardinality
  <2> QED
    BY <1>2, <1>3, <2>1 DEF Bitset!SizeOf
<1>5. Bitset!IsSized(f)
  BY <1>2 DEF Bitset!IsSized
<1>6. Bitset!Members(f) \subseteq Nat /\ Bitset!Npos \notin Bitset!Members(f)
  BY <1>2 DEF Bitset!Members, Bitset!Npos
<1> QED
  BY <1>1, <1>2, <1>4, <1>5, <1>6

LEMMA EmptyBitset == IsBitset(Bitset!Empty) /\ Bitset!Members(Bitset!Empty) = {}
<1>1. Bitset!Empty \in [0 .. 0 - 1 -> BOOLEAN]
  BY DEF Bitset!Empty
<1>2. Bitset!Members(Bitset!Empty) = {}
  BY DEF Bitset!Empty, Bitset!Members
<1> QED
  BY <1>1, <1>2 DEF IsBitset

(* Resizing to at least the size keeps the members.                        *)
LEMMA ResizedBitset ==
  ASSUME NEW f, IsBitset(f), NEW m \in Nat, Bitset!SizeOf(f) <= m
  PROVE  /\ Bitset!Resized(f, m) \in [0 .. m - 1 -> BOOLEAN]
         /\ Bitset!Members(Bitset!Resized(f, m)) = Bitset!Members(f)
<1> DEFINE g == Bitset!Resized(f, m)
<1>1. /\ f \in [DOMAIN f -> BOOLEAN] /\ Bitset!SizeOf(f) \in Nat
      /\ DOMAIN f = 0 .. Bitset!SizeOf(f) - 1
  BY BitsetFacts
<1>2. DOMAIN f \subseteq 0 .. m - 1
  BY <1>1
<1>3. DOMAIN g = 0 .. m - 1 /\ \A i \in 0 .. m - 1 : g[i] = IF i \in DOMAIN f THEN f[i] ELSE FALSE
  BY DEF Bitset!Resized
<1>4. g \in [0 .. m - 1 -> BOOLEAN]
  BY <1>1 DEF Bitset!Resized
<1> HIDE DEF g
<1>5. Bitset!Members(g) = Bitset!Members(f)
  BY <1>2, <1>3 DEF Bitset!Members
<1> QED
  BY <1>4, <1>5 DEF g

(* insert: the bitset grows for a key and the key joins the members.       *)
LEMMA BitsetInsert ==
  ASSUME NEW f, IsBitset(f), NEW k \in SetKeys
  PROVE  /\ IsBitset([Bitset!Grown(f, k) EXCEPT ![k] = TRUE])
         /\ Bitset!Members([Bitset!Grown(f, k) EXCEPT ![k] = TRUE]) = Bitset!Members(f) \cup {k}
<1> DEFINE g == Bitset!Grown(f, k)
           h == [g EXCEPT ![k] = TRUE]
<1>1. k \in Nat
  BY SetKeysAssumption
<1>2. /\ f \in [DOMAIN f -> BOOLEAN] /\ Bitset!SizeOf(f) \in Nat
      /\ DOMAIN f = 0 .. Bitset!SizeOf(f) - 1
  BY BitsetFacts
<1>3. \E n \in Nat : k \in 0 .. n - 1 /\ g \in [0 .. n - 1 -> BOOLEAN]
  <2>1. CASE k \in DOMAIN f
    BY <1>2, <2>1 DEF Bitset!Grown
  <2>2. CASE k \notin DOMAIN f
    <3>1. g = Bitset!Resized(f, k + 1) /\ Bitset!SizeOf(f) <= k + 1 /\ k + 1 \in Nat
      BY <1>1, <1>2, <2>2 DEF Bitset!Grown
    <3>2. g \in [0 .. (k + 1) - 1 -> BOOLEAN]
      BY <3>1, ResizedBitset
    <3>3. k \in 0 .. (k + 1) - 1
      BY <1>1
    <3> QED
      BY <3>1, <3>2, <3>3
  <2> QED
    BY <2>1, <2>2
<1>4. Bitset!Members(g) = Bitset!Members(f)
  <2>1. CASE k \in DOMAIN f
    BY <2>1 DEF Bitset!Grown
  <2>2. CASE k \notin DOMAIN f
    <3>1. g = Bitset!Resized(f, k + 1) /\ Bitset!SizeOf(f) <= k + 1 /\ k + 1 \in Nat
      BY <1>1, <1>2, <2>2 DEF Bitset!Grown
    <3> QED
      BY <3>1, ResizedBitset
  <2> QED
    BY <2>1, <2>2
<1> HIDE DEF g
<1>5. PICK n \in Nat : k \in 0 .. n - 1 /\ g \in [0 .. n - 1 -> BOOLEAN]
  BY <1>3
<1>6. h \in [0 .. n - 1 -> BOOLEAN]
  BY <1>5
<1>7. Bitset!Members(h) = Bitset!Members(g) \cup {k}
  BY <1>5 DEF Bitset!Members
<1>8. Bitset!Members(f) \subseteq SetKeys
  BY DEF IsBitset
<1>9. IsBitset(h)
  BY <1>4, <1>6, <1>7, <1>8 DEF IsBitset
<1> QED
  BY <1>4, <1>7, <1>9 DEF g

LEMMA BitsetRemove ==
  ASSUME NEW f, IsBitset(f), NEW k
  PROVE  LET g == IF k \in DOMAIN f THEN [f EXCEPT ![k] = FALSE] ELSE f
         IN  IsBitset(g) /\ Bitset!Members(g) = Bitset!Members(f) \ {k}
<1>1. CASE k \in DOMAIN f
  <2> DEFINE g == [f EXCEPT ![k] = FALSE]
  <2>1. PICK n \in Nat : f \in [0 .. n - 1 -> BOOLEAN]
    BY DEF IsBitset
  <2>2. g \in [0 .. n - 1 -> BOOLEAN]
    BY <2>1
  <2>3. Bitset!Members(g) = Bitset!Members(f) \ {k}
    BY <1>1, <2>1 DEF Bitset!Members
  <2>4. IsBitset(g)
    BY <2>2, <2>3 DEF IsBitset
  <2> QED
    BY <1>1, <2>3, <2>4
<1>2. CASE k \notin DOMAIN f
  BY <1>2 DEF Bitset!Members
<1> QED
  BY <1>1, <1>2

(* insert_input, whichever way it goes: the union.                         *)
LEMMA BitsetUnion ==
  ASSUME NEW f, IsBitset(f), NEW g, IsBitset(g)
  PROVE  /\ IsBitset(Bitset!InputInto(f, g))
         /\ Bitset!Members(Bitset!InputInto(f, g)) = Bitset!Members(f) \cup Bitset!Members(g)
<1> DEFINE m == Bitset!SizeOf(f)
           n == Bitset!SizeOf(g)
<1>1. m \in Nat /\ DOMAIN f = 0 .. m - 1 /\ f \in [DOMAIN f -> BOOLEAN]
  BY BitsetFacts
<1>2. n \in Nat /\ DOMAIN g = 0 .. n - 1 /\ g \in [DOMAIN g -> BOOLEAN]
  BY BitsetFacts
<1>3. Bitset!Members(f) \subseteq SetKeys /\ Bitset!Members(g) \subseteq SetKeys
  BY DEF IsBitset
<1>4. CASE m = 0
  <2>1. Bitset!InputInto(f, g) = g
    BY <1>4 DEF Bitset!InputInto
  <2>2. Bitset!Members(f) = {}
    BY <1>1, <1>4 DEF Bitset!Members
  <2> QED
    BY <2>1, <2>2
<1>5. CASE m # 0 /\ m <= n
  <2> DEFINE r == Bitset!Resized(f, n)
             h == Bitset!Or(r, g)
  <2>1. Bitset!InputInto(f, g) = h
    BY <1>5 DEF Bitset!InputInto
  <2>2. r \in [0 .. n - 1 -> BOOLEAN] /\ Bitset!Members(r) = Bitset!Members(f)
    BY <1>2, <1>5, ResizedBitset
  <2> HIDE DEF r
  <2>3. h = [i \in 0 .. n - 1 |-> r[i] \/ g[i]]
    BY <2>2 DEF Bitset!Or
  <2>4. h \in [0 .. n - 1 -> BOOLEAN]
    BY <1>2, <2>2, <2>3
  <2>5. Bitset!Members(h) = Bitset!Members(r) \cup Bitset!Members(g)
    BY <1>2, <2>2, <2>3 DEF Bitset!Members
  <2>6. IsBitset(h)
    BY <1>2, <1>3, <2>2, <2>4, <2>5 DEF IsBitset
  <2> QED
    BY <2>1, <2>2, <2>5, <2>6
<1>6. CASE m # 0 /\ ~ m <= n
  <2> DEFINE h == [i \in DOMAIN f |-> f[i] \/ i \in Bitset!Members(g)]
  <2>1. Bitset!InputInto(f, g) = h
    BY <1>6 DEF Bitset!InputInto
  <2>2. DOMAIN g \subseteq DOMAIN f
    BY <1>1, <1>2, <1>6
  <2>3. Bitset!Members(g) \subseteq DOMAIN f
    BY <2>2 DEF Bitset!Members
  <2>4. h \in [0 .. m - 1 -> BOOLEAN]
    BY <1>1
  <2>5. Bitset!Members(h) = Bitset!Members(f) \cup Bitset!Members(g)
    <3>1. \A i \in DOMAIN f : h[i] <=> f[i] \/ i \in Bitset!Members(g)
      BY <1>1
    <3>2. DOMAIN h = DOMAIN f
      OBVIOUS
    <3>3. Bitset!Members(h) = {i \in DOMAIN h : h[i]} /\ Bitset!Members(f) = {i \in DOMAIN f : f[i]}
      BY DEF Bitset!Members
    <3> HIDE DEF h
    <3> QED
      BY <2>3, <3>1, <3>2, <3>3
  <2>6. IsBitset(h)
    BY <1>1, <1>3, <2>4, <2>5 DEF IsBitset
  <2> QED
    BY <2>1, <2>5, <2>6
<1> QED
  BY <1>4, <1>5, <1>6

(* The next set bit: a member beyond k with no member between, or none.    *)
LEMMA NextBit ==
  ASSUME NEW f, IsBitset(f), NEW k \in Int, NEW n \in Bitset!FindAfter(f, k)
  PROVE  \/ n = Bitset!Npos /\ \A i \in Bitset!Members(f) : i <= k
         \/ n \in Bitset!Members(f) /\ n > k /\ \A i \in Bitset!Members(f) : i > k => n <= i
<1> DEFINE later == {i \in Bitset!Members(f) : i > k}
<1>1. Bitset!Members(f) \subseteq Nat
  BY BitsetFacts
<1>2. CASE later = {}
  <2>1. n = Bitset!Npos
    BY <1>2 DEF Bitset!FindAfter
  <2>2. \A i \in Bitset!Members(f) : i <= k
    BY <1>1, <1>2
  <2> QED BY <2>1, <2>2
<1>3. CASE later # {}
  <2>1. n \in later /\ \A j \in later : n <= j
    BY <1>3 DEF Bitset!FindAfter
  <2> QED BY <2>1
<1> QED BY <1>2, <1>3

(* The inductive invariant: every set is a bitset of keys, and the         *)
(* iterator is at a key of its set or at the end.                          *)
BitsetsInv ==
  /\ setBits = [s \in Sets |-> setBits[s]]
  /\ \A s \in Sets : IsBitset(setBits[s])
  /\ setIter = [set |-> setIter.set, cur |-> setIter.cur] /\ setIter.set \in Sets
  /\ setIter.cur \in Bitset!Members(setBits[setIter.set]) \cup {Bitset!Npos}

(* A set that becomes another bitset; its fold is over.                    *)
LEMMA BecomesBitset ==
  ASSUME BitsetsInv, NEW s \in Sets, NEW f, IsBitset(f), NEW op, Bitset!Becomes(s, f, op)
  PROVE  /\ BitsetsInv'
         /\ setBits' = [setBits EXCEPT ![s] = f]
         /\ setIter' = IF setIter.set = s THEN [setIter EXCEPT !.cur = Bitset!Npos] ELSE setIter
         /\ setLast' = op
<1>1. /\ setBits' = [setBits EXCEPT ![s] = f] /\ setLast' = op
      /\ setIter' = IF setIter.set = s THEN [setIter EXCEPT !.cur = Bitset!Npos] ELSE setIter
  BY DEF Bitset!Becomes
<1>2. DOMAIN setBits = Sets
  BY DEF BitsetsInv
<1>3. DOMAIN setBits' = Sets /\ \A t \in Sets : setBits'[t] = IF t = s THEN f ELSE setBits[t]
  BY <1>1, <1>2
<1>4. setBits' = [t \in Sets |-> setBits'[t]]
  BY <1>1, <1>2, <1>3
<1>5. \A t \in Sets : IsBitset(setBits'[t])
  BY <1>3 DEF BitsetsInv
<1>6. CASE setIter.set = s
  <2>1. setIter' = [set |-> s, cur |-> Bitset!Npos]
    BY <1>1, <1>6 DEF BitsetsInv
  <2> QED
    BY <1>1, <1>4, <1>5, <2>1 DEF BitsetsInv
<1>7. CASE setIter.set # s
  <2>1. setIter' = setIter /\ setBits'[setIter.set] = setBits[setIter.set]
    BY <1>1, <1>3, <1>7 DEF BitsetsInv
  <2> QED
    BY <1>1, <1>4, <1>5, <2>1 DEF BitsetsInv
<1> QED
  BY <1>1, <1>6, <1>7

(* Every operation makes a set a bitset again, with the members it should  *)
(* have, or leaves the sets alone.                                         *)
BitsetChange(s, f, keys) ==
  IsBitset(f) /\ Bitset!Members(f) = keys /\ s \in Sets

LEMMA BitsetChanges ==
  ASSUME BitsetsInv, NEW s \in Sets, NEW t \in Sets
  PROVE  /\ \A k \in SetKeys :
              /\ BitsetChange(s, [Bitset!Grown(setBits[s], k) EXCEPT ![k] = TRUE],
                              Bitset!Members(setBits[s]) \cup {k})
              /\ BitsetChange(s, IF k \in DOMAIN setBits[s] THEN [setBits[s] EXCEPT ![k] = FALSE]
                                 ELSE setBits[s],
                              Bitset!Members(setBits[s]) \ {k})
         /\ BitsetChange(s, Bitset!InputInto(setBits[s], setBits[t]),
                         Bitset!Members(setBits[s]) \cup Bitset!Members(setBits[t]))
         /\ BitsetChange(t, setBits[s], Bitset!Members(setBits[s]))
         /\ BitsetChange(s, Bitset!Empty, {})
<1>1. IsBitset(setBits[s]) /\ IsBitset(setBits[t])
  BY DEF BitsetsInv
<1>2. ASSUME NEW k \in SetKeys
      PROVE  BitsetChange(s, [Bitset!Grown(setBits[s], k) EXCEPT ![k] = TRUE],
                          Bitset!Members(setBits[s]) \cup {k})
  BY <1>1, BitsetInsert DEF BitsetChange
<1>3. ASSUME NEW k \in SetKeys
      PROVE  BitsetChange(s, IF k \in DOMAIN setBits[s] THEN [setBits[s] EXCEPT ![k] = FALSE]
                             ELSE setBits[s],
                          Bitset!Members(setBits[s]) \ {k})
  BY <1>1, BitsetRemove DEF BitsetChange
<1>4. BitsetChange(s, Bitset!InputInto(setBits[s], setBits[t]),
                   Bitset!Members(setBits[s]) \cup Bitset!Members(setBits[t]))
  BY <1>1, BitsetUnion DEF BitsetChange
<1>5. BitsetChange(t, setBits[s], Bitset!Members(setBits[s]))
  BY <1>1 DEF BitsetChange
<1>6. BitsetChange(s, Bitset!Empty, {})
  BY EmptyBitset DEF BitsetChange
<1> QED
  BY <1>2, <1>3, <1>4, <1>5, <1>6

(* What the sets stand for.                                                *)
SetContents == [s \in Sets |-> Bitset!Members(setBits[s])]

SetLeft ==
  {k \in Bitset!Members(setBits[setIter.set]) : setIter.cur # Bitset!Npos /\ k >= setIter.cur}

(* A change of a set is the abstract one, and ends the fold over it.       *)
LEMMA BecomesKeys ==
  ASSUME BitsetsInv, NEW s, NEW f, NEW keys, BitsetChange(s, f, keys),
         NEW op, Bitset!Becomes(s, f, op)
  PROVE  /\ BitsetsInv'
         /\ SetContents' = [SetContents EXCEPT ![s] = keys]
         /\ SetLeft' = IF s = setIter.set THEN {} ELSE SetLeft
         /\ setLast' = op
         /\ setIter'.set = setIter.set
<1>0. s \in Sets /\ IsBitset(f) /\ Bitset!Members(f) = keys
  BY DEF BitsetChange
<1>1. /\ BitsetsInv'
      /\ setBits' = [setBits EXCEPT ![s] = f]
      /\ setIter' = IF setIter.set = s THEN [setIter EXCEPT !.cur = Bitset!Npos] ELSE setIter
      /\ setLast' = op
  BY <1>0, BecomesBitset
<1>2. /\ DOMAIN setBits = Sets /\ setIter.set \in Sets
      /\ setIter = [set |-> setIter.set, cur |-> setIter.cur]
  BY DEF BitsetsInv
<1>3. \A t \in Sets : setBits'[t] = IF t = s THEN f ELSE setBits[t]
  BY <1>1, <1>2
<1>4. SetContents' = [SetContents EXCEPT ![s] = keys]
  BY <1>0, <1>3 DEF SetContents
<1>5. setIter'.set = setIter.set
  BY <1>1, <1>2
<1>6. CASE s = setIter.set
  <2>1. setIter'.cur = Bitset!Npos
    BY <1>1, <1>2, <1>6
  <2>2. SetLeft' = {}
    BY <2>1 DEF SetLeft, Bitset!Npos
  <2> QED
    BY <1>1, <1>4, <1>5, <1>6, <2>2
<1>7. CASE s # setIter.set
  <2>1. setIter' = setIter /\ setBits'[setIter.set] = setBits[setIter.set]
    BY <1>1, <1>2, <1>3, <1>7
  <2>2. SetLeft' = SetLeft
    BY <2>1 DEF SetLeft, Bitset!Members, Bitset!Npos
  <2> QED
    BY <1>1, <1>4, <1>5, <1>7, <2>2
<1> QED
  BY <1>6, <1>7

(* A change is the abstract operation of the same name.                    *)
LEMMA ChangesAreTheSets ==
  ASSUME BitsetsInv, NEW s, NEW f, NEW keys, BitsetChange(s, f, keys),
         NEW op, Bitset!Becomes(s, f, op)
  PROVE  BitsetsInv' /\ Bitset!AsSets!Becomes(s, keys, op)
BY BecomesKeys DEF Bitset!AsSets!Becomes, SetContents, SetLeft

(* Where the sets are left alone, so is what they stand for.               *)
LEMMA SetsStay ==
  ASSUME BitsetsInv, setBits' = setBits, setIter' = setIter
  PROVE  BitsetsInv' /\ SetContents' = SetContents /\ SetLeft' = SetLeft
<1>1. BitsetsInv'
  BY DEF BitsetsInv, Bitset!Members, Bitset!Npos
<1>2. SetContents' = SetContents /\ SetLeft' = SetLeft
  BY DEF SetContents, SetLeft, Bitset!Members, Bitset!Npos
<1> QED
  BY <1>1, <1>2

(* The fold goes on with the next key: those left are without this one.    *)
LEMMA FoldGoesOn ==
  ASSUME BitsetsInv, Bitset!Yield
  PROVE  /\ BitsetsInv'
         /\ setIter.cur \in SetLeft /\ setIter.cur \in SetKeys
         /\ SetLeft' = SetLeft \ {setIter.cur}
         /\ SetContents' = SetContents /\ setIter'.set = setIter.set
         /\ setLast' = <<"next", setIter.cur>>
<1> DEFINE f == setBits[setIter.set]
<1>1. /\ setIter.cur # Bitset!Npos /\ setLast' = <<"next", setIter.cur>> /\ setBits' = setBits
      /\ \E next \in Bitset!FindAfter(f, setIter.cur) : setIter' = [setIter EXCEPT !.cur = next]
  BY DEF Bitset!Yield
<1>2. PICK n \in Bitset!FindAfter(f, setIter.cur) : setIter' = [setIter EXCEPT !.cur = n]
  BY <1>1
<1>3. IsBitset(f) /\ setIter.set \in Sets /\ setIter = [set |-> setIter.set, cur |-> setIter.cur]
  BY DEF BitsetsInv
<1>4. /\ Bitset!Members(f) \subseteq Nat /\ Bitset!Npos \notin Bitset!Members(f)
      /\ Bitset!Members(f) \subseteq SetKeys
  BY <1>3, BitsetFacts DEF IsBitset
<1>5. setIter.cur \in Bitset!Members(f)
  BY <1>1 DEF BitsetsInv
<1>6. setIter.cur \in Int
  BY <1>4, <1>5
<1>7. setIter' = [set |-> setIter.set, cur |-> n]
  BY <1>2, <1>3
<1>8. \/ n = Bitset!Npos /\ \A i \in Bitset!Members(f) : i <= setIter.cur
      \/ n \in Bitset!Members(f) /\ n > setIter.cur /\ \A i \in Bitset!Members(f) : i > setIter.cur => n <= i
  BY <1>3, <1>6, NextBit
<1>9. setBits'[setIter'.set] = f /\ setIter'.set = setIter.set /\ setIter'.cur = n
  BY <1>1, <1>7
<1>10. BitsetsInv'
  <2>1. n \in Bitset!Members(f) \cup {Bitset!Npos}
    BY <1>8
  <2> QED
    BY <1>1, <1>3, <1>7, <2>1 DEF BitsetsInv, Bitset!Members, Bitset!Npos
<1>11. SetLeft' = {k \in Bitset!Members(f) : n # Bitset!Npos /\ k >= n}
  BY <1>9 DEF SetLeft, Bitset!Members, Bitset!Npos
<1>12. SetLeft = {k \in Bitset!Members(f) : k >= setIter.cur}
  BY <1>1 DEF SetLeft
<1>13. ASSUME NEW k \in Bitset!Members(f)
       PROVE  (n # Bitset!Npos /\ k >= n) <=> (k >= setIter.cur /\ k # setIter.cur)
  <2>1. k \in Nat /\ setIter.cur \in Nat
    BY <1>4, <1>5
  <2>2. CASE n = Bitset!Npos /\ \A i \in Bitset!Members(f) : i <= setIter.cur
    BY <2>1, <2>2
  <2>3. CASE /\ n \in Bitset!Members(f) /\ n > setIter.cur
             /\ \A i \in Bitset!Members(f) : i > setIter.cur => n <= i
    <3>1. n \in Nat /\ n # Bitset!Npos
      BY <1>4, <2>3
    <3>2. k > setIter.cur => n <= k
      BY <2>3
    <3> QED
      BY <2>1, <2>3, <3>1, <3>2
  <2> QED
    BY <1>8, <2>2, <2>3
<1>14. SetLeft' = SetLeft \ {setIter.cur}
  BY <1>11, <1>12, <1>13
<1>15. setIter.cur \in SetLeft
  BY <1>5, <1>6, <1>12
<1>16. SetContents' = SetContents
  BY <1>1 DEF SetContents, Bitset!Members
<1> QED
  BY <1>1, <1>4, <1>5, <1>9, <1>10, <1>14, <1>15, <1>16

LEMMA FoldBegins ==
  ASSUME BitsetsInv, NEW s \in Sets, Bitset!Begin(s)
  PROVE  /\ BitsetsInv'
         /\ SetContents' = SetContents /\ setIter'.set = s
         /\ SetLeft' = SetContents[s]
         /\ setLast' = <<"begin", s>>
<1> DEFINE f == setBits[s]
<1>1. setBits' = setBits /\ setLast' = <<"begin", s>>
  BY DEF Bitset!Begin
<1>2. PICK n \in Bitset!FindAfter(f, -1) : setIter' = [set |-> s, cur |-> n]
  BY DEF Bitset!Begin
<1>3. IsBitset(f)
  BY DEF BitsetsInv
<1>4. Bitset!Members(f) \subseteq Nat /\ Bitset!Npos \notin Bitset!Members(f)
  BY <1>3, BitsetFacts
<1>5. -1 \in Int
  OBVIOUS
<1>6. \/ n = Bitset!Npos /\ \A i \in Bitset!Members(f) : i <= -1
      \/ n \in Bitset!Members(f) /\ n > -1 /\ \A i \in Bitset!Members(f) : i > -1 => n <= i
  BY <1>3, <1>5, NextBit
<1>7. setBits'[setIter'.set] = f /\ setIter'.set = s /\ setIter'.cur = n
  BY <1>1, <1>2
<1>8. BitsetsInv'
  <2>1. n \in Bitset!Members(f) \cup {Bitset!Npos}
    BY <1>6
  <2> QED
    BY <1>1, <1>2, <2>1 DEF BitsetsInv, Bitset!Members, Bitset!Npos
<1>9. SetLeft' = {k \in Bitset!Members(f) : n # Bitset!Npos /\ k >= n}
  BY <1>7 DEF SetLeft, Bitset!Members, Bitset!Npos
<1>10. ASSUME NEW k \in Bitset!Members(f)
       PROVE  n # Bitset!Npos /\ k >= n
  <2>1. k \in Nat /\ k > -1
    BY <1>4
  <2>2. n \in Bitset!Members(f) /\ \A i \in Bitset!Members(f) : i > -1 => n <= i
    BY <1>6, <2>1
  <2>3. n \in Nat /\ n # Bitset!Npos /\ n <= k
    BY <1>4, <2>1, <2>2
  <2> QED
    BY <2>1, <2>3
<1>11. SetLeft' = SetContents[s]
  BY <1>9, <1>10 DEF SetContents
<1>12. SetContents' = SetContents
  BY <1>1 DEF SetContents, Bitset!Members
<1> QED
  BY <1>1, <1>7, <1>8, <1>11, <1>12

(* Each step keeps the invariant and is the sets' step of the same name.   *)
LEMMA StepsAreTheSets ==
  BitsetsInv /\ [Bitset!Next]_setVars
  => BitsetsInv' /\ [Bitset!AsSets!Next]_<<SetContents, setIter.set, SetLeft, setLast>>
<1> SUFFICES ASSUME BitsetsInv, [Bitset!Next]_setVars
             PROVE  BitsetsInv' /\ [Bitset!AsSets!Next]_<<SetContents, setIter.set, SetLeft, setLast>>
  OBVIOUS
<1>0. \A s \in Sets : SetContents[s] = Bitset!Members(setBits[s])
  BY DEF SetContents
<1>1. ASSUME NEW s \in Sets, NEW k \in SetKeys, Bitset!Insert(s, k)
      PROVE  BitsetsInv' /\ Bitset!AsSets!Insert(s, k)
  <2>1. BitsetsInv' /\ Bitset!AsSets!Becomes(s, SetContents[s] \cup {k}, <<"insert", s, k>>)
    BY <1>0, <1>1, BitsetChanges, ChangesAreTheSets DEF Bitset!Insert
  <2> QED
    BY <2>1 DEF Bitset!AsSets!Insert, SetContents
<1>2. ASSUME NEW s \in Sets, NEW k \in SetKeys, Bitset!Remove(s, k)
      PROVE  BitsetsInv' /\ Bitset!AsSets!Remove(s, k)
  <2>1. BitsetsInv' /\ Bitset!AsSets!Becomes(s, SetContents[s] \ {k}, <<"remove", s, k>>)
    BY <1>0, <1>2, BitsetChanges, ChangesAreTheSets DEF Bitset!Remove
  <2> QED
    BY <2>1 DEF Bitset!AsSets!Remove, SetContents
<1>3. ASSUME NEW s \in Sets, NEW t \in Sets, Bitset!InsertInput(s, t)
      PROVE  BitsetsInv' /\ Bitset!AsSets!InsertInput(s, t)
  <2>1. BitsetsInv' /\ Bitset!AsSets!Becomes(s, SetContents[s] \cup SetContents[t], <<"insert_input", s, t>>)
    BY <1>0, <1>3, BitsetChanges, ChangesAreTheSets DEF Bitset!InsertInput
  <2> QED
    BY <2>1 DEF Bitset!AsSets!InsertInput, SetContents
<1>4. ASSUME NEW s \in Sets, NEW t \in Sets, Bitset!Copy(s, t)
      PROVE  BitsetsInv' /\ Bitset!AsSets!Copy(s, t)
  <2>1. BitsetsInv' /\ Bitset!AsSets!Becomes(t, SetContents[s], <<"copy", s, t>>)
    BY <1>0, <1>4, BitsetChanges, ChangesAreTheSets DEF Bitset!Copy
  <2> QED
    BY <2>1 DEF Bitset!AsSets!Copy, SetContents
<1>5. ASSUME NEW s \in Sets, Bitset!Clear(s)
      PROVE  BitsetsInv' /\ Bitset!AsSets!Clear(s)
  <2>1. BitsetsInv' /\ Bitset!AsSets!Becomes(s, {}, <<"clear", s>>)
    BY <1>5, BitsetChanges, ChangesAreTheSets DEF Bitset!Clear
  <2> QED
    BY <2>1 DEF Bitset!AsSets!Clear
<1>6. ASSUME NEW s \in Sets, NEW k \in SetKeys, Bitset!Has(s, k)
      PROVE  BitsetsInv' /\ Bitset!AsSets!Has(s, k)
  <2>1. (k \in DOMAIN setBits[s] /\ setBits[s][k]) = (k \in SetContents[s])
    BY <1>0 DEF Bitset!Members
  <2>2. setLast' = <<"has", s, k, k \in SetContents[s]>>
    BY <1>6, <2>1 DEF Bitset!Has
  <2> QED
    BY <1>6, <2>2, SetsStay DEF Bitset!Has, Bitset!AsSets!Has, SetContents, SetLeft
<1>7. ASSUME NEW s \in Sets, Bitset!Size(s)
      PROVE  BitsetsInv' /\ Bitset!AsSets!Size(s)
  <2>1. Bitset!AsSets!Cardinality(SetContents[s]) = Bitset!Cardinality(Bitset!Members(setBits[s]))
    BY <1>0 DEF Bitset!AsSets!Cardinality, Bitset!Cardinality
  <2> QED
    BY <1>7, <2>1, SetsStay DEF Bitset!Size, Bitset!AsSets!Size, SetContents, SetLeft
<1>8. ASSUME NEW s \in Sets, Bitset!Begin(s)
      PROVE  BitsetsInv' /\ Bitset!AsSets!Begin(s)
  BY <1>8, FoldBegins DEF Bitset!AsSets!Begin, SetContents, SetLeft
<1>9. ASSUME Bitset!Yield
      PROVE  BitsetsInv' /\ \E k \in SetKeys : Bitset!AsSets!Yield(k)
  BY <1>9, FoldGoesOn DEF Bitset!AsSets!Yield, SetContents, SetLeft
<1>10. ASSUME Bitset!End
       PROVE  BitsetsInv' /\ Bitset!AsSets!End
  <2>1. SetLeft = {}
    BY <1>10 DEF Bitset!End, SetLeft
  <2> QED
    BY <1>10, <2>1, SetsStay DEF Bitset!End, Bitset!AsSets!End, SetContents, SetLeft
<1>11. ASSUME UNCHANGED setVars
       PROVE  BitsetsInv' /\ UNCHANGED <<SetContents, setIter.set, SetLeft, setLast>>
  BY <1>11, SetsStay DEF setVars
<1> QED
  BY <1>1, <1>2, <1>3, <1>4, <1>5, <1>6, <1>7, <1>8, <1>9, <1>10, <1>11
  DEF Bitset!Next, Bitset!AsSets!Next

(* The bitsets are sets, also when the runtime has other containers.       *)
THEOREM BitSetsAreSets == CSpec => BitSetIsASet
<1>1. CInit => BitsetsInv /\ Bitset!AsSets!Init
  <2> SUFFICES ASSUME Bitset!Init PROVE BitsetsInv /\ Bitset!AsSets!Init
    BY DEF CInit
  <2>1. /\ setBits = [s \in Sets |-> Bitset!Empty] /\ setLast = <<"new">>
        /\ setIter \in [set : Sets, cur : {Bitset!Npos}]
    BY DEF Bitset!Init
  <2>2. \A s \in Sets : setBits[s] = Bitset!Empty
    BY <2>1
  <2>3. BitsetsInv
    BY <2>1, <2>2, EmptyBitset DEF BitsetsInv
  <2>4. SetContents = [s \in Sets |-> {}]
    BY <2>2, EmptyBitset DEF SetContents
  <2>5. SetLeft = {}
    BY <2>1 DEF SetLeft
  <2> QED
    BY <2>1, <2>3, <2>4, <2>5 DEF Bitset!AsSets!Init, SetContents, SetLeft
<1>2. BitsetsInv /\ [CNext]_Everything
      => BitsetsInv' /\ [Bitset!AsSets!Next]_<<SetContents, setIter.set, SetLeft, setLast>>
  <2>1. [CNext]_Everything => [Bitset!Next]_setVars
    BY DEF CNext, Everything
  <2> QED
    BY <2>1, StepsAreTheSets
<1> QED
  BY <1>1, <1>2, PTL DEF CSpec, Everything, BitSetIsASet, Bitset!IsASet, Bitset!AsSets!Spec, SetContents, SetLeft

-----------------------------------------------------------------------------
(* The vector's iterators                                                  *)

(* The inductive invariant: while a fold runs, the index is as far from    *)
(* the front, or from the back, as elements were seen, and what is left of *)
(* a walk along elements is the rest.  A fold over Booleans may see one    *)
(* too many.                                                               *)
FoldKeepsUp ==
  ~ vecDone =>
    /\ vecIdx = IF vecReverse THEN Vector!size - vecSeen
                ELSE IF vecSeen = 0 THEN IndexWord - 1 ELSE vecSeen - 1
    /\ vecSeen <= Vector!size + (IF vecBits /\ ~ vecReverse THEN 1 ELSE 0)
    /\ ~ vecBits => vecRest = Vector!size - vecSeen

VectorInv == Vector!TypeOK /\ FoldKeepsUp

(* A step of the index wraps only from before the first element.           *)
LEMMA IndexUp ==
  ASSUME NEW s \in Nat, NEW w \in Nat, s + 1 < w
  PROVE  (IF s = 0 THEN (w - 1 + 1) % w ELSE (s - 1 + 1) % w) = s
<1>1. CASE s = 0
  <2>1. w - 1 + 1 = w /\ w > 0
    BY <1>1
  <2>2. w % w = 0
    BY <2>1
  <2> QED
    BY <1>1, <2>1, <2>2
<1>2. CASE s # 0
  <2>1. s - 1 + 1 = s
    OBVIOUS
  <2>2. s % w = s
    OBVIOUS
  <2> QED
    BY <1>2, <2>1, <2>2
<1> QED
  BY <1>1, <1>2

LEMMA PlaceOf == ASSUME NEW i \in Nat, NEW n \in Nat, i < n PROVE i + 1 \in 1 .. n
OBVIOUS

LEMMA IndexDown ==
  ASSUME NEW i \in Nat, NEW w \in Nat, i < w, i # 0
  PROVE  (i + (w - 1)) % w = i - 1
<1>1. i + (w - 1) = (i - 1) + 1 * w
  OBVIOUS
<1>2. i - 1 \in Nat /\ i - 1 < w
  OBVIOUS
<1>3. ((i - 1) + 1 * w) % w = i - 1
  BY <1>2
<1> QED
  BY <1>1, <1>3

(* Where a step of a fold leads, and what it hands the body.               *)
LEMMA VectorYields ==
  ASSUME VectorInv, Vector!Yield
  PROVE  VectorInv' /\ (~ vecBits => vecIdx' < Vector!size /\ vecVal' = vecElems[vecIdx' + 1])
<1> DEFINE n == Vector!size
           s == vecSeen
<1>1. /\ n \in Nat /\ n <= MaxLen /\ s \in Nat /\ vecBits \in BOOLEAN /\ vecReverse \in BOOLEAN
      /\ vecElems \in Seq(Vals) /\ vecIdx \in 0 .. IndexWord - 1 /\ vecVal \in Vals /\ vecRest \in 0 .. n
  BY DEF VectorInv, Vector!TypeOK, Vector!size
<1>2. IndexWord \in Nat /\ MaxLen \in Nat /\ MaxLen < IndexWord - 1
  BY WordsAssumption
<1>3. /\ vecIdx = IF vecReverse THEN n - s ELSE IF s = 0 THEN IndexWord - 1 ELSE s - 1
      /\ s <= n + (IF vecBits /\ ~ vecReverse THEN 1 ELSE 0)
      /\ ~ vecBits => vecRest = n - s
  BY DEF VectorInv, FoldKeepsUp, Vector!Yield
<1>4. /\ vecBits' = vecBits /\ vecElems' = vecElems /\ vecReverse' = vecReverse /\ vecDone' = vecDone
      /\ vecSeen' = s + 1 /\ vecRest' = IF vecBits THEN vecRest ELSE vecRest - 1
      /\ vecIdx' = (vecIdx + (IF vecReverse THEN IndexWord - 1 ELSE 1)) % IndexWord
      /\ ~ vecDone
  BY DEF Vector!Yield, Vector!Step
<1>5. IF vecBits THEN vecIdx # (IF vecReverse THEN 0 ELSE n) ELSE vecRest # 0
  BY DEF Vector!Yield, Vector!AtEnd
<1>6. s < n + (IF vecBits /\ ~ vecReverse THEN 1 ELSE 0)
  <2>1. CASE ~ vecBits
    BY <1>1, <1>3, <1>5, <2>1
  <2>2. CASE vecBits /\ vecReverse
    BY <1>1, <1>3, <1>5, <2>2
  <2>3. CASE vecBits /\ ~ vecReverse
    BY <1>1, <1>2, <1>3, <1>5, <2>3
  <2> QED
    BY <1>1, <2>1, <2>2, <2>3
<1>7. vecIdx' = IF vecReverse THEN n - (s + 1) ELSE s
  <2>1. CASE vecReverse
    <3>1. s < n /\ vecIdx = n - s
      BY <1>1, <1>3, <1>6, <2>1
    <3>2. vecIdx \in Nat /\ vecIdx < IndexWord /\ vecIdx # 0
      BY <1>1, <1>2, <3>1
    <3>3. vecIdx' = vecIdx - 1
      BY <1>2, <1>4, <2>1, <3>2, IndexDown
    <3> QED
      BY <1>1, <2>1, <3>1, <3>3
  <2>2. CASE ~ vecReverse
    <3>1. s <= n
      BY <1>1, <1>6, <2>2
    <3>2. s + 1 < IndexWord
      BY <1>1, <1>2, <3>1
    <3>3. (IF s = 0 THEN (IndexWord - 1 + 1) % IndexWord ELSE (s - 1 + 1) % IndexWord) = s
      BY <1>1, <1>2, <3>2, IndexUp
    <3> QED
      BY <1>3, <1>4, <2>2, <3>3
  <2> QED
    BY <2>1, <2>2
<1>8. Vector!size' = n
  BY <1>4 DEF Vector!size
<1>9. vecIdx' \in 0 .. IndexWord - 1
  BY <1>1, <1>2, <1>6, <1>7
<1>10. ~ vecBits => vecIdx' \in 0 .. n - 1 /\ vecVal' = vecElems[vecIdx' + 1]
  <2> SUFFICES ASSUME ~ vecBits PROVE vecIdx' \in 0 .. n - 1 /\ vecVal' = vecElems[vecIdx' + 1]
    OBVIOUS
  <2>1. vecVal' = vecElems[IF vecReverse THEN vecRest ELSE n - vecRest + 1]
    BY DEF Vector!Yield, Vector!Fetched
  <2>2. vecRest = n - s /\ s < n
    BY <1>1, <1>3, <1>6
  <2>3. vecIdx' + 1 = IF vecReverse THEN vecRest ELSE n - vecRest + 1
    BY <1>1, <1>7, <2>2
  <2> QED
    BY <1>1, <1>7, <2>1, <2>2, <2>3
<1>11. vecVal' \in Vals
  <2>1. \A i \in 1 .. n : vecElems[i] \in Vals
    BY <1>1 DEF Vector!size
  <2>2. CASE ~ vecBits
    <3>1. vecIdx' + 1 \in 1 .. n
      BY <1>1, <1>10, <2>2
    <3> QED
      BY <1>10, <2>1, <2>2, <3>1
  <2>3. CASE vecBits /\ vecReverse
    BY <1>1, <2>3 DEF Vector!Yield, Vector!Fetched
  <2>4. CASE vecBits /\ ~ vecReverse
    <3>1. IF vecIdx' < n THEN vecVal' = vecElems[vecIdx' + 1] ELSE vecVal' \in Vals
      BY <2>4 DEF Vector!Yield, Vector!Fetched
    <3>2. vecIdx' < n => vecIdx' + 1 \in 1 .. n
      <4>1. vecIdx' \in Nat /\ n \in Nat
        BY <1>1, <1>2, <1>9
      <4> QED
        BY <4>1, PlaceOf
    <3> QED
      BY <2>1, <3>1, <3>2
  <2> QED
    BY <2>2, <2>3, <2>4
<1>12. vecRest' \in 0 .. n /\ (~ vecBits => vecRest' = n - (s + 1))
  BY <1>1, <1>3, <1>4, <1>6
<1>13. vecSeen' \in 0 .. MaxLen + 1
  BY <1>1, <1>2, <1>4, <1>6
<1>14. Vector!TypeOK'
  BY <1>1, <1>4, <1>8, <1>9, <1>11, <1>12, <1>13 DEF VectorInv, Vector!TypeOK
<1>15. FoldKeepsUp'
  <2>1. vecSeen' # 0 /\ vecSeen' - 1 = s
    BY <1>1, <1>4
  <2>2. vecSeen' <= n + (IF vecBits /\ ~ vecReverse THEN 1 ELSE 0)
    BY <1>1, <1>4, <1>6
  <2> QED
    BY <1>4, <1>7, <1>8, <1>12, <2>1, <2>2 DEF FoldKeepsUp
<1> QED
  BY <1>1, <1>10, <1>14, <1>15 DEF VectorInv

(* A fold begins before the first element, or behind the last.             *)
LEMMA VectorStarts ==
  ASSUME VectorInv, NEW r \in BOOLEAN, NEW i, Vector!Started(r, i),
         i = IF r THEN Vector!size ELSE IndexWord - 1
  PROVE  VectorInv'
<1>1. /\ Vector!size \in Nat /\ Vector!size <= MaxLen
      /\ IndexWord \in Nat /\ MaxLen \in Nat /\ MaxLen < IndexWord - 1
  BY WordsAssumption DEF VectorInv, Vector!TypeOK, Vector!size
<1>2. /\ vecReverse' = r /\ vecIdx' = i /\ vecVal' \in Vals /\ vecRest' = Vector!size
      /\ vecDone' = FALSE /\ vecSeen' = 0 /\ vecBits' = vecBits /\ vecElems' = vecElems
  BY DEF Vector!Started
<1>3. Vector!size' = Vector!size
  BY <1>2 DEF Vector!size
<1>4. i \in 0 .. IndexWord - 1
  BY <1>1
<1>5. Vector!TypeOK'
  <2>1. vecBits' \in BOOLEAN /\ vecReverse' \in BOOLEAN /\ vecDone' \in BOOLEAN
    BY <1>2 DEF VectorInv, Vector!TypeOK
  <2>2. vecElems' \in Seq(Vals) /\ Vector!size' <= MaxLen
    BY <1>1, <1>2, <1>3 DEF VectorInv, Vector!TypeOK
  <2>3. vecRest' \in 0 .. Vector!size' /\ vecSeen' \in 0 .. MaxLen + 1
    BY <1>1, <1>2, <1>3
  <2> QED
    BY <1>2, <1>4, <2>1, <2>2, <2>3 DEF Vector!TypeOK
<1>6. FoldKeepsUp'
  BY <1>1, <1>2, <1>3 DEF FoldKeepsUp
<1> QED
  BY <1>5, <1>6 DEF VectorInv

(* The body changes elements, not their number.                            *)
LEMMA VectorWrites ==
  ASSUME VectorInv, Vector!Write
  PROVE  VectorInv'
<1>1. PICK i \in 1 .. Vector!size, v \in Vals : vecElems' = [vecElems EXCEPT ![i] = v]
  BY DEF Vector!Write
<1>2. /\ vecBits' = vecBits /\ vecReverse' = vecReverse /\ vecIdx' = vecIdx /\ vecVal' = vecVal
      /\ vecRest' = vecRest /\ vecDone' = vecDone /\ vecSeen' = vecSeen
  BY DEF Vector!Write
<1>3. vecElems \in Seq(Vals)
  BY DEF VectorInv, Vector!TypeOK
<1>4. vecElems' \in Seq(Vals) /\ Len(vecElems') = Len(vecElems)
  BY <1>1, <1>3 DEF Vector!size
<1>5. Vector!size' = Vector!size
  BY <1>4 DEF Vector!size
<1>6. Vector!TypeOK'
  BY <1>2, <1>4, <1>5 DEF VectorInv, Vector!TypeOK
<1>7. FoldKeepsUp'
  BY <1>2, <1>5 DEF VectorInv, FoldKeepsUp
<1> QED
  BY <1>6, <1>7 DEF VectorInv

(* Each step keeps the invariant; a fold that ends has seen every element. *)
LEMMA VectorSteps ==
  VectorInv /\ [Vector!Next]_vecVars
  => VectorInv' /\ [~ vecBits => Vector!HandsTheElement /\ (Vector!End => vecSeen = Vector!size)]_vecVars
<1> SUFFICES ASSUME VectorInv, [Vector!Next]_vecVars
             PROVE  /\ VectorInv'
                    /\ ~ vecBits => Vector!HandsTheElement /\ (Vector!End => vecSeen = Vector!size)
  OBVIOUS
<1>1. ~ vecBits => Vector!HandsTheElement
  BY VectorYields DEF Vector!HandsTheElement
<1>2. ~ vecBits /\ Vector!End => vecSeen = Vector!size
  <2> SUFFICES ASSUME ~ vecBits, Vector!End PROVE vecSeen = Vector!size
    OBVIOUS
  <2>1. ~ vecDone /\ vecRest = 0
    BY DEF Vector!End, Vector!AtEnd
  <2>2. vecRest = Vector!size - vecSeen /\ Vector!size \in Nat /\ vecSeen \in Nat
    BY <2>1 DEF VectorInv, FoldKeepsUp, Vector!TypeOK, Vector!size
  <2> QED
    BY <2>1, <2>2
<1>3. CASE Vector!Begin
  BY <1>1, <1>2, <1>3, VectorStarts DEF Vector!Begin
<1>4. CASE Vector!RBegin
  BY <1>1, <1>2, <1>4, VectorStarts DEF Vector!RBegin
<1>5. CASE Vector!Yield
  BY <1>1, <1>2, <1>5, VectorYields
<1>6. CASE Vector!End
  <2>1. /\ vecDone' = TRUE /\ vecBits' = vecBits /\ vecElems' = vecElems /\ vecReverse' = vecReverse
        /\ vecIdx' = vecIdx /\ vecVal' = vecVal /\ vecRest' = vecRest /\ vecSeen' = vecSeen
    BY <1>6 DEF Vector!End
  <2> QED
    BY <1>1, <1>2, <2>1 DEF VectorInv, Vector!TypeOK, FoldKeepsUp, Vector!size
<1>7. CASE Vector!Write
  BY <1>1, <1>2, <1>7, VectorWrites
<1>8. CASE UNCHANGED vecVars
  BY <1>1, <1>2, <1>8 DEF vecVars, VectorInv, Vector!TypeOK, FoldKeepsUp, Vector!size
<1> QED
  BY <1>1, <1>2, <1>3, <1>4, <1>5, <1>6, <1>7, <1>8 DEF Vector!Next

LEMMA VectorBegins == Vector!Init => VectorInv
<1> SUFFICES ASSUME Vector!Init PROVE VectorInv
  OBVIOUS
<1>1. PICK m \in 0 .. MaxLen : vecElems \in [1 .. m -> Vals]
  BY DEF Vector!Init, Vector!SeqOf
<1>2. vecElems \in Seq(Vals) /\ Len(vecElems) = m
  BY <1>1
<1>3. Vector!size = m /\ m \in Nat /\ m <= MaxLen /\ MaxLen \in Nat /\ IndexWord \in Nat /\ 0 <= IndexWord - 1
  BY <1>2, WordsAssumption DEF Vector!size
<1>4. /\ vecBits \in BOOLEAN /\ vecReverse = FALSE /\ vecIdx = 0 /\ vecVal \in Vals
      /\ vecRest = 0 /\ vecDone = TRUE /\ vecSeen = 0
  BY DEF Vector!Init
<1>5. Vector!TypeOK
  <2>1. vecIdx \in 0 .. IndexWord - 1 /\ vecRest \in 0 .. Vector!size /\ vecSeen \in 0 .. MaxLen + 1
    BY <1>3, <1>4
  <2>2. vecReverse \in BOOLEAN /\ vecDone \in BOOLEAN
    BY <1>4
  <2> QED
    BY <1>2, <1>3, <1>4, <2>1, <2>2 DEF Vector!TypeOK
<1>6. FoldKeepsUp
  BY <1>4 DEF FoldKeepsUp
<1> QED
  BY <1>5, <1>6 DEF VectorInv

(* A fold over a vector hands the body each element once, with its index,  *)
(* whatever the body writes and although the index starts beyond the       *)
(* largest number.                                                         *)
THEOREM FoldsSeeEachElement == CSpec => VectorSeesElementsOnce
<1>1. CInit => VectorInv
  BY VectorBegins DEF CInit
<1>2. VectorInv /\ [CNext]_Everything
      => VectorInv' /\ [~ vecBits => Vector!HandsTheElement /\ (Vector!End => vecSeen = Vector!size)]_vecVars
  <2>1. [CNext]_Everything => [Vector!Next]_vecVars
    BY DEF CNext, Everything
  <2> QED
    BY <2>1, VectorSteps
<1> QED
  BY <1>1, <1>2, PTL DEF CSpec, Everything, VectorSeesElementsOnce, Vector!SeesElementsOnce, Vector!vars, vecVars

-----------------------------------------------------------------------------
(* Chunks                                                                  *)

(* The place of a key, and what chunks hold: both chunked bitmaps are a    *)
(* function from the numbers of their chunks to chunks.                    *)
ChunkOf(k) == k \div ChunkSize
PlaceIn(k) == k % ChunkSize
KeyAt(i, o) == i * ChunkSize + o

ChunkPlaces == 0 .. ChunkSize - 1

Chunks == [bits : SUBSET ChunkPlaces, vals : [ChunkPlaces -> Vals]]

FreshChunk == [bits |-> {}, vals |-> [o \in ChunkPlaces |-> Zero]]

(* The keys whose bit is set, the value of each, and the map it is.        *)
KeysIn(c) == {k \in Nat : ChunkOf(k) \in DOMAIN c /\ PlaceIn(k) \in c[ChunkOf(k)].bits}
ValueIn(c, k) == c[ChunkOf(k)].vals[PlaceIn(k)]
MapIn(c) == [k \in KeysIn(c) |-> ValueIn(c, k)]

(* The inductive invariant of the chunks.                                  *)
IsChunked(c) ==
  /\ c = [i \in DOMAIN c |-> c[i]]
  /\ IsFiniteSet(DOMAIN c) /\ DOMAIN c \subseteq Nat
  /\ \A i \in DOMAIN c : c[i] \in Chunks
  /\ KeysIn(c) \subseteq Keys

LEMMA Division ==
  ASSUME NEW i \in Nat, NEW n \in Nat \ {0}, NEW o \in 0 .. n - 1
  PROVE  (i * n + o) \div n = i /\ (i * n + o) % n = o /\ i * n + o \in Nat
OBVIOUS

LEMMA Multiples ==
  ASSUME NEW a \in Nat, NEW n \in Nat \ {0}, NEW b \in Nat, a < b
  PROVE  a * n + n <= b * n
OBVIOUS

(* A key has one chunk and one place there.                                *)
LEMMA KeyHasPlace ==
  ASSUME NEW k \in Nat
  PROVE  /\ ChunkOf(k) \in Nat /\ PlaceIn(k) \in ChunkPlaces
         /\ k = KeyAt(ChunkOf(k), PlaceIn(k))
<1>1. ASSUME NEW n \in Nat \ {0}
      PROVE  k \div n \in Nat /\ k % n \in 0 .. n - 1 /\ k = (k \div n) * n + (k % n)
  OBVIOUS
<1> QED
  BY <1>1, ChunksAssumption DEF ChunkOf, PlaceIn, ChunkPlaces, KeyAt

LEMMA PlaceHasKey ==
  ASSUME NEW i \in Nat, NEW o \in ChunkPlaces
  PROVE  KeyAt(i, o) \in Nat /\ ChunkOf(KeyAt(i, o)) = i /\ PlaceIn(KeyAt(i, o)) = o
BY Division, ChunksAssumption DEF ChunkOf, PlaceIn, ChunkPlaces, KeyAt

(* Places are in the order of their keys, also the one behind a chunk.     *)
LEMMA PlacesInOrder ==
  ASSUME NEW i \in Nat, NEW j \in 0 .. ChunkSize, NEW p \in Nat, NEW o \in ChunkPlaces
  PROVE  KeyAt(i, j) <= KeyAt(p, o) <=> i < p \/ (i = p /\ j <= o)
<1>1. ASSUME NEW a \in Nat, NEW b \in Nat, a < b
      PROVE  a * ChunkSize \in Nat /\ b * ChunkSize \in Nat /\ a * ChunkSize + ChunkSize <= b * ChunkSize
  BY <1>1, ChunksAssumption, Multiples
<1>2. ChunkSize \in Nat \ {0} /\ j \in Nat /\ o \in Nat /\ j <= ChunkSize /\ o < ChunkSize
  BY ChunksAssumption DEF ChunkPlaces
<1>3. CASE i < p
  <2>1. i * ChunkSize \in Nat /\ p * ChunkSize \in Nat /\ i * ChunkSize + ChunkSize <= p * ChunkSize
    BY <1>1, <1>2, <1>3
  <2>2. \A a, b, n \in Nat : a + n <= b => a + j <= b + o \/ ~ j <= n
    BY <1>2
  <2> QED
    BY <1>2, <1>3, <2>1, <2>2 DEF KeyAt
<1>4. CASE p < i
  <2>1. i * ChunkSize \in Nat /\ p * ChunkSize \in Nat /\ p * ChunkSize + ChunkSize <= i * ChunkSize
    BY <1>1, <1>2, <1>4
  <2>2. \A a, b, n \in Nat : b + n <= a /\ o < n => ~ a + j <= b + o
    BY <1>2
  <2> QED
    BY <1>2, <1>4, <2>1, <2>2 DEF KeyAt
<1>5. CASE i = p
  <2>1. i * ChunkSize \in Nat
    BY <1>2
  <2>2. \A a \in Nat : a + j <= a + o <=> j <= o
    BY <1>2
  <2> QED
    BY <1>5, <2>1, <2>2 DEF KeyAt
<1> QED
  BY <1>3, <1>4, <1>5

(* The members as the code finds them, from places to keys.                *)
KeysOfPlaces(c) ==
  {k \in {i * ChunkSize + o : i \in DOMAIN c, o \in ChunkPlaces} : PlaceIn(k) \in c[ChunkOf(k)].bits}

LEMMA MembersAreKeys ==
  ASSUME NEW c, IsChunked(c)
  PROVE  KeysOfPlaces(c) = KeysIn(c)
<1>1. ASSUME NEW k \in KeysOfPlaces(c) PROVE k \in KeysIn(c)
  <2>1. PICK i \in DOMAIN c, o \in ChunkPlaces : k = i * ChunkSize + o
    BY DEF KeysOfPlaces
  <2>2. i \in Nat
    BY DEF IsChunked
  <2>3. k \in Nat /\ ChunkOf(k) = i
    BY <2>1, <2>2, PlaceHasKey DEF KeyAt
  <2> QED
    BY <2>3 DEF KeysOfPlaces, KeysIn
<1>2. ASSUME NEW k \in KeysIn(c) PROVE k \in KeysOfPlaces(c)
  <2>1. k \in Nat /\ ChunkOf(k) \in DOMAIN c /\ PlaceIn(k) \in c[ChunkOf(k)].bits
    BY DEF KeysIn
  <2>2. k = ChunkOf(k) * ChunkSize + PlaceIn(k) /\ PlaceIn(k) \in ChunkPlaces
    BY <2>1, KeyHasPlace DEF KeyAt
  <2> QED
    BY <2>1, <2>2 DEF KeysOfPlaces
<1> QED
  BY <1>1, <1>2

(* Chunks that are added are fresh: they hold no key.                      *)
AddsChunks(c, d) ==
  /\ d = [i \in DOMAIN d |-> d[i]]
  /\ IsFiniteSet(DOMAIN d) /\ DOMAIN d \subseteq Nat /\ DOMAIN c \subseteq DOMAIN d
  /\ \A i \in DOMAIN d : d[i] = IF i \in DOMAIN c THEN c[i] ELSE FreshChunk

LEMMA AddedHoldNothing ==
  ASSUME NEW c, IsChunked(c), NEW d, AddsChunks(c, d)
  PROVE  IsChunked(d) /\ KeysIn(d) = KeysIn(c) /\ MapIn(d) = MapIn(c)
<1>1. FreshChunk \in Chunks /\ FreshChunk.bits = {}
  BY KeysAssumption DEF FreshChunk, Chunks
<1>2. KeysIn(d) = KeysIn(c)
  BY <1>1 DEF KeysIn, AddsChunks
<1>3. \A i \in DOMAIN d : d[i] \in Chunks
  BY <1>1 DEF AddsChunks, IsChunked
<1>4. IsChunked(d)
  BY <1>2, <1>3 DEF AddsChunks, IsChunked
<1>5. \A k \in KeysIn(c) : ValueIn(d, k) = ValueIn(c, k)
  BY DEF KeysIn, ValueIn, AddsChunks
<1> QED
  BY <1>2, <1>4, <1>5 DEF MapIn

(* A chunk changes at one place.                                           *)
ChangesPlace(d, e, k, ch) ==
  /\ k \in Keys /\ ChunkOf(k) \in DOMAIN d
  /\ ch \in Chunks /\ e = [d EXCEPT ![ChunkOf(k)] = ch]
  /\ \A o \in ChunkPlaces : o # PlaceIn(k) => /\ o \in ch.bits <=> o \in d[ChunkOf(k)].bits
                                              /\ ch.vals[o] = d[ChunkOf(k)].vals[o]

PlaceChanged(d, e, k, ch) ==
  /\ IsChunked(e) /\ DOMAIN e = DOMAIN d
  /\ KeysIn(e) = IF PlaceIn(k) \in ch.bits THEN KeysIn(d) \cup {k} ELSE KeysIn(d) \ {k}
  /\ \A x \in KeysIn(e) : ValueIn(e, x) = IF x = k THEN ch.vals[PlaceIn(k)] ELSE ValueIn(d, x)

LEMMA OnePlaceChanges ==
  ASSUME NEW d, IsChunked(d), NEW e, NEW k, NEW ch, ChangesPlace(d, e, k, ch)
  PROVE  PlaceChanged(d, e, k, ch)
<1>0. k \in Nat
  BY KeysAssumption DEF ChangesPlace
<1>1. /\ DOMAIN e = DOMAIN d /\ e = [i \in DOMAIN e |-> e[i]]
      /\ \A i \in DOMAIN e : e[i] = IF i = ChunkOf(k) THEN ch ELSE d[i]
  BY DEF ChangesPlace, IsChunked
<1>2. ASSUME NEW x \in Nat, ChunkOf(x) \in DOMAIN d, x # k
      PROVE  /\ x \in KeysIn(e) <=> x \in KeysIn(d)
             /\ ValueIn(e, x) = ValueIn(d, x)
  <2>1. CASE ChunkOf(x) = ChunkOf(k)
    <3>1. PlaceIn(x) # PlaceIn(k)
      BY <1>0, <1>2, <2>1, KeyHasPlace
    <3>2. PlaceIn(x) \in ChunkPlaces
      BY KeyHasPlace
    <3> QED
      BY <1>1, <1>2, <2>1, <3>1, <3>2 DEF ChangesPlace, KeysIn, ValueIn
  <2>2. CASE ChunkOf(x) # ChunkOf(k)
    BY <1>1, <1>2, <2>2 DEF KeysIn, ValueIn
  <2> QED
    BY <2>1, <2>2
<1>3. /\ k \in KeysIn(e) <=> PlaceIn(k) \in ch.bits
      /\ ValueIn(e, k) = ch.vals[PlaceIn(k)]
  BY <1>0, <1>1 DEF ChangesPlace, KeysIn, ValueIn
<1>4. \A x \in KeysIn(e) \cup KeysIn(d) : x \in Nat /\ ChunkOf(x) \in DOMAIN d
  BY <1>1 DEF KeysIn
<1>5. KeysIn(e) = IF PlaceIn(k) \in ch.bits THEN KeysIn(d) \cup {k} ELSE KeysIn(d) \ {k}
  BY <1>2, <1>3, <1>4
<1>6. \A x \in KeysIn(e) : ValueIn(e, x) = IF x = k THEN ch.vals[PlaceIn(k)] ELSE ValueIn(d, x)
  BY <1>2, <1>3, <1>4
<1>7. \A i \in DOMAIN e : e[i] \in Chunks
  BY <1>1 DEF IsChunked, ChangesPlace
<1>8. IsChunked(e)
  BY <1>1, <1>5, <1>7 DEF IsChunked, ChangesPlace
<1> QED
  BY <1>1, <1>5, <1>6, <1>8 DEF PlaceChanged

(* What each change of the chunks is to the map.                           *)
PutIn(m, k, v) == [x \in DOMAIN m \cup {k} |-> IF x = k THEN v ELSE m[x]]
WithoutKey(m, k) == [x \in DOMAIN m \ {k} |-> m[x]]

WithBit(c, k) == [c EXCEPT ![ChunkOf(k)].bits = @ \cup {PlaceIn(k)}]
WithoutBit(c, k) == [c EXCEPT ![ChunkOf(k)].bits = @ \ {PlaceIn(k)}]
WithValue(c, k, v) == [c EXCEPT ![ChunkOf(k)].vals[PlaceIn(k)] = v]
WithBoth(c, k, v) ==
  [c EXCEPT ![ChunkOf(k)].bits = @ \cup {PlaceIn(k)}, ![ChunkOf(k)].vals[PlaceIn(k)] = v]

LEMMA BitSets ==
  ASSUME NEW c, IsChunked(c), NEW d, AddsChunks(c, d), NEW k \in Keys, ChunkOf(k) \in DOMAIN d,
         NEW e, e = WithBit(d, k)
  PROVE  /\ IsChunked(e) /\ DOMAIN e = DOMAIN d
         /\ IF k \in KeysIn(c) THEN MapIn(e) = MapIn(c)
            ELSE \E v \in Vals : MapIn(e) = PutIn(MapIn(c), k, v)
<1> DEFINE b == ChunkOf(k)
           o == PlaceIn(k)
           ch == [d[b] EXCEPT !.bits = d[b].bits \cup {o}]
<1>0. k \in Nat /\ o \in ChunkPlaces
  BY KeysAssumption, KeyHasPlace
<1>1. IsChunked(d) /\ KeysIn(d) = KeysIn(c) /\ MapIn(d) = MapIn(c)
  BY AddedHoldNothing
<1>2. d[b] \in Chunks
  BY <1>1 DEF IsChunked
<1>3. ch \in Chunks /\ ch.bits = d[b].bits \cup {o} /\ ch.vals = d[b].vals
  BY <1>0, <1>2 DEF Chunks
<1>4. e = [d EXCEPT ![b] = ch]
  BY DEF WithBit
<1> HIDE DEF ch
<1>5. ChangesPlace(d, e, k, ch)
  BY <1>3, <1>4 DEF ChangesPlace
<1>6. /\ IsChunked(e) /\ DOMAIN e = DOMAIN d /\ KeysIn(e) = KeysIn(d) \cup {k}
      /\ \A x \in KeysIn(e) : ValueIn(e, x) = IF x = k THEN ch.vals[o] ELSE ValueIn(d, x)
  <2>1. PlaceChanged(d, e, k, ch)
    BY <1>1, <1>5, OnePlaceChanges
  <2> QED
    BY <1>0, <1>3, <2>1 DEF PlaceChanged
<1>7. ch.vals[o] = ValueIn(d, k) /\ ch.vals[o] \in Vals
  BY <1>0, <1>2, <1>3 DEF ValueIn, Chunks
<1>8. MapIn(d) = [x \in KeysIn(d) |-> ValueIn(d, x)] /\ MapIn(e) = [x \in KeysIn(e) |-> ValueIn(e, x)]
  BY DEF MapIn
<1>9. CASE k \in KeysIn(c)
  <2>1. MapIn(e) = MapIn(d)
    BY <1>1, <1>6, <1>7, <1>8, <1>9
  <2> QED
    BY <1>1, <1>6, <1>9, <2>1
<1>10. CASE k \notin KeysIn(c)
  <2>1. MapIn(e) = [x \in KeysIn(d) \cup {k} |-> IF x = k THEN ch.vals[o] ELSE MapIn(d)[x]]
    BY <1>6, <1>8
  <2>2. DOMAIN MapIn(d) = KeysIn(d)
    BY <1>8
  <2>3. MapIn(e) = PutIn(MapIn(d), k, ch.vals[o])
    BY <2>1, <2>2 DEF PutIn
  <2> QED
    BY <1>1, <1>6, <1>7, <1>10, <2>3
<1> QED
  BY <1>9, <1>10

LEMMA ValueInserted ==
  ASSUME NEW c, IsChunked(c), NEW d, AddsChunks(c, d), NEW k \in Keys, ChunkOf(k) \in DOMAIN d,
         NEW v \in Vals, NEW e, e = WithBoth(d, k, v)
  PROVE  IsChunked(e) /\ DOMAIN e = DOMAIN d /\ MapIn(e) = PutIn(MapIn(c), k, v)
<1> DEFINE b == ChunkOf(k)
           o == PlaceIn(k)
           ch == [bits |-> d[b].bits \cup {o}, vals |-> [d[b].vals EXCEPT ![o] = v]]
<1>0. k \in Nat /\ o \in ChunkPlaces
  BY KeysAssumption, KeyHasPlace
<1>1. IsChunked(d) /\ KeysIn(d) = KeysIn(c) /\ MapIn(d) = MapIn(c)
  BY AddedHoldNothing
<1>2. d[b] \in Chunks
  BY <1>1 DEF IsChunked
<1>3. /\ ch \in Chunks /\ ch.bits = d[b].bits \cup {o} /\ ch.vals[o] = v
      /\ \A p \in ChunkPlaces : p # o => ch.vals[p] = d[b].vals[p]
  BY <1>0, <1>2 DEF Chunks
<1>4. e = [d EXCEPT ![b] = ch]
  <2>1. d = [i \in DOMAIN d |-> d[i]] /\ b \in DOMAIN d
    BY <1>1 DEF IsChunked
  <2>2. d[b] = [bits |-> d[b].bits, vals |-> d[b].vals]
    BY <1>2 DEF Chunks
  <2>3. e[b] = ch
    BY <2>1, <2>2 DEF WithBoth
  <2>4. \A i \in DOMAIN d : i # b => e[i] = d[i]
    BY <2>1 DEF WithBoth
  <2>5. e = [i \in DOMAIN d |-> e[i]]
    BY <2>1 DEF WithBoth
  <2> HIDE DEF ch
  <2> QED
    BY <2>1, <2>3, <2>4, <2>5
<1> HIDE DEF ch
<1>5. ChangesPlace(d, e, k, ch)
  BY <1>3, <1>4 DEF ChangesPlace
<1>6. /\ IsChunked(e) /\ DOMAIN e = DOMAIN d /\ KeysIn(e) = KeysIn(d) \cup {k}
      /\ \A x \in KeysIn(e) : ValueIn(e, x) = IF x = k THEN v ELSE ValueIn(d, x)
  <2>1. PlaceChanged(d, e, k, ch)
    BY <1>1, <1>5, OnePlaceChanges
  <2> QED
    BY <1>0, <1>3, <2>1 DEF PlaceChanged
<1>7. MapIn(d) = [x \in KeysIn(d) |-> ValueIn(d, x)] /\ MapIn(e) = [x \in KeysIn(e) |-> ValueIn(e, x)]
  BY DEF MapIn
<1>8. MapIn(e) = [x \in KeysIn(d) \cup {k} |-> IF x = k THEN v ELSE MapIn(d)[x]]
  BY <1>6 DEF MapIn
<1>9. DOMAIN MapIn(d) = KeysIn(d)
  BY <1>7
<1>10. MapIn(e) = PutIn(MapIn(d), k, v)
  BY <1>8, <1>9 DEF PutIn
<1> QED
  BY <1>1, <1>6, <1>10

LEMMA BitCleared ==
  ASSUME NEW c, IsChunked(c), NEW d, AddsChunks(c, d), NEW k \in Keys, ChunkOf(k) \in DOMAIN d,
         NEW e, e = WithoutBit(d, k)
  PROVE  /\ IsChunked(e) /\ DOMAIN e = DOMAIN d
         /\ MapIn(e) = WithoutKey(MapIn(c), k)
<1> DEFINE b == ChunkOf(k)
           o == PlaceIn(k)
           ch == [d[b] EXCEPT !.bits = d[b].bits \ {o}]
<1>0. k \in Nat /\ o \in ChunkPlaces
  BY KeysAssumption, KeyHasPlace
<1>1. IsChunked(d) /\ KeysIn(d) = KeysIn(c) /\ MapIn(d) = MapIn(c)
  BY AddedHoldNothing
<1>2. d[b] \in Chunks
  BY <1>1 DEF IsChunked
<1>3. ch \in Chunks /\ ch.bits = d[b].bits \ {o} /\ ch.vals = d[b].vals
  BY <1>0, <1>2 DEF Chunks
<1>4. e = [d EXCEPT ![b] = ch]
  BY DEF WithoutBit
<1> HIDE DEF ch
<1>5. ChangesPlace(d, e, k, ch)
  BY <1>3, <1>4 DEF ChangesPlace
<1>6. /\ IsChunked(e) /\ DOMAIN e = DOMAIN d /\ KeysIn(e) = KeysIn(d) \ {k}
      /\ \A x \in KeysIn(e) : ValueIn(e, x) = IF x = k THEN ch.vals[o] ELSE ValueIn(d, x)
  <2>1. PlaceChanged(d, e, k, ch)
    BY <1>1, <1>5, OnePlaceChanges
  <2> QED
    BY <1>0, <1>3, <2>1 DEF PlaceChanged
<1>7. MapIn(e) = [x \in KeysIn(d) \ {k} |-> MapIn(d)[x]]
  BY <1>6 DEF MapIn
<1>8. MapIn(e) = WithoutKey(MapIn(c), k)
  <2>1. DOMAIN MapIn(d) = KeysIn(d)
    BY DEF MapIn
  <2> QED
    BY <1>1, <1>7, <2>1 DEF WithoutKey
<1> QED
  BY <1>1, <1>6, <1>8

LEMMA ValueWritten ==
  ASSUME NEW c, IsChunked(c), NEW k \in KeysIn(c), NEW v \in Vals,
         NEW e, e = WithValue(c, k, v)
  PROVE  /\ IsChunked(e) /\ DOMAIN e = DOMAIN c /\ KeysIn(e) = KeysIn(c)
         /\ MapIn(e) = [MapIn(c) EXCEPT ![k] = v]
         /\ \A i \in DOMAIN c : e[i].bits = c[i].bits
<1> DEFINE b == ChunkOf(k)
           o == PlaceIn(k)
           ch == [c[b] EXCEPT !.vals = [c[b].vals EXCEPT ![o] = v]]
<1>0. k \in Keys /\ k \in Nat /\ o \in ChunkPlaces /\ b \in DOMAIN c /\ o \in c[b].bits
  BY KeyHasPlace DEF KeysIn, IsChunked
<1>2. c[b] \in Chunks
  BY <1>0 DEF IsChunked
<1>3. /\ ch \in Chunks /\ ch.bits = c[b].bits /\ ch.vals[o] = v
      /\ \A p \in ChunkPlaces : p # o => ch.vals[p] = c[b].vals[p]
  BY <1>0, <1>2 DEF Chunks
<1>4. e = [c EXCEPT ![b] = ch]
  BY DEF WithValue
<1> HIDE DEF ch
<1>5. ChangesPlace(c, e, k, ch)
  BY <1>0, <1>3, <1>4 DEF ChangesPlace
<1>6. /\ IsChunked(e) /\ DOMAIN e = DOMAIN c /\ KeysIn(e) = KeysIn(c) \cup {k}
      /\ \A x \in KeysIn(e) : ValueIn(e, x) = IF x = k THEN v ELSE ValueIn(c, x)
  <2>1. PlaceChanged(c, e, k, ch)
    BY <1>5, OnePlaceChanges
  <2> QED
    BY <1>0, <1>3, <2>1 DEF PlaceChanged
<1>7. KeysIn(e) = KeysIn(c)
  BY <1>6
<1>8. MapIn(e) = [MapIn(c) EXCEPT ![k] = v]
  BY <1>6, <1>7 DEF MapIn
<1>9. \A i \in DOMAIN c : e[i].bits = c[i].bits
  <2>1. c = [i \in DOMAIN c |-> c[i]]
    BY DEF IsChunked
  <2> QED
    BY <1>0, <1>3, <1>4, <2>1
<1> QED
  BY <1>6, <1>7, <1>8, <1>9

(* A bitmap without chunks.                                                *)
LEMMA NoChunksNoKeys ==
  ASSUME NEW c, DOMAIN c = {}, c = [i \in {} |-> FreshChunk]
  PROVE  IsChunked(c) /\ KeysIn(c) = {} /\ MapIn(c) = [k \in {} |-> 0]
<1>1. KeysIn(c) = {}
  BY DEF KeysIn
<1>2. MapIn(c) = [k \in {} |-> 0]
  BY <1>1 DEF MapIn
<1>3. c = [i \in DOMAIN c |-> c[i]]
  OBVIOUS
<1>4. IsFiniteSet(DOMAIN c)
  BY FS_EmptySet
<1> QED
  BY <1>1, <1>2, <1>3, <1>4 DEF IsChunked

(* size: the sum over the chunks, in the order a CHOOSE takes them.        *)
CountStep(c, s, g) ==
  IF s = {} THEN 0
  ELSE Cardinality(c[CHOOSE x \in s : TRUE].bits) + g[s \ {CHOOSE x \in s : TRUE}]

ChunkCount(c) == CHOOSE g : g = [s \in SUBSET DOMAIN c |-> CountStep(c, s, g)]

(* The sets of at most n chunks, and the keys of a set of chunks.          *)
FewChunks(c, n) == {s \in SUBSET DOMAIN c : Cardinality(s) <= n}
KeysOf(c, s) == {k \in KeysIn(c) : ChunkOf(k) \in s}

Counts(c, n, g) == \A s \in FewChunks(c, n) : g[s] = CountStep(c, s, g)

LEMMA FewWithoutOne ==
  ASSUME NEW c, IsChunked(c), NEW n \in Nat, NEW s \in FewChunks(c, n + 1), s # {},
         NEW x, x = CHOOSE y \in s : TRUE
  PROVE  /\ x \in s /\ x \in DOMAIN c
         /\ s \ {x} \in FewChunks(c, n) /\ Cardinality(s) = Cardinality(s \ {x}) + 1
<1>1. IsFiniteSet(s) /\ s \in SUBSET DOMAIN c
  BY FS_Subset DEF IsChunked, FewChunks
<1>2. x \in s
  OBVIOUS
<1>3. Cardinality(s) \in Nat /\ Cardinality(s \ {x}) = Cardinality(s) - 1 /\ Cardinality(s) <= n + 1
  BY <1>1, <1>2, FS_RemoveElement, FS_CardinalityType DEF FewChunks
<1> QED
  BY <1>1, <1>2, <1>3 DEF FewChunks

LEMMA BitsAreFew ==
  ASSUME NEW c, IsChunked(c), NEW i \in DOMAIN c
  PROVE  /\ c[i].bits \subseteq ChunkPlaces
         /\ IsFiniteSet(c[i].bits) /\ Cardinality(c[i].bits) \in Nat
<1>1. c[i].bits \subseteq ChunkPlaces
  BY DEF IsChunked, Chunks
<1>2. IsFiniteSet(ChunkPlaces)
  BY ChunksAssumption, FS_Interval DEF ChunkPlaces
<1> QED
  BY <1>1, <1>2, FS_Subset, FS_CardinalityType

(* The recursion over sets of chunks has a solution.                       *)
LEMMA CountUpTo ==
  ASSUME NEW c, IsChunked(c), NEW n \in Nat
  PROVE  \E g \in [FewChunks(c, n) -> Nat] : Counts(c, n, g)
<1> DEFINE S == {m \in Nat : \E g \in [FewChunks(c, m) -> Nat] : Counts(c, m, g)}
<1>1. 0 \in S
  <2>1. \A s \in FewChunks(c, 0) : s = {}
    <3> SUFFICES ASSUME NEW s \in FewChunks(c, 0) PROVE s = {}
      OBVIOUS
    <3>1. IsFiniteSet(s) /\ Cardinality(s) <= 0
      BY FS_Subset DEF IsChunked, FewChunks
    <3>2. Cardinality(s) \in Nat
      BY <3>1, FS_CardinalityType
    <3> QED
      BY <3>1, <3>2, FS_EmptySet
  <2> DEFINE g == [s \in FewChunks(c, 0) |-> 0]
  <2>2. g \in [FewChunks(c, 0) -> Nat] /\ Counts(c, 0, g)
    BY <2>1 DEF Counts, CountStep
  <2> QED
    BY <2>2
<1>2. ASSUME NEW m \in Nat, m \in S PROVE m + 1 \in S
  <2>1. PICK g \in [FewChunks(c, m) -> Nat] : Counts(c, m, g)
    BY <1>2
  <2> DEFINE first(s) == CHOOSE x \in s : TRUE
             h == [s \in FewChunks(c, m + 1) |->
                     IF s = {} THEN 0 ELSE Cardinality(c[first(s)].bits) + g[s \ {first(s)}]]
  <2>2. FewChunks(c, m) \subseteq FewChunks(c, m + 1)
    <3> SUFFICES ASSUME NEW s \in FewChunks(c, m) PROVE s \in FewChunks(c, m + 1)
      OBVIOUS
    <3>1. IsFiniteSet(s)
      BY FS_Subset DEF IsChunked, FewChunks
    <3>2. Cardinality(s) \in Nat
      BY <3>1, FS_CardinalityType
    <3> QED
      BY <3>2 DEF FewChunks
  <2>3. ASSUME NEW s \in FewChunks(c, m + 1), s # {}
        PROVE  /\ first(s) \in DOMAIN c /\ s \ {first(s)} \in FewChunks(c, m)
               /\ Cardinality(c[first(s)].bits) \in Nat
    <3>1. PICK x : x = first(s)
      OBVIOUS
    <3>2. x \in DOMAIN c /\ s \ {x} \in FewChunks(c, m)
      BY <2>3, <3>1, FewWithoutOne
    <3> QED
      BY <3>1, <3>2, BitsAreFew
  <2>4. h \in [FewChunks(c, m + 1) -> Nat]
    <3>1. ASSUME NEW s \in FewChunks(c, m + 1) PROVE h[s] \in Nat
      <4>1. s # {} => g[s \ {first(s)}] \in Nat
        BY <2>3
      <4> QED
        BY <2>3, <4>1
    <3> QED
      BY <3>1
  <2>5. ASSUME NEW s \in FewChunks(c, m) PROVE h[s] = g[s]
    <3>1. s \in FewChunks(c, m + 1)
      BY <2>2
    <3>2. g[s] = IF s = {} THEN 0 ELSE Cardinality(c[first(s)].bits) + g[s \ {first(s)}]
      BY <2>1 DEF Counts, CountStep
    <3> QED
      BY <3>1, <3>2
  <2>6. Counts(c, m + 1, h)
    <3> SUFFICES ASSUME NEW s \in FewChunks(c, m + 1) PROVE h[s] = CountStep(c, s, h)
      BY DEF Counts
    <3>1. CASE s = {}
      BY <3>1 DEF CountStep
    <3>2. CASE s # {}
      <4>1. h[s] = Cardinality(c[first(s)].bits) + g[s \ {first(s)}]
        BY <3>2
      <4>2. h[s \ {first(s)}] = g[s \ {first(s)}]
        BY <2>3, <2>5, <3>2
      <4> HIDE DEF h
      <4> QED
        BY <3>2, <4>1, <4>2 DEF CountStep
    <3> QED
      BY <3>1, <3>2
  <2> HIDE DEF h
  <2> QED
    BY <2>4, <2>6
<1> HIDE DEF S
<1>3. n \in S
  BY <1>1, <1>2, SetInduction
<1> QED
  BY <1>3 DEF S

LEMMA ChunkCountCounts ==
  ASSUME NEW c, IsChunked(c)
  PROVE  \A s \in SUBSET DOMAIN c : ChunkCount(c)[s] = CountStep(c, s, ChunkCount(c))
<1> DEFINE n == Cardinality(DOMAIN c)
<1>1. n \in Nat /\ IsFiniteSet(DOMAIN c)
  BY FS_CardinalityType DEF IsChunked
<1>2. FewChunks(c, n) = SUBSET DOMAIN c
  BY <1>1, FS_Subset DEF FewChunks
<1>3. PICK g \in [SUBSET DOMAIN c -> Nat] : Counts(c, n, g)
  BY <1>1, <1>2, CountUpTo
<1>4. g = [s \in SUBSET DOMAIN c |-> CountStep(c, s, g)]
  BY <1>2, <1>3 DEF Counts
<1>5. ChunkCount(c) = [s \in SUBSET DOMAIN c |-> CountStep(c, s, ChunkCount(c))]
  BY <1>4 DEF ChunkCount
<1> QED
  BY <1>5

(* A chunk has as many keys as its bits are set.                           *)
LEMMA KeysOfOne ==
  ASSUME NEW c, IsChunked(c), NEW x \in DOMAIN c
  PROVE  /\ IsFiniteSet(KeysOf(c, {x}))
         /\ Cardinality(KeysOf(c, {x})) = Cardinality(c[x].bits)
<1> DEFINE B == c[x].bits
           f == [o \in B |-> KeyAt(x, o)]
<1>1. x \in Nat /\ B \subseteq ChunkPlaces /\ IsFiniteSet(B)
  BY BitsAreFew DEF IsChunked
<1>2. \A o \in B : /\ KeyAt(x, o) \in Nat /\ ChunkOf(KeyAt(x, o)) = x /\ PlaceIn(KeyAt(x, o)) = o
  BY <1>1, PlaceHasKey
<1>3. f \in [B -> KeysOf(c, {x})]
  <2>1. ASSUME NEW o \in B PROVE KeyAt(x, o) \in KeysOf(c, {x})
    BY <1>2 DEF KeysOf, KeysIn
  <2> QED
    BY <2>1
<1>4. \A o, p \in B : f[o] = f[p] => o = p
  BY <1>2
<1>5. ASSUME NEW k \in KeysOf(c, {x}) PROVE \E o \in B : f[o] = k
  <2>1. k \in Nat /\ ChunkOf(k) = x /\ PlaceIn(k) \in B
    BY DEF KeysOf, KeysIn
  <2>2. k = KeyAt(x, PlaceIn(k))
    BY <2>1, KeyHasPlace
  <2> QED
    BY <2>1, <2>2
<1> HIDE DEF f
<1>6. f \in Bijection(B, KeysOf(c, {x}))
  BY <1>3, <1>4, <1>5 DEF Bijection, Injection, IsInjective, Surjection
<1> QED
  BY <1>1, <1>6, FS_Bijection DEF ExistsBijection

(* The sum over a set of chunks is the number of their keys.               *)
LEMMA SumIsNumber ==
  ASSUME NEW c, IsChunked(c)
  PROVE  ChunkCount(c)[DOMAIN c] = Cardinality(KeysIn(c))
<1> DEFINE Right(s) == /\ IsFiniteSet(KeysOf(c, s))
                       /\ ChunkCount(c)[s] = Cardinality(KeysOf(c, s))
           S == {n \in Nat : \A s \in FewChunks(c, n) : Right(s)}
<1>1. 0 \in S
  <2> SUFFICES ASSUME NEW s \in FewChunks(c, 0) PROVE Right(s)
    OBVIOUS
  <2>1. s \in SUBSET DOMAIN c /\ IsFiniteSet(s) /\ Cardinality(s) <= 0
    BY FS_Subset DEF IsChunked, FewChunks
  <2>2. s = {}
    BY <2>1, FS_CardinalityType, FS_EmptySet
  <2>3. KeysOf(c, s) = {}
    BY <2>2 DEF KeysOf
  <2>4. ChunkCount(c)[s] = 0
    BY <2>1, <2>2, ChunkCountCounts DEF CountStep
  <2> QED
    BY <2>3, <2>4, FS_EmptySet
<1>2. ASSUME NEW n \in Nat, n \in S PROVE n + 1 \in S
  <2> SUFFICES ASSUME NEW s \in FewChunks(c, n + 1) PROVE Right(s)
    BY <1>2
  <2>1. s \in SUBSET DOMAIN c
    BY DEF FewChunks
  <2>2. CASE s = {}
    <3>1. KeysOf(c, s) = {}
      BY <2>2 DEF KeysOf
    <3>2. ChunkCount(c)[s] = 0
      BY <2>1, <2>2, ChunkCountCounts DEF CountStep
    <3> QED
      BY <3>1, <3>2, FS_EmptySet
  <2>3. CASE s # {}
    <3>1. PICK x : x = CHOOSE y \in s : TRUE
      OBVIOUS
    <3>2. x \in s /\ x \in DOMAIN c /\ s \ {x} \in FewChunks(c, n)
      BY <2>3, <3>1, FewWithoutOne
    <3>3. Right(s \ {x})
      BY <1>2, <3>2
    <3>4. ChunkCount(c)[s] = Cardinality(c[x].bits) + ChunkCount(c)[s \ {x}]
      BY <2>1, <2>3, <3>1, ChunkCountCounts DEF CountStep
    <3>5. KeysOf(c, s) = KeysOf(c, s \ {x}) \cup KeysOf(c, {x})
      BY <3>2 DEF KeysOf
    <3>6. KeysOf(c, s \ {x}) \cap KeysOf(c, {x}) = {}
      BY DEF KeysOf
    <3>7. /\ IsFiniteSet(KeysOf(c, {x})) /\ Cardinality(KeysOf(c, {x})) = Cardinality(c[x].bits)
          /\ Cardinality(c[x].bits) \in Nat
      BY <3>2, KeysOfOne, BitsAreFew
    <3>8. /\ IsFiniteSet(KeysOf(c, s))
          /\ Cardinality(KeysOf(c, s))
             = Cardinality(KeysOf(c, s \ {x})) + Cardinality(KeysOf(c, {x})) - Cardinality({})
      <4> DEFINE A == KeysOf(c, s \ {x})
                 B == KeysOf(c, {x})
      <4>1. IsFiniteSet(A) /\ IsFiniteSet(B)
        BY <3>3, <3>7
      <4> HIDE DEF A, B
      <4>2. /\ IsFiniteSet(A \cup B)
            /\ Cardinality(A \cup B) = Cardinality(A) + Cardinality(B) - Cardinality(A \cap B)
        BY <4>1, FS_Union
      <4> QED
        BY <3>5, <3>6, <4>2 DEF A, B
    <3>9. Cardinality({}) = 0 /\ Cardinality(KeysOf(c, s \ {x})) \in Nat
      BY <3>3, FS_EmptySet, FS_CardinalityType
    <3> QED
      BY <3>3, <3>4, <3>7, <3>8, <3>9
  <2> QED
    BY <2>2, <2>3
<1> DEFINE N == Cardinality(DOMAIN c)
<1>3. N \in Nat
  BY FS_CardinalityType DEF IsChunked
<1> HIDE DEF S
<1>4. N \in S
  BY <1>1, <1>2, <1>3, SetInduction
<1>5. DOMAIN c \in FewChunks(c, N)
  BY <1>3 DEF FewChunks
<1>6. KeysOf(c, DOMAIN c) = KeysIn(c)
  BY DEF KeysOf, KeysIn
<1> QED
  BY <1>4, <1>5, <1>6 DEF S

(* The walk of an iterator: the places whose bit is set.                   *)
SetPlaces(c) == {p \in (DOMAIN c) \X ChunkPlaces : p[2] \in c[p[1]].bits}

Before(p, q) == p[1] < q[1] \/ (p[1] = q[1] /\ p[2] <= q[2])

KeyOfPlace(p) == KeyAt(p[1], p[2])

LEMMA SetPlaceFacts ==
  ASSUME NEW c, IsChunked(c), NEW p \in SetPlaces(c)
  PROVE  /\ p = <<p[1], p[2]>> /\ p[1] \in DOMAIN c /\ p[1] \in Nat
         /\ p[2] \in ChunkPlaces /\ p[2] \in c[p[1]].bits
         /\ KeyOfPlace(p) \in KeysIn(c) /\ KeyOfPlace(p) \in Nat
         /\ ChunkOf(KeyOfPlace(p)) = p[1] /\ PlaceIn(KeyOfPlace(p)) = p[2]
<1>1. p = <<p[1], p[2]>> /\ p[1] \in DOMAIN c /\ p[2] \in ChunkPlaces /\ p[2] \in c[p[1]].bits
  BY DEF SetPlaces
<1>2. p[1] \in Nat
  BY <1>1 DEF IsChunked
<1>3. /\ KeyOfPlace(p) \in Nat
      /\ ChunkOf(KeyOfPlace(p)) = p[1] /\ PlaceIn(KeyOfPlace(p)) = p[2]
  BY <1>1, <1>2, PlaceHasKey DEF KeyOfPlace
<1>4. KeyOfPlace(p) \in KeysIn(c)
  BY <1>1, <1>3 DEF KeysIn
<1> QED
  BY <1>1, <1>2, <1>3, <1>4

LEMMA KeysHavePlaces ==
  ASSUME NEW c, IsChunked(c), NEW k \in KeysIn(c)
  PROVE  /\ <<ChunkOf(k), PlaceIn(k)>> \in SetPlaces(c)
         /\ KeyOfPlace(<<ChunkOf(k), PlaceIn(k)>>) = k
<1>1. k \in Nat /\ ChunkOf(k) \in DOMAIN c /\ PlaceIn(k) \in c[ChunkOf(k)].bits
  BY DEF KeysIn
<1>2. PlaceIn(k) \in ChunkPlaces /\ k = KeyAt(ChunkOf(k), PlaceIn(k))
  BY <1>1, KeyHasPlace
<1> QED
  BY <1>1, <1>2 DEF SetPlaces, KeyOfPlace

(* The first set place from offset j of chunk i on is that of the least    *)
(* key from there on.                                                      *)
FirstFrom(c, i, j, q) ==
  /\ q \in SetPlaces(c) /\ Before(<<i, j>>, q)
  /\ \A r \in SetPlaces(c) : Before(<<i, j>>, r) => Before(q, r)

NoneFrom(c, i, j) == \A r \in SetPlaces(c) : ~ Before(<<i, j>>, r)

LEMMA PlacesAreBefore ==
  ASSUME NEW c, IsChunked(c), NEW i \in Nat, NEW j \in 0 .. ChunkSize, NEW q \in SetPlaces(c)
  PROVE  Before(<<i, j>>, q) <=> KeyAt(i, j) <= KeyOfPlace(q)
BY SetPlaceFacts, PlacesInOrder DEF Before, KeyOfPlace

LEMMA FirstIsLeast ==
  ASSUME NEW c, IsChunked(c), NEW i \in Nat, NEW j \in 0 .. ChunkSize, NEW q,
         FirstFrom(c, i, j, q)
  PROVE  /\ KeyOfPlace(q) \in KeysIn(c) /\ KeyAt(i, j) <= KeyOfPlace(q)
         /\ \A k \in KeysIn(c) : KeyAt(i, j) <= k => KeyOfPlace(q) <= k
<1>1. q \in SetPlaces(c) /\ Before(<<i, j>>, q)
  BY DEF FirstFrom
<1>2. KeyOfPlace(q) \in KeysIn(c) /\ KeyAt(i, j) <= KeyOfPlace(q)
  BY <1>1, PlacesAreBefore, SetPlaceFacts
<1>3. ASSUME NEW k \in KeysIn(c), KeyAt(i, j) <= k
      PROVE  KeyOfPlace(q) <= k
  <2>1. PICK r : r = <<ChunkOf(k), PlaceIn(k)>>
    OBVIOUS
  <2>2. r \in SetPlaces(c) /\ KeyOfPlace(r) = k
    BY <2>1, KeysHavePlaces
  <2>3. Before(<<i, j>>, r)
    BY <1>3, <2>2, PlacesAreBefore
  <2>4. Before(q, r)
    BY <2>2, <2>3 DEF FirstFrom
  <2>5. q = <<q[1], q[2]>> /\ q[1] \in Nat /\ q[2] \in 0 .. ChunkSize
    BY <1>1, SetPlaceFacts, ChunksAssumption DEF ChunkPlaces
  <2>6. KeyAt(q[1], q[2]) <= KeyOfPlace(r)
    BY <2>2, <2>4, <2>5, PlacesAreBefore
  <2> QED
    BY <2>2, <2>6 DEF KeyOfPlace
<1> QED
  BY <1>2, <1>3

LEMMA NoneIsBeyond ==
  ASSUME NEW c, IsChunked(c), NEW i \in Nat, NEW j \in 0 .. ChunkSize, NoneFrom(c, i, j)
  PROVE  \A k \in KeysIn(c) : ~ KeyAt(i, j) <= k
<1> SUFFICES ASSUME NEW k \in KeysIn(c), KeyAt(i, j) <= k PROVE FALSE
  OBVIOUS
<1>1. PICK r : r = <<ChunkOf(k), PlaceIn(k)>>
  OBVIOUS
<1>2. r \in SetPlaces(c) /\ KeyOfPlace(r) = k
  BY <1>1, KeysHavePlaces
<1>3. Before(<<i, j>>, r)
  BY <1>2, PlacesAreBefore
<1> QED
  BY <1>2, <1>3 DEF NoneFrom

(* The keys from a place on, and those that are left when the walk went on *)
(* to the first place behind it, or to the end.                            *)
KeysFrom(c, n) == {k \in KeysIn(c) : k >= n}

LEMMA WalkGoesOn ==
  ASSUME NEW c, IsChunked(c), NEW i \in Nat, NEW o \in ChunkPlaces, NEW q
  PROVE  /\ FirstFrom(c, i, o + 1, q) => KeysFrom(c, KeyOfPlace(q)) = KeysFrom(c, KeyAt(i, o)) \ {KeyAt(i, o)}
         /\ NoneFrom(c, i, o + 1) => KeysFrom(c, KeyAt(i, o)) \ {KeyAt(i, o)} = {}
<1>1. ChunkSize \in Nat /\ o \in Nat /\ o < ChunkSize
  BY ChunksAssumption DEF ChunkPlaces
<1>2. o + 1 \in 0 .. ChunkSize
  BY <1>1
<1>3. KeyAt(i, o + 1) = KeyAt(i, o) + 1 /\ KeyAt(i, o) \in Nat
  <2>1. i * ChunkSize \in Nat
    BY <1>1
  <2> QED
    BY <1>1, <2>1 DEF KeyAt
<1>4. KeysIn(c) \subseteq Nat
  BY DEF KeysIn
<1>5. \A k \in KeysIn(c) : KeyAt(i, o + 1) <= k <=> k >= KeyAt(i, o) /\ k # KeyAt(i, o)
  BY <1>3, <1>4
<1>6. ASSUME FirstFrom(c, i, o + 1, q)
      PROVE  KeysFrom(c, KeyOfPlace(q)) = KeysFrom(c, KeyAt(i, o)) \ {KeyAt(i, o)}
  <2>1. PICK n : n = KeyOfPlace(q)
    OBVIOUS
  <2>2. /\ n \in KeysIn(c) /\ KeyAt(i, o + 1) <= n
        /\ \A k \in KeysIn(c) : KeyAt(i, o + 1) <= k => n <= k
    BY <1>2, <1>6, <2>1, FirstIsLeast
  <2>3. \A k \in KeysIn(c) : k >= n <=> KeyAt(i, o + 1) <= k
    BY <1>3, <1>4, <2>2
  <2> QED
    BY <1>5, <2>1, <2>3 DEF KeysFrom
<1>7. ASSUME NoneFrom(c, i, o + 1)
      PROVE  KeysFrom(c, KeyAt(i, o)) \ {KeyAt(i, o)} = {}
  BY <1>2, <1>5, <1>7, NoneIsBeyond DEF KeysFrom
<1> QED
  BY <1>6, <1>7

(* From the first place on there are all keys.                             *)
LEMMA WalkBegins ==
  ASSUME NEW c, IsChunked(c), NEW q
  PROVE  /\ FirstFrom(c, 0, 0, q) => KeysFrom(c, KeyOfPlace(q)) = KeysIn(c)
         /\ NoneFrom(c, 0, 0) => KeysIn(c) = {}
<1>1. 0 \in Nat /\ 0 \in 0 .. ChunkSize /\ KeyAt(0, 0) = 0
  BY ChunksAssumption DEF KeyAt
<1>2. \A k \in KeysIn(c) : k \in Nat /\ KeyAt(0, 0) <= k
  BY <1>1 DEF KeysIn
<1>3. ASSUME FirstFrom(c, 0, 0, q) PROVE KeysFrom(c, KeyOfPlace(q)) = KeysIn(c)
  <2>1. \A k \in KeysIn(c) : KeyOfPlace(q) <= k
    BY <1>1, <1>2, <1>3, FirstIsLeast
  <2>2. KeyOfPlace(q) \in Nat
    BY <1>1, <1>2, <1>3, FirstIsLeast
  <2> QED
    BY <1>2, <2>1, <2>2 DEF KeysFrom
<1>4. ASSUME NoneFrom(c, 0, 0) PROVE KeysIn(c) = {}
  BY <1>1, <1>2, <1>4, NoneIsBeyond
<1> QED
  BY <1>3, <1>4

-----------------------------------------------------------------------------
(* The twined bitmap                                                       *)

(* The inductive invariant: the chunks have the numbers from 0 on, and the *)
(* iterator is at a set place or behind the last chunk.                    *)
TwinedInv ==
  /\ IsChunked(twinedChunks)
  /\ \E n \in Nat : DOMAIN twinedChunks = 0 .. n - 1
  /\ Twined!AtEnd \/ twinedIt \in SetPlaces(twinedChunks)

(* What it stands for.                                                     *)
TwinedMap == [k \in Twined!Members |-> Twined!Val(k)]

TwinedLeft ==
  {k \in Twined!Members : ~Twined!AtEnd /\ k >= twinedIt[1] * ChunkSize + twinedIt[2]}

LEMMA TwinedNames ==
  /\ \A k : Twined!base(k) = ChunkOf(k) /\ Twined!offset(k) = PlaceIn(k)
  /\ Twined!Offsets = ChunkPlaces /\ Twined!NewChunk = FreshChunk
  /\ Twined!Members = KeysOfPlaces(twinedChunks)
  /\ Twined!Members' = KeysOfPlaces(twinedChunks')
  /\ \A k : Twined!Val(k) = ValueIn(twinedChunks, k)
  /\ TwinedMap' = [k \in Twined!Members' |-> ValueIn(twinedChunks', k)]
  /\ Twined!Places = SetPlaces(twinedChunks)
  /\ \A p, q : Twined!UpTo(p, q) <=> Before(p, q)
  /\ Twined!Cardinality(DOMAIN twinedChunks) = Cardinality(DOMAIN twinedChunks)
  /\ Twined!Cardinality(DOMAIN twinedChunks') = Cardinality(DOMAIN twinedChunks')
<1>1. \A k : Twined!base(k) = ChunkOf(k) /\ Twined!offset(k) = PlaceIn(k)
  BY DEF Twined!base, Twined!offset, ChunkOf, PlaceIn
<1>2. Twined!Offsets = ChunkPlaces /\ Twined!NewChunk = FreshChunk
  BY DEF Twined!Offsets, ChunkPlaces, Twined!NewChunk, FreshChunk
<1>3. Twined!Members = KeysOfPlaces(twinedChunks) /\ Twined!Members' = KeysOfPlaces(twinedChunks')
  BY <1>1, <1>2 DEF Twined!Members, KeysOfPlaces
<1>4. \A k : Twined!Val(k) = ValueIn(twinedChunks, k)
  BY <1>1 DEF Twined!Val, ValueIn
<1>5. TwinedMap' = [k \in Twined!Members' |-> ValueIn(twinedChunks', k)]
  BY <1>1 DEF TwinedMap, Twined!Val, ValueIn
<1>6. Twined!Places = SetPlaces(twinedChunks)
  BY <1>2 DEF Twined!Places, SetPlaces
<1>7. \A p, q : Twined!UpTo(p, q) <=> Before(p, q)
  BY DEF Twined!UpTo, Before
<1>8. /\ Twined!Cardinality(DOMAIN twinedChunks) = Cardinality(DOMAIN twinedChunks)
      /\ Twined!Cardinality(DOMAIN twinedChunks') = Cardinality(DOMAIN twinedChunks')
  BY DEF Twined!Cardinality, Cardinality
<1> QED
  BY <1>1, <1>2, <1>3, <1>4, <1>5, <1>6, <1>7, <1>8

LEMMA TwinedStandsFor ==
  /\ IsChunked(twinedChunks) => TwinedMap = MapIn(twinedChunks) /\ Twined!Members = KeysIn(twinedChunks)
  /\ IsChunked(twinedChunks') => TwinedMap' = MapIn(twinedChunks') /\ Twined!Members' = KeysIn(twinedChunks')
<1>1. ASSUME IsChunked(twinedChunks)
      PROVE  TwinedMap = MapIn(twinedChunks) /\ Twined!Members = KeysIn(twinedChunks)
  BY <1>1, TwinedNames, MembersAreKeys DEF TwinedMap, MapIn
<1>2. ASSUME IsChunked(twinedChunks')
      PROVE  TwinedMap' = MapIn(twinedChunks') /\ Twined!Members' = KeysIn(twinedChunks')
  <2>1. PICK c : c = twinedChunks'
    OBVIOUS
  <2>2. KeysOfPlaces(c) = KeysIn(c)
    BY <1>2, <2>1, MembersAreKeys
  <2> QED
    BY <2>1, <2>2, TwinedNames DEF MapIn
<1> QED
  BY <1>1, <1>2

(* Keys are left from the iterator's place on, or none at the end.         *)
LEMMA TwinedLeftIs ==
  /\ Twined!AtEnd => TwinedLeft = {}
  /\ Twined!AtEnd' => TwinedLeft' = {}
  /\ IsChunked(twinedChunks) /\ twinedIt \in SetPlaces(twinedChunks)
     => ~ Twined!AtEnd /\ TwinedLeft = KeysFrom(twinedChunks, KeyOfPlace(twinedIt))
  /\ IsChunked(twinedChunks') /\ twinedIt' \in SetPlaces(twinedChunks')
     => ~ Twined!AtEnd' /\ TwinedLeft' = KeysFrom(twinedChunks', KeyOfPlace(twinedIt'))
<1>1. (Twined!AtEnd => TwinedLeft = {}) /\ (Twined!AtEnd' => TwinedLeft' = {})
  BY DEF TwinedLeft
<1>2. ASSUME IsChunked(twinedChunks), twinedIt \in SetPlaces(twinedChunks)
      PROVE  ~ Twined!AtEnd /\ TwinedLeft = KeysFrom(twinedChunks, KeyOfPlace(twinedIt))
  <2>1. ~ Twined!AtEnd
    BY <1>2, SetPlaceFacts DEF Twined!AtEnd
  <2> QED
    BY <1>2, <2>1, TwinedStandsFor DEF TwinedLeft, KeysFrom, KeyOfPlace, KeyAt
<1>3. ASSUME IsChunked(twinedChunks'), twinedIt' \in SetPlaces(twinedChunks')
      PROVE  ~ Twined!AtEnd' /\ TwinedLeft' = KeysFrom(twinedChunks', KeyOfPlace(twinedIt'))
  <2>1. PICK c, p : c = twinedChunks' /\ p = twinedIt'
    OBVIOUS
  <2>2. p[1] \in DOMAIN c
    BY <1>3, <2>1, SetPlaceFacts
  <2>3. ~ Twined!AtEnd'
    BY <2>1, <2>2 DEF Twined!AtEnd
  <2> QED
    BY <1>3, <2>3, TwinedStandsFor DEF TwinedLeft, KeysFrom, KeyOfPlace, KeyAt
<1> QED
  BY <1>1, <1>2, <1>3

(* find_next finds the first set place, or the end.                        *)
LEMMA TwinedFinds ==
  ASSUME NEW i, NEW j, NEW q \in Twined!FindFrom(i, j)
  PROVE  \/ FirstFrom(twinedChunks, i, j, q)
         \/ NoneFrom(twinedChunks, i, j) /\ q = <<Cardinality(DOMAIN twinedChunks), 0>>
<1> DEFINE P == {p \in Twined!Places : Twined!UpTo(<<i, j>>, p)}
<1>1. q \in Twined!FirstOf(P)
  BY DEF Twined!FindFrom
<1>2. P = {p \in SetPlaces(twinedChunks) : Before(<<i, j>>, p)}
  BY TwinedNames
<1> HIDE DEF P
<1>3. CASE P = {}
  BY <1>1, <1>2, <1>3, TwinedNames DEF Twined!FirstOf, NoneFrom
<1>4. CASE P # {}
  <2>1. q \in P /\ \A r \in P : Before(q, r)
    BY <1>1, <1>4, TwinedNames DEF Twined!FirstOf
  <2> QED
    BY <1>2, <2>1 DEF FirstFrom
<1> QED
  BY <1>3, <1>4

(* A place behind the last chunk is at the end.                            *)
LEMMA BehindLastChunk ==
  ASSUME NEW c, NEW n \in Nat, DOMAIN c = 0 .. n - 1
  PROVE  Cardinality(DOMAIN c) = n /\ Cardinality(DOMAIN c) \notin DOMAIN c
<1>1. Cardinality(0 .. n - 1) = IF 0 > n - 1 THEN 0 ELSE (n - 1) - 0 + 1
  BY FS_Interval
<1>2. Cardinality(DOMAIN c) = n
  BY <1>1
<1> QED
  BY <1>2

(* resized makes the chunk of a key and adds nothing else.                 *)
LEMMA ResizedAddsChunks ==
  ASSUME TwinedInv, NEW k \in Keys
  PROVE  /\ AddsChunks(twinedChunks, Twined!resized(k)) /\ ChunkOf(k) \in DOMAIN Twined!resized(k)
         /\ \E n \in Nat : DOMAIN Twined!resized(k) = 0 .. n - 1
<1> DEFINE b == ChunkOf(k)
<1>1. b \in Nat
  BY KeysAssumption, KeyHasPlace
<1>2. PICK n \in Nat : DOMAIN twinedChunks = 0 .. n - 1
  BY DEF TwinedInv
<1>3. /\ twinedChunks = [i \in DOMAIN twinedChunks |-> twinedChunks[i]]
      /\ IsFiniteSet(DOMAIN twinedChunks) /\ DOMAIN twinedChunks \subseteq Nat
  BY DEF TwinedInv, IsChunked
<1>4. CASE b \in DOMAIN twinedChunks
  <2>1. Twined!resized(k) = twinedChunks
    BY <1>4, TwinedNames DEF Twined!resized, Twined!inbounds
  <2> QED
    BY <1>2, <1>3, <1>4, <2>1 DEF AddsChunks
<1>5. CASE b \notin DOMAIN twinedChunks
  <2> DEFINE d == [i \in 0 .. b |-> IF i \in DOMAIN twinedChunks THEN twinedChunks[i] ELSE FreshChunk]
  <2>1. Twined!resized(k) = d
    BY <1>5, TwinedNames DEF Twined!resized, Twined!inbounds
  <2>2. DOMAIN twinedChunks \subseteq 0 .. b
    BY <1>1, <1>2, <1>5
  <2>3. IsFiniteSet(0 .. b)
    BY <1>1, FS_Interval
  <2>4. DOMAIN d = 0 .. (b + 1) - 1 /\ b + 1 \in Nat /\ b \in DOMAIN d
    BY <1>1
  <2>5. AddsChunks(twinedChunks, d)
    BY <1>1, <2>2, <2>3 DEF AddsChunks
  <2> QED
    BY <2>1, <2>4, <2>5
<1> QED
  BY <1>4, <1>5

(* An operation that ends the walk.                                        *)
LEMMA TwinedChanged ==
  ASSUME NEW op, Twined!Changed(op), IsChunked(twinedChunks'),
         NEW n \in Nat, DOMAIN twinedChunks' = 0 .. n - 1
  PROVE  TwinedInv' /\ TwinedLeft' = {} /\ twinedLast' = op
<1>1. twinedIt' = <<Cardinality(DOMAIN twinedChunks'), 0>> /\ twinedLast' = op
  BY TwinedNames DEF Twined!Changed
<1>2. PICK c : c = twinedChunks'
  OBVIOUS
<1>3. Cardinality(DOMAIN c) \notin DOMAIN c
  BY <1>2, BehindLastChunk
<1>4. Twined!AtEnd'
  BY <1>1, <1>2, <1>3 DEF Twined!AtEnd
<1> QED
  BY <1>1, <1>4, TwinedLeftIs DEF TwinedInv

LEMMA TwinedPuts ==
  ASSUME NEW k, NEW v
  PROVE  Twined!Map!Put(k, v) = PutIn(TwinedMap, k, v)
BY DEF Twined!Map!Put, PutIn, TwinedMap

LEMMA TwinedInserts ==
  ASSUME TwinedInv, NEW k \in Keys, Twined!Insert(k)
  PROVE  TwinedInv' /\ Twined!Map!Insert(k)
<1> DEFINE b == ChunkOf(k)
<1>1. PICK d : d = Twined!resized(k)
  OBVIOUS
<1>2. PICK n \in Nat : DOMAIN d = 0 .. n - 1
  BY <1>1, ResizedAddsChunks
<1>3. AddsChunks(twinedChunks, d) /\ ChunkOf(k) \in DOMAIN d
  BY <1>1, ResizedAddsChunks
<1>4. twinedChunks' = WithBit(d, k) /\ Twined!Changed(<<"insert", k>>)
  BY <1>1, TwinedNames DEF Twined!Insert, WithBit
<1>5. PICK e : e = twinedChunks'
  OBVIOUS
<1>6. IsChunked(twinedChunks)
  BY DEF TwinedInv
<1>7. /\ IsChunked(e) /\ DOMAIN e = DOMAIN d
      /\ IF k \in KeysIn(twinedChunks) THEN MapIn(e) = MapIn(twinedChunks)
         ELSE \E v \in Vals : MapIn(e) = PutIn(MapIn(twinedChunks), k, v)
  BY <1>3, <1>4, <1>5, <1>6, BitSets
<1>8. TwinedInv' /\ TwinedLeft' = {} /\ twinedLast' = <<"insert", k>>
  BY <1>2, <1>4, <1>5, <1>7, TwinedChanged
<1>9. TwinedMap' = MapIn(e) /\ TwinedMap = MapIn(twinedChunks) /\ Twined!Members = KeysIn(twinedChunks)
  BY <1>5, <1>6, <1>7, TwinedStandsFor
<1>10. DOMAIN TwinedMap = KeysIn(twinedChunks)
  BY <1>9 DEF TwinedMap
<1>11. IF k \in DOMAIN TwinedMap THEN TwinedMap' = TwinedMap
       ELSE \E v \in Vals : TwinedMap' = Twined!Map!Put(k, v)
  BY <1>7, <1>9, <1>10, TwinedPuts
<1>12. Twined!Map!Changed(<<"insert", k>>)
  BY <1>8 DEF Twined!Map!Changed, TwinedLeft
<1> QED
  BY <1>8, <1>11, <1>12 DEF Twined!Map!Insert, TwinedMap

LEMMA TwinedInsertsValues ==
  ASSUME TwinedInv, NEW k \in Keys, NEW v \in Vals, Twined!InsertValue(k, v)
  PROVE  TwinedInv' /\ Twined!Map!InsertValue(k, v)
<1>1. PICK d : d = Twined!resized(k)
  OBVIOUS
<1>2. PICK n \in Nat : DOMAIN d = 0 .. n - 1
  BY <1>1, ResizedAddsChunks
<1>3. AddsChunks(twinedChunks, d) /\ ChunkOf(k) \in DOMAIN d
  BY <1>1, ResizedAddsChunks
<1>4. twinedChunks' = WithBoth(d, k, v) /\ Twined!Changed(<<"insert_value", k, v>>)
  BY <1>1, TwinedNames DEF Twined!InsertValue, WithBoth
<1>5. PICK e : e = twinedChunks'
  OBVIOUS
<1>6. IsChunked(twinedChunks)
  BY DEF TwinedInv
<1>7. IsChunked(e) /\ DOMAIN e = DOMAIN d /\ MapIn(e) = PutIn(MapIn(twinedChunks), k, v)
  BY <1>3, <1>4, <1>5, <1>6, ValueInserted
<1>8. TwinedInv' /\ TwinedLeft' = {} /\ twinedLast' = <<"insert_value", k, v>>
  BY <1>2, <1>4, <1>5, <1>7, TwinedChanged
<1>9. TwinedMap' = Twined!Map!Put(k, v)
  BY <1>5, <1>6, <1>7, TwinedStandsFor, TwinedPuts
<1>10. Twined!Map!Changed(<<"insert_value", k, v>>)
  BY <1>8 DEF Twined!Map!Changed, TwinedLeft
<1> QED
  BY <1>8, <1>9, <1>10 DEF Twined!Map!InsertValue, TwinedMap

(* A key whose chunk is not there is not removed, for it is no key.        *)
LEMMA TwinedRemoves ==
  ASSUME TwinedInv, NEW k \in Keys, Twined!Remove(k)
  PROVE  TwinedInv' /\ Twined!Map!Remove(k)
<1>1. PICK n \in Nat : DOMAIN twinedChunks = 0 .. n - 1
  BY DEF TwinedInv
<1>2. IsChunked(twinedChunks)
  BY DEF TwinedInv
<1>3. Twined!Changed(<<"remove", k>>)
  BY DEF Twined!Remove
<1>4. PICK e : e = twinedChunks'
  OBVIOUS
<1>5. /\ IsChunked(e) /\ DOMAIN e = DOMAIN twinedChunks
      /\ MapIn(e) = WithoutKey(MapIn(twinedChunks), k)
  <2>1. CASE ChunkOf(k) \in DOMAIN twinedChunks
    <3>1. e = WithoutBit(twinedChunks, k)
      BY <1>4, <2>1, TwinedNames DEF Twined!Remove, Twined!inbounds, WithoutBit
    <3>2. AddsChunks(twinedChunks, twinedChunks)
      BY <1>2 DEF AddsChunks, IsChunked
    <3> QED
      BY <1>2, <2>1, <3>1, <3>2, BitCleared
  <2>2. CASE ChunkOf(k) \notin DOMAIN twinedChunks
    <3>1. e = twinedChunks
      BY <1>4, <2>2, TwinedNames DEF Twined!Remove, Twined!inbounds
    <3>2. k \notin KeysIn(twinedChunks)
      BY <2>2 DEF KeysIn
    <3>3. MapIn(twinedChunks) = [x \in KeysIn(twinedChunks) |-> ValueIn(twinedChunks, x)]
      BY DEF MapIn
    <3>4. MapIn(twinedChunks) = WithoutKey(MapIn(twinedChunks), k)
      <4>1. DOMAIN MapIn(twinedChunks) = KeysIn(twinedChunks)
        BY <3>3
      <4>2. KeysIn(twinedChunks) \ {k} = KeysIn(twinedChunks)
        BY <3>2
      <4> QED
        BY <3>3, <4>1, <4>2 DEF WithoutKey
    <3> QED
      BY <1>2, <3>1, <3>4
  <2> QED
    BY <2>1, <2>2
<1>6. TwinedInv' /\ TwinedLeft' = {} /\ twinedLast' = <<"remove", k>>
  BY <1>1, <1>3, <1>4, <1>5, TwinedChanged
<1>7. TwinedMap' = MapIn(e) /\ TwinedMap = MapIn(twinedChunks) /\ Twined!Members = KeysIn(twinedChunks)
  BY <1>2, <1>4, <1>5, TwinedStandsFor
<1>8. TwinedMap' = [x \in DOMAIN TwinedMap \ {k} |-> TwinedMap[x]]
  BY <1>5, <1>7 DEF WithoutKey
<1>9. Twined!Map!Changed(<<"remove", k>>)
  BY <1>6 DEF Twined!Map!Changed, TwinedLeft
<1> QED
  BY <1>6, <1>8, <1>9 DEF Twined!Map!Remove, TwinedMap

LEMMA TwinedClears ==
  ASSUME Twined!Clear
  PROVE  TwinedInv' /\ Twined!Map!Clear
<1>1. PICK e : e = twinedChunks'
  OBVIOUS
<1>2. e = [i \in {} |-> FreshChunk] /\ Twined!Changed(<<"clear">>)
  BY <1>1, TwinedNames DEF Twined!Clear, Twined!NoChunks
<1>3. IsChunked(e) /\ MapIn(e) = [k \in {} |-> 0]
  BY <1>2, NoChunksNoKeys
<1>4. DOMAIN e = 0 .. 0 - 1 /\ 0 \in Nat
  BY <1>2
<1>5. TwinedInv' /\ TwinedLeft' = {} /\ twinedLast' = <<"clear">>
  BY <1>1, <1>2, <1>3, <1>4, TwinedChanged
<1>6. TwinedMap' = [k \in {} |-> 0]
  BY <1>1, <1>3, TwinedStandsFor
<1>7. Twined!Map!Changed(<<"clear">>)
  BY <1>5 DEF Twined!Map!Changed, TwinedLeft
<1> QED
  BY <1>5, <1>6, <1>7 DEF Twined!Map!Clear, TwinedMap

(* A write leaves the bits alone, and so the walk.                         *)
LEMMA TwinedWrites ==
  ASSUME TwinedInv, NEW k \in Keys, NEW v \in Vals, Twined!Write(k, v)
  PROVE  TwinedInv' /\ Twined!Map!Write(k, v)
<1>1. PICK e : e = twinedChunks'
  OBVIOUS
<1>2. IsChunked(twinedChunks)
  BY DEF TwinedInv
<1>3. Twined!Members = KeysIn(twinedChunks) /\ TwinedMap = MapIn(twinedChunks)
  BY <1>2, TwinedStandsFor
<1>4. /\ k \in KeysIn(twinedChunks)
      /\ e = WithValue(twinedChunks, k, v)
      /\ twinedLast' = <<"write", k, v>> /\ twinedIt' = twinedIt
  BY <1>1, <1>3, TwinedNames DEF Twined!Write, WithValue
<1>5. /\ IsChunked(e) /\ DOMAIN e = DOMAIN twinedChunks /\ KeysIn(e) = KeysIn(twinedChunks)
      /\ MapIn(e) = [MapIn(twinedChunks) EXCEPT ![k] = v]
      /\ \A i \in DOMAIN twinedChunks : e[i].bits = twinedChunks[i].bits
  BY <1>2, <1>4, ValueWritten
<1>6. SetPlaces(e) = SetPlaces(twinedChunks)
  BY <1>5 DEF SetPlaces
<1>7. TwinedInv'
  BY <1>1, <1>4, <1>5, <1>6 DEF TwinedInv, Twined!AtEnd
<1>8. TwinedMap' = MapIn(e) /\ Twined!Members' = KeysIn(e)
  BY <1>1, <1>5, TwinedStandsFor
<1>9. TwinedLeft' = TwinedLeft
  BY <1>1, <1>3, <1>4, <1>5, <1>8 DEF TwinedLeft, Twined!AtEnd
<1>10. k \in DOMAIN TwinedMap
  BY <1>3, <1>4 DEF TwinedMap
<1>11. TwinedMap' = [TwinedMap EXCEPT ![k] = v]
  BY <1>3, <1>5, <1>8
<1> QED
  BY <1>4, <1>7, <1>9, <1>10, <1>11 DEF Twined!Map!Write, TwinedMap, TwinedLeft

LEMMA TwinedStays ==
  ASSUME TwinedInv, twinedChunks' = twinedChunks, twinedIt' = twinedIt
  PROVE  TwinedInv' /\ TwinedMap' = TwinedMap /\ TwinedLeft' = TwinedLeft
<1>1. TwinedInv'
  BY DEF TwinedInv, Twined!AtEnd
<1>2. Twined!Members' = Twined!Members
  BY TwinedNames
<1>3. TwinedMap' = TwinedMap
  BY <1>2, TwinedNames DEF TwinedMap
<1>4. TwinedLeft' = TwinedLeft
  BY <1>2 DEF TwinedLeft, Twined!AtEnd
<1> QED
  BY <1>1, <1>3, <1>4

LEMMA TwinedReads ==
  ASSUME TwinedInv, NEW k \in Keys
  PROVE  /\ Twined!Read(k) => TwinedInv' /\ Twined!Map!Read(k)
         /\ Twined!Has(k) => TwinedInv' /\ Twined!Map!Has(k)
<1>0. IsChunked(twinedChunks) /\ k \in Nat
  BY KeysAssumption DEF TwinedInv
<1>1. Twined!Members = KeysIn(twinedChunks) /\ DOMAIN TwinedMap = KeysIn(twinedChunks)
  BY <1>0, TwinedStandsFor DEF TwinedMap
<1>2. ASSUME Twined!Read(k) PROVE TwinedInv' /\ Twined!Map!Read(k)
  <2>1. k \in Twined!Members /\ twinedLast' = <<"read", k, Twined!Val(k)>>
    BY <1>2 DEF Twined!Read
  <2>2. k \in DOMAIN TwinedMap /\ TwinedMap[k] = Twined!Val(k)
    BY <2>1 DEF TwinedMap
  <2>3. TwinedInv' /\ TwinedMap' = TwinedMap /\ TwinedLeft' = TwinedLeft
    BY <1>2, TwinedStays DEF Twined!Read
  <2> QED
    BY <2>1, <2>2, <2>3 DEF Twined!Map!Read, TwinedMap, TwinedLeft
<1>3. ASSUME Twined!Has(k) PROVE TwinedInv' /\ Twined!Map!Has(k)
  <2>1. twinedLast' = <<"has", k, k \in DOMAIN TwinedMap>>
    <3>1. (Twined!inbounds(k) /\ Twined!offset(k) \in twinedChunks[Twined!base(k)].bits)
          = (k \in DOMAIN TwinedMap)
      BY <1>0, <1>1, TwinedNames DEF Twined!inbounds, KeysIn
    <3> QED
      BY <1>3, <3>1 DEF Twined!Has
  <2>2. TwinedInv' /\ TwinedMap' = TwinedMap /\ TwinedLeft' = TwinedLeft
    BY <1>3, TwinedStays DEF Twined!Has
  <2> QED
    BY <2>1, <2>2 DEF Twined!Map!Has, TwinedMap, TwinedLeft
<1> QED
  BY <1>2, <1>3

(* The counts of the chunks add up to the number of the keys.              *)
LEMMA TwinedCounts ==
  ASSUME TwinedInv, Twined!Size
  PROVE  TwinedInv' /\ Twined!Map!Size
<1>1. IsChunked(twinedChunks)
  BY DEF TwinedInv
<1>2. twinedLast' = <<"size", ChunkCount(twinedChunks)[DOMAIN twinedChunks]>>
      /\ twinedChunks' = twinedChunks /\ twinedIt' = twinedIt
  BY DEF Twined!Size, Twined!MapThenSumSet, Twined!MapThenFoldSet, ChunkCount, CountStep,
         Cardinality, Twined!Cardinality
<1>3. DOMAIN TwinedMap = KeysIn(twinedChunks)
  BY <1>1, TwinedStandsFor DEF TwinedMap
<1>4. ChunkCount(twinedChunks)[DOMAIN twinedChunks] = Cardinality(DOMAIN TwinedMap)
  BY <1>1, <1>3, SumIsNumber
<1>5. Twined!Map!Cardinality(DOMAIN TwinedMap) = Cardinality(DOMAIN TwinedMap)
  BY DEF Twined!Map!Cardinality, Cardinality
<1>6. TwinedInv' /\ TwinedMap' = TwinedMap /\ TwinedLeft' = TwinedLeft
  BY <1>2, TwinedStays
<1> QED
  BY <1>2, <1>4, <1>5, <1>6 DEF Twined!Map!Size, TwinedMap, TwinedLeft

(* begin finds the first key that is there.                                *)
LEMMA TwinedBegins ==
  ASSUME TwinedInv, Twined!Begin
  PROVE  TwinedInv' /\ Twined!Map!Begin
<1>1. twinedChunks' = twinedChunks /\ twinedLast' = <<"begin">>
  BY DEF Twined!Begin
<1>2. PICK q : q \in Twined!FindFrom(0, 0) /\ twinedIt' = q
  BY DEF Twined!Begin
<1>3. IsChunked(twinedChunks)
  BY DEF TwinedInv
<1>4. PICK n \in Nat : DOMAIN twinedChunks = 0 .. n - 1
  BY DEF TwinedInv
<1>5. TwinedMap' = TwinedMap /\ DOMAIN TwinedMap = KeysIn(twinedChunks)
  BY <1>1, <1>3, TwinedNames, TwinedStandsFor DEF TwinedMap
<1>6. TwinedInv' /\ TwinedLeft' = KeysIn(twinedChunks)
  <2>1. CASE FirstFrom(twinedChunks, 0, 0, q)
    <3>1. q \in SetPlaces(twinedChunks)
      BY <2>1 DEF FirstFrom
    <3>2. KeysFrom(twinedChunks, KeyOfPlace(q)) = KeysIn(twinedChunks)
      BY <1>3, <2>1, WalkBegins
    <3>3. TwinedLeft' = KeysFrom(twinedChunks, KeyOfPlace(q))
      BY <1>1, <1>2, <1>3, <3>1, TwinedLeftIs
    <3> QED
      BY <1>1, <1>2, <1>3, <1>4, <3>1, <3>2, <3>3 DEF TwinedInv
  <2>2. CASE NoneFrom(twinedChunks, 0, 0) /\ q = <<Cardinality(DOMAIN twinedChunks), 0>>
    <3>1. KeysIn(twinedChunks) = {}
      BY <1>3, <2>2, WalkBegins
    <3>2. Cardinality(DOMAIN twinedChunks) \notin DOMAIN twinedChunks
      BY <1>4, BehindLastChunk
    <3>3. Twined!AtEnd'
      BY <1>1, <1>2, <2>2, <3>2 DEF Twined!AtEnd
    <3> QED
      BY <1>1, <1>3, <1>4, <3>1, <3>3, TwinedLeftIs DEF TwinedInv
  <2> QED
    BY <1>2, <2>1, <2>2, TwinedFinds
<1> QED
  BY <1>1, <1>5, <1>6 DEF Twined!Map!Begin, TwinedMap, TwinedLeft

(* next goes on to the first key behind the one it returns.                *)
LEMMA TwinedGoesOn ==
  ASSUME TwinedInv, Twined!Yield
  PROVE  TwinedInv' /\ \E k \in Keys : Twined!Map!Yield(k)
<1>1. PICK p : p = twinedIt
  OBVIOUS
<1>2. /\ twinedChunks' = twinedChunks
      /\ twinedLast' = <<"next", p[1] * ChunkSize + p[2], twinedChunks[p[1]].vals[p[2]]>>
  BY <1>1 DEF Twined!Yield
<1>3. PICK q : q \in Twined!FindFrom(p[1], p[2] + 1) /\ twinedIt' = q
  BY <1>1 DEF Twined!Yield
<1>4. IsChunked(twinedChunks) /\ p \in SetPlaces(twinedChunks)
  BY <1>1 DEF TwinedInv, Twined!Yield
<1>5. PICK n \in Nat : DOMAIN twinedChunks = 0 .. n - 1
  BY DEF TwinedInv
<1>6. PICK k : k = KeyOfPlace(p)
  OBVIOUS
<1>7. /\ k \in KeysIn(twinedChunks) /\ k \in Nat /\ p[1] \in Nat /\ p[2] \in ChunkPlaces
      /\ ChunkOf(k) = p[1] /\ PlaceIn(k) = p[2]
  BY <1>4, <1>6, SetPlaceFacts
<1>8. k = KeyAt(p[1], p[2]) /\ k = p[1] * ChunkSize + p[2]
  BY <1>6 DEF KeyOfPlace, KeyAt
<1>9. /\ FirstFrom(twinedChunks, p[1], p[2] + 1, q)
         => KeysFrom(twinedChunks, KeyOfPlace(q)) = KeysFrom(twinedChunks, k) \ {k}
      /\ NoneFrom(twinedChunks, p[1], p[2] + 1) => KeysFrom(twinedChunks, k) \ {k} = {}
  <2>1. PICK i, o : i = p[1] /\ o = p[2]
    OBVIOUS
  <2>2. /\ FirstFrom(twinedChunks, i, o + 1, q)
           => KeysFrom(twinedChunks, KeyOfPlace(q)) = KeysFrom(twinedChunks, KeyAt(i, o)) \ {KeyAt(i, o)}
        /\ NoneFrom(twinedChunks, i, o + 1) => KeysFrom(twinedChunks, KeyAt(i, o)) \ {KeyAt(i, o)} = {}
    BY <1>4, <1>7, <2>1, WalkGoesOn
  <2> QED
    BY <1>8, <2>1, <2>2
<1>10. TwinedMap' = TwinedMap /\ TwinedMap = MapIn(twinedChunks)
  BY <1>2, <1>4, TwinedNames, TwinedStandsFor DEF TwinedMap
<1>11. twinedLast' = <<"next", k, TwinedMap[k]>>
  <2>1. TwinedMap[k] = twinedChunks[p[1]].vals[p[2]]
    BY <1>7, <1>10 DEF MapIn, ValueIn
  <2> QED
    BY <1>2, <1>8, <2>1
<1>12. TwinedLeft = KeysFrom(twinedChunks, k)
  BY <1>1, <1>4, <1>6, TwinedLeftIs
<1>13. k \in TwinedLeft /\ k \in Keys
  BY <1>4, <1>7, <1>12 DEF KeysFrom, IsChunked
<1>14. TwinedInv' /\ TwinedLeft' = TwinedLeft \ {k}
  <2>1. CASE FirstFrom(twinedChunks, p[1], p[2] + 1, q)
    <3>1. q \in SetPlaces(twinedChunks)
      BY <2>1 DEF FirstFrom
    <3>2. KeysFrom(twinedChunks, KeyOfPlace(q)) = KeysFrom(twinedChunks, k) \ {k}
      BY <1>9, <2>1
    <3>3. TwinedLeft' = KeysFrom(twinedChunks, KeyOfPlace(q))
      BY <1>2, <1>3, <1>4, <3>1, TwinedLeftIs
    <3> QED
      BY <1>2, <1>3, <1>4, <1>5, <1>12, <3>1, <3>2, <3>3 DEF TwinedInv
  <2>2. CASE NoneFrom(twinedChunks, p[1], p[2] + 1) /\ q = <<Cardinality(DOMAIN twinedChunks), 0>>
    <3>1. KeysFrom(twinedChunks, k) \ {k} = {}
      BY <1>9, <2>2
    <3>2. Cardinality(DOMAIN twinedChunks) \notin DOMAIN twinedChunks
      BY <1>5, BehindLastChunk
    <3>3. Twined!AtEnd'
      BY <1>2, <1>3, <2>2, <3>2 DEF Twined!AtEnd
    <3> QED
      BY <1>2, <1>4, <1>5, <1>12, <3>1, <3>3, TwinedLeftIs DEF TwinedInv
  <2> QED
    BY <1>3, <2>1, <2>2, TwinedFinds
<1>15. Twined!Map!Yield(k)
  BY <1>10, <1>11, <1>13, <1>14 DEF Twined!Map!Yield, TwinedMap, TwinedLeft
<1> QED
  BY <1>13, <1>14, <1>15

LEMMA TwinedEnds ==
  ASSUME TwinedInv, Twined!End
  PROVE  TwinedInv' /\ Twined!Map!End
<1>1. Twined!AtEnd /\ twinedLast' = <<"end">> /\ twinedChunks' = twinedChunks /\ twinedIt' = twinedIt
  BY DEF Twined!End
<1>2. TwinedLeft = {}
  BY <1>1, TwinedLeftIs
<1>3. TwinedInv' /\ TwinedMap' = TwinedMap /\ TwinedLeft' = TwinedLeft
  BY <1>1, TwinedStays
<1> QED
  BY <1>1, <1>2, <1>3 DEF Twined!Map!End, TwinedMap, TwinedLeft

(* Each step keeps the invariant and is the map's step of the same name.   *)
LEMMA TwinedStepsAreTheMaps ==
  TwinedInv /\ [Twined!Next]_twinedVars => TwinedInv' /\ [Twined!Map!Next]_<<TwinedMap, TwinedLeft, twinedLast>>
<1> SUFFICES ASSUME TwinedInv, [Twined!Next]_twinedVars
             PROVE  TwinedInv' /\ [Twined!Map!Next]_<<TwinedMap, TwinedLeft, twinedLast>>
  OBVIOUS
<1>1. ASSUME NEW k \in Keys, Twined!Insert(k) \/ Twined!Remove(k) \/ Twined!Read(k) \/ Twined!Has(k)
      PROVE  TwinedInv' /\ Twined!Map!Next
  <2>1. /\ TwinedInv'
        /\ Twined!Map!Insert(k) \/ Twined!Map!Remove(k) \/ Twined!Map!Read(k) \/ Twined!Map!Has(k)
    BY <1>1, TwinedInserts, TwinedRemoves, TwinedReads
  <2> QED
    BY <2>1 DEF Twined!Map!Next
<1>2. ASSUME NEW k \in Keys, NEW v \in Vals, Twined!InsertValue(k, v) \/ Twined!Write(k, v)
      PROVE  TwinedInv' /\ Twined!Map!Next
  <2>1. TwinedInv' /\ (Twined!Map!InsertValue(k, v) \/ Twined!Map!Write(k, v))
    BY <1>2, TwinedInsertsValues, TwinedWrites
  <2> QED
    BY <2>1 DEF Twined!Map!Next
<1>3. ASSUME Twined!Clear \/ Twined!Size \/ Twined!Begin \/ Twined!End
      PROVE  TwinedInv' /\ Twined!Map!Next
  <2>1. TwinedInv' /\ (Twined!Map!Clear \/ Twined!Map!Size \/ Twined!Map!Begin \/ Twined!Map!End)
    BY <1>3, TwinedClears, TwinedCounts, TwinedBegins, TwinedEnds
  <2> QED
    BY <2>1 DEF Twined!Map!Next
<1>4. ASSUME Twined!Yield
      PROVE  TwinedInv' /\ Twined!Map!Next
  <2>1. TwinedInv' /\ \E k \in Keys : Twined!Map!Yield(k)
    BY <1>4, TwinedGoesOn
  <2> QED
    BY <2>1 DEF Twined!Map!Next
<1>5. ASSUME UNCHANGED twinedVars
      PROVE  TwinedInv' /\ UNCHANGED <<TwinedMap, TwinedLeft, twinedLast>>
  BY <1>5, TwinedStays DEF twinedVars
<1> QED
  BY <1>1, <1>2, <1>3, <1>4, <1>5 DEF Twined!Next

LEMMA TwinedStarts ==
  Twined!Init => TwinedInv /\ Twined!Map!Init
<1> SUFFICES ASSUME Twined!Init PROVE TwinedInv /\ Twined!Map!Init
  OBVIOUS
<1>1. twinedChunks = [i \in {} |-> FreshChunk] /\ twinedIt = <<0, 0>> /\ twinedLast = <<"new">>
  BY TwinedNames DEF Twined!Init, Twined!NoChunks
<1>2. IsChunked(twinedChunks) /\ MapIn(twinedChunks) = [k \in {} |-> 0]
  BY <1>1, NoChunksNoKeys
<1>3. DOMAIN twinedChunks = 0 .. 0 - 1 /\ 0 \in Nat
  BY <1>1
<1>4. Twined!AtEnd
  BY <1>1 DEF Twined!AtEnd
<1>5. TwinedInv
  BY <1>2, <1>3, <1>4 DEF TwinedInv
<1>6. TwinedMap = [k \in {} |-> 0] /\ TwinedLeft = {}
  BY <1>2, <1>4, TwinedStandsFor, TwinedLeftIs
<1> QED
  BY <1>1, <1>5, <1>6 DEF Twined!Map!Init, TwinedMap, TwinedLeft

(* The twined bitmap is a map: over the chunks, the keys are inserted,     *)
(* removed, counted and walked once each as those of one map.              *)
THEOREM TwinedBitmapsAreMaps == CSpec => TwinedIsAMap
<1>1. CInit => TwinedInv /\ Twined!Map!Init
  BY TwinedStarts DEF CInit
<1>2. TwinedInv /\ [CNext]_Everything
      => TwinedInv' /\ [Twined!Map!Next]_<<TwinedMap, TwinedLeft, twinedLast>>
  <2>1. [CNext]_Everything => [Twined!Next]_twinedVars
    BY DEF CNext, Everything
  <2> QED
    BY <2>1, TwinedStepsAreTheMaps
<1> QED
  BY <1>1, <1>2, PTL DEF CSpec, Everything, TwinedIsAMap, Twined!IsAMap, Twined!Map!Spec, TwinedMap, TwinedLeft

-----------------------------------------------------------------------------
(* The sparse bitmap                                                       *)

(* A place in a chunk that is there.                                       *)
InAChunk(c, p) == p = <<p[1], p[2]>> /\ p[1] \in DOMAIN c /\ p[2] \in ChunkPlaces

(* The inductive invariant: each chunk was made for a key, and the iterator*)
(* is at a set place, at the start of a chunk, or at the end.              *)
SparseInv ==
  /\ IsChunked(sparseChunks)
  /\ DOMAIN sparseChunks \subseteq {ChunkOf(k) : k \in Keys}
  /\ \/ Sparse!AtEnd
     \/ /\ InAChunk(sparseChunks, sparseIt)
        /\ sparseIt[2] \in sparseChunks[sparseIt[1]].bits \cup {0}

(* What it stands for.                                                     *)
SparseMap == [k \in Sparse!Members |-> Sparse!Val(k)]

SparseLeft ==
  {k \in Sparse!Members : ~Sparse!AtEnd /\ k >= sparseIt[1] * ChunkSize + sparseIt[2]}

LEMMA SparseNames ==
  /\ \A k : Sparse!hi(k) = ChunkOf(k) /\ Sparse!lo(k) = PlaceIn(k)
  /\ Sparse!Offsets = ChunkPlaces /\ Sparse!NewChunk = FreshChunk
  /\ Sparse!Members = KeysOfPlaces(sparseChunks)
  /\ Sparse!Members' = KeysOfPlaces(sparseChunks')
  /\ \A k : Sparse!Val(k) = ValueIn(sparseChunks, k)
  /\ SparseMap' = [k \in Sparse!Members' |-> ValueIn(sparseChunks', k)]
  /\ Sparse!Places = SetPlaces(sparseChunks)
  /\ \A p, q : Sparse!UpTo(p, q) <=> Before(p, q)
<1>1. \A k : Sparse!hi(k) = ChunkOf(k) /\ Sparse!lo(k) = PlaceIn(k)
  BY DEF Sparse!hi, Sparse!lo, ChunkOf, PlaceIn
<1>2. Sparse!Offsets = ChunkPlaces /\ Sparse!NewChunk = FreshChunk
  BY DEF Sparse!Offsets, ChunkPlaces, Sparse!NewChunk, FreshChunk
<1>3. Sparse!Members = KeysOfPlaces(sparseChunks) /\ Sparse!Members' = KeysOfPlaces(sparseChunks')
  BY <1>1, <1>2 DEF Sparse!Members, KeysOfPlaces
<1>4. \A k : Sparse!Val(k) = ValueIn(sparseChunks, k)
  BY <1>1 DEF Sparse!Val, ValueIn
<1>5. SparseMap' = [k \in Sparse!Members' |-> ValueIn(sparseChunks', k)]
  BY <1>1 DEF SparseMap, Sparse!Val, ValueIn
<1>6. Sparse!Places = SetPlaces(sparseChunks)
  BY <1>2 DEF Sparse!Places, SetPlaces
<1>7. \A p, q : Sparse!UpTo(p, q) <=> Before(p, q)
  BY DEF Sparse!UpTo, Before
<1> QED
  BY <1>1, <1>2, <1>3, <1>4, <1>5, <1>6, <1>7

LEMMA SparseStandsFor ==
  /\ IsChunked(sparseChunks) => SparseMap = MapIn(sparseChunks) /\ Sparse!Members = KeysIn(sparseChunks)
  /\ IsChunked(sparseChunks') => SparseMap' = MapIn(sparseChunks') /\ Sparse!Members' = KeysIn(sparseChunks')
<1>1. ASSUME IsChunked(sparseChunks)
      PROVE  SparseMap = MapIn(sparseChunks) /\ Sparse!Members = KeysIn(sparseChunks)
  BY <1>1, SparseNames, MembersAreKeys DEF SparseMap, MapIn
<1>2. ASSUME IsChunked(sparseChunks')
      PROVE  SparseMap' = MapIn(sparseChunks') /\ Sparse!Members' = KeysIn(sparseChunks')
  <2>1. PICK c : c = sparseChunks'
    OBVIOUS
  <2>2. KeysOfPlaces(c) = KeysIn(c)
    BY <1>2, <2>1, MembersAreKeys
  <2> QED
    BY <2>1, <2>2, SparseNames DEF MapIn
<1> QED
  BY <1>1, <1>2

(* Keys are left from the iterator's place on, or none at the end.         *)
LEMMA SparseLeftIs ==
  /\ Sparse!AtEnd => SparseLeft = {}
  /\ Sparse!AtEnd' => SparseLeft' = {}
  /\ IsChunked(sparseChunks) /\ InAChunk(sparseChunks, sparseIt)
     => ~ Sparse!AtEnd /\ SparseLeft = KeysFrom(sparseChunks, KeyOfPlace(sparseIt))
  /\ IsChunked(sparseChunks') /\ InAChunk(sparseChunks', sparseIt')
     => ~ Sparse!AtEnd' /\ SparseLeft' = KeysFrom(sparseChunks', KeyOfPlace(sparseIt'))
<1>1. (Sparse!AtEnd => SparseLeft = {}) /\ (Sparse!AtEnd' => SparseLeft' = {})
  BY DEF SparseLeft
<1>2. ASSUME NEW c, NEW p, IsChunked(c), InAChunk(c, p)
      PROVE  p # <<-1, 0>>
  BY <1>2 DEF IsChunked, InAChunk
<1>3. ASSUME IsChunked(sparseChunks), InAChunk(sparseChunks, sparseIt)
      PROVE  ~ Sparse!AtEnd /\ SparseLeft = KeysFrom(sparseChunks, KeyOfPlace(sparseIt))
  <2>1. ~ Sparse!AtEnd
    BY <1>2, <1>3 DEF Sparse!AtEnd, Sparse!Past
  <2> QED
    BY <1>3, <2>1, SparseStandsFor DEF SparseLeft, KeysFrom, KeyOfPlace, KeyAt
<1>4. ASSUME IsChunked(sparseChunks'), InAChunk(sparseChunks', sparseIt')
      PROVE  ~ Sparse!AtEnd' /\ SparseLeft' = KeysFrom(sparseChunks', KeyOfPlace(sparseIt'))
  <2>1. PICK c, p : c = sparseChunks' /\ p = sparseIt'
    OBVIOUS
  <2>2. p # <<-1, 0>>
    BY <1>2, <1>4, <2>1
  <2>3. ~ Sparse!AtEnd'
    BY <2>1, <2>2 DEF Sparse!AtEnd, Sparse!Past
  <2> QED
    BY <1>4, <2>3, SparseStandsFor DEF SparseLeft, KeysFrom, KeyOfPlace, KeyAt
<1> QED
  BY <1>1, <1>3, <1>4

(* A set place is in a chunk, and the iterator may be there.               *)
LEMMA SetPlacesAreInChunks ==
  ASSUME NEW c, IsChunked(c), NEW p \in SetPlaces(c)
  PROVE  InAChunk(c, p) /\ p[2] \in c[p[1]].bits \cup {0}
BY SetPlaceFacts DEF InAChunk

LEMMA SparseFinds ==
  ASSUME NEW i, NEW j, NEW q \in Sparse!FindFrom(i, j)
  PROVE  \/ FirstFrom(sparseChunks, i, j, q)
         \/ NoneFrom(sparseChunks, i, j) /\ q = Sparse!Past
<1> DEFINE P == {p \in Sparse!Places : Sparse!UpTo(<<i, j>>, p)}
<1>1. q \in Sparse!FirstOf(P)
  BY DEF Sparse!FindFrom
<1>2. P = {p \in SetPlaces(sparseChunks) : Before(<<i, j>>, p)}
  BY SparseNames
<1> HIDE DEF P
<1>3. CASE P = {}
  BY <1>1, <1>2, <1>3, SparseNames DEF Sparse!FirstOf, NoneFrom
<1>4. CASE P # {}
  <2>1. q \in P /\ \A r \in P : Before(q, r)
    BY <1>1, <1>4, SparseNames DEF Sparse!FirstOf
  <2> QED
    BY <1>2, <2>1 DEF FirstFrom
<1> QED
  BY <1>3, <1>4

(* chunk makes the chunk of a key and adds nothing else.                   *)
LEMMA ChunkAddsChunk ==
  ASSUME SparseInv, NEW k \in Keys
  PROVE  /\ AddsChunks(sparseChunks, Sparse!chunk(k)) /\ ChunkOf(k) \in DOMAIN Sparse!chunk(k)
         /\ DOMAIN Sparse!chunk(k) \subseteq {ChunkOf(x) : x \in Keys}
<1> DEFINE b == ChunkOf(k)
           d == [i \in DOMAIN sparseChunks \cup {b} |->
                   IF i \in DOMAIN sparseChunks THEN sparseChunks[i] ELSE FreshChunk]
<1>1. b \in Nat
  BY KeysAssumption, KeyHasPlace
<1>2. /\ IsFiniteSet(DOMAIN sparseChunks) /\ DOMAIN sparseChunks \subseteq Nat
      /\ DOMAIN sparseChunks \subseteq {ChunkOf(x) : x \in Keys}
  BY DEF SparseInv, IsChunked
<1>3. Sparse!chunk(k) = d
  BY SparseNames DEF Sparse!chunk
<1>4. IsFiniteSet(DOMAIN sparseChunks \cup {b})
  BY <1>2, FS_AddElement
<1>5. AddsChunks(sparseChunks, d)
  BY <1>1, <1>2, <1>4 DEF AddsChunks
<1> QED
  BY <1>2, <1>3, <1>5

LEMMA SparseChanged ==
  ASSUME NEW op, Sparse!Changed(op), IsChunked(sparseChunks'),
         DOMAIN sparseChunks' \subseteq {ChunkOf(k) : k \in Keys}
  PROVE  SparseInv' /\ SparseLeft' = {} /\ sparseLast' = op
<1>1. Sparse!AtEnd' /\ sparseLast' = op
  BY DEF Sparse!Changed, Sparse!AtEnd
<1> QED
  BY <1>1, SparseLeftIs DEF SparseInv

LEMMA SparsePuts ==
  ASSUME NEW k, NEW v
  PROVE  Sparse!Map!Put(k, v) = PutIn(SparseMap, k, v)
BY DEF Sparse!Map!Put, PutIn, SparseMap

LEMMA SparseInserts ==
  ASSUME SparseInv, NEW k \in Keys, Sparse!Insert(k)
  PROVE  SparseInv' /\ Sparse!Map!Insert(k)
<1> DEFINE b == ChunkOf(k)
<1>1. PICK d : d = Sparse!chunk(k)
  OBVIOUS
<1>2. DOMAIN d \subseteq {ChunkOf(x) : x \in Keys}
  BY <1>1, ChunkAddsChunk
<1>3. AddsChunks(sparseChunks, d) /\ ChunkOf(k) \in DOMAIN d
  BY <1>1, ChunkAddsChunk
<1>4. sparseChunks' = WithBit(d, k) /\ Sparse!Changed(<<"insert", k>>)
  BY <1>1, SparseNames DEF Sparse!Insert, WithBit
<1>5. PICK e : e = sparseChunks'
  OBVIOUS
<1>6. IsChunked(sparseChunks)
  BY DEF SparseInv
<1>7. /\ IsChunked(e) /\ DOMAIN e = DOMAIN d
      /\ IF k \in KeysIn(sparseChunks) THEN MapIn(e) = MapIn(sparseChunks)
         ELSE \E v \in Vals : MapIn(e) = PutIn(MapIn(sparseChunks), k, v)
  BY <1>3, <1>4, <1>5, <1>6, BitSets
<1>8. SparseInv' /\ SparseLeft' = {} /\ sparseLast' = <<"insert", k>>
  BY <1>2, <1>4, <1>5, <1>7, SparseChanged
<1>9. SparseMap' = MapIn(e) /\ SparseMap = MapIn(sparseChunks) /\ Sparse!Members = KeysIn(sparseChunks)
  BY <1>5, <1>6, <1>7, SparseStandsFor
<1>10. DOMAIN SparseMap = KeysIn(sparseChunks)
  BY <1>9 DEF SparseMap
<1>11. IF k \in DOMAIN SparseMap THEN SparseMap' = SparseMap
       ELSE \E v \in Vals : SparseMap' = Sparse!Map!Put(k, v)
  BY <1>7, <1>9, <1>10, SparsePuts
<1>12. Sparse!Map!Changed(<<"insert", k>>)
  BY <1>8 DEF Sparse!Map!Changed, SparseLeft
<1> QED
  BY <1>8, <1>11, <1>12 DEF Sparse!Map!Insert, SparseMap

LEMMA SparseInsertsValues ==
  ASSUME SparseInv, NEW k \in Keys, NEW v \in Vals, Sparse!InsertValue(k, v)
  PROVE  SparseInv' /\ Sparse!Map!InsertValue(k, v)
<1>1. PICK d : d = Sparse!chunk(k)
  OBVIOUS
<1>2. DOMAIN d \subseteq {ChunkOf(x) : x \in Keys}
  BY <1>1, ChunkAddsChunk
<1>3. AddsChunks(sparseChunks, d) /\ ChunkOf(k) \in DOMAIN d
  BY <1>1, ChunkAddsChunk
<1>4. sparseChunks' = WithBoth(d, k, v) /\ Sparse!Changed(<<"insert_value", k, v>>)
  BY <1>1, SparseNames DEF Sparse!InsertValue, WithBoth
<1>5. PICK e : e = sparseChunks'
  OBVIOUS
<1>6. IsChunked(sparseChunks)
  BY DEF SparseInv
<1>7. IsChunked(e) /\ DOMAIN e = DOMAIN d /\ MapIn(e) = PutIn(MapIn(sparseChunks), k, v)
  BY <1>3, <1>4, <1>5, <1>6, ValueInserted
<1>8. SparseInv' /\ SparseLeft' = {} /\ sparseLast' = <<"insert_value", k, v>>
  BY <1>2, <1>4, <1>5, <1>7, SparseChanged
<1>9. SparseMap' = Sparse!Map!Put(k, v)
  BY <1>5, <1>6, <1>7, SparseStandsFor, SparsePuts
<1>10. Sparse!Map!Changed(<<"insert_value", k, v>>)
  BY <1>8 DEF Sparse!Map!Changed, SparseLeft
<1> QED
  BY <1>8, <1>9, <1>10 DEF Sparse!Map!InsertValue, SparseMap

(* The chunk of a key that is removed is made, and the key is none of it.  *)
LEMMA SparseRemoves ==
  ASSUME SparseInv, NEW k \in Keys, Sparse!Remove(k)
  PROVE  SparseInv' /\ Sparse!Map!Remove(k)
<1>1. PICK d : d = Sparse!chunk(k)
  OBVIOUS
<1>2. DOMAIN d \subseteq {ChunkOf(x) : x \in Keys}
  BY <1>1, ChunkAddsChunk
<1>3. sparseChunks' = WithoutBit(d, k) /\ Sparse!Changed(<<"remove", k>>)
  BY <1>1, SparseNames DEF Sparse!Remove, WithoutBit
<1>4. PICK e : e = sparseChunks'
  OBVIOUS
<1>5. IsChunked(e) /\ DOMAIN e = DOMAIN d /\ MapIn(e) = WithoutKey(MapIn(sparseChunks), k)
  <2>1. IsChunked(sparseChunks) /\ AddsChunks(sparseChunks, d) /\ ChunkOf(k) \in DOMAIN d
    BY <1>1, ChunkAddsChunk DEF SparseInv
  <2> QED
    BY <1>3, <1>4, <2>1, BitCleared
<1>6. SparseInv' /\ SparseLeft' = {} /\ sparseLast' = <<"remove", k>>
  BY <1>2, <1>3, <1>4, <1>5, SparseChanged
<1>7. SparseMap' = MapIn(e) /\ SparseMap = MapIn(sparseChunks) /\ Sparse!Members = KeysIn(sparseChunks)
  BY <1>4, <1>5, SparseStandsFor DEF SparseInv
<1>8. SparseMap' = [x \in DOMAIN SparseMap \ {k} |-> SparseMap[x]]
  BY <1>5, <1>7 DEF WithoutKey
<1>9. Sparse!Map!Changed(<<"remove", k>>)
  BY <1>6 DEF Sparse!Map!Changed, SparseLeft
<1> QED
  BY <1>6, <1>8, <1>9 DEF Sparse!Map!Remove, SparseMap

LEMMA SparseClears ==
  ASSUME Sparse!Clear
  PROVE  SparseInv' /\ Sparse!Map!Clear
<1>1. PICK e : e = sparseChunks'
  OBVIOUS
<1>2. e = [i \in {} |-> FreshChunk] /\ Sparse!Changed(<<"clear">>)
  BY <1>1, SparseNames DEF Sparse!Clear, Sparse!NoChunks
<1>3. IsChunked(e) /\ MapIn(e) = [k \in {} |-> 0]
  BY <1>2, NoChunksNoKeys
<1>4. DOMAIN e = {}
  BY <1>2
<1>5. SparseInv' /\ SparseLeft' = {} /\ sparseLast' = <<"clear">>
  BY <1>1, <1>2, <1>3, <1>4, SparseChanged
<1>6. SparseMap' = [k \in {} |-> 0]
  BY <1>1, <1>3, SparseStandsFor
<1>7. Sparse!Map!Changed(<<"clear">>)
  BY <1>5 DEF Sparse!Map!Changed, SparseLeft
<1> QED
  BY <1>5, <1>6, <1>7 DEF Sparse!Map!Clear, SparseMap

(* A write leaves the bits alone, and so the walk.                         *)
LEMMA SparseWrites ==
  ASSUME SparseInv, NEW k \in Keys, NEW v \in Vals, Sparse!Write(k, v)
  PROVE  SparseInv' /\ Sparse!Map!Write(k, v)
<1>1. PICK e : e = sparseChunks'
  OBVIOUS
<1>2. IsChunked(sparseChunks)
  BY DEF SparseInv
<1>3. Sparse!Members = KeysIn(sparseChunks) /\ SparseMap = MapIn(sparseChunks)
  BY <1>2, SparseStandsFor
<1>4. /\ k \in KeysIn(sparseChunks)
      /\ e = WithValue(sparseChunks, k, v)
      /\ sparseLast' = <<"write", k, v>> /\ sparseIt' = sparseIt
  <2>1. k \in KeysIn(sparseChunks) /\ sparseLast' = <<"write", k, v>> /\ sparseIt' = sparseIt
    BY <1>3 DEF Sparse!Write
  <2>2. Sparse!chunk(k) = sparseChunks
    <3>1. DOMAIN sparseChunks \cup {Sparse!hi(k)} = DOMAIN sparseChunks
      BY <2>1, SparseNames DEF KeysIn
    <3>2. sparseChunks = [x \in DOMAIN sparseChunks |-> sparseChunks[x]]
      BY <1>2 DEF IsChunked
    <3> QED
      BY <3>1, <3>2 DEF Sparse!chunk
  <2>3. e = WithValue(sparseChunks, k, v)
    BY <1>1, <2>2, SparseNames DEF Sparse!Write, WithValue
  <2> QED
    BY <2>1, <2>3
<1>5. /\ IsChunked(e) /\ DOMAIN e = DOMAIN sparseChunks /\ KeysIn(e) = KeysIn(sparseChunks)
      /\ MapIn(e) = [MapIn(sparseChunks) EXCEPT ![k] = v]
      /\ \A i \in DOMAIN sparseChunks : e[i].bits = sparseChunks[i].bits
  BY <1>2, <1>4, ValueWritten
<1>6. InAChunk(e, sparseIt) <=> InAChunk(sparseChunks, sparseIt)
  BY <1>5 DEF InAChunk
<1>7. SparseInv'
  <2>1. Sparse!AtEnd' <=> Sparse!AtEnd
    BY <1>4 DEF Sparse!AtEnd, Sparse!Past
  <2>2. InAChunk(sparseChunks, sparseIt) => e[sparseIt[1]].bits = sparseChunks[sparseIt[1]].bits
    BY <1>5 DEF InAChunk
  <2> QED
    BY <1>1, <1>4, <1>5, <1>6, <2>1, <2>2 DEF SparseInv
<1>8. SparseMap' = MapIn(e) /\ Sparse!Members' = KeysIn(e)
  BY <1>1, <1>5, SparseStandsFor
<1>9. SparseLeft' = SparseLeft
  BY <1>1, <1>3, <1>4, <1>5, <1>8 DEF SparseLeft, Sparse!AtEnd, Sparse!Past
<1>10. k \in DOMAIN SparseMap
  BY <1>3, <1>4 DEF SparseMap
<1>11. SparseMap' = [SparseMap EXCEPT ![k] = v]
  BY <1>3, <1>5, <1>8
<1> QED
  BY <1>4, <1>7, <1>9, <1>10, <1>11 DEF Sparse!Map!Write, SparseMap, SparseLeft

LEMMA SparseStays ==
  ASSUME SparseInv, sparseChunks' = sparseChunks, sparseIt' = sparseIt
  PROVE  SparseInv' /\ SparseMap' = SparseMap /\ SparseLeft' = SparseLeft
<1>1. SparseInv'
  BY DEF SparseInv, Sparse!AtEnd, Sparse!Past, InAChunk
<1>2. Sparse!Members' = Sparse!Members
  BY SparseNames
<1>3. SparseMap' = SparseMap
  BY <1>2, SparseNames DEF SparseMap
<1>4. SparseLeft' = SparseLeft
  BY <1>2 DEF SparseLeft, Sparse!AtEnd, Sparse!Past
<1> QED
  BY <1>1, <1>3, <1>4

LEMMA SparseReads ==
  ASSUME SparseInv, NEW k \in Keys
  PROVE  /\ Sparse!Read(k) => SparseInv' /\ Sparse!Map!Read(k)
         /\ Sparse!Has(k) => SparseInv' /\ Sparse!Map!Has(k)
<1>0. IsChunked(sparseChunks) /\ k \in Nat
  BY KeysAssumption DEF SparseInv
<1>1. Sparse!Members = KeysIn(sparseChunks) /\ DOMAIN SparseMap = KeysIn(sparseChunks)
  BY <1>0, SparseStandsFor DEF SparseMap
<1>2. ASSUME Sparse!Read(k) PROVE SparseInv' /\ Sparse!Map!Read(k)
  <2>1. k \in Sparse!Members /\ sparseLast' = <<"read", k, Sparse!Val(k)>>
    BY <1>2 DEF Sparse!Read
  <2>2. k \in DOMAIN SparseMap /\ SparseMap[k] = Sparse!Val(k)
    BY <2>1 DEF SparseMap
  <2>3. SparseInv' /\ SparseMap' = SparseMap /\ SparseLeft' = SparseLeft
    BY <1>2, SparseStays DEF Sparse!Read
  <2> QED
    BY <2>1, <2>2, <2>3 DEF Sparse!Map!Read, SparseMap, SparseLeft
<1>3. ASSUME Sparse!Has(k) PROVE SparseInv' /\ Sparse!Map!Has(k)
  <2>1. sparseLast' = <<"has", k, k \in DOMAIN SparseMap>>
    <3>1. (Sparse!hi(k) \in DOMAIN sparseChunks /\ Sparse!lo(k) \in sparseChunks[Sparse!hi(k)].bits)
          = (k \in DOMAIN SparseMap)
      BY <1>0, <1>1, SparseNames DEF KeysIn
    <3> QED
      BY <1>3, <3>1 DEF Sparse!Has
  <2>2. SparseInv' /\ SparseMap' = SparseMap /\ SparseLeft' = SparseLeft
    BY <1>3, SparseStays DEF Sparse!Has
  <2> QED
    BY <2>1, <2>2 DEF Sparse!Map!Has, SparseMap, SparseLeft
<1> QED
  BY <1>2, <1>3

(* The counts of the chunks add up to the number of the keys.              *)
LEMMA SparseCounts ==
  ASSUME SparseInv, Sparse!Size
  PROVE  SparseInv' /\ Sparse!Map!Size
<1>1. IsChunked(sparseChunks)
  BY DEF SparseInv
<1>2. sparseLast' = <<"size", ChunkCount(sparseChunks)[DOMAIN sparseChunks]>>
      /\ sparseChunks' = sparseChunks /\ sparseIt' = sparseIt
  BY DEF Sparse!Size, Sparse!MapThenSumSet, Sparse!MapThenFoldSet, ChunkCount, CountStep,
         Cardinality, Sparse!Cardinality
<1>3. DOMAIN SparseMap = KeysIn(sparseChunks)
  BY <1>1, SparseStandsFor DEF SparseMap
<1>4. ChunkCount(sparseChunks)[DOMAIN sparseChunks] = Cardinality(DOMAIN SparseMap)
  BY <1>1, <1>3, SumIsNumber
<1>5. Sparse!Map!Cardinality(DOMAIN SparseMap) = Cardinality(DOMAIN SparseMap)
  BY DEF Sparse!Map!Cardinality, Cardinality
<1>6. SparseInv' /\ SparseMap' = SparseMap /\ SparseLeft' = SparseLeft
  BY <1>2, SparseStays
<1> QED
  BY <1>2, <1>4, <1>5, <1>6 DEF Sparse!Map!Size, SparseMap, SparseLeft

(* begin is at the start of the first chunk, and so at or before the least *)
(* key.                                                                    *)
LEMMA FirstPlaceIs ==
  ASSUME NEW q \in Sparse!FirstPlace
  PROVE  \/ DOMAIN sparseChunks = {} /\ q = Sparse!Past
         \/ /\ q = <<q[1], 0>> /\ q[1] \in DOMAIN sparseChunks
            /\ \A i \in DOMAIN sparseChunks : q[1] < i \/ q[1] = i
<1> DEFINE P == (DOMAIN sparseChunks) \X {0}
<1>1. q \in Sparse!FirstOf(P)
  BY DEF Sparse!FirstPlace
<1>2. CASE P = {}
  <2>1. \A i \in DOMAIN sparseChunks : <<i, 0>> \in P
    OBVIOUS
  <2>2. DOMAIN sparseChunks = {}
    BY <1>2, <2>1
  <2> HIDE DEF P
  <2> QED
    BY <1>1, <1>2, <2>2 DEF Sparse!FirstOf
<1>3. CASE P # {}
  <2>1. q \in P /\ \A r \in P : Sparse!UpTo(q, r)
    <3> HIDE DEF P
    <3> QED
      BY <1>1, <1>3 DEF Sparse!FirstOf
  <2>2. ASSUME NEW i \in DOMAIN sparseChunks PROVE q[1] < i \/ q[1] = i
    <3>1. <<i, 0>> \in P
      OBVIOUS
    <3>2. Sparse!UpTo(q, <<i, 0>>)
      BY <2>1, <3>1
    <3> QED
      BY <3>2 DEF Sparse!UpTo
  <2> QED
    BY <2>1, <2>2
<1> QED
  BY <1>2, <1>3

LEMMA SparseBegins ==
  ASSUME SparseInv, Sparse!Begin
  PROVE  SparseInv' /\ Sparse!Map!Begin
<1>1. sparseChunks' = sparseChunks /\ sparseLast' = <<"begin">>
  BY DEF Sparse!Begin
<1>2. PICK q : q \in Sparse!FirstPlace /\ sparseIt' = q
  BY DEF Sparse!Begin
<1>3. IsChunked(sparseChunks) /\ DOMAIN sparseChunks \subseteq {ChunkOf(k) : k \in Keys}
  BY DEF SparseInv
<1>4. SparseMap' = SparseMap /\ DOMAIN SparseMap = KeysIn(sparseChunks)
  BY <1>1, <1>3, SparseNames, SparseStandsFor DEF SparseMap
<1>5. SparseInv' /\ SparseLeft' = KeysIn(sparseChunks)
  <2>1. CASE DOMAIN sparseChunks = {} /\ q = Sparse!Past
    <3>1. KeysIn(sparseChunks) = {}
      BY <2>1 DEF KeysIn
    <3>2. Sparse!AtEnd'
      BY <1>2, <2>1 DEF Sparse!AtEnd, Sparse!Past
    <3> QED
      BY <1>1, <1>3, <3>1, <3>2, SparseLeftIs DEF SparseInv
  <2>2. CASE /\ q = <<q[1], 0>> /\ q[1] \in DOMAIN sparseChunks
             /\ \A i \in DOMAIN sparseChunks : q[1] < i \/ q[1] = i
    <3>1. InAChunk(sparseChunks, q) /\ q[2] = 0 /\ q[1] \in Nat
      BY <1>3, <2>2, ChunksAssumption DEF InAChunk, ChunkPlaces, IsChunked
    <3>2. SparseLeft' = KeysFrom(sparseChunks, KeyOfPlace(q))
      BY <1>1, <1>2, <1>3, <3>1, SparseLeftIs
    <3>3. ASSUME NEW k \in KeysIn(sparseChunks) PROVE k >= KeyOfPlace(q)
      <4>1. k \in Nat /\ ChunkOf(k) \in DOMAIN sparseChunks
        BY DEF KeysIn
      <4>2. PICK i, o : i = ChunkOf(k) /\ o = PlaceIn(k)
        OBVIOUS
      <4>3. i \in Nat /\ o \in ChunkPlaces /\ k = KeyAt(i, o) /\ 0 <= o
        BY <4>1, <4>2, KeyHasPlace DEF ChunkPlaces
      <4>4. q[1] < i \/ q[1] = i
        BY <2>2, <4>1, <4>2
      <4>5. 0 \in 0 .. ChunkSize
        BY ChunksAssumption
      <4>6. PICK a : a = q[1]
        OBVIOUS
      <4>7. KeyAt(a, 0) <= KeyAt(i, o)
        BY <3>1, <4>3, <4>4, <4>5, <4>6, PlacesInOrder
      <4>8. KeyOfPlace(q) = KeyAt(a, 0)
        BY <3>1, <4>6 DEF KeyOfPlace
      <4>9. KeyAt(a, 0) \in Nat
        BY <3>1, <4>6, PlaceHasKey, ChunksAssumption DEF ChunkPlaces
      <4> QED
        BY <4>1, <4>3, <4>7, <4>8, <4>9
    <3>4. KeysFrom(sparseChunks, KeyOfPlace(q)) = KeysIn(sparseChunks)
      BY <3>3 DEF KeysFrom
    <3> QED
      BY <1>1, <1>2, <1>3, <3>1, <3>2, <3>4 DEF SparseInv
  <2> QED
    BY <1>2, <2>1, <2>2, FirstPlaceIs
<1> QED
  BY <1>1, <1>4, <1>5 DEF Sparse!Map!Begin, SparseMap, SparseLeft

(* The iterator goes on to the first key behind its place.                 *)
LEMMA SparseWalkGoesOn ==
  ASSUME SparseInv, Sparse!Yield, NEW k, k = KeyOfPlace(sparseIt)
  PROVE  SparseInv' /\ SparseLeft' = SparseLeft \ {k}
<1>1. PICK p : p = sparseIt
  OBVIOUS
<1>2. sparseChunks' = sparseChunks
  BY DEF Sparse!Yield
<1>3. PICK q : q \in Sparse!FindFrom(p[1], p[2] + 1) /\ sparseIt' = q
  BY <1>1 DEF Sparse!Yield
<1>4. /\ IsChunked(sparseChunks) /\ InAChunk(sparseChunks, p)
      /\ DOMAIN sparseChunks \subseteq {ChunkOf(x) : x \in Keys}
  BY <1>1 DEF SparseInv, Sparse!Yield
<1>5. SparseLeft = KeysFrom(sparseChunks, k)
  BY <1>1, <1>4, SparseLeftIs
<1>6. /\ FirstFrom(sparseChunks, p[1], p[2] + 1, q)
         => KeysFrom(sparseChunks, KeyOfPlace(q)) = KeysFrom(sparseChunks, k) \ {k}
      /\ NoneFrom(sparseChunks, p[1], p[2] + 1) => KeysFrom(sparseChunks, k) \ {k} = {}
  <2>1. PICK i, o : i = p[1] /\ o = p[2]
    OBVIOUS
  <2>2. i \in Nat /\ o \in ChunkPlaces /\ k = KeyAt(i, o)
    BY <1>1, <1>4, <2>1 DEF InAChunk, IsChunked, KeyOfPlace
  <2>3. /\ FirstFrom(sparseChunks, i, o + 1, q)
           => KeysFrom(sparseChunks, KeyOfPlace(q)) = KeysFrom(sparseChunks, KeyAt(i, o)) \ {KeyAt(i, o)}
        /\ NoneFrom(sparseChunks, i, o + 1) => KeysFrom(sparseChunks, KeyAt(i, o)) \ {KeyAt(i, o)} = {}
    BY <1>4, <2>2, WalkGoesOn
  <2> QED
    BY <2>1, <2>2, <2>3
<1>7. CASE FirstFrom(sparseChunks, p[1], p[2] + 1, q)
  <2>1. q \in SetPlaces(sparseChunks)
    BY <1>7 DEF FirstFrom
  <2>2. InAChunk(sparseChunks, q) /\ q[2] \in sparseChunks[q[1]].bits \cup {0}
    BY <1>4, <2>1, SetPlacesAreInChunks
  <2>3. SparseLeft' = KeysFrom(sparseChunks, KeyOfPlace(q))
    BY <1>2, <1>3, <1>4, <2>2, SparseLeftIs
  <2> QED
    BY <1>2, <1>3, <1>4, <1>5, <1>6, <1>7, <2>2, <2>3 DEF SparseInv
<1>8. CASE NoneFrom(sparseChunks, p[1], p[2] + 1) /\ q = Sparse!Past
  <2>1. Sparse!AtEnd'
    BY <1>3, <1>8 DEF Sparse!AtEnd, Sparse!Past
  <2> QED
    BY <1>2, <1>4, <1>5, <1>6, <1>8, <2>1, SparseLeftIs DEF SparseInv
<1> QED
  BY <1>3, <1>7, <1>8, SparseFinds

(* next returns a key, or the start of the first chunk, which is no key    *)
(* but where the sparse bitmap may show one.                               *)
LEMMA SparseGoesOn ==
  ASSUME SparseInv, Sparse!Yield
  PROVE  /\ SparseInv'
         /\ \/ \E k \in Keys : Sparse!Map!Yield(k)
            \/ \E k \in {Sparse!hi(x) * ChunkSize : x \in Keys} : Sparse!Map!YieldExtra(k)
<1>1. PICK p, k : p = sparseIt /\ k = KeyOfPlace(p)
  OBVIOUS
<1>2. /\ sparseChunks' = sparseChunks
      /\ sparseLast' = <<"next", p[1] * ChunkSize + p[2], sparseChunks[p[1]].vals[p[2]]>>
  BY <1>1 DEF Sparse!Yield
<1>3. /\ IsChunked(sparseChunks) /\ InAChunk(sparseChunks, p)
      /\ p[2] \in sparseChunks[p[1]].bits \cup {0}
      /\ DOMAIN sparseChunks \subseteq {ChunkOf(x) : x \in Keys}
  BY <1>1 DEF SparseInv, Sparse!Yield
<1>4. SparseInv' /\ SparseLeft' = SparseLeft \ {k}
  BY <1>1, SparseWalkGoesOn
<1>5. SparseMap' = SparseMap /\ SparseMap = MapIn(sparseChunks) /\ DOMAIN SparseMap = KeysIn(sparseChunks)
  BY <1>2, <1>3, SparseNames, SparseStandsFor DEF SparseMap
<1>6. /\ k = p[1] * ChunkSize + p[2] /\ k \in Nat
      /\ p[1] \in DOMAIN sparseChunks /\ p[1] \in Nat /\ p[2] \in ChunkPlaces
      /\ ChunkOf(k) = p[1] /\ PlaceIn(k) = p[2]
  <2>1. p[1] \in DOMAIN sparseChunks /\ p[1] \in Nat /\ p[2] \in ChunkPlaces
    BY <1>3 DEF InAChunk, IsChunked
  <2>2. k = KeyAt(p[1], p[2])
    BY <1>1 DEF KeyOfPlace
  <2> QED
    BY <2>1, <2>2, PlaceHasKey DEF KeyAt
<1>7. k \in KeysIn(sparseChunks) <=> p[2] \in sparseChunks[p[1]].bits
  BY <1>6 DEF KeysIn
<1>8. SparseLeft = KeysFrom(sparseChunks, k)
  BY <1>1, <1>3, SparseLeftIs
<1>9. CASE k \in KeysIn(sparseChunks)
  <2>1. sparseLast' = <<"next", k, SparseMap[k]>>
    <3>1. SparseMap[k] = sparseChunks[p[1]].vals[p[2]]
      BY <1>5, <1>6, <1>9 DEF MapIn, ValueIn
    <3> QED
      BY <1>2, <1>6, <3>1
  <2>2. k \in SparseLeft /\ k \in Keys
    BY <1>3, <1>6, <1>8, <1>9 DEF KeysFrom, IsChunked
  <2>3. Sparse!Map!Yield(k)
    BY <1>4, <1>5, <2>1, <2>2 DEF Sparse!Map!Yield, SparseMap, SparseLeft
  <2> QED
    BY <1>4, <2>2, <2>3
<1>10. CASE k \notin KeysIn(sparseChunks)
  <2>1. p[2] = 0
    BY <1>3, <1>7, <1>10
  <2>2. k \in {Sparse!hi(x) * ChunkSize : x \in Keys}
    <3>1. PICK x \in Keys : ChunkOf(x) = p[1]
      BY <1>3, <1>6
    <3>2. Sparse!hi(x) = p[1]
      BY <3>1, SparseNames
    <3>3. k = p[1] * ChunkSize
      <4>1. p[1] * ChunkSize \in Nat
        BY <1>6, ChunksAssumption
      <4> QED
        BY <1>6, <2>1, <4>1
    <3> QED
      BY <3>2, <3>3
  <2>3. SparseLeft' = SparseLeft
    BY <1>4, <1>8, <1>10 DEF KeysFrom
  <2>4. sparseChunks[p[1]].vals[p[2]] \in Vals
    BY <1>3, <1>6 DEF IsChunked, Chunks
  <2>5. \E v \in Vals : sparseLast' = <<"next", k, v>>
    BY <1>2, <1>6, <2>4
  <2>6. Sparse!Map!YieldExtra(k)
    BY <1>5, <1>10, <2>2, <2>3, <2>5 DEF Sparse!Map!YieldExtra, SparseMap, SparseLeft
  <2> QED
    BY <1>4, <2>2, <2>6
<1> QED
  BY <1>9, <1>10

LEMMA SparseEnds ==
  ASSUME SparseInv, Sparse!End
  PROVE  SparseInv' /\ Sparse!Map!End
<1>1. Sparse!AtEnd /\ sparseLast' = <<"end">> /\ sparseChunks' = sparseChunks /\ sparseIt' = sparseIt
  BY DEF Sparse!End
<1>2. SparseLeft = {}
  BY <1>1, SparseLeftIs
<1>3. SparseInv' /\ SparseMap' = SparseMap /\ SparseLeft' = SparseLeft
  BY <1>1, SparseStays
<1> QED
  BY <1>1, <1>2, <1>3 DEF Sparse!Map!End, SparseMap, SparseLeft

(* Each step keeps the invariant and is the map's step of the same name.   *)
LEMMA SparseStepsAreTheMaps ==
  SparseInv /\ [Sparse!Next]_sparseVars => SparseInv' /\ [Sparse!Map!Next]_<<SparseMap, SparseLeft, sparseLast>>
<1> SUFFICES ASSUME SparseInv, [Sparse!Next]_sparseVars
             PROVE  SparseInv' /\ [Sparse!Map!Next]_<<SparseMap, SparseLeft, sparseLast>>
  OBVIOUS
<1>1. ASSUME NEW k \in Keys, Sparse!Insert(k) \/ Sparse!Remove(k) \/ Sparse!Read(k) \/ Sparse!Has(k)
      PROVE  SparseInv' /\ Sparse!Map!Next
  <2>1. /\ SparseInv'
        /\ Sparse!Map!Insert(k) \/ Sparse!Map!Remove(k) \/ Sparse!Map!Read(k) \/ Sparse!Map!Has(k)
    BY <1>1, SparseInserts, SparseRemoves, SparseReads
  <2> QED
    BY <2>1 DEF Sparse!Map!Next
<1>2. ASSUME NEW k \in Keys, NEW v \in Vals, Sparse!InsertValue(k, v) \/ Sparse!Write(k, v)
      PROVE  SparseInv' /\ Sparse!Map!Next
  <2>1. SparseInv' /\ (Sparse!Map!InsertValue(k, v) \/ Sparse!Map!Write(k, v))
    BY <1>2, SparseInsertsValues, SparseWrites
  <2> QED
    BY <2>1 DEF Sparse!Map!Next
<1>3. ASSUME Sparse!Clear \/ Sparse!Size \/ Sparse!Begin \/ Sparse!End
      PROVE  SparseInv' /\ Sparse!Map!Next
  <2>1. SparseInv' /\ (Sparse!Map!Clear \/ Sparse!Map!Size \/ Sparse!Map!Begin \/ Sparse!Map!End)
    BY <1>3, SparseClears, SparseCounts, SparseBegins, SparseEnds
  <2> QED
    BY <2>1 DEF Sparse!Map!Next
<1>4. ASSUME Sparse!Yield
      PROVE  SparseInv' /\ Sparse!Map!Next
  <2>1. /\ SparseInv'
        /\ \/ \E k \in Keys : Sparse!Map!Yield(k)
           \/ \E k \in {Sparse!hi(x) * ChunkSize : x \in Keys} : Sparse!Map!YieldExtra(k)
    BY <1>4, SparseGoesOn
  <2> QED
    BY <2>1 DEF Sparse!Map!Next
<1>5. ASSUME UNCHANGED sparseVars
      PROVE  SparseInv' /\ UNCHANGED <<SparseMap, SparseLeft, sparseLast>>
  BY <1>5, SparseStays DEF sparseVars
<1> QED
  BY <1>1, <1>2, <1>3, <1>4, <1>5 DEF Sparse!Next

LEMMA SparseStarts ==
  Sparse!Init => SparseInv /\ Sparse!Map!Init
<1> SUFFICES ASSUME Sparse!Init PROVE SparseInv /\ Sparse!Map!Init
  OBVIOUS
<1>1. sparseChunks = [i \in {} |-> FreshChunk] /\ sparseIt = Sparse!Past /\ sparseLast = <<"new">>
  BY SparseNames DEF Sparse!Init, Sparse!NoChunks
<1>2. IsChunked(sparseChunks) /\ MapIn(sparseChunks) = [k \in {} |-> 0]
  BY <1>1, NoChunksNoKeys
<1>3. DOMAIN sparseChunks = {}
  BY <1>1
<1>4. Sparse!AtEnd
  BY <1>1 DEF Sparse!AtEnd
<1>5. SparseInv
  BY <1>2, <1>3, <1>4 DEF SparseInv
<1>6. SparseMap = [k \in {} |-> 0] /\ SparseLeft = {}
  BY <1>2, <1>4, SparseStandsFor, SparseLeftIs
<1> QED
  BY <1>1, <1>5, <1>6 DEF Sparse!Map!Init, SparseMap, SparseLeft

(* The sparse bitmap is a map, but for the start of a chunk that its fold  *)
(* may see: a key that was never there may make a chunk, and is still none *)
(* of the map.                                                             *)
THEOREM SparseBitmapsAreMaps == CSpec => SparseIsAMapButFolds
<1>1. CInit => SparseInv /\ Sparse!Map!Init
  BY SparseStarts DEF CInit
<1>2. SparseInv /\ [CNext]_Everything
      => SparseInv' /\ [Sparse!Map!Next]_<<SparseMap, SparseLeft, sparseLast>>
  <2>1. [CNext]_Everything => [Sparse!Next]_sparseVars
    BY DEF CNext, Everything
  <2> QED
    BY <2>1, SparseStepsAreTheMaps
<1> QED
  BY <1>1, <1>2, PTL
  DEF CSpec, Everything, SparseIsAMapButFolds, Sparse!IsAMapButFolds, Sparse!Map!Spec, SparseMap, SparseLeft

-----------------------------------------------------------------------------
(* The libraries' maps and sets                                            *)

(* What is ahead on a walk: each of these keys once.                       *)
KeysAhead(walk) == {walk[i] : i \in DOMAIN walk}

EachOnce(walk) == \A i, j \in DOMAIN walk : walk[i] = walk[j] => i = j

(* A step along a walk hands out its first key, which is not ahead again.  *)
LEMMA WalksGoOn ==
  ASSUME NEW S, NEW walk \in Seq(S), walk # <<>>, EachOnce(walk)
  PROVE  /\ Head(walk) \in S /\ Head(walk) \in KeysAhead(walk)
         /\ Tail(walk) \in Seq(S) /\ EachOnce(Tail(walk))
         /\ KeysAhead(Tail(walk)) = KeysAhead(walk) \ {Head(walk)}
<1>1. /\ Len(walk) \in Nat \ {0} /\ DOMAIN walk = 1 .. Len(walk)
      /\ Head(walk) = walk[1] /\ walk[1] \in S /\ 1 \in DOMAIN walk
  OBVIOUS
<1>2. /\ Tail(walk) \in Seq(S) /\ DOMAIN Tail(walk) = 1 .. Len(walk) - 1
      /\ \A i \in DOMAIN Tail(walk) : Tail(walk)[i] = walk[i + 1] /\ i + 1 \in DOMAIN walk
  BY <1>1
<1>3. EachOnce(Tail(walk))
  <2> SUFFICES ASSUME NEW i \in DOMAIN Tail(walk), NEW j \in DOMAIN Tail(walk),
                      Tail(walk)[i] = Tail(walk)[j]
               PROVE  i = j
    BY DEF EachOnce
  <2>1. i + 1 = j + 1
    BY <1>2 DEF EachOnce
  <2> QED
    BY <1>1, <1>2, <2>1
<1>4. ASSUME NEW k \in KeysAhead(Tail(walk)) PROVE k \in KeysAhead(walk) /\ k # Head(walk)
  <2>1. PICK i \in DOMAIN Tail(walk) : k = Tail(walk)[i]
    BY DEF KeysAhead
  <2>2. k = walk[i + 1] /\ i + 1 \in DOMAIN walk /\ i + 1 # 1
    BY <1>1, <1>2, <2>1
  <2> QED
    BY <1>1, <2>2 DEF KeysAhead, EachOnce
<1>5. ASSUME NEW k \in KeysAhead(walk), k # Head(walk) PROVE k \in KeysAhead(Tail(walk))
  <2>1. PICK i \in DOMAIN walk : k = walk[i]
    BY DEF KeysAhead
  <2>2. i - 1 \in DOMAIN Tail(walk) /\ (i - 1) + 1 = i
    BY <1>1, <1>2, <1>5, <2>1
  <2> QED
    BY <1>2, <2>1, <2>2 DEF KeysAhead
<1> QED
  BY <1>1, <1>2, <1>3, <1>4, <1>5 DEF KeysAhead

LEMMA NothingAhead ==
  /\ KeysAhead(<<>>) = {} /\ EachOnce(<<>>)
  /\ \A S : <<>> \in Seq(S)
BY DEF KeysAhead, EachOnce

(* A walk through a set is along that set.                                 *)
LEMMA WalksAreAlong ==
  ASSUME NEW S, NEW n, NEW walk \in [1 .. n -> S], n \in Nat
  PROVE  walk \in Seq(S)
OBVIOUS

LEMMA MapNames ==
  /\ \A w : LibMap!Seen(w) = KeysAhead(w) /\ (LibMap!SeesOnce(w) <=> EachOnce(w))
  /\ \A w : LibSet!Seen(w) = KeysAhead(w) /\ (LibSet!SeesOnce(w) <=> EachOnce(w))
BY DEF LibMap!Seen, LibMap!SeesOnce, LibSet!Seen, LibSet!SeesOnce, KeysAhead, EachOnce

(* The inductive invariant: there are as many keys as a walk can count.    *)
MapInv == LibMap!WalkOK /\ IsFiniteSet(DOMAIN mapEntries)

(* A step adds a key at most.                                              *)
LEMMA MapStaysFinite ==
  ASSUME IsFiniteSet(DOMAIN mapEntries), [LibMap!Next]_mapVars
  PROVE  IsFiniteSet(DOMAIN mapEntries')
<1>1. \A k, v : DOMAIN LibMap!Assigned(k, v) = DOMAIN mapEntries \cup {k}
  BY DEF LibMap!Assigned
<1>2. \A k, v : DOMAIN LibMap!Emplaced(k, v) \subseteq DOMAIN mapEntries \cup {k}
  BY <1>1 DEF LibMap!Emplaced
<1>3. ASSUME LibMap!Common
      PROVE  DOMAIN mapEntries' \subseteq DOMAIN mapEntries
  BY <1>3
  DEF LibMap!Common, LibMap!Remove, LibMap!Read, LibMap!Has, LibMap!Write, LibMap!Clear, LibMap!Size,
      LibMap!Begin, LibMap!Yield, LibMap!End, LibMap!Becomes, LibMap!Returns
<1>4. ASSUME NEW k, NEW v, LibMap!Insert(k) \/ LibMap!Overwrite(k, v) \/ LibMap!Emplace(k, v)
      PROVE  DOMAIN mapEntries' \subseteq DOMAIN mapEntries \cup {k}
  <2>1. \E z : mapEntries' = LibMap!Emplaced(k, z) \/ mapEntries' = LibMap!Assigned(k, z)
    BY <1>4 DEF LibMap!Insert, LibMap!Overwrite, LibMap!Emplace, LibMap!Becomes
  <2> QED
    BY <1>1, <1>2, <2>1
<1>5. \E k : DOMAIN mapEntries' \subseteq DOMAIN mapEntries \cup {k}
  <2>1. CASE LibMap!Next
    BY <1>3, <1>4, <2>1 DEF LibMap!Next, LibMap!UnorderedMap, LibMap!FlatHashMap, LibMap!FlatMap
  <2>2. CASE UNCHANGED mapVars
    BY <2>2 DEF mapVars
  <2> QED
    BY <2>1, <2>2
<1> QED
  BY <1>5, FS_AddElement, FS_Subset

(* What an insertion makes of the library's map.                           *)
LEMMA InsertedEntries ==
  ASSUME LibMap!WalkOK, NEW k \in Keys, NEW v \in Vals
  PROVE  /\ LibMap!Assigned(k, v) = LibMap!Map!Put(k, v)
         /\ LibMap!Emplaced(k, v) = IF k \in DOMAIN mapEntries THEN mapEntries ELSE LibMap!Map!Put(k, v)
         /\ DOMAIN LibMap!Assigned(k, v) \subseteq Keys
         /\ \A x \in DOMAIN LibMap!Assigned(k, v) : LibMap!Assigned(k, v)[x] \in Vals
         /\ LibMap!Assigned(k, v)[k] = v
BY DEF LibMap!Assigned, LibMap!Emplaced, LibMap!Map!Put, LibMap!WalkOK

(* The map becomes another one: the walk is over.                          *)
LEMMA MapChanged ==
  ASSUME LibMap!WalkOK, NEW op, NEW m, LibMap!Becomes(m, op),
         DOMAIN m \subseteq Keys, \A x \in DOMAIN m : m[x] \in Vals
  PROVE  /\ LibMap!WalkOK'
         /\ mapEntries' = m /\ KeysAhead(mapAhead') = {} /\ mapLast' = op /\ mapImpl' = mapImpl
<1>1. mapEntries' = m /\ mapAhead' = <<>> /\ mapLast' = op /\ mapImpl' = mapImpl
  BY DEF LibMap!Becomes
<1>2. mapAhead' \in Seq(DOMAIN mapEntries') /\ LibMap!SeesOnce(mapAhead') /\ KeysAhead(mapAhead') = {}
  BY <1>1, NothingAhead, MapNames
<1> QED
  BY <1>1, <1>2 DEF LibMap!WalkOK

(* The program's operations on the map, whichever is selected.             *)
LEMMA CommonMapSteps ==
  ASSUME MapInv, LibMap!Common
  PROVE  LibMap!WalkOK' /\ LibMap!Map!Next /\ mapLast'[1] # "insert_value"
<1>0. /\ \A w : LibMap!Seen(w) = KeysAhead(w)
      /\ DOMAIN mapEntries \subseteq Keys /\ \A k \in DOMAIN mapEntries : mapEntries[k] \in Vals
      /\ mapAhead \in Seq(DOMAIN mapEntries) /\ EachOnce(mapAhead)
      /\ mapImpl \in LibMap!Implementations
      /\ LibMap!WalkOK /\ IsFiniteSet(DOMAIN mapEntries)
  BY MapNames DEF MapInv, LibMap!WalkOK
<1>1. ASSUME NEW k \in Keys, LibMap!Remove(k)
      PROVE  LibMap!WalkOK' /\ LibMap!Map!Remove(k) /\ mapLast'[1] # "insert_value"
  <2> DEFINE m == [x \in DOMAIN mapEntries \ {k} |-> mapEntries[x]]
  <2>1. LibMap!Becomes(m, <<"remove", k>>) /\ LibMap!WalkOK
    BY <1>0, <1>1 DEF LibMap!Remove
  <2>2. DOMAIN m \subseteq Keys /\ \A x \in DOMAIN m : m[x] \in Vals
    BY <1>0
  <2> HIDE DEF m
  <2>3. LibMap!WalkOK' /\ mapEntries' = m /\ KeysAhead(mapAhead') = {} /\ mapLast' = <<"remove", k>>
    BY <1>0, <2>1, <2>2, MapChanged
  <2> QED
    BY <1>0, <2>3 DEF m, LibMap!Map!Remove, LibMap!Map!Changed
<1>2. ASSUME LibMap!Clear
      PROVE  LibMap!WalkOK' /\ LibMap!Map!Clear /\ mapLast'[1] # "insert_value"
  <2> DEFINE m == [k \in {} |-> Zero]
  <2>1. LibMap!Becomes(m, <<"clear">>)
    BY <1>2 DEF LibMap!Clear
  <2>2. DOMAIN m \subseteq Keys /\ (\A x \in DOMAIN m : m[x] \in Vals) /\ m = [k \in {} |-> 0]
    OBVIOUS
  <2> HIDE DEF m
  <2>3. LibMap!WalkOK' /\ mapEntries' = m /\ KeysAhead(mapAhead') = {} /\ mapLast' = <<"clear">>
    BY <1>0, <2>1, <2>2, MapChanged
  <2> QED
    BY <1>0, <2>2, <2>3 DEF LibMap!Map!Clear, LibMap!Map!Changed
<1>3. ASSUME NEW k \in Keys, NEW v \in Vals, LibMap!Write(k, v)
      PROVE  LibMap!WalkOK' /\ LibMap!Map!Write(k, v) /\ mapLast'[1] # "insert_value"
  <2>1. /\ k \in DOMAIN mapEntries /\ mapEntries' = [mapEntries EXCEPT ![k] = v]
        /\ mapLast' = <<"write", k, v>> /\ mapImpl' = mapImpl /\ mapAhead' = mapAhead
    BY <1>3 DEF LibMap!Write
  <2>2. DOMAIN mapEntries' = DOMAIN mapEntries /\ \A x \in DOMAIN mapEntries' : mapEntries'[x] \in Vals
    BY <1>0, <2>1
  <2>3. LibMap!WalkOK'
    BY <1>0, <2>1, <2>2, MapNames DEF LibMap!WalkOK
  <2> QED
    BY <1>0, <2>1, <2>3 DEF LibMap!Map!Write
<1>4. ASSUME mapEntries' = mapEntries, mapAhead' = mapAhead, mapImpl' = mapImpl
      PROVE  LibMap!WalkOK' /\ KeysAhead(mapAhead') = KeysAhead(mapAhead)
  BY <1>0, <1>4, MapNames DEF LibMap!WalkOK
<1>5. ASSUME NEW k \in Keys, LibMap!Read(k) \/ LibMap!Has(k)
      PROVE  /\ LibMap!WalkOK' /\ mapLast'[1] # "insert_value"
             /\ LibMap!Map!Read(k) \/ LibMap!Map!Has(k)
  BY <1>0, <1>4, <1>5 DEF LibMap!Read, LibMap!Has, LibMap!Returns, LibMap!Map!Read, LibMap!Map!Has
<1>6. ASSUME LibMap!Size
      PROVE  LibMap!WalkOK' /\ LibMap!Map!Size /\ mapLast'[1] # "insert_value"
  BY <1>0, <1>4, <1>6
  DEF LibMap!Size, LibMap!Returns, LibMap!Map!Size, LibMap!Cardinality, LibMap!Map!Cardinality
<1>7. ASSUME LibMap!End
      PROVE  LibMap!WalkOK' /\ LibMap!Map!End /\ mapLast'[1] # "insert_value"
  BY <1>0, <1>4, <1>7, NothingAhead DEF LibMap!End, LibMap!Returns, LibMap!Map!End
<1>8. ASSUME LibMap!Begin
      PROVE  LibMap!WalkOK' /\ LibMap!Map!Begin /\ mapLast'[1] # "insert_value"
  <2>1. /\ mapAhead' \in LibMap!Walks /\ mapLast' = <<"begin">>
        /\ mapImpl' = mapImpl /\ mapEntries' = mapEntries
    BY <1>8 DEF LibMap!Begin
  <2>2. /\ mapAhead' \in [1 .. LibMap!Cardinality(DOMAIN mapEntries) -> DOMAIN mapEntries]
        /\ EachOnce(mapAhead') /\ KeysAhead(mapAhead') = DOMAIN mapEntries
    BY <2>1, MapNames DEF LibMap!Walks, LibMap!WalksOf
  <2>3. mapAhead' \in Seq(DOMAIN mapEntries')
    <3>1. LibMap!Cardinality(DOMAIN mapEntries) \in Nat
      BY <1>0, FS_CardinalityType DEF LibMap!Cardinality, Cardinality
    <3>2. mapAhead' \in Seq(DOMAIN mapEntries)
      BY <2>2, <3>1, WalksAreAlong
    <3> QED
      BY <2>1, <3>2
  <2>4. LibMap!WalkOK'
    BY <1>0, <2>1, <2>2, <2>3, MapNames DEF LibMap!WalkOK
  <2> QED
    BY <1>0, <2>1, <2>2, <2>4 DEF LibMap!Map!Begin
<1>9. ASSUME LibMap!Yield
      PROVE  /\ LibMap!WalkOK' /\ mapLast'[1] # "insert_value"
             /\ \E k \in Keys : LibMap!Map!Yield(k)
  <2>1. PICK k : k = Head(mapAhead)
    OBVIOUS
  <2>2. /\ mapAhead # <<>> /\ mapLast' = <<"next", k, mapEntries[k]>> /\ mapAhead' = Tail(mapAhead)
        /\ mapImpl' = mapImpl /\ mapEntries' = mapEntries
    BY <1>9, <2>1 DEF LibMap!Yield, LibMap!Stepped
  <2>3. /\ k \in DOMAIN mapEntries /\ k \in KeysAhead(mapAhead)
        /\ mapAhead' \in Seq(DOMAIN mapEntries) /\ EachOnce(mapAhead')
        /\ KeysAhead(mapAhead') = KeysAhead(mapAhead) \ {k}
    BY <1>0, <2>1, <2>2, WalksGoOn
  <2>4. LibMap!WalkOK'
    BY <1>0, <2>2, <2>3, MapNames DEF LibMap!WalkOK
  <2>5. LibMap!Map!Yield(k)
    BY <1>0, <2>2, <2>3 DEF LibMap!Map!Yield
  <2> QED
    BY <1>0, <2>2, <2>3, <2>4, <2>5
<1> QED
  BY <1>1, <1>2, <1>3, <1>5, <1>6, <1>7, <1>8, <1>9 DEF LibMap!Common, LibMap!Map!Next

(* Each step keeps the walk in order, is the map's step of the same name   *)
(* and overwrites where the selected map does.                             *)
LEMMA MapStepsAreTheMaps ==
  MapInv /\ [LibMap!Next]_mapVars
    => /\ MapInv'
       /\ [LibMap!Map!Next]_<<mapEntries, LibMap!Seen(mapAhead), mapLast>>
       /\ [\A k \in Keys, v \in Vals :
             mapImpl = "stl_unordered_map" /\ mapLast' = <<"insert_value", k, v>> => mapEntries'[k] = v]_mapVars
<1> DEFINE Writes ==
      \A k \in Keys, v \in Vals :
        mapImpl = "stl_unordered_map" /\ mapLast' = <<"insert_value", k, v>> => mapEntries'[k] = v
<1> SUFFICES ASSUME MapInv, [LibMap!Next]_mapVars
             PROVE  /\ LibMap!WalkOK'
                    /\ [LibMap!Map!Next]_<<mapEntries, LibMap!Seen(mapAhead), mapLast>>
                    /\ [Writes]_mapVars
  BY MapStaysFinite DEF MapInv
<1>0. LibMap!WalkOK /\ \A w : LibMap!Seen(w) = KeysAhead(w)
  BY MapNames DEF MapInv
<1>1. CASE UNCHANGED mapVars
  <2>1. mapEntries' = mapEntries /\ mapAhead' = mapAhead /\ mapImpl' = mapImpl /\ mapLast' = mapLast
    BY <1>1 DEF mapVars
  <2>2. LibMap!WalkOK'
    BY <1>0, <2>1, MapNames DEF LibMap!WalkOK
  <2> QED
    BY <1>0, <1>1, <2>1, <2>2
<1>2. CASE LibMap!Common
  BY <1>2, CommonMapSteps
<1>3. ASSUME NEW k \in Keys, LibMap!Insert(k)
      PROVE  LibMap!WalkOK' /\ LibMap!Map!Next /\ Writes
  <2>1. Zero \in Vals
    BY KeysAssumption
  <2>2. LibMap!Becomes(LibMap!Emplaced(k, Zero), <<"insert", k>>)
    BY <1>3 DEF LibMap!Insert
  <2>3. PICK m : m = LibMap!Emplaced(k, Zero)
    OBVIOUS
  <2>4. DOMAIN m \subseteq Keys /\ \A x \in DOMAIN m : m[x] \in Vals
    BY <1>0, <2>1, <2>3, InsertedEntries DEF LibMap!Emplaced, LibMap!WalkOK
  <2>5. LibMap!WalkOK' /\ mapEntries' = m /\ KeysAhead(mapAhead') = {} /\ mapLast' = <<"insert", k>>
    BY <1>0, <2>2, <2>3, <2>4, MapChanged
  <2>6. LibMap!Map!Insert(k)
    BY <1>0, <2>1, <2>3, <2>5, InsertedEntries DEF LibMap!Map!Insert, LibMap!Map!Changed
  <2> QED
    BY <2>5, <2>6 DEF LibMap!Map!Next
<1>4. ASSUME NEW k \in Keys, NEW v \in Vals, LibMap!Overwrite(k, v)
      PROVE  LibMap!WalkOK' /\ LibMap!Map!Next /\ Writes
  <2>1. LibMap!Becomes(LibMap!Assigned(k, v), <<"insert_value", k, v>>)
    BY <1>4 DEF LibMap!Overwrite
  <2>2. PICK m : m = LibMap!Assigned(k, v)
    OBVIOUS
  <2>3. (DOMAIN m \subseteq Keys /\ \A x \in DOMAIN m : m[x] \in Vals) /\ m[k] = v
    BY <1>0, <2>2, InsertedEntries
  <2>4. LibMap!WalkOK' /\ mapEntries' = m /\ KeysAhead(mapAhead') = {} /\ mapLast' = <<"insert_value", k, v>>
    BY <1>0, <2>1, <2>2, <2>3, MapChanged
  <2>5. LibMap!Map!InsertValue(k, v)
    BY <1>0, <2>2, <2>4, InsertedEntries DEF LibMap!Map!InsertValue, LibMap!Map!Changed
  <2> QED
    BY <2>3, <2>4, <2>5 DEF LibMap!Map!Next
<1>5. ASSUME NEW k \in Keys, NEW v \in Vals, LibMap!Emplace(k, v), mapImpl # "stl_unordered_map"
      PROVE  LibMap!WalkOK' /\ LibMap!Map!Next /\ Writes
  <2>1. LibMap!Becomes(LibMap!Emplaced(k, v), <<"insert_value", k, v>>)
    BY <1>5 DEF LibMap!Emplace
  <2>2. PICK m : m = LibMap!Emplaced(k, v)
    OBVIOUS
  <2>3. DOMAIN m \subseteq Keys /\ \A x \in DOMAIN m : m[x] \in Vals
    BY <1>0, <2>2, InsertedEntries DEF LibMap!Emplaced, LibMap!WalkOK
  <2>4. LibMap!WalkOK' /\ mapEntries' = m /\ KeysAhead(mapAhead') = {} /\ mapLast' = <<"insert_value", k, v>>
    BY <1>0, <2>1, <2>2, <2>3, MapChanged
  <2>5. LibMap!Map!InsertValue(k, v)
    BY <1>0, <2>2, <2>4, InsertedEntries DEF LibMap!Map!InsertValue, LibMap!Map!Changed
  <2> QED
    BY <1>5, <2>4, <2>5 DEF LibMap!Map!Next
<1> QED
  BY <1>1, <1>2, <1>3, <1>4, <1>5
  DEF LibMap!Next, LibMap!UnorderedMap, LibMap!FlatHashMap, LibMap!FlatMap

(* A Roaring bitmap tells the keys it is selected for apart.               *)
LEMMA RoaringKeepsKeys ==
  \A k \in LibraryKeys : LibSet!Key(k) = k
<1> SUFFICES ASSUME NEW k \in LibraryKeys PROVE k % RoaringKeys = k
  BY DEF LibSet!Key
<1>1. RoaringKeys \in Nat /\ k \in Nat /\ k < RoaringKeys
  BY RoaringAssumption
<1> QED
  BY <1>1

(* The inductive invariant for the libraries' sets.                        *)
SetInv ==
  /\ LibSet!WalkOK
  /\ \A s \in Sets : IsFiniteSet(libKeys[s])
  /\ libKeys = [s \in Sets |-> libKeys[s]]
  /\ libIter = [set |-> libIter.set, ahead |-> libIter.ahead] /\ libIter.set \in Sets

(* A set of the program becomes another one: a walk along it is over, one  *)
(* along another set goes on.                                              *)
LEMMA SetChanged ==
  ASSUME SetInv, NEW s \in Sets, NEW new, NEW op, LibSet!Becomes(s, new, op),
         new \subseteq LibraryKeys, IsFiniteSet(new)
  PROVE  SetInv' /\ LibSet!AsSets!Becomes(s, new, op)
<1>1. /\ libKeys' = [libKeys EXCEPT ![s] = new] /\ libLast' = op /\ libImpl' = libImpl
      /\ libIter' = IF libIter.set = s THEN [libIter EXCEPT !.ahead = <<>>] ELSE libIter
  BY DEF LibSet!Becomes
<1>2. /\ \A t \in Sets : libKeys'[t] = IF t = s THEN new ELSE libKeys[t]
      /\ libKeys' = [t \in Sets |-> libKeys'[t]]
  BY <1>1 DEF SetInv
<1>3. /\ libIter' = [set |-> libIter'.set, ahead |-> libIter'.ahead] /\ libIter'.set = libIter.set
      /\ libIter'.ahead = IF libIter.set = s THEN <<>> ELSE libIter.ahead
  <2>1. CASE libIter.set = s
    BY <1>1, <2>1 DEF SetInv
  <2>2. CASE libIter.set # s
    BY <1>1, <2>2 DEF SetInv
  <2> QED
    BY <2>1, <2>2
<1>4. libIter'.ahead \in Seq(libKeys'[libIter'.set]) /\ EachOnce(libIter'.ahead)
  <2>1. CASE libIter.set = s
    BY <1>3, <2>1, NothingAhead
  <2>2. CASE libIter.set # s
    BY <1>2, <1>3, <2>2, MapNames DEF SetInv, LibSet!WalkOK
  <2> QED
    BY <2>1, <2>2
<1>5. LibSet!WalkOK'
  BY <1>1, <1>2, <1>4, MapNames DEF SetInv, LibSet!WalkOK
<1>6. SetInv'
  BY <1>2, <1>3, <1>5 DEF SetInv
<1>7. KeysAhead(libIter'.ahead) = IF s = libIter.set THEN {} ELSE KeysAhead(libIter.ahead)
  BY <1>3, NothingAhead
<1> QED
  BY <1>1, <1>3, <1>6, <1>7, MapNames DEF LibSet!AsSets!Becomes

LEMMA SetStays ==
  ASSUME SetInv, libKeys' = libKeys, libIter' = libIter, libImpl' = libImpl
  PROVE  SetInv' /\ LibSet!Seen(libIter.ahead)' = LibSet!Seen(libIter.ahead)
BY MapNames DEF SetInv, LibSet!WalkOK

(* What changes a set.                                                     *)
LEMMA SetChanges ==
  ASSUME SetInv, NEW s \in Sets
  PROVE  /\ \A k \in LibraryKeys :
              (LibSet!Insert(s, k) => SetInv' /\ LibSet!AsSets!Insert(s, k))
              /\ (LibSet!Remove(s, k) => SetInv' /\ LibSet!AsSets!Remove(s, k))
         /\ LibSet!Clear(s) => SetInv' /\ LibSet!AsSets!Clear(s)
         /\ \A t \in Sets :
              (LibSet!Copy(s, t) => SetInv' /\ LibSet!AsSets!Copy(s, t))
              /\ (LibSet!InsertRange(s, t) \/ LibSet!Or(s, t)
                    => SetInv' /\ LibSet!AsSets!InsertInput(s, t))
<1>0. \A t \in Sets : libKeys[t] \subseteq LibraryKeys /\ IsFiniteSet(libKeys[t])
  BY DEF SetInv, LibSet!WalkOK
<1>1. ASSUME NEW k \in LibraryKeys, LibSet!Insert(s, k)
      PROVE  SetInv' /\ LibSet!AsSets!Insert(s, k)
  <2>1. LibSet!Becomes(s, libKeys[s] \cup {k}, <<"insert", s, k>>)
    BY <1>1, RoaringKeepsKeys DEF LibSet!Insert
  <2>2. libKeys[s] \cup {k} \subseteq LibraryKeys /\ IsFiniteSet(libKeys[s] \cup {k})
    BY <1>0, FS_AddElement
  <2> QED
    BY <2>1, <2>2, SetChanged DEF LibSet!AsSets!Insert
<1>2. ASSUME NEW k \in LibraryKeys, LibSet!Remove(s, k)
      PROVE  SetInv' /\ LibSet!AsSets!Remove(s, k)
  <2>1. LibSet!Becomes(s, libKeys[s] \ {k}, <<"remove", s, k>>)
    BY <1>2, RoaringKeepsKeys DEF LibSet!Remove
  <2>2. libKeys[s] \ {k} \subseteq LibraryKeys /\ IsFiniteSet(libKeys[s] \ {k})
    BY <1>0, FS_Subset
  <2> QED
    BY <2>1, <2>2, SetChanged DEF LibSet!AsSets!Remove
<1>3. ASSUME LibSet!Clear(s)
      PROVE  SetInv' /\ LibSet!AsSets!Clear(s)
  <2>1. IsFiniteSet({})
    BY FS_EmptySet
  <2>2. LibSet!Becomes(s, {}, <<"clear", s>>)
    BY <1>3 DEF LibSet!Clear
  <2> QED
    BY <2>1, <2>2, SetChanged DEF LibSet!AsSets!Clear
<1>4. ASSUME NEW t \in Sets, LibSet!Copy(s, t)
      PROVE  SetInv' /\ LibSet!AsSets!Copy(s, t)
  <2>1. LibSet!Becomes(t, libKeys[s], <<"copy", s, t>>)
    BY <1>4 DEF LibSet!Copy
  <2> QED
    BY <1>0, <2>1, SetChanged DEF LibSet!AsSets!Copy
<1>5. ASSUME NEW t \in Sets, LibSet!InsertRange(s, t) \/ LibSet!Or(s, t)
      PROVE  SetInv' /\ LibSet!AsSets!InsertInput(s, t)
  <2>1. LibSet!Becomes(s, libKeys[s] \cup libKeys[t], <<"insert_input", s, t>>)
    BY <1>5 DEF LibSet!InsertRange, LibSet!Or
  <2>2. libKeys[s] \cup libKeys[t] \subseteq LibraryKeys /\ IsFiniteSet(libKeys[s] \cup libKeys[t])
    BY <1>0, FS_Union
  <2> QED
    BY <2>1, <2>2, SetChanged DEF LibSet!AsSets!InsertInput
<1> QED
  BY <1>1, <1>2, <1>3, <1>4, <1>5

LEMMA SetBegins ==
  ASSUME SetInv, NEW s \in Sets, LibSet!Begin(s)
  PROVE  SetInv' /\ LibSet!AsSets!Begin(s)
<1>1. PICK walk \in LibSet!Walks(s) : libIter' = [set |-> s, ahead |-> walk]
  BY DEF LibSet!Begin
<1>2. libLast' = <<"begin", s>> /\ libImpl' = libImpl /\ libKeys' = libKeys
  BY DEF LibSet!Begin
<1>3. /\ walk \in [1 .. LibSet!Cardinality(libKeys[s]) -> libKeys[s]]
      /\ EachOnce(walk) /\ KeysAhead(walk) = libKeys[s]
  BY MapNames DEF LibSet!Walks, LibSet!WalksOf
<1>4. walk \in Seq(libKeys[s])
  <2>1. LibSet!Cardinality(libKeys[s]) \in Nat
    BY FS_CardinalityType DEF SetInv, LibSet!Cardinality, Cardinality
  <2> QED
    BY <1>3, <2>1, WalksAreAlong
<1>5. libIter'.set = s /\ libIter'.ahead = walk
  BY <1>1
<1>6. LibSet!WalkOK'
  BY <1>2, <1>3, <1>4, <1>5, MapNames DEF SetInv, LibSet!WalkOK
<1>7. SetInv'
  BY <1>1, <1>2, <1>5, <1>6 DEF SetInv
<1> QED
  BY <1>2, <1>3, <1>5, <1>7, MapNames DEF LibSet!AsSets!Begin

LEMMA SetGoesOn ==
  ASSUME SetInv, LibSet!Yield
  PROVE  SetInv' /\ \E k \in LibraryKeys : LibSet!AsSets!Yield(k)
<1>1. PICK walk, k : walk = libIter.ahead /\ k = Head(walk)
  OBVIOUS
<1>2. /\ walk # <<>> /\ libLast' = <<"next", k>> /\ libImpl' = libImpl /\ libKeys' = libKeys
      /\ libIter' = [libIter EXCEPT !.ahead = Tail(@)]
  BY <1>1 DEF LibSet!Yield
<1>3. libIter' = [set |-> libIter.set, ahead |-> Tail(walk)]
  BY <1>1, <1>2 DEF SetInv
<1>4. libIter'.set = libIter.set /\ libIter'.ahead = Tail(walk)
  BY <1>3
<1>5. walk \in Seq(libKeys[libIter.set]) /\ EachOnce(walk) /\ libKeys[libIter.set] \subseteq LibraryKeys
  BY <1>1, MapNames DEF SetInv, LibSet!WalkOK
<1>6. /\ k \in libKeys[libIter.set] /\ k \in KeysAhead(walk)
      /\ Tail(walk) \in Seq(libKeys[libIter.set]) /\ EachOnce(Tail(walk))
      /\ KeysAhead(Tail(walk)) = KeysAhead(walk) \ {k}
  BY <1>1, <1>2, <1>5, WalksGoOn
<1>7. LibSet!WalkOK'
  BY <1>2, <1>4, <1>6, MapNames DEF SetInv, LibSet!WalkOK
<1>8. SetInv'
  BY <1>2, <1>3, <1>4, <1>7 DEF SetInv
<1>9. LibSet!AsSets!Yield(k)
  BY <1>1, <1>2, <1>4, <1>6, MapNames DEF LibSet!AsSets!Yield
<1> QED
  BY <1>5, <1>6, <1>8, <1>9

(* Each step keeps the invariant and is the sets' step of the same name.   *)
LEMMA SetStepsAreTheSets ==
  SetInv /\ [LibSet!Next]_libVars
    => SetInv' /\ [LibSet!AsSets!Next]_<<libKeys, libIter.set, LibSet!Seen(libIter.ahead), libLast>>
<1> SUFFICES ASSUME SetInv, [LibSet!Next]_libVars
             PROVE  /\ SetInv'
                    /\ [LibSet!AsSets!Next]_<<libKeys, libIter.set, LibSet!Seen(libIter.ahead), libLast>>
  OBVIOUS
<1>1. CASE UNCHANGED libVars
  <2>1. libKeys' = libKeys /\ libIter' = libIter /\ libImpl' = libImpl /\ libLast' = libLast
    BY <1>1 DEF libVars
  <2> QED
    BY <2>1, SetStays
<1>2. ASSUME NEW s \in Sets, NEW k \in LibraryKeys, LibSet!Insert(s, k) \/ LibSet!Remove(s, k) \/ LibSet!Has(s, k)
      PROVE  SetInv' /\ LibSet!AsSets!Next
  <2>1. CASE LibSet!Has(s, k)
    <3>1. /\ libKeys' = libKeys /\ libIter' = libIter /\ libImpl' = libImpl
          /\ libLast' = <<"has", s, k, k \in libKeys[s]>>
      BY <2>1, RoaringKeepsKeys DEF LibSet!Has, LibSet!Returns
    <3>2. SetInv' /\ LibSet!AsSets!Has(s, k)
      BY <3>1, SetStays DEF LibSet!AsSets!Has
    <3> QED
      BY <3>2 DEF LibSet!AsSets!Next
  <2>2. CASE LibSet!Insert(s, k) \/ LibSet!Remove(s, k)
    <3>1. SetInv' /\ (LibSet!AsSets!Insert(s, k) \/ LibSet!AsSets!Remove(s, k))
      BY <2>2, SetChanges
    <3> QED
      BY <3>1 DEF LibSet!AsSets!Next
  <2> QED
    BY <1>2, <2>1, <2>2
<1>3. ASSUME NEW s \in Sets, NEW t \in Sets, LibSet!Copy(s, t) \/ LibSet!InsertRange(s, t) \/ LibSet!Or(s, t)
      PROVE  SetInv' /\ LibSet!AsSets!Next
  <2>1. SetInv' /\ (LibSet!AsSets!Copy(s, t) \/ LibSet!AsSets!InsertInput(s, t))
    BY <1>3, SetChanges
  <2> QED
    BY <2>1 DEF LibSet!AsSets!Next
<1>4. ASSUME NEW s \in Sets, LibSet!Clear(s) \/ LibSet!Size(s) \/ LibSet!Begin(s)
      PROVE  SetInv' /\ LibSet!AsSets!Next
  <2>1. CASE LibSet!Size(s)
    <3>1. SetInv' /\ LibSet!AsSets!Size(s)
      BY <2>1, SetStays
      DEF LibSet!Size, LibSet!Returns, LibSet!AsSets!Size, LibSet!Cardinality, LibSet!AsSets!Cardinality
    <3> QED
      BY <3>1 DEF LibSet!AsSets!Next
  <2>2. CASE LibSet!Clear(s) \/ LibSet!Begin(s)
    <3>1. SetInv' /\ (LibSet!AsSets!Clear(s) \/ LibSet!AsSets!Begin(s))
      BY <2>2, SetChanges, SetBegins
    <3> QED
      BY <3>1 DEF LibSet!AsSets!Next
  <2> QED
    BY <1>4, <2>1, <2>2
<1>5. ASSUME LibSet!Yield
      PROVE  SetInv' /\ LibSet!AsSets!Next
  <2>1. SetInv' /\ \E k \in LibraryKeys : LibSet!AsSets!Yield(k)
    BY <1>5, SetGoesOn
  <2> QED
    BY <2>1 DEF LibSet!AsSets!Next
<1>6. ASSUME LibSet!End
      PROVE  SetInv' /\ LibSet!AsSets!Next
  <2>1. /\ libIter.ahead = <<>> /\ libLast' = <<"end">>
        /\ libKeys' = libKeys /\ libIter' = libIter /\ libImpl' = libImpl
    BY <1>6 DEF LibSet!End, LibSet!Returns
  <2>2. LibSet!Seen(libIter.ahead) = {}
    BY <2>1, NothingAhead, MapNames
  <2>3. SetInv' /\ LibSet!AsSets!End
    BY <2>1, <2>2, SetStays DEF LibSet!AsSets!End
  <2> QED
    BY <2>3 DEF LibSet!AsSets!Next
<1>7. CASE LibSet!Common
  BY <1>2, <1>3, <1>4, <1>5, <1>6, <1>7 DEF LibSet!Common
<1> QED
  BY <1>1, <1>3, <1>7
  DEF LibSet!Next, LibSet!UnorderedSet, LibSet!FlatHashSet, LibSet!FlatSet, LibSet!SparseBitSet

LEMMA LibrariesStart ==
  LibMap!Init /\ LibSet!Init
    => /\ MapInv /\ LibMap!Map!Init
       /\ SetInv /\ LibSet!AsSets!Init
<1> SUFFICES ASSUME LibMap!Init, LibSet!Init
             PROVE  /\ MapInv /\ LibMap!Map!Init
                    /\ SetInv /\ LibSet!AsSets!Init
  OBVIOUS
<1>1. /\ mapImpl \in LibMap!Implementations /\ mapEntries = [k \in {} |-> Zero]
      /\ mapAhead = <<>> /\ mapLast = <<"new">>
  BY DEF LibMap!Init
<1>2. DOMAIN mapEntries = {} /\ mapEntries = [k \in {} |-> 0] /\ IsFiniteSet({})
  BY <1>1, FS_EmptySet
<1>3. MapInv /\ LibMap!Map!Init
  BY <1>1, <1>2, NothingAhead, MapNames DEF MapInv, LibMap!WalkOK, LibMap!Map!Init
<1>4. /\ libImpl \in LibSet!Implementations /\ libKeys = [s \in Sets |-> {}] /\ libLast = <<"new">>
      /\ libIter \in [set : Sets, ahead : {<<>>}]
  BY DEF LibSet!Init
<1>5. /\ libIter = [set |-> libIter.set, ahead |-> libIter.ahead]
      /\ libIter.set \in Sets /\ libIter.ahead = <<>>
  BY <1>4
<1>6. SetInv
  BY <1>2, <1>4, <1>5, NothingAhead, MapNames DEF SetInv, LibSet!WalkOK
<1>7. LibSet!AsSets!Init
  BY <1>4, <1>5, NothingAhead, MapNames DEF LibSet!AsSets!Init
<1> QED
  BY <1>3, <1>6, <1>7

(* The libraries' maps and sets are maps and sets, whichever is selected:  *)
(* each of three maps sees its keys once and returns what a map would,     *)
(* and a program that inserts a value at keys that are not there finds the *)
(* same in each; the four kinds of sets agree in everything.               *)
THEOREM LibrariesAgree == CSpec => LibraryContainersAgree
<1> DEFINE MapView == <<mapEntries, LibMap!Seen(mapAhead), mapLast>>
           SetView == <<libKeys, libIter.set, LibSet!Seen(libIter.ahead), libLast>>
           Writes == \A k \in Keys, v \in Vals :
             mapImpl = "stl_unordered_map" /\ mapLast' = <<"insert_value", k, v>> => mapEntries'[k] = v
<1>1. CInit => MapInv /\ LibMap!Map!Init /\ SetInv /\ LibSet!AsSets!Init
  BY LibrariesStart DEF CInit
<1>2. [CNext]_Everything => [LibMap!Next]_mapVars /\ [LibSet!Next]_libVars
  BY DEF CNext, Everything
<1>3. MapInv /\ [CNext]_Everything => MapInv' /\ [LibMap!Map!Next]_MapView /\ [Writes]_mapVars
  BY <1>2, MapStepsAreTheMaps
<1>4. SetInv /\ [CNext]_Everything => SetInv' /\ [LibSet!AsSets!Next]_SetView
  BY <1>2, SetStepsAreTheSets
<1> QED
  BY <1>1, <1>3, <1>4, PTL
  DEF CSpec, Everything, LibraryContainersAgree, LibMap!IsAMapButKept, LibSet!IsASet, LibMap!Map!Spec,
      LibSet!AsSets!Spec, LibMap!Overwrites, LibMap!vars, mapVars

-----------------------------------------------------------------------------
(* All of them at once                                                     *)

(* The representations stay in order, whichever of the containers is used: *)
(* keys have room for their values, chunks are whole, iterators are at a   *)
(* key or within a chunk or have keys ahead that are there, the index of a *)
(* vector counts what was seen, and parents lead to roots with sizes.      *)
THEOREM RepresentationsAlwaysOK == CSpec => []RepresentationsAreOK
<1> DEFINE AllInv == RepOK /\ TwinedInv /\ SparseInv /\ BitsetsInv /\ VectorInv /\ ForestInv /\ MapInv /\ SetInv
<1>1. CInit => AllInv
  <2>1. \A s \in Sets : Bitset!Init => setBits[s] = Bitset!Empty
    BY DEF Bitset!Init
  <2>2. Bitset!Init => BitsetsInv
    BY <2>1, EmptyBitset DEF BitsetsInv, Bitset!Init
  <2> QED
    BY <2>2, BitmapStarts, TwinedStarts, SparseStarts, VectorBegins, StartsEmpty, LibrariesStart DEF CInit
<1>2. AllInv /\ [CNext]_Everything => AllInv'
  <2> SUFFICES ASSUME AllInv, [CNext]_Everything PROVE AllInv'
    OBVIOUS
  <2>1. /\ [Next]_vars /\ [Twined!Next]_twinedVars /\ [Sparse!Next]_sparseVars
        /\ [Bitset!Next]_setVars /\ [Vector!Next]_vecVars /\ [UFNext]_ufVars
        /\ [LibMap!Next]_mapVars /\ [LibSet!Next]_libVars
    BY DEF CNext, Everything
  <2>2. RepOK' /\ TwinedInv' /\ SparseInv'
    BY <2>1, RepIsKept, TwinedStepsAreTheMaps, SparseStepsAreTheMaps
  <2>3. BitsetsInv' /\ VectorInv'
    BY <2>1, StepsAreTheSets, VectorSteps
  <2>4. ForestInv'
    BY <2>1, WordsAssumption, StepsAreThePartitions
  <2>5. MapInv' /\ SetInv'
    BY <2>1, MapStepsAreTheMaps, SetStepsAreTheSets
  <2> QED
    BY <2>2, <2>3, <2>4, <2>5
<1>3. AllInv => RepresentationsAreOK
  <2> SUFFICES ASSUME AllInv PROVE RepresentationsAreOK
    OBVIOUS
  <2>1. Twined!RepOK
    <3>1. DOMAIN twinedChunks = 0 .. Twined!Cardinality(DOMAIN twinedChunks) - 1
      BY BehindLastChunk, TwinedNames DEF TwinedInv
    <3>2. \A i \in DOMAIN twinedChunks :
            twinedChunks[i] \in [bits : SUBSET Twined!Offsets, vals : [Twined!Offsets -> Vals]]
      BY TwinedNames DEF TwinedInv, IsChunked, Chunks
    <3>3. Twined!AtEnd \/ twinedIt[2] \in twinedChunks[twinedIt[1]].bits
      BY SetPlaceFacts DEF TwinedInv
    <3> QED
      BY <3>1, <3>2, <3>3 DEF Twined!RepOK
  <2>2. Sparse!RepOK
    <3>1. DOMAIN sparseChunks \subseteq {Sparse!hi(k) : k \in Keys}
      BY SparseNames DEF SparseInv
    <3>2. \A i \in DOMAIN sparseChunks :
            sparseChunks[i] \in [bits : SUBSET Sparse!Offsets, vals : [Sparse!Offsets -> Vals]]
      BY SparseNames DEF SparseInv, IsChunked, Chunks
    <3>3. \/ Sparse!AtEnd
          \/ sparseIt[1] \in DOMAIN sparseChunks /\ sparseIt[2] \in sparseChunks[sparseIt[1]].bits \cup {0}
      BY DEF SparseInv, InAChunk
    <3> QED
      BY <3>1, <3>2, <3>3 DEF Sparse!RepOK
  <2>3. Bitset!RepOK
    BY BitsetFacts DEF BitsetsInv, IsBitset, Bitset!RepOK, Bitset!IsSized
  <2>4. Vector!TypeOK /\ Vector!IndexKeepsUp
    <3>1. ASSUME ~ vecDone, vecSeen > 0
          PROVE  vecIdx = IF vecReverse THEN Vector!size - vecSeen ELSE vecSeen - 1
      BY <3>1 DEF VectorInv, FoldKeepsUp, Vector!TypeOK
    <3> QED
      BY <3>1 DEF VectorInv, Vector!IndexKeepsUp
  <2>5. ForestOK
    BY WalkHasRoot DEF ForestInv, ForestOK, IsForest
  <2> QED
    BY <2>1, <2>2, <2>3, <2>4, <2>5 DEF RepresentationsAreOK, MapInv, SetInv
<1> QED
  BY <1>1, <1>2, <1>3, PTL DEF CSpec, Everything
=============================================================================
