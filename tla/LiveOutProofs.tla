--------------------------- MODULE LiveOutProofs ---------------------------
(***************************************************************************)
(* Live-out insertion is right in every function that is as SSA            *)
(* construction leaves it: the version found for an argument is the one    *)
(* that it has at the return, and the caller finds in it what was written  *)
(* last, on every path.                                                    *)
(***************************************************************************)
EXTENDS AnalysisProofs, LiveOutInsertion

End(b) == Len(f.code[b])

Ver(b, k, a) == VersionAt(f, b, k, a)

Versions(a) == VersionsOf(f, a)

OutFunction == IsInSSA(f) /\ IsVersioned(f) /\ \E r \in f.blocks : ReturnsOf(f) = {r}

LEMMA ProgramsAreOutFunctions ==
  ASSUME f \in LiveOutPrograms
  PROVE  OutFunction
BY LiveOutProgramsAreVersioned DEF OutFunction

-----------------------------------------------------------------------------
(* Versions                                                                *)

(* The numbers from lo to hi are in a set that holds lo and with a number  *)
(* the next one.                                                           *)
LEMMA RangeInduction ==
  ASSUME NEW lo \in Nat, NEW hi \in Nat, NEW S, lo \in S,
         \A k \in lo .. hi - 1 : k \in S => k + 1 \in S
  PROVE  lo .. hi \subseteq S
<1> DEFINE T == {n \in Nat : lo + n <= hi => lo + n \in S}
<1>1. 0 \in T
  OBVIOUS
<1>2. ASSUME NEW n \in Nat, n \in T PROVE n + 1 \in T
  <2> SUFFICES ASSUME lo + (n + 1) <= hi PROVE lo + (n + 1) \in S
    OBVIOUS
  <2>1. lo + n \in lo .. hi - 1 /\ lo + n \in S
    BY <1>2
  <2>2. (lo + n) + 1 = lo + (n + 1)
    OBVIOUS
  <2> QED BY <2>1, <2>2
<1> HIDE DEF T
<1>3. Nat \subseteq T
  BY <1>1, <1>2, SetInduction
<1> SUFFICES ASSUME NEW k \in lo .. hi PROVE k \in S
  OBVIOUS
<1>4. k - lo \in Nat /\ lo + (k - lo) = k /\ k <= hi
  OBVIOUS
<1> QED BY <1>3, <1>4 DEF T

(* The shape of a function.                                                *)
LEMMA OutShape ==
  ASSUME OutFunction
  PROVE  /\ IsFiniteSet(f.blocks) /\ f.entry \in f.blocks /\ Nph(f.entry) = 0
         /\ \A b \in f.blocks :
              /\ SuccSet(f, b) \subseteq f.blocks
              /\ Nph(b) \in Nat /\ End(b) \in Nat /\ End(b) >= 1 /\ 1 \in 1 .. End(b) /\ End(b) \in 1 .. End(b)
         /\ \A S \in SUBSET f.blocks :
              f.entry \in S /\ (\A b \in S : SuccSet(f, b) \subseteq S) => S = f.blocks
BY DEF OutFunction, IsInSSA, AllReachable, Nph, End

(* The instruction redefines the version of a.                             *)
RedefinesAt(b, k, a) == f.code[b][k].op \in Redefinitions /\ f.code[b][k].obj \in Versions(a)

(* A PHI of s joins a version of a that comes from b.                      *)
JoinsFrom(b, s, a) == \E n \in 1 .. Nph(s) : f.phis[s][n].from[b] \in Versions(a)

LEMMA VersionThere ==
  ASSUME NEW a, NEW b \in f.blocks, NEW k \in 1 .. End(b)
  PROVE  Ver(b, k, a) \in Versions(a)
BY DEF Ver, Versions, VersionsOf, End

LEMMA VersionNext ==
  ASSUME OutFunction, NEW a \in Args, NEW b \in f.blocks, NEW k \in 1 .. End(b) - 1
  PROVE  /\ RedefinesAt(b, k, a) => /\ f.code[b][k].obj = Ver(b, k, a)
                                    /\ Ver(b, k + 1, a) = f.code[b][k].def
         /\ ~RedefinesAt(b, k, a) => Ver(b, k + 1, a) = Ver(b, k, a)
BY DEF OutFunction, IsVersioned, Args, RedefinesAt, Ver, Versions, End

LEMMA VersionAlong ==
  ASSUME OutFunction, NEW a \in Args, NEW b \in f.blocks, NEW s \in SuccSet(f, b)
  PROVE  /\ \A n \in 1 .. Nph(s) : f.phis[s][n].from[b] \in Versions(a) =>
              /\ f.phis[s][n].from[b] = Ver(b, End(b), a)
              /\ Ver(s, 1, a) = f.phis[s][n].def
         /\ ~JoinsFrom(b, s, a) => /\ Ver(s, 1, a) = Ver(b, End(b), a)
                                   /\ Ver(b, End(b), a) \notin PhiDefs(s)
<1> DEFINE joins == {n \in 1 .. Nph(s) : f.phis[s][n].from[b] \in Versions(a)}
<1>1. /\ \A n \in joins : /\ f.phis[s][n].from[b] = Ver(b, End(b), a)
                          /\ Ver(s, 1, a) = f.phis[s][n].def
      /\ joins = {} => /\ Ver(s, 1, a) = Ver(b, End(b), a)
                       /\ \A n \in 1 .. Nph(s) : f.phis[s][n].def # Ver(b, End(b), a)
  BY DEF OutFunction, IsVersioned, Args, Ver, Versions, End, Nph
<1>2. ~JoinsFrom(b, s, a) => joins = {}
  BY DEF JoinsFrom
<1> QED BY <1>1, <1>2 DEF PhiDefs

(* The definitions: no value has two.                                      *)
DefinedBy(v, b, k) ==
  /\ b \in f.blocks
  /\ \/ k = 0 /\ v \in PhiDefs(b)
     \/ k \in 1 .. End(b) /\ f.code[b][k].def = v /\ v # Absent

LEMMA DefinitionsAreUnique ==
  ASSUME OutFunction, NEW v, NEW b, NEW k, DefinedBy(v, b, k)
  PROVE  /\ v \notin Args /\ v # Absent
         /\ DefinedAt(v) = <<b, k>>
         /\ \A c, n : DefinedBy(v, c, n) => c = b /\ n = k
<1>0. b \in f.blocks /\ Nph(b) \in Nat /\ End(b) \in Nat /\ k \in 0 .. End(b)
  BY OutShape DEF DefinedBy
<1>1. ASSUME NEW c \in f.blocks, NEW m \in 1 .. Nph(c)
      PROVE  /\ f.phis[c][m].def \notin Args \cup {Absent}
             /\ \A d \in f.blocks : \A n \in 1 .. Nph(d) : f.phis[d][n].def = f.phis[c][m].def => d = c
  BY DEF OutFunction, IsInSSA, Args, Nph
<1>2. ASSUME NEW c \in f.blocks, NEW m \in 1 .. End(c), f.code[c][m].def # Absent
      PROVE  DefinedOnce(f, c, m)
  BY <1>2 DEF OutFunction, IsInSSA, End
<1>3. ASSUME k = 0
      PROVE  /\ v \notin Args /\ v # Absent
             /\ \A c, n : DefinedBy(v, c, n) => c = b /\ n = k
  <2>1. PICK m \in 1 .. Nph(b) : f.phis[b][m].def = v
    BY <1>0, <1>3 DEF DefinedBy, PhiDefs
  <2>2. v \notin Args /\ v # Absent
    BY <1>0, <1>1, <2>1
  <2>3. ASSUME NEW c \in f.blocks, NEW n \in 1 .. End(c), f.code[c][n].def = v PROVE FALSE
    <3>1. DefinedOnce(f, c, n)
      BY <1>2, <2>2, <2>3
    <3> QED BY <1>0, <2>1, <2>3, <3>1 DEF DefinedOnce, Nph
  <2>4. ASSUME NEW c \in f.blocks, v \in PhiDefs(c) PROVE c = b
    BY <1>0, <1>1, <2>1, <2>4 DEF PhiDefs
  <2>5. ASSUME NEW c, NEW n, DefinedBy(v, c, n) PROVE c = b /\ n = k
    <3>1. c \in f.blocks /\ n = 0 /\ v \in PhiDefs(c)
      BY <2>3, <2>5 DEF DefinedBy
    <3> QED BY <1>3, <2>4, <3>1
  <2> QED BY <2>2, <2>5
<1>4. ASSUME k # 0
      PROVE  /\ v \notin Args /\ v # Absent
             /\ \A c, n : DefinedBy(v, c, n) => c = b /\ n = k
  <2>1. k \in 1 .. End(b) /\ f.code[b][k].def = v /\ v # Absent
    BY <1>4 DEF DefinedBy
  <2>2. DefinedOnce(f, b, k)
    BY <1>0, <1>2, <2>1
  <2>3. v \notin Args
    BY <2>1, <2>2 DEF DefinedOnce, Args
  <2>4. ASSUME NEW c \in f.blocks
        PROVE  v \notin PhiDefs(c) /\ \A n \in 1 .. End(c) : f.code[c][n].def = v => c = b /\ n = k
    <3>1. \A d \in f.blocks :
            /\ \A n \in 1 .. Len(f.phis[d]) : f.phis[d][n].def # v
            /\ \A n \in 1 .. Len(f.code[d]) : f.code[d][n].def = v => d = b /\ n = k
      BY <2>1, <2>2 DEF DefinedOnce
    <3> QED BY <3>1 DEF PhiDefs, Nph, End
  <2>5. ASSUME NEW c, NEW n, DefinedBy(v, c, n) PROVE c = b /\ n = k
    BY <2>4, <2>5 DEF DefinedBy
  <2> QED BY <2>1, <2>3, <2>5
<1>5. /\ v \notin Args /\ v # Absent
      /\ \A c, n : DefinedBy(v, c, n) => c = b /\ n = k
  BY <1>3, <1>4
<1> DEFINE Places == UNION {{c} \X (0 .. Len(f.code[c])) : c \in f.blocks}
           Is(x) == IF x[2] = 0 THEN v \in PhiDefs(x[1]) ELSE f.code[x[1]][x[2]].def = v
<1>6. <<b, k>> \in Places
  BY <1>0 DEF End
<1>7. Is(<<b, k>>)
  BY <1>0 DEF DefinedBy
<1>8. ASSUME NEW x \in Places, Is(x) PROVE x = <<b, k>>
  <2>1. PICK c \in f.blocks : x \in {c} \X (0 .. Len(f.code[c]))
    OBVIOUS
  <2>2. x = <<x[1], x[2]>> /\ x[1] = c /\ x[2] \in 0 .. End(c) /\ End(c) \in Nat
    BY <2>1, OutShape DEF End
  <2>3. x[2] # 0 => x[2] \in 1 .. End(c)
    BY <2>2
  <2>4. DefinedBy(v, c, x[2])
    BY <1>5, <1>8, <2>2, <2>3 DEF DefinedBy
  <2> QED BY <1>5, <2>2, <2>4
<1> HIDE DEF Places, Is
<1>9. DefinedAt(v) = CHOOSE x \in Places : Is(x)
  BY DEF DefinedAt, Places, Is
<1> QED BY <1>5, <1>6, <1>7, <1>8, <1>9

(* An instruction or the PHIs of the block make v the version of a.        *)
MadeAt(v, b, k, a) ==
  /\ DefinedBy(v, b, k)
  /\ \/ k = 0 /\ Ver(b, 1, a) = v
     \/ k \in 1 .. End(b) - 1 /\ RedefinesAt(b, k, a) /\ Ver(b, k + 1, a) = v

IsMade(v, a) == v = a \/ \E b, k : MadeAt(v, b, k, a)

(* In a block, what follows a version is made.                             *)
LEMMA VersionsOfABlock ==
  ASSUME OutFunction, NEW a \in Args, NEW b \in f.blocks, IsMade(Ver(b, 1, a), a)
  PROVE  \A k \in 1 .. End(b) : IsMade(Ver(b, k, a), a)
<1> DEFINE S == {k \in Nat : IsMade(Ver(b, k, a), a)}
<1>1. End(b) \in Nat
  BY OutShape
<1>2. 1 \in S
  OBVIOUS
<1>3. ASSUME NEW k \in 1 .. End(b) - 1, k \in S PROVE k + 1 \in S
  <2>1. k + 1 \in Nat /\ k \in 1 .. End(b)
    BY <1>1
  <2>2. CASE RedefinesAt(b, k, a)
    <3>1. Ver(b, k + 1, a) = f.code[b][k].def
      BY <2>2, VersionNext
    <3>2. f.code[b][k].def # Absent
      BY <2>1, <2>2 DEF OutFunction, IsInSSA, RedefinesAt, Redefinitions, DefinedOnce, End
    <3>3. MadeAt(Ver(b, k + 1, a), b, k, a)
      BY <2>1, <2>2, <3>1, <3>2 DEF MadeAt, DefinedBy
    <3> QED BY <2>1, <3>3 DEF IsMade
  <2>3. CASE ~RedefinesAt(b, k, a)
    BY <1>3, <2>1, <2>3, VersionNext
  <2> QED BY <2>2, <2>3
<1> HIDE DEF S
<1>4. 1 .. End(b) \subseteq S
  BY <1>1, <1>2, <1>3, RangeInduction
<1> QED BY <1>4 DEF S

(* A version of a is a itself, or was made.                                *)
LEMMA VersionsAreMade ==
  ASSUME OutFunction, NEW a \in Args, NEW v \in Versions(a)
  PROVE  IsMade(v, a)
<1> DEFINE S == {b \in f.blocks : IsMade(Ver(b, 1, a), a)}
<1>1. f.entry \in S
  <2>1. Ver(f.entry, 1, a) = a
    BY DEF OutFunction, IsVersioned, Ver, Args
  <2> QED BY <2>1, OutShape DEF IsMade
<1>2. ASSUME NEW b \in S, NEW s \in SuccSet(f, b) PROVE s \in S
  <2>1. s \in f.blocks /\ End(b) \in 1 .. End(b)
    BY OutShape
  <2>2. CASE JoinsFrom(b, s, a)
    <3>1. PICK n \in 1 .. Nph(s) : f.phis[s][n].from[b] \in Versions(a)
      BY <2>2 DEF JoinsFrom
    <3>2. Ver(s, 1, a) = f.phis[s][n].def
      BY <3>1, VersionAlong
    <3>3. MadeAt(Ver(s, 1, a), s, 0, a)
      BY <2>1, <3>2 DEF MadeAt, DefinedBy, PhiDefs
    <3> QED BY <2>1, <3>3 DEF IsMade
  <2>3. CASE ~JoinsFrom(b, s, a)
    BY <2>1, <2>3, VersionAlong, VersionsOfABlock
  <2> QED BY <2>2, <2>3
<1>3. S = f.blocks
  <2> HIDE DEF S
  <2>1. S \in SUBSET f.blocks
    BY DEF S
  <2> QED BY <1>1, <1>2, <2>1, OutShape
<1>4. PICK b \in f.blocks : \E k \in 1 .. End(b) : v = Ver(b, k, a)
  BY DEF Versions, VersionsOf, Ver, End
<1> QED BY <1>3, <1>4, VersionsOfABlock

-----------------------------------------------------------------------------
(* The version at the return                                               *)

Final(a) == Ver(SingleReturn, End(SingleReturn), a)

LEMMA TheReturn ==
  ASSUME OutFunction
  PROVE  /\ SingleReturn \in f.blocks /\ Returns = {SingleReturn} /\ f.succ[SingleReturn] = <<>>
         /\ \A a : Final(a) \in Versions(a)
<1>1. PICK r \in f.blocks : Returns = {r}
  BY DEF OutFunction, Returns
<1>2. SingleReturn = r
  BY <1>1 DEF SingleReturn
<1>3. f.succ[r] = <<>>
  BY <1>1 DEF Returns, ReturnsOf
<1> QED BY <1>1, <1>2, <1>3, VersionThere, OutShape DEF Final

(* A version that an argument does not have at some place in a block, and  *)
(* that the rest of the block does not define, it does not have at the end.*)
LEMMA StaysAway ==
  ASSUME OutFunction, NEW a \in Args, NEW b \in f.blocks, NEW k \in 1 .. End(b), NEW v,
         Ver(b, k, a) # v, \A j \in k .. End(b) - 1 : f.code[b][j].def # v
  PROVE  Ver(b, End(b), a) # v
<1> DEFINE S == {j \in Nat : Ver(b, j, a) # v}
<1>1. End(b) \in Nat /\ k \in Nat /\ End(b) \in k .. End(b)
  BY OutShape
<1>2. k \in S
  BY <1>1
<1>3. ASSUME NEW j \in k .. End(b) - 1, j \in S PROVE j + 1 \in S
  <2>1. j \in 1 .. End(b) - 1 /\ j + 1 \in Nat
    BY <1>1
  <2> QED BY <1>3, <2>1, VersionNext
<1> HIDE DEF S
<1>4. k .. End(b) \subseteq S
  BY <1>1, <1>2, <1>3, RangeInduction
<1> QED BY <1>1, <1>4 DEF S

(* It does not get it in a block that does not define it.                  *)
LEMMA StaysAwayAlong ==
  ASSUME OutFunction, NEW a \in Args, NEW b \in f.blocks, NEW s \in SuccSet(f, b), NEW v, v # Absent,
         Ver(b, End(b), a) # v, \A k : ~DefinedBy(v, s, k)
  PROVE  Ver(s, End(s), a) # v
<1>1. s \in f.blocks /\ 1 \in 1 .. End(s) /\ End(s) \in Nat
  BY OutShape
<1>2. v \notin PhiDefs(s)
  BY <1>1 DEF DefinedBy
<1>3. \A j \in 1 .. End(s) - 1 : f.code[s][j].def # v
  <2> SUFFICES ASSUME NEW j \in 1 .. End(s) - 1, f.code[s][j].def = v PROVE FALSE
    OBVIOUS
  <2>1. j \in 1 .. End(s)
    BY <1>1
  <2> QED BY <1>1, <2>1 DEF DefinedBy
<1>4. Ver(s, 1, a) # v
  <2>1. CASE JoinsFrom(b, s, a)
    <3>1. PICK n \in 1 .. Nph(s) : f.phis[s][n].from[b] \in Versions(a)
      BY <2>1 DEF JoinsFrom
    <3>2. Ver(s, 1, a) = f.phis[s][n].def
      BY <3>1, VersionAlong
    <3> QED BY <1>2, <3>2 DEF PhiDefs
  <2>2. CASE ~JoinsFrom(b, s, a)
    BY <2>2, VersionAlong
  <2> QED BY <2>1, <2>2
<1> QED BY <1>1, <1>3, <1>4, StaysAway

(* Where a version is made, one that is not defined below it is not there  *)
(* at the end of the block.                                                *)
LEMMA TakesOver ==
  ASSUME OutFunction, NEW a \in Args, NEW v, NEW b, NEW k, MadeAt(v, b, k, a),
         NEW w, w # v, w # Absent, \A j : DefinedBy(w, b, j) => j <= k
  PROVE  Ver(b, End(b), a) # w
<1>1. b \in f.blocks /\ 1 \in 1 .. End(b) /\ End(b) \in Nat
  BY OutShape DEF MadeAt, DefinedBy
<1>2. ASSUME NEW j \in 1 .. End(b), f.code[b][j].def = w PROVE j <= k
  BY <1>1, <1>2 DEF DefinedBy
<1>3. CASE k = 0 /\ Ver(b, 1, a) = v
  BY <1>1, <1>2, <1>3, StaysAway
<1>4. CASE k \in 1 .. End(b) - 1 /\ Ver(b, k + 1, a) = v
  <2>1. k + 1 \in 1 .. End(b) /\ \A j \in k + 1 .. End(b) - 1 : j \in 1 .. End(b) /\ ~(j <= k)
    BY <1>1, <1>4
  <2> QED BY <1>1, <1>2, <1>4, <2>1, StaysAway
<1> QED BY <1>3, <1>4 DEF MadeAt

(* What holds a block and is closed holds all that the block dominates.    *)
LEMMA DominatorLeads ==
  ASSUME OutFunction, NEW d \in f.blocks, NEW r \in f.blocks, BlockDominates(f, d, r),
         NEW U \in SUBSET f.blocks, d \in U, \A b \in U : SuccSet(f, b) \subseteq U
  PROVE  r \in U
<1> DEFINE Around == ReachableAvoiding(f, d)
           S == IF d = f.entry THEN U ELSE Around \cup U
<1>1. Around \subseteq f.blocks
  BY DEF ReachableAvoiding
<1>2. d # f.entry => f.entry \in Around
  BY OutShape DEF ReachableAvoiding
<1>3. ASSUME NEW b \in Around, NEW s \in SuccSet(f, b), s # d PROVE s \in Around
  <2> DEFINE Rest == f.blocks \ {d}
  <2>1. s \in Rest
    BY <1>1, <1>3, OutShape
  <2>2. ASSUME NEW T \in SUBSET Rest, f.entry \in T, \A p \in T : SuccSet(f, p) \ {d} \subseteq T
        PROVE  s \in T
    <3>1. b \in T
      BY <2>2 DEF ReachableAvoiding
    <3> QED BY <1>3, <2>2, <3>1
  <2> QED BY <2>1, <2>2 DEF ReachableAvoiding
<1>4. S = f.blocks
  <2>1. S \in SUBSET f.blocks /\ f.entry \in S
    BY <1>1, <1>2
  <2>2. ASSUME NEW b \in S PROVE SuccSet(f, b) \subseteq S
    BY <1>3
  <2> HIDE DEF S
  <2> QED BY <2>1, <2>2, OutShape
<1>5. CASE d = f.entry
  BY <1>4, <1>5
<1>6. CASE d # f.entry
  <2>1. r = d \/ r \notin Around
    BY <1>6 DEF BlockDominates
  <2> QED BY <1>4, <1>6, <2>1
<1> QED BY <1>5, <1>6

(* The version at the return is the argument, or dominates the return.     *)
LEMMA FinalDominates ==
  ASSUME OutFunction, NEW a \in Args, NEW d, NEW j, MadeAt(Final(a), d, j, a)
  PROVE  BlockDominates(f, d, SingleReturn)
<1> DEFINE c == Final(a)
           r == SingleReturn
           S == {b \in f.blocks \ {d} : Ver(b, End(b), a) # c}
<1>1. d \in f.blocks /\ c \notin Args /\ c # Absent /\ \A b, n : DefinedBy(c, b, n) => b = d
  BY DefinitionsAreUnique DEF MadeAt, DefinedBy
<1>2. SUFFICES ASSUME d # f.entry, r \in ReachableAvoiding(f, d) PROVE FALSE
  BY DEF BlockDominates
<1>3. f.entry \in S
  <2>1. Ver(f.entry, 1, a) = a
    BY DEF OutFunction, IsVersioned, Ver, Args
  <2>2. \A n \in 1 .. End(f.entry) - 1 : f.code[f.entry][n].def # c
    <3> SUFFICES ASSUME NEW n \in 1 .. End(f.entry) - 1, f.code[f.entry][n].def = c PROVE FALSE
      OBVIOUS
    <3>1. f.entry \in f.blocks /\ n \in 1 .. End(f.entry)
      BY OutShape
    <3>2. DefinedBy(c, f.entry, n)
      BY <1>1, <3>1 DEF DefinedBy
    <3> QED BY <1>1, <1>2, <3>2
  <2> HIDE DEF c
  <2> QED BY <1>1, <1>2, <2>1, <2>2, OutShape, StaysAway
<1>4. ASSUME NEW b \in S PROVE SuccSet(f, b) \ {d} \subseteq S
  <2> SUFFICES ASSUME NEW s \in SuccSet(f, b), s # d PROVE s \in S
    OBVIOUS
  <2>1. s \in f.blocks /\ \A k : ~DefinedBy(c, s, k)
    BY <1>1, OutShape
  <2> HIDE DEF c
  <2> QED BY <1>1, <2>1, StaysAwayAlong
<1>5. r \in S
  BY <1>2, <1>3, <1>4 DEF ReachableAvoiding
<1> QED BY <1>5 DEF Final

-----------------------------------------------------------------------------
(* What is gathered                                                        *)

LEMMA CodeIsFinite ==
  ASSUME OutFunction
  PROVE  IsFiniteSet(AllCode) /\ IsFiniteSet(AllPhis)
<1> DEFINE code == [b \in f.blocks |-> {f.code[b][k] : k \in 1 .. Len(f.code[b])}]
           phis == [b \in f.blocks |-> {f.phis[b][k] : k \in 1 .. Nph(b)}]
           S == {code[b] : b \in f.blocks}
           T == {phis[b] : b \in f.blocks}
<1>1. ASSUME NEW b \in f.blocks PROVE IsFiniteSet(code[b]) /\ IsFiniteSet(phis[b])
  <2> DEFINE C == 1 .. Len(f.code[b])
             P == 1 .. Nph(b)
             g == [k \in C |-> f.code[b][k]]
             h == [k \in P |-> f.phis[b][k]]
             X == {g[k] : k \in C}
             Y == {h[k] : k \in P}
  <2>1. IsFiniteSet(C) /\ IsFiniteSet(P)
    <3>1. Len(f.code[b]) \in Int /\ Nph(b) \in Int
      BY OutShape DEF End
    <3> QED BY <3>1, FS_Interval
  <2>2. code[b] = X /\ phis[b] = Y
    OBVIOUS
  <2>3. DOMAIN g = C /\ DOMAIN h = P
    OBVIOUS
  <2> HIDE DEF code, phis, C, P, g, h
  <2>4. IsFiniteSet(X) /\ IsFiniteSet(Y)
    BY <2>1, <2>3, ImageIsFinite
  <2> HIDE DEF X, Y
  <2> QED BY <2>2, <2>4
<1>2. AllCode \subseteq UNION S /\ AllPhis \subseteq UNION T
  <2>1. \A b \in f.blocks : /\ code[b] = {f.code[b][k] : k \in 1 .. Len(f.code[b])}
                            /\ phis[b] = {f.phis[b][k] : k \in 1 .. Nph(b)}
    OBVIOUS
  <2> HIDE DEF code, phis
  <2> QED BY <2>1 DEF AllCode, AllPhis
<1>3. DOMAIN code = f.blocks /\ DOMAIN phis = f.blocks
  OBVIOUS
<1> HIDE DEF code, phis
<1>4. IsFiniteSet(S) /\ IsFiniteSet(T)
  BY <1>3, ImageIsFinite, OutShape
<1>5. (\A X \in S : IsFiniteSet(X)) /\ \A X \in T : IsFiniteSet(X)
  BY <1>1
<1> HIDE DEF S, T
<1>6. IsFiniteSet(UNION S) /\ IsFiniteSet(UNION T)
  BY <1>4, <1>5, FS_UNION
<1> QED BY <1>2, <1>6, FS_Subset

IsClosed(X) == \A w \in X : Redefined(w) \subseteq X

(* The gathered definitions are the least set that holds the value and     *)
(* with a definition all that redefine it.                                 *)
LEMMA ReachingIsLeast ==
  ASSUME OutFunction, NEW v
  PROVE  /\ IsFiniteSet(Reaching(v)) /\ v \in Reaching(v) /\ IsClosed(Reaching(v))
         /\ \A X : v \in X /\ IsClosed(X) => Reaching(v) \subseteq X
<1> DEFINE M == Cardinality(AllCode)
           P == Cardinality(AllPhis)
           N == M + P
           I == {i.def : i \in AllCode}
           Q == {p.def : p \in AllPhis}
           D == {v} \cup (I \cup Q)
           base == {v}
           grow == [X \in SUBSET D |-> X \cup UNION {Redefined(w) : w \in X}]
           Def(g) == g = [n \in 0 .. M + P |->
                            IF n = 0 THEN {v}
                            ELSE LET near == g[n - 1] IN near \cup UNION {Redefined(w) : w \in near}]
           reach == CHOOSE g : Def(g)
<1>1. M \in Nat /\ P \in Nat
  BY CodeIsFinite, FS_CardinalityType
<1>2. IsFiniteSet(D) /\ Cardinality(D) <= N + 1
  <2> DEFINE g == [i \in AllCode |-> i.def]
             h == [p \in AllPhis |-> p.def]
  <2>1. I = {g[i] : i \in AllCode} /\ Q = {h[p] : p \in AllPhis}
    OBVIOUS
  <2>2. DOMAIN g = AllCode /\ DOMAIN h = AllPhis
    OBVIOUS
  <2> HIDE DEF g, h
  <2>3. IsFiniteSet(I) /\ Cardinality(I) <= M /\ IsFiniteSet(Q) /\ Cardinality(Q) <= P
    <3> HIDE DEF I, Q
    <3> QED BY <2>1, <2>2, CodeIsFinite, ImageIsFinite
  <2> HIDE DEF I, Q
  <2>4. IsFiniteSet(I \cup Q) /\ IsFiniteSet(base) /\ Cardinality(base) = 1 /\ IsFiniteSet(D)
        /\ IsFiniteSet(I \cap Q) /\ IsFiniteSet(base \cap (I \cup Q))
    BY <2>3, FS_Union, FS_Singleton, FS_Subset
  <2>5. /\ Cardinality(I \cup Q) = Cardinality(I) + Cardinality(Q) - Cardinality(I \cap Q)
        /\ Cardinality(D) = Cardinality(base) + Cardinality(I \cup Q) - Cardinality(base \cap (I \cup Q))
    BY <2>3, <2>4, FS_Union
  <2>6. Cardinality(I) \in Nat /\ Cardinality(Q) \in Nat /\ Cardinality(I \cap Q) \in Nat
        /\ Cardinality(base \cap (I \cup Q)) \in Nat
    BY <2>3, <2>4, FS_CardinalityType
  <2> HIDE DEF M, P, base
  <2> QED BY <1>1, <2>3, <2>4, <2>5, <2>6
<1>3. ASSUME NEW w PROVE Redefined(w) \subseteq D
  BY DEF Redefined
<1>4. GrowsWithin(D, grow)
  BY <1>3 DEF GrowsWithin
<1>5. base \in SUBSET D /\ Cardinality(D) <= N + Cardinality(base) /\ N \in Nat
  <2>1. Cardinality(base) = 1
    BY FS_Singleton
  <2> HIDE DEF M, P
  <2> QED BY <1>1, <1>2, <2>1
<1>6. \E g : Def(g)
  <2> HIDE DEF D, N
  <2>2. PICK g \in [0 .. N -> SUBSET D] : Grows(g, N, base, grow)
    <3> HIDE DEF grow, base
    <3> QED BY <1>4, <1>5, GrowthExists
  <2>3. ASSUME NEW n \in 1 .. N
        PROVE  g[n] = g[n - 1] \cup UNION {Redefined(w) : w \in g[n - 1]}
    <3>1. n - 1 \in 0 .. N
      BY <1>5
    <3>2. g[n - 1] \in SUBSET D
      BY <3>1
    <3>3. g[n] = grow[g[n - 1]]
      BY <2>2 DEF Grows
    <3> QED BY <3>2, <3>3
  <2>4. \A n \in 0 .. N : n # 0 => n \in 1 .. N
    BY <1>5
  <2>5. g = [n \in 0 .. N |-> IF n = 0 THEN {v}
                              ELSE LET near == g[n - 1] IN near \cup UNION {Redefined(w) : w \in near}]
    BY <2>2, <2>3, <2>4 DEF Grows
  <2>6. Def(g)
    BY <2>5 DEF N
  <2> QED BY <2>6
<1>7. Def(reach)
  BY <1>6
<1>8. Reaching(v) = reach[N]
  BY DEF Reaching
<1> HIDE DEF reach
<1> DEFINE S == {n \in Nat : n <= N => reach[n] \in SUBSET D}
<1>9. reach[0] = base
  BY <1>1, <1>7
<1>10. ASSUME NEW n \in Nat, n + 1 <= N
       PROVE  reach[n + 1] = reach[n] \cup UNION {Redefined(w) : w \in reach[n]}
  <2>1. n + 1 \in 0 .. M + P /\ n + 1 # 0 /\ n + 1 - 1 = n
    BY <1>1, <1>10
  <2> DEFINE m == n + 1
  <2>2. m \in 0 .. M + P /\ m # 0 /\ m - 1 = n
    BY <2>1
  <2> HIDE DEF M, P, m
  <2>3. reach[m] = reach[m - 1] \cup UNION {Redefined(w) : w \in reach[m - 1]}
    BY <1>7, <2>2
  <2> QED BY <2>2, <2>3 DEF m
<1> HIDE DEF D, N, M, P, base
<1>11. Nat \subseteq S
  <2>1. 0 \in S
    BY <1>5, <1>9
  <2>2. ASSUME NEW n \in Nat, n \in S PROVE n + 1 \in S
    <3> SUFFICES ASSUME n + 1 <= N PROVE reach[n + 1] \in SUBSET D
      OBVIOUS
    <3>1. reach[n] \in SUBSET D
      BY <1>5, <2>2
    <3> QED BY <1>3, <1>10, <3>1
  <2> HIDE DEF S
  <2> QED BY <2>1, <2>2, SetInduction
<1>12. Grows(reach, N, base, grow)
  <2>1. ASSUME NEW n \in 1 .. N PROVE reach[n] = grow[reach[n - 1]]
    <3>1. n - 1 \in Nat /\ n - 1 <= N /\ (n - 1) + 1 = n /\ n - 1 + 1 <= N
      BY <1>5
    <3>2. reach[n - 1] \in SUBSET D
      BY <1>11, <3>1
    <3>3. reach[n] = reach[n - 1] \cup UNION {Redefined(w) : w \in reach[n - 1]}
      BY <1>10, <3>1
    <3> QED BY <3>2, <3>3
  <2> QED BY <1>9, <2>1 DEF Grows
<1>13. reach[N] \in SUBSET D /\ base \subseteq reach[N] /\ grow[reach[N]] = reach[N]
  <2> HIDE DEF grow
  <2> QED BY <1>2, <1>4, <1>5, <1>12, GrowthEnds
<1>14. ASSUME NEW X, v \in X, IsClosed(X) PROVE reach[N] \subseteq X
  <2>1. HoldsGrowth(X, D, base, grow)
    BY <1>14 DEF HoldsGrowth, IsClosed, base
  <2> HIDE DEF grow
  <2> QED BY <1>4, <1>5, <1>12, <2>1, IterationsStayWithin
<1>15. IsFiniteSet(reach[N]) /\ v \in reach[N] /\ IsClosed(reach[N])
  <2>1. reach[N] = reach[N] \cup UNION {Redefined(w) : w \in reach[N]}
    BY <1>13
  <2> QED BY <1>2, <1>13, <2>1, FS_Subset DEF IsClosed, base
<1> QED BY <1>8, <1>14, <1>15

(* In a set closed under redefinition, what follows a version follows.     *)
LEMMA ClosedAlongABlock ==
  ASSUME OutFunction, NEW a \in Args, NEW X, IsClosed(X), NEW b \in f.blocks, Ver(b, 1, a) \in X
  PROVE  \A k \in 1 .. End(b) : Ver(b, k, a) \in X
<1> DEFINE S == {k \in Nat : Ver(b, k, a) \in X}
<1>1. End(b) \in Nat
  BY OutShape
<1>2. 1 \in S
  OBVIOUS
<1>3. ASSUME NEW k \in 1 .. End(b) - 1, k \in S PROVE k + 1 \in S
  <2>1. k + 1 \in Nat /\ k \in 1 .. End(b)
    BY <1>1
  <2>2. CASE RedefinesAt(b, k, a)
    <3>1. f.code[b][k].obj = Ver(b, k, a) /\ Ver(b, k + 1, a) = f.code[b][k].def
      BY <2>2, VersionNext
    <3>2. f.code[b][k] \in AllCode
      BY <2>1 DEF AllCode, End
    <3>3. f.code[b][k].def \in Redefined(Ver(b, k, a))
      BY <2>2, <3>1, <3>2 DEF Redefined, RedefinesAt
    <3> QED BY <1>3, <2>1, <3>1, <3>3 DEF IsClosed
  <2>3. CASE ~RedefinesAt(b, k, a)
    BY <1>3, <2>1, <2>3, VersionNext
  <2> QED BY <2>2, <2>3
<1> HIDE DEF S
<1>4. 1 .. End(b) \subseteq S
  BY <1>1, <1>2, <1>3, RangeInduction
<1> QED BY <1>4 DEF S

(* What is gathered from an argument are its versions.                     *)
LEMMA ReachingIsVersions ==
  ASSUME OutFunction, NEW a \in Args
  PROVE  Reaching(a) = Versions(a)
<1>0. Ver(f.entry, 1, a) = a
  BY DEF OutFunction, IsVersioned, Ver, Args
<1>1. a \in Versions(a)
  BY <1>0, OutShape, VersionThere
<1>2. IsClosed(Versions(a))
  <2> SUFFICES ASSUME NEW w \in Versions(a), NEW x \in Redefined(w) PROVE x \in Versions(a)
    BY DEF IsClosed
  <2>1. CASE \E i \in AllCode : i.op \in Redefinitions /\ i.obj = w /\ x = i.def
    <3>1. PICK b \in f.blocks : \E k \in 1 .. End(b) :
            f.code[b][k].op \in Redefinitions /\ f.code[b][k].obj = w /\ x = f.code[b][k].def
      BY <2>1 DEF AllCode, End
    <3>2. PICK k \in 1 .. End(b) :
            f.code[b][k].op \in Redefinitions /\ f.code[b][k].obj = w /\ x = f.code[b][k].def
      BY <3>1
    <3>3. k # End(b)
      BY <3>2 DEF OutFunction, IsInSSA, End, Redefinitions
    <3>4. k \in 1 .. End(b) - 1 /\ k + 1 \in 1 .. End(b)
      BY <3>3, OutShape
    <3> QED BY <3>2, <3>4, VersionNext, VersionThere DEF RedefinesAt
  <2>2. CASE \E p \in AllPhis : w \in Incoming(p) /\ x = p.def
    <3>1. PICK s \in f.blocks : \E n \in 1 .. Nph(s) : w \in Incoming(f.phis[s][n]) /\ x = f.phis[s][n].def
      BY <2>2 DEF AllPhis
    <3>2. PICK n \in 1 .. Nph(s) : w \in Incoming(f.phis[s][n]) /\ x = f.phis[s][n].def
      BY <3>1
    <3>3. DOMAIN f.phis[s][n].from = Preds(f, s)
      BY DEF OutFunction, IsInSSA, Nph
    <3>4. PICK b \in Preds(f, s) : w = f.phis[s][n].from[b]
      BY <3>2, <3>3 DEF Incoming
    <3>5. b \in f.blocks /\ s \in SuccSet(f, b)
      BY DEF Preds
    <3>6. Ver(s, 1, a) = x
      BY <3>2, <3>4, <3>5, VersionAlong
    <3> QED BY <3>6, OutShape, VersionThere
  <2> QED BY <2>1, <2>2 DEF Redefined
<1>3. Reaching(a) \subseteq Versions(a)
  BY <1>1, <1>2, ReachingIsLeast
<1> DEFINE X == Reaching(a)
           T == {b \in f.blocks : Ver(b, 1, a) \in X}
<1>4. a \in X /\ IsClosed(X)
  BY ReachingIsLeast
<1> HIDE DEF X
<1>5. T = f.blocks
  <2>1. T \in SUBSET f.blocks /\ f.entry \in T
    BY <1>0, <1>4, OutShape
  <2>2. ASSUME NEW b \in T, NEW s \in SuccSet(f, b) PROVE s \in T
    <3>1. b \in f.blocks /\ s \in f.blocks /\ Ver(b, End(b), a) \in X
      BY <1>4, ClosedAlongABlock, OutShape
    <3>2. CASE JoinsFrom(b, s, a)
      <4>1. PICK n \in 1 .. Nph(s) : f.phis[s][n].from[b] \in Versions(a)
        BY <3>2 DEF JoinsFrom
      <4>2. f.phis[s][n].from[b] = Ver(b, End(b), a) /\ Ver(s, 1, a) = f.phis[s][n].def
        BY <3>1, <4>1, VersionAlong
      <4>3. b \in DOMAIN f.phis[s][n].from /\ f.phis[s][n] \in AllPhis
        BY <3>1 DEF OutFunction, IsInSSA, Nph, Preds, AllPhis
      <4>4. f.phis[s][n].def \in Redefined(Ver(b, End(b), a))
        BY <4>2, <4>3 DEF Redefined, Incoming
      <4> QED BY <1>4, <3>1, <4>2, <4>4 DEF IsClosed
    <3>3. CASE ~JoinsFrom(b, s, a)
      BY <3>1, <3>3, VersionAlong
    <3> QED BY <3>2, <3>3
  <2> HIDE DEF T
  <2> QED BY <2>1, <2>2, OutShape
<1>6. Versions(a) \subseteq X
  <2> SUFFICES ASSUME NEW v \in Versions(a) PROVE v \in X
    OBVIOUS
  <2>1. PICK b \in f.blocks : \E k \in 1 .. End(b) : v = Ver(b, k, a)
    BY DEF Versions, VersionsOf, Ver, End
  <2> QED BY <1>4, <1>5, <2>1, ClosedAlongABlock
<1> QED BY <1>3, <1>6 DEF X

-----------------------------------------------------------------------------
(* The version at the return is found                                      *)

(* A version that dominates the return is the last one, unless the last    *)
(* one is defined after it.                                                *)
LEMMA NotOverwritten ==
  ASSUME OutFunction, NEW a \in Args, NEW v, NEW b, NEW k, MadeAt(v, b, k, a),
         BlockDominates(f, b, SingleReturn), Final(a) # Absent,
         \A s, j : DefinedBy(Final(a), s, j) => s = b /\ j <= k
  PROVE  v = Final(a)
<1> DEFINE c == Final(a)
           U == {x \in f.blocks : Ver(x, End(x), a) # c}
<1> SUFFICES ASSUME v # c PROVE FALSE
  OBVIOUS
<1>0. c # Absent /\ \A s, j : DefinedBy(c, s, j) => s = b /\ j <= k
  OBVIOUS
<1>1. b \in f.blocks
  BY DEF MadeAt, DefinedBy
<1>2. Ver(SingleReturn, End(SingleReturn), a) = c /\ SingleReturn \in f.blocks
  BY TheReturn DEF Final
<1> HIDE DEF c
<1>3. b \in U
  BY <1>0, <1>1, TakesOver
<1>4. ASSUME NEW x \in U, NEW s \in SuccSet(f, x) PROVE s \in U
  <2>1. s \in f.blocks
    BY OutShape
  <2>2. CASE s = b
    BY <1>3, <2>2
  <2>3. CASE s # b
    BY <1>0, <2>1, <2>3, StaysAwayAlong
  <2> QED BY <2>2, <2>3
<1>5. SingleReturn \in U
  <2>1. U \in SUBSET f.blocks /\ \A x \in U : SuccSet(f, x) \subseteq U
    BY <1>4
  <2> HIDE DEF U
  <2> QED BY <1>1, <1>2, <1>3, <2>1, DominatorLeads
<1> QED BY <1>2, <1>5

(* An argument that is its own last version has no other that dominates    *)
(* the return; else the last one was made.                                 *)
LEMMA LastIsMade ==
  ASSUME OutFunction, NEW a \in Args, NEW v, NEW b, NEW k, MadeAt(v, b, k, a),
         BlockDominates(f, b, SingleReturn)
  PROVE  Final(a) # a /\ \E d, j : MadeAt(Final(a), d, j, a)
<1>1. Absent \notin Args
  BY DEF OutFunction, IsInSSA, Args
<1>2. v \notin Args
  BY DefinitionsAreUnique DEF MadeAt
<1>3. Final(a) # a
  <2> SUFFICES ASSUME Final(a) = a PROVE FALSE
    OBVIOUS
  <2>1. \A s, j : ~DefinedBy(a, s, j)
    BY DefinitionsAreUnique
  <2> QED BY <1>1, <1>2, <2>1, NotOverwritten
<1> QED BY <1>3, TheReturn, VersionsAreMade DEF IsMade

(* Of two versions of a block the later one is the last.                   *)
LEMMA LastInItsBlock ==
  ASSUME OutFunction, NEW a \in Args, NEW v, NEW b, NEW k, MadeAt(v, b, k, a),
         BlockDominates(f, b, SingleReturn), v # Final(a), NEW j, MadeAt(Final(a), b, j, a)
  PROVE  k < j
<1>1. k \in Int /\ j \in Int
  BY DEF MadeAt, DefinedBy
<1>2. DefinedBy(Final(a), b, j)
  BY DEF MadeAt
<1> SUFFICES ASSUME j <= k PROVE FALSE
  BY <1>1
<1>3. Final(a) # Absent /\ \A s, n : DefinedBy(Final(a), s, n) => s = b /\ n <= k
  BY <1>2, DefinitionsAreUnique
<1> QED BY <1>3, NotOverwritten

(* The last version is not postdominated by another that dominates the     *)
(* return: the return is reached from it without that one.                 *)
LEMMA LastIsAfter ==
  ASSUME OutFunction, NEW a \in Args, NEW v, NEW b, NEW k, MadeAt(v, b, k, a),
         BlockDominates(f, b, SingleReturn), v # Final(a),
         NEW d, NEW j, MadeAt(Final(a), d, j, a), b # d
  PROVE  d \in LeavesAvoiding(b)
<1> DEFINE c == Final(a)
           r == SingleReturn
<1>1. b \in f.blocks /\ d \in f.blocks
  BY DEF MadeAt, DefinedBy
<1>2. c # Absent /\ \A s, n : DefinedBy(c, s, n) => s = d
  BY DefinitionsAreUnique DEF MadeAt
<1>3. Ver(r, End(r), a) = c /\ r \in f.blocks /\ SuccSet(f, r) = {}
  BY TheReturn DEF Final, SuccSet
<1>4. BlockDominates(f, d, r)
  BY FinalDominates
<1> HIDE DEF c, r
<1>5. Ver(b, End(b), a) # c
  BY <1>2, TakesOver DEF c
<1>6. ASSUME NEW S \in SUBSET (f.blocks \ {b}), d \in S, \A x \in S : SuccSet(f, x) \ {b} \subseteq S
      PROVE  S \cap CannotReach(b) # {}
  <2> DEFINE W == S \cup {x \in f.blocks : Ver(x, End(x), a) # c}
  <2>1. ASSUME NEW x \in W, NEW s \in SuccSet(f, x) PROVE s \in W
    <3>0. x \in f.blocks /\ s \in f.blocks
      BY OutShape
    <3>1. CASE x \in S
      BY <1>1, <1>5, <1>6, <3>1
    <3>2. CASE Ver(x, End(x), a) # c /\ s # d
      BY <1>2, <3>0, <3>2, StaysAwayAlong
    <3> QED BY <1>6, <3>1, <3>2
  <2>2. r \in W
    <3>1. W \in SUBSET f.blocks /\ d \in W /\ \A x \in W : SuccSet(f, x) \subseteq W
      BY <1>6, <2>1
    <3> HIDE DEF W
    <3> QED BY <1>1, <1>3, <1>4, <3>1, DominatorLeads
  <2>3. r \in S
    BY <1>3, <2>2
  <2>4. r \in CannotReach(b)
    <3>1. {r} \in SUBSET (f.blocks \ {b}) /\ \A x \in {r} : SuccSet(f, x) \subseteq {r}
      BY <1>3, <2>3
    <3> QED BY <3>1 DEF CannotReach
  <2> QED BY <2>3, <2>4
<1> QED BY <1>1, <1>6 DEF LeavesAvoiding

(* It postdominates the others in a function that always can return.       *)
LEMMA LastPostDominates ==
  ASSUME OutFunction, NEW a \in Args, NEW v, NEW b, NEW k, MadeAt(v, b, k, a), v # Final(a),
         NEW d, NEW j, MadeAt(Final(a), d, j, a), b # d, CannotReach(SingleReturn) = {}
  PROVE  b \notin LeavesAvoiding(d)
<1> DEFINE c == Final(a)
           r == SingleReturn
           S == {x \in f.blocks \ {d} : Ver(x, End(x), a) # c}
<1>1. b \in f.blocks /\ d \in f.blocks
  BY DEF MadeAt, DefinedBy
<1>2. c # Absent /\ \A s, n : DefinedBy(c, s, n) => s = d
  BY DefinitionsAreUnique DEF MadeAt
<1>3. Ver(r, End(r), a) = c /\ r \in f.blocks
  BY TheReturn DEF Final
<1> HIDE DEF c, r
<1>4. b \in S
  BY <1>1, <1>2, TakesOver DEF c
<1>5. ASSUME NEW x \in S, NEW s \in SuccSet(f, x), s # d PROVE s \in S
  BY <1>2, <1>5, OutShape, StaysAwayAlong
<1>6. r \notin S
  BY <1>3
<1>7. S \cap CannotReach(d) = {}
  <2> SUFFICES ASSUME NEW x \in S, x \in CannotReach(d) PROVE FALSE
    OBVIOUS
  <2>1. PICK T \in SUBSET (f.blocks \ {d}) : x \in T /\ \A y \in T : SuccSet(f, y) \subseteq T
    BY DEF CannotReach
  <2>2. S \cap T \in SUBSET (f.blocks \ {r}) /\ \A y \in S \cap T : SuccSet(f, y) \subseteq S \cap T
    BY <1>5, <1>6, <2>1
  <2> DEFINE W == S \cap T
  <2>3. x \in W /\ W \in SUBSET (f.blocks \ {r}) /\ \A y \in W : SuccSet(f, y) \subseteq W
    BY <2>1, <2>2
  <2> HIDE DEF W
  <2>4. x \in CannotReach(r)
    BY <2>3 DEF CannotReach
  <2> QED BY <2>4 DEF r
<1>8. S \in SUBSET (f.blocks \ {d}) /\ \A x \in S : SuccSet(f, x) \ {d} \subseteq S
  BY <1>5
<1> QED BY <1>4, <1>7, <1>8 DEF LeavesAvoiding

(* What is found for an argument is the version it has at the return.  It  *)
(* is found unless the function may get where it returns no more.          *)
LEMMA FoundIsFinal ==
  ASSUME OutFunction, NEW a \in Args
  PROVE  /\ Found(a) \subseteq {Final(a)}
         /\ CannotReach(SingleReturn) = {} => Found(a) = {Final(a)}
         /\ Final(a) = a \/ Final(a) \notin Args
         /\ Final(a) = a => Found(a) = {a}
         /\ Reaching(a) = {a} => Final(a) = a
<1> DEFINE r == SingleReturn
           c == Final(a)
           D == {v \in Reaching(a) : Dominates(v, r)}
           L == {v \in D : ~IsArg(v) /\ DefinedAt(v)[1] = r}
<1>1. a \in D /\ IsFiniteSet(D) /\ IsFiniteSet(L)
  <2>1. IsFiniteSet(Reaching(a)) /\ a \in Reaching(a)
    BY ReachingIsLeast
  <2>2. IsFiniteSet(D)
    BY <2>1, FS_Subset
  <2>3. L \in SUBSET D
    OBVIOUS
  <2> HIDE DEF D, L
  <2>4. IsFiniteSet(L)
    BY <2>2, <2>3, FS_Subset
  <2> HIDE DEF r
  <2> QED BY <2>1, <2>2, <2>4 DEF D, Dominates, IsArg
<1>2. ASSUME NEW v \in D, v # a
      PROVE  v \notin Args /\ \E b, k : MadeAt(v, b, k, a) /\ DefinedAt(v) = <<b, k>> /\ BlockDominates(f, b, r)
  <2>1. v \in Versions(a) /\ Dominates(v, r)
    BY ReachingIsVersions
  <2>2. PICK b, k : MadeAt(v, b, k, a)
    BY <1>2, <2>1, VersionsAreMade DEF IsMade
  <2>3. v \notin Args /\ DefinedAt(v) = <<b, k>>
    BY <2>2, DefinitionsAreUnique DEF MadeAt
  <2> QED BY <2>1, <2>2, <2>3 DEF Dominates, IsArg
<1>3. c \in Versions(a) /\ c \in Reaching(a)
  BY TheReturn, ReachingIsVersions
<1>4. c = a => D = {a}
  BY <1>1, <1>2, LastIsMade
<1>5. ASSUME c # a
      PROVE  c \in D /\ c \notin Args /\ \E d, j : MadeAt(c, d, j, a) /\ DefinedAt(c) = <<d, j>>
  <2>1. PICK d, j : MadeAt(c, d, j, a)
    BY <1>3, <1>5, VersionsAreMade DEF IsMade
  <2>2. c \notin Args /\ DefinedAt(c) = <<d, j>> /\ BlockDominates(f, d, r)
    BY <2>1, DefinitionsAreUnique, FinalDominates DEF MadeAt
  <2> HIDE DEF c, r
  <2> QED BY <1>3, <2>1, <2>2 DEF Dominates
<1>6. ASSUME c # a, NEW v \in D, v # a, v # c
      PROVE  /\ ~PostDominates(v, c)
             /\ CannotReach(r) = {} => PostDominates(c, v)
             /\ v \in L => c \in L
  <2>1. PICK b, k : MadeAt(v, b, k, a) /\ DefinedAt(v) = <<b, k>> /\ BlockDominates(f, b, r)
    BY <1>2, <1>6
  <2>2. PICK d, j : MadeAt(c, d, j, a) /\ DefinedAt(c) = <<d, j>>
    BY <1>5, <1>6
  <2>3. CASE b = d
    <3>1. k < j /\ ~(k > j)
      BY <1>6, <2>1, <2>2, <2>3, LastInItsBlock DEF MadeAt, DefinedBy
    <3>2. ~PostDominates(v, c) /\ PostDominates(c, v)
      <4> HIDE DEF c
      <4> QED BY <2>1, <2>2, <2>3, <3>1 DEF PostDominates
    <3> HIDE DEF D, c, r
    <3> QED BY <1>5, <1>6, <2>1, <2>2, <2>3, <3>2 DEF L, IsArg
  <2>4. CASE b # d
    <3>1. d \in LeavesAvoiding(b) /\ (CannotReach(r) = {} => b \notin LeavesAvoiding(d))
      BY <1>6, <2>1, <2>2, <2>4, LastIsAfter, LastPostDominates
    <3>2. ~PostDominates(v, c) /\ (CannotReach(r) = {} => PostDominates(c, v))
      <4> HIDE DEF c, r
      <4> QED BY <2>1, <2>2, <2>4, <3>1 DEF PostDominates
    <3>3. v \notin L
      <4> SUFFICES ASSUME b = r PROVE FALSE
        BY <2>1
      <4>1. Ver(b, End(b), a) # c
        BY <1>6, <2>1, <2>2, <2>4, TakesOver, DefinitionsAreUnique DEF MadeAt
      <4> QED BY <4>1 DEF Final
    <3> QED BY <3>2, <3>3
  <2> QED BY <2>3, <2>4
<1>7. Found(a) = IF SinglePostdominator(D) # {} THEN SinglePostdominator(D) ELSE SinglePostdominator(L)
  BY DEF Found
<1>8. a \in Args /\ \A v \in Args : IsArg(v)
  BY DEF IsArg
<1>9. a \notin L /\ L \subseteq D
  BY <1>8
<1> HIDE DEF D, L, c, r
<1>10. CASE c = a
  <2>1. Cardinality(D) = 1
    BY <1>1, <1>4, <1>10, FS_Singleton
  <2>2. Found(a) = {a}
    BY <1>4, <1>7, <1>10, <2>1 DEF SinglePostdominator
  <2> QED BY <1>10, <2>2 DEF c, r
<1>11. CASE c # a
  <2>1. c \in D /\ c \notin Args
    BY <1>5, <1>11
  <2>2. Cardinality(D) # 1
    BY <1>1, <1>11, <2>1, FS_Singleton
  <2>3. SinglePostdominator(D) = {v \in D : ~IsArg(v) /\ \A w \in D : w = v \/ IsArg(w) \/ PostDominates(v, w)}
    BY <2>2 DEF SinglePostdominator
  <2>4. SinglePostdominator(D) \subseteq {c}
    BY <1>6, <1>8, <1>11, <2>1, <2>3 DEF IsArg
  <2>5. SinglePostdominator(L) \subseteq {c}
    <3> SUFFICES ASSUME NEW v \in SinglePostdominator(L), v # c PROVE FALSE
      OBVIOUS
    <3>1. v \in L /\ v \in D /\ v # a
      BY <1>9 DEF SinglePostdominator
    <3>2. c \in L /\ ~PostDominates(v, c)
      BY <1>6, <1>11, <3>1
    <3>3. Cardinality(L) # 1
      BY <1>1, <3>1, <3>2, FS_Singleton
    <3> QED BY <2>1, <3>2, <3>3 DEF SinglePostdominator, IsArg
  <2>6. CannotReach(r) = {} => c \in SinglePostdominator(D)
    BY <1>6, <1>8, <1>11, <2>1, <2>3 DEF IsArg
  <2>7. Reaching(a) # {a}
    BY <1>3, <1>11
  <2> QED BY <1>7, <1>11, <2>1, <2>4, <2>5, <2>6, <2>7 DEF c, r
<1> QED BY <1>10, <1>11

-----------------------------------------------------------------------------
(* An execution keeps the versions                                         *)

(* What is defined without redefining a version of a is no version of a.   *)
LEMMA DefinedElsewhere ==
  ASSUME OutFunction, NEW a \in Args, NEW b \in f.blocks, NEW k \in 1 .. End(b), ~RedefinesAt(b, k, a)
  PROVE  f.code[b][k].def \notin Versions(a)
<1> DEFINE v == f.code[b][k].def
<1> SUFFICES ASSUME v \in Versions(a) PROVE FALSE
  OBVIOUS
<1>1. v # Absent /\ v \notin Args
  <2>1. v = Absent \/ DefinedOnce(f, b, k)
    BY DEF OutFunction, IsInSSA, End
  <2>2. v # a => \E c, n : DefinedBy(v, c, n)
    BY VersionsAreMade DEF IsMade, MadeAt
  <2>3. Absent \notin Args
    BY DEF OutFunction, IsInSSA, Args
  <2> HIDE DEF v
  <2>4. v # a => v # Absent
    BY <2>2, DefinitionsAreUnique
  <2>5. v # Absent
    BY <2>3, <2>4
  <2> QED BY <2>1, <2>5 DEF DefinedOnce, Args, v
<1>2. DefinedBy(v, b, k)
  BY <1>1 DEF DefinedBy
<1> HIDE DEF v
<1>3. PICK c, n : MadeAt(v, c, n, a)
  BY <1>1, VersionsAreMade DEF IsMade
<1>4. c = b /\ n = k
  BY <1>2, <1>3, DefinitionsAreUnique DEF MadeAt
<1>5. k # 0
  BY OutShape
<1> QED BY <1>3, <1>4, <1>5 DEF MadeAt

LEMMA VersionsAreDisjoint ==
  ASSUME OutFunction, NEW a \in Args, NEW c \in Args, a # c
  PROVE  Versions(a) \cap Versions(c) = {}
BY DEF OutFunction, IsVersioned, Args, Versions

(* At a point x with values e and a memory m: the version that a has there *)
(* stands for the object of a as it was written last, and nothing but      *)
(* versions of a stands for that object.                                   *)
Kept(a, x, e, m) ==
  LET v == Ver(x[1], x[2], a) IN
  /\ ArgObject(a) \in DOMAIN m
  /\ v \in DOMAIN e /\ e[v] = <<ArgObject(a), m[ArgObject(a)]>>
  /\ \A w \in DOMAIN e : e[w][1] = ArgObject(a) => w \in Versions(a)

RunsWell(x, e, m) ==
  /\ x[1] \in f.blocks /\ x[2] \in 1 .. End(x[1])
  /\ Available(f, x[1], x[2]) \subseteq DOMAIN e
  /\ \A a \in Args : Kept(a, x, e, m)

RunInv == RunsWell(at, env, mem)

LEMMA ArgObjectsDiffer ==
  /\ \A a, c : ArgObject(a) = ArgObject(c) => a = c
  /\ \A a, n : ArgObject(a) # MadeObject(n)
BY DEF ArgObject, MadeObject

LEMMA RunsWellFirst ==
  ASSUME OutFunction, RunInit
  PROVE  RunInv
<1>1. at[1] = f.entry /\ at[2] = 1 /\ f.entry \in f.blocks /\ 1 \in 1 .. End(f.entry) /\ Nph(f.entry) = 0
  BY OutShape DEF RunInit
<1>2. Available(f, f.entry, 1) \subseteq Args /\ DOMAIN env = Args
  BY <1>1, AvailableAtEntry DEF RunInit
<1>3. ASSUME NEW a \in Args PROVE Kept(a, at, env, mem)
  <2>1. Ver(f.entry, 1, a) = a
    BY DEF OutFunction, IsVersioned, Ver, Args
  <2>2. a \in Versions(a)
    BY <1>1, <2>1, VersionThere
  <2>3. /\ ArgObject(a) \in DOMAIN mem /\ mem[ArgObject(a)] = 0
        /\ \A w \in Args : env[w] = <<ArgObject(w), 0>>
    BY DEF RunInit
  <2> QED BY <1>1, <1>2, <2>1, <2>2, <2>3, ArgObjectsDiffer DEF Kept
<1> QED BY <1>1, <1>2, <1>3 DEF RunInv, RunsWell

(* What the assumption on the programs says of one instruction.            *)
LEMMA InstructionIsInSSA ==
  ASSUME OutFunction, NEW b \in f.blocks, NEW k \in 1 .. Len(f.code[b])
  PROVE  LET i == f.code[b][k] IN
         /\ i.uses \subseteq Available(f, b, k)
         /\ \/ i.op \in {"alloc", "copy"} /\ DefinedOnce(f, b, k)
            \/ i.op \in Redefinitions /\ DefinedOnce(f, b, k) /\ i.obj \in i.uses
            \/ i.op \in {"read", "end", "unreachable"} /\ i.def = Absent
<1>1. IsInSSA(f)
  BY DEF OutFunction
<1> QED BY <1>1 DEF IsInSSA

(* An instruction.                                                         *)
LEMMA ExecuteRunsWell ==
  ASSUME OutFunction, RunInv, Execute
  PROVE  RunsWell(at', env', mem')
<1> DEFINE b == at[1]
           k == at[2]
           i == f.code[b][k]
           n == steps + 1
<1>1. b \in f.blocks /\ k \in 1 .. End(b) /\ k \in 1 .. End(b) - 1 /\ k + 1 \in 1 .. End(b) /\ k \in Nat
  BY OutShape DEF RunInv, RunsWell, Execute, AtTerminator, End
<1>2. at'[1] = b /\ at'[2] = k + 1
  BY DEF Execute
<1>3. Available(f, b, k) \subseteq DOMAIN env /\ \A a \in Args : Kept(a, at, env, mem)
  BY DEF RunInv, RunsWell
<1>4. /\ i.uses \subseteq Available(f, b, k)
      /\ \/ i.op \in {"alloc", "copy"} /\ DefinedOnce(f, b, k)
         \/ i.op \in Redefinitions /\ DefinedOnce(f, b, k) /\ i.obj \in i.uses
         \/ i.op \in {"read", "end", "unreachable"} /\ i.def = Absent
  BY <1>1, InstructionIsInSSA DEF End
<1>5. /\ i.op \in {"alloc", "copy"} =>
           env' = With(env, i.def, <<MadeObject(n), n>>) /\ mem' = With(mem, MadeObject(n), n)
      /\ i.op \in {"update", "fold", "retphi"} =>
           /\ env' = With(env, i.def, <<env[i.obj][1], n>>)
           /\ mem' = With(mem, env[i.obj][1], n)
      /\ i.op = "usephi" => env' = With(env, i.def, env[i.obj]) /\ mem' = mem
      /\ i.op \in {"read", "end", "unreachable"} => env' = env /\ mem' = mem
  BY DEF Execute, Here
<1>6. ASSUME NEW a \in Args
      PROVE  /\ RedefinesAt(b, k, a) <=> i.op \in Redefinitions /\ i.obj \in Versions(a)
             /\ RedefinesAt(b, k, a) => i.obj = Ver(b, k, a) /\ Ver(b, k + 1, a) = i.def /\ i.def \in Versions(a)
             /\ ~RedefinesAt(b, k, a) => Ver(b, k + 1, a) = Ver(b, k, a) /\ i.def \notin Versions(a)
             /\ Ver(b, k, a) \in Versions(a)
  <2>1. RedefinesAt(b, k, a) <=> i.op \in Redefinitions /\ i.obj \in Versions(a)
    BY DEF RedefinesAt
  <2>2. Ver(b, k, a) \in Versions(a) /\ Ver(b, k + 1, a) \in Versions(a)
    BY <1>1, VersionThere
  <2>3. /\ RedefinesAt(b, k, a) => i.obj = Ver(b, k, a) /\ Ver(b, k + 1, a) = i.def
        /\ ~RedefinesAt(b, k, a) => Ver(b, k + 1, a) = Ver(b, k, a)
    BY <1>1, VersionNext
  <2>4. ~RedefinesAt(b, k, a) => i.def \notin Versions(a)
    BY <1>1, DefinedElsewhere
  <2> QED BY <2>1, <2>2, <2>3, <2>4
<1>7. ASSUME NEW a \in Args
      PROVE  /\ ArgObject(a) \in DOMAIN mem /\ Ver(b, k, a) \in DOMAIN env
             /\ env[Ver(b, k, a)] = <<ArgObject(a), mem[ArgObject(a)]>>
             /\ \A w \in DOMAIN env : env[w][1] = ArgObject(a) => w \in Versions(a)
  BY <1>3 DEF Kept
<1>8. i.op \in Redefinitions => i.obj \in DOMAIN env
  BY <1>3, <1>4 DEF Redefinitions
<1>9. Available(f, b, k + 1) \subseteq Available(f, b, k) \cup ({i.def} \ {Absent})
  <2>1. Available(f, b, k + 1) \ {i.def} \subseteq Available(f, b, k)
    BY <1>1, AvailableNext
  <2>2. Absent \notin Available(f, b, k + 1)
    BY AvailableIs
  <2> QED BY <2>1, <2>2
<1> DEFINE Goal == /\ Available(f, b, k + 1) \subseteq DOMAIN env'
                   /\ \A a \in Args :
                        /\ ArgObject(a) \in DOMAIN mem' /\ Ver(b, k + 1, a) \in DOMAIN env'
                        /\ env'[Ver(b, k + 1, a)] = <<ArgObject(a), mem'[ArgObject(a)]>>
                        /\ \A w \in DOMAIN env' : env'[w][1] = ArgObject(a) => w \in Versions(a)
<1> HIDE DEF b, k, i, n
<1>10. ASSUME i.op \in {"alloc", "copy"} PROVE Goal
  <2>1. env' = With(env, i.def, <<MadeObject(n), n>>) /\ mem' = With(mem, MadeObject(n), n)
    BY <1>5, <1>10
  <2>2. \A a \in Args : ~RedefinesAt(b, k, a)
    BY <1>6, <1>10 DEF Redefinitions
  <2>3. DOMAIN env' = DOMAIN env \cup {i.def}
    BY <2>1 DEF With
  <2>4. ASSUME NEW a \in Args
        PROVE  /\ ArgObject(a) \in DOMAIN mem' /\ mem'[ArgObject(a)] = mem[ArgObject(a)]
               /\ Ver(b, k, a) \in DOMAIN env' /\ env'[Ver(b, k, a)] = env[Ver(b, k, a)]
               /\ \A w \in DOMAIN env' : env'[w][1] = ArgObject(a) => w \in Versions(a)
    <3>1. ArgObject(a) \in DOMAIN mem' /\ mem'[ArgObject(a)] = mem[ArgObject(a)]
      BY <1>7, <2>1, ArgObjectsDiffer DEF With
    <3>2. Ver(b, k, a) # i.def
      BY <1>6, <2>2
    <3>3. Ver(b, k, a) \in DOMAIN env' /\ env'[Ver(b, k, a)] = env[Ver(b, k, a)]
      BY <1>7, <2>1, <3>2 DEF With
    <3>4. \A w \in DOMAIN env' : IF w = i.def THEN env'[w][1] = MadeObject(n) ELSE w \in DOMAIN env /\ env'[w] = env[w]
      BY <2>1 DEF With
    <3> QED BY <1>7, <3>1, <3>3, <3>4, ArgObjectsDiffer
  <2> QED BY <1>3, <1>6, <1>7, <1>9, <2>2, <2>3, <2>4
<1>11. ASSUME i.op \in {"update", "fold", "retphi"} PROVE Goal
  <2> DEFINE o == env[i.obj][1]
  <2>1. env' = With(env, i.def, <<o, n>>) /\ mem' = With(mem, o, n)
    BY <1>5, <1>11
  <2>2. i.op \in Redefinitions /\ i.obj \in DOMAIN env
    BY <1>8, <1>11 DEF Redefinitions
  <2>3. DOMAIN env' = DOMAIN env \cup {i.def}
    BY <2>1 DEF With
  <2>4. ASSUME NEW a \in Args PROVE RedefinesAt(b, k, a) <=> o = ArgObject(a)
    BY <1>6, <1>7, <2>2
  <2> HIDE DEF o
  <2>5. \A w \in DOMAIN env' : IF w = i.def THEN env'[w] = <<o, n>> ELSE w \in DOMAIN env /\ env'[w] = env[w]
    BY <2>1 DEF With
  <2>6. ASSUME NEW a \in Args, o = ArgObject(a)
        PROVE  /\ ArgObject(a) \in DOMAIN mem' /\ mem'[ArgObject(a)] = n
               /\ Ver(b, k + 1, a) = i.def /\ i.def \in Versions(a)
    <3>1. ArgObject(a) \in DOMAIN mem' /\ mem'[ArgObject(a)] = n
      BY <2>1, <2>6 DEF With
    <3> QED BY <1>6, <2>4, <2>6, <3>1
  <2>7. ASSUME NEW a \in Args, o # ArgObject(a)
        PROVE  /\ ArgObject(a) \in DOMAIN mem' /\ mem'[ArgObject(a)] = mem[ArgObject(a)]
               /\ Ver(b, k + 1, a) = Ver(b, k, a) /\ Ver(b, k, a) # i.def
    <3>1. ArgObject(a) \in DOMAIN mem' /\ mem'[ArgObject(a)] = mem[ArgObject(a)]
      BY <1>7, <2>1, <2>7 DEF With
    <3> QED BY <1>6, <2>4, <2>7, <3>1
  <2>8. ASSUME NEW a \in Args
        PROVE  /\ ArgObject(a) \in DOMAIN mem' /\ Ver(b, k + 1, a) \in DOMAIN env'
               /\ env'[Ver(b, k + 1, a)] = <<ArgObject(a), mem'[ArgObject(a)]>>
               /\ \A w \in DOMAIN env' : env'[w][1] = ArgObject(a) => w \in Versions(a)
    <3>1. CASE o = ArgObject(a)
      BY <1>7, <2>3, <2>5, <2>6, <3>1
    <3>2. CASE o # ArgObject(a)
      BY <1>7, <2>3, <2>5, <2>7, <3>2
    <3> QED BY <3>1, <3>2
  <2>9. Available(f, b, k + 1) \subseteq DOMAIN env'
    BY <1>3, <1>9, <2>3 DEF b, k
  <2> QED BY <2>8, <2>9
<1>12. ASSUME i.op = "usephi" PROVE Goal
  <2>1. env' = With(env, i.def, env[i.obj]) /\ mem' = mem
    BY <1>5, <1>12
  <2>2. i.op \in Redefinitions /\ i.obj \in DOMAIN env
    BY <1>8, <1>12 DEF Redefinitions
  <2>3. /\ DOMAIN env' = DOMAIN env \cup {i.def}
        /\ \A w \in DOMAIN env' : IF w = i.def THEN env'[w] = env[i.obj] ELSE w \in DOMAIN env /\ env'[w] = env[w]
    BY <2>1 DEF With
  <2>4. ASSUME NEW a \in Args
        PROVE  /\ ArgObject(a) \in DOMAIN mem' /\ Ver(b, k + 1, a) \in DOMAIN env'
               /\ env'[Ver(b, k + 1, a)] = <<ArgObject(a), mem'[ArgObject(a)]>>
               /\ \A w \in DOMAIN env' : env'[w][1] = ArgObject(a) => w \in Versions(a)
    <3>1. CASE RedefinesAt(b, k, a)
      BY <1>6, <1>7, <2>1, <2>3, <3>1
    <3>2. CASE ~RedefinesAt(b, k, a)
      <4>1. env[i.obj][1] # ArgObject(a) /\ Ver(b, k, a) # i.def
        BY <1>6, <1>7, <2>2, <3>2
      <4> QED BY <1>6, <1>7, <2>1, <2>3, <3>2, <4>1
    <3> QED BY <3>1, <3>2
  <2>5. Available(f, b, k + 1) \subseteq DOMAIN env'
    BY <1>3, <1>9, <2>3 DEF b, k
  <2> QED BY <2>4, <2>5
<1>13. ASSUME i.op \in {"read", "end", "unreachable"} PROVE Goal
  <2>1. env' = env /\ mem' = mem
    BY <1>5, <1>13
  <2>2. \A a \in Args : ~RedefinesAt(b, k, a)
    BY <1>6, <1>13 DEF Redefinitions
  <2>3. i.def = Absent
    BY <1>4, <1>13 DEF Redefinitions
  <2> QED BY <1>3, <1>6, <1>7, <1>9, <2>1, <2>2, <2>3 DEF b, k
<1>14. Goal
  BY <1>4, <1>10, <1>11, <1>12, <1>13 DEF Redefinitions
<1> QED BY <1>1, <1>2, <1>14 DEF RunsWell, Kept

(* An edge.                                                                *)
LEMMA BranchRunsWell ==
  ASSUME OutFunction, RunInv, NEW s, Branch(s)
  PROVE  RunsWell(at', env', mem')
<1> DEFINE b == at[1]
           phis == f.phis[s]
           Phi(v) == CHOOSE m \in 1 .. Nph(s) : phis[m].def = v
<1>1. b \in f.blocks /\ at[2] = End(b) /\ s \in SuccSet(f, b) /\ s \in f.blocks /\ 1 \in 1 .. End(s)
      /\ End(b) \in 1 .. End(b) /\ End(b) \in Nat /\ b \in Preds(f, s)
  BY OutShape DEF RunInv, RunsWell, Branch, AtTerminator, End, Preds
<1>2. at'[1] = s /\ at'[2] = 1 /\ mem' = mem
  BY DEF Branch
<1>3. env' = [v \in DOMAIN env \cup PhiDefs(s) |->
                IF v \in PhiDefs(s) THEN env[phis[Phi(v)].from[b]] ELSE env[v]]
  BY DEF Branch
<1>4. Available(f, b, End(b) + 1) \subseteq DOMAIN env
  <2>1. Available(f, b, End(b) + 1) \ {f.code[b][End(b)].def} \subseteq Available(f, b, End(b))
    BY <1>1, AvailableNext
  <2>2. f.code[b][End(b)].def = Absent
    BY <1>1 DEF OutFunction, IsInSSA, End, Redefinitions
  <2>3. Absent \notin Available(f, b, End(b) + 1)
    BY AvailableIs
  <2> QED BY <1>1, <2>1, <2>2, <2>3 DEF RunInv, RunsWell
<1>5. ASSUME NEW m \in 1 .. Nph(s)
      PROVE  /\ Phi(phis[m].def) = m
             /\ phis[m].from[b] \in DOMAIN env
  <2>1. \A q \in 1 .. Nph(s) : phis[q].def = phis[m].def => q = m
    BY <1>1 DEF OutFunction, IsInSSA, Nph
  <2>2. phis[m].from[b] \in Available(f, b, End(b) + 1)
    BY <1>1 DEF OutFunction, IsInSSA, Nph, End
  <2> QED BY <1>4, <2>1, <2>2
<1>6. \A m \in 1 .. Nph(s) : phis[m].def \in PhiDefs(s) /\ env'[phis[m].def] = env[phis[m].from[b]]
  BY <1>3, <1>5 DEF PhiDefs
<1>7. /\ DOMAIN env' = DOMAIN env \cup PhiDefs(s)
      /\ \A v \in DOMAIN env \ PhiDefs(s) : env'[v] = env[v]
  BY <1>3
<1>8. Available(f, s, 1) \subseteq DOMAIN env'
  <2>1. Available(f, s, 1) \ PhiDefs(s) \subseteq Available(f, b, End(b) + 1)
    BY <1>1, AvailableAlong DEF End
  <2> QED BY <1>4, <1>7, <2>1
<1>9. ASSUME NEW a \in Args PROVE Kept(a, at', env', mem')
  <2> DEFINE last == Ver(b, End(b), a)
  <2>1. /\ ArgObject(a) \in DOMAIN mem /\ last \in DOMAIN env
        /\ env[last] = <<ArgObject(a), mem[ArgObject(a)]>>
        /\ \A w \in DOMAIN env : env[w][1] = ArgObject(a) => w \in Versions(a)
    BY <1>1 DEF RunInv, RunsWell, Kept
  <2>2. ASSUME NEW m \in 1 .. Nph(s), phis[m].from[b] \in Versions(a)
        PROVE  phis[m].from[b] = last /\ Ver(s, 1, a) = phis[m].def
    BY <1>1, <2>2, VersionAlong
  <2>3. ~JoinsFrom(b, s, a) => Ver(s, 1, a) = last /\ last \notin PhiDefs(s)
    BY <1>1, VersionAlong
  <2>4. Ver(s, 1, a) \in Versions(a)
    BY <1>1, VersionThere
  <2> HIDE DEF last
  <2>5. Ver(s, 1, a) \in DOMAIN env' /\ env'[Ver(s, 1, a)] = env[last]
    <3>1. CASE JoinsFrom(b, s, a)
      <4>1. PICK m \in 1 .. Nph(s) : phis[m].from[b] \in Versions(a)
        BY <3>1 DEF JoinsFrom
      <4> QED BY <1>6, <1>7, <2>2, <4>1
    <3>2. CASE ~JoinsFrom(b, s, a)
      BY <1>7, <2>1, <2>3, <3>2
    <3> QED BY <3>1, <3>2
  <2>6. ASSUME NEW w \in DOMAIN env', env'[w][1] = ArgObject(a) PROVE w \in Versions(a)
    <3>1. CASE w \in PhiDefs(s)
      <4>1. PICK m \in 1 .. Nph(s) : w = phis[m].def
        BY <3>1 DEF PhiDefs
      <4>2. env[phis[m].from[b]][1] = ArgObject(a)
        BY <1>6, <2>6, <4>1
      <4>3. phis[m].from[b] \in Versions(a)
        BY <1>5, <2>1, <4>2
      <4> QED BY <2>2, <2>4, <4>1, <4>3
    <3>2. CASE w \notin PhiDefs(s)
      BY <1>7, <2>1, <2>6, <3>2
    <3> QED BY <3>1, <3>2
  <2> QED BY <1>2, <2>1, <2>5, <2>6 DEF Kept
<1> QED BY <1>1, <1>2, <1>8, <1>9 DEF RunsWell

-----------------------------------------------------------------------------
(* The pass                                                                *)

(* What the pass has left: each metadata names an argument it visited, at  *)
(* the version that the argument has at the return, and while it goes on   *)
(* there is one for each visited argument that was redefined.              *)
PassInv ==
  /\ phase # "stale" =>
       \A v \in DOMAIN liveOuts : \E a \in Args \ todo : v = Final(a) /\ v # a /\ liveOuts[v] = Position(a)
  /\ phase \in {"insert", "run"} =>
       \A a \in Args \ todo : Final(a) # a => Final(a) \in DOMAIN liveOuts /\ liveOuts[Final(a)] = Position(a)
  /\ phase = "run" => todo = {}
  /\ phase = "aborted" => CannotReach(SingleReturn) # {}

LiveOutInv == f \in LiveOutPrograms /\ PassInv /\ RunInv

LEMMA LiveOutInvHolds == LOSpec => []LiveOutInv
<1>1. LOInit => LiveOutInv
  <2> SUFFICES ASSUME LOInit PROVE LiveOutInv
    OBVIOUS
  <2>1. f \in LiveOutPrograms /\ RunInv
    BY ProgramsAreOutFunctions, RunsWellFirst DEF LOInit
  <2>2. phase = "stale"
    BY DEF LOInit
  <2>3. PassInv
    BY <2>2 DEF PassInv
  <2> QED BY <2>1, <2>3 DEF LiveOutInv
<1>2. LiveOutInv /\ [LONext]_<<f, outVars, execVars>> => LiveOutInv'
  <2> SUFFICES ASSUME LiveOutInv, [LONext]_<<f, outVars, execVars>> PROVE LiveOutInv'
    OBVIOUS
  <2>1. f \in LiveOutPrograms /\ OutFunction
    BY ProgramsAreOutFunctions DEF LiveOutInv
  <2>2. f' = f
    BY DEF LONext, Erase, Insert, EnterFunction, Execution, Run, OutDone, outVars, execVars
  <2>3. /\ Args' = Args /\ SingleReturn' = SingleReturn
        /\ CannotReach(SingleReturn)' = CannotReach(SingleReturn)
        /\ \A a : Final(a)' = Final(a) /\ Position(a)' = Position(a)
    BY <2>2 DEF Args, SingleReturn, Returns, CannotReach, Final, Ver, End, Position
  <2>4. UNCHANGED execVars => RunInv'
    BY <2>2 DEF LiveOutInv, RunInv, RunsWell, Kept, Ver, End, Versions, Args, execVars
  <2>5. RunsWell(at', env', mem') => RunInv'
    BY <2>2 DEF RunInv, RunsWell, Kept, Ver, End, Versions, Args
  <2>6. UNCHANGED outVars => PassInv'
    BY <2>3 DEF LiveOutInv, PassInv, outVars
  <2>7. CASE Erase
    <3>1. PassInv'
      BY <2>3, <2>7 DEF Erase, PassInv
    <3> QED BY <2>1, <2>2, <2>4, <2>7, <3>1 DEF LiveOutInv, Erase
  <2>8. ASSUME NEW a \in Args, Insert(a) PROVE LiveOutInv'
    <3>1. /\ phase = "insert" /\ a \in todo /\ todo' = todo \ {a}
          /\ phase' = IF Reaching(a) # {a} /\ Found(a) = {} THEN "aborted" ELSE phase
          /\ liveOuts' = IF Reaching(a) = {a} \/ \A v \in Found(a) : IsArg(v) THEN liveOuts
                         ELSE With(liveOuts, CHOOSE v \in Found(a) : TRUE, Position(a))
      BY <2>8 DEF Insert
    <3>2. /\ Found(a) \subseteq {Final(a)}
          /\ CannotReach(SingleReturn) = {} => Found(a) = {Final(a)}
          /\ Final(a) = a \/ Final(a) \notin Args
          /\ Reaching(a) = {a} => Final(a) = a
      BY <2>1, FoundIsFinal
    <3>3. phase' \in {"insert", "aborted"}
      BY <3>1
    <3>4. phase' = "aborted" => CannotReach(SingleReturn) # {}
      BY <3>1, <3>2
    <3>5. /\ \A v \in DOMAIN liveOuts : \E c \in Args \ todo : v = Final(c) /\ v # c /\ liveOuts[v] = Position(c)
          /\ \A c \in Args \ todo : Final(c) # c => Final(c) \in DOMAIN liveOuts /\ liveOuts[Final(c)] = Position(c)
      BY <3>1 DEF LiveOutInv, PassInv
    <3>6. ASSUME NEW c \in Args, c # a PROVE Final(c) # Final(a)
      BY <2>1, <3>6, TheReturn, VersionsAreDisjoint
    <3>7. /\ \A v \in DOMAIN liveOuts' :
               \E c \in Args \ todo' : v = Final(c) /\ v # c /\ liveOuts'[v] = Position(c)
          /\ phase' = "insert" => \A c \in Args \ todo' :
               Final(c) # c => Final(c) \in DOMAIN liveOuts' /\ liveOuts'[Final(c)] = Position(c)
      <4>1. CASE Reaching(a) = {a} \/ \A v \in Found(a) : IsArg(v)
        <5>1. liveOuts' = liveOuts
          BY <3>1, <4>1
        <5>2. phase' = "insert" => Final(a) = a
          BY <3>1, <3>2, <4>1 DEF IsArg
        <5>3. \A c \in Args \ todo' : c = a \/ c \in Args \ todo
          BY <3>1
        <5>4. Args \ todo \subseteq Args \ todo'
          BY <3>1
        <5> QED BY <3>5, <5>1, <5>2, <5>3, <5>4
      <4>2. CASE ~(Reaching(a) = {a} \/ \A v \in Found(a) : IsArg(v))
        <5>1. Found(a) = {Final(a)} /\ Final(a) \notin Args /\ Final(a) # a
          BY <3>2, <4>2 DEF IsArg
        <5>2. liveOuts' = With(liveOuts, Final(a), Position(a))
          BY <3>1, <4>2, <5>1
        <5>3. /\ DOMAIN liveOuts' = DOMAIN liveOuts \cup {Final(a)}
              /\ liveOuts'[Final(a)] = Position(a)
              /\ \A v \in DOMAIN liveOuts : v # Final(a) => liveOuts'[v] = liveOuts[v]
          BY <5>2 DEF With
        <5>4. a \in Args \ todo' /\ Args \ todo \subseteq Args \ todo' /\ \A c \in Args \ todo' : c = a \/ c \in Args \ todo
          BY <3>1
        <5>5. \A v \in DOMAIN liveOuts' :
                \E c \in Args \ todo' : v = Final(c) /\ v # c /\ liveOuts'[v] = Position(c)
          <6> SUFFICES ASSUME NEW v \in DOMAIN liveOuts'
                       PROVE  \E c \in Args \ todo' : v = Final(c) /\ v # c /\ liveOuts'[v] = Position(c)
            OBVIOUS
          <6>1. CASE v = Final(a)
            BY <5>1, <5>3, <5>4, <6>1
          <6>2. CASE v # Final(a)
            BY <3>5, <5>3, <5>4, <6>2
          <6> QED BY <6>1, <6>2
        <5>6. ASSUME NEW c \in Args \ todo', Final(c) # c
              PROVE  Final(c) \in DOMAIN liveOuts' /\ liveOuts'[Final(c)] = Position(c)
          BY <3>5, <3>6, <5>3, <5>4, <5>6
        <5> QED BY <5>5, <5>6
      <4> QED BY <4>1, <4>2
    <3>8. PassInv'
      BY <2>3, <3>3, <3>4, <3>7 DEF PassInv
    <3> QED BY <2>1, <2>2, <2>4, <2>8, <3>8 DEF LiveOutInv, Insert
  <2>9. CASE EnterFunction
    <3>1. PassInv'
      BY <2>3, <2>9 DEF LiveOutInv, PassInv, EnterFunction
    <3> QED BY <2>1, <2>2, <2>4, <2>9, <3>1 DEF LiveOutInv, EnterFunction
  <2>10. CASE Execution
    <3>1. Execute \/ \E s \in f.blocks : Branch(s)
      BY <2>10 DEF Execution, Run
    <3>2. RunInv'
      BY <2>1, <2>5, <3>1, ExecuteRunsWell, BranchRunsWell DEF LiveOutInv
    <3>3. PassInv'
      BY <2>6, <2>10 DEF Execution, outVars
    <3> QED BY <2>1, <2>2, <3>2, <3>3 DEF LiveOutInv
  <2>11. CASE OutDone \/ UNCHANGED <<f, outVars, execVars>>
    BY <2>1, <2>2, <2>4, <2>6, <2>11 DEF LiveOutInv, OutDone
  <2> QED BY <2>7, <2>8, <2>9, <2>10, <2>11 DEF LONext
<1> QED BY <1>1, <1>2, PTL DEF LOSpec

(* Arguments have places of their own.                                     *)
LEMMA PositionsDiffer ==
  ASSUME NEW a \in Args, NEW c \in Args, Position(a) = Position(c)
  PROVE  a = c
<1>1. (\E k \in DOMAIN f.args : f.args[k] = a) /\ (\E k \in DOMAIN f.args : f.args[k] = c)
  BY DEF Args, ArgsOf
<1>2. f.args[Position(a)] = a /\ f.args[Position(c)] = c
  BY <1>1 DEF Position
<1> QED BY <1>2

(* When a function has returned, its caller finds in the live-out of each  *)
(* argument, or in the version it passed if there is none, the version     *)
(* that was written last, whatever metadata the function had before; and   *)
(* the pass finds one live-out for each, unless the function may get where *)
(* it does not return any more.                                            *)
THEOREM CallersSeeTheLatest == LOSpec => []CallersFindLatest
<1>1. LiveOutInv => CallersFindLatest
  <2> SUFFICES ASSUME LiveOutInv PROVE CallersFindLatest
    OBVIOUS
  <2>1. OutFunction
    BY ProgramsAreOutFunctions DEF LiveOutInv
  <2>2. CallerSeesLatest
    <3> SUFFICES ASSUME phase = "run", Returned, NEW a \in Args
                 PROVE  SeenByCaller(a) \in DOMAIN env
                        /\ env[SeenByCaller(a)] = <<ArgObject(a), mem[ArgObject(a)]>>
      BY DEF CallerSeesLatest
    <3>1. at[1] = SingleReturn /\ at[2] = End(SingleReturn)
      <4>1. at[1] \in f.blocks /\ at[2] = End(at[1]) /\ f.succ[at[1]] = <<>> /\ f.code[at[1]][End(at[1])].op = "end"
        BY DEF LiveOutInv, RunInv, RunsWell, Returned, AtTerminator, Here, End
      <4>2. at[1] \in Returns
        BY <4>1 DEF Returns, ReturnsOf, End
      <4> QED BY <2>1, <4>1, <4>2, TheReturn
    <3>2. Final(a) \in DOMAIN env /\ env[Final(a)] = <<ArgObject(a), mem[ArgObject(a)]>>
      BY <3>1 DEF LiveOutInv, RunInv, RunsWell, Kept, Final
    <3>3. SeenByCaller(a) = Final(a)
      <4>1. CASE \E v \in DOMAIN liveOuts : liveOuts[v] = Position(a)
        <5>1. SeenByCaller(a) \in DOMAIN liveOuts /\ liveOuts[SeenByCaller(a)] = Position(a)
          BY <4>1 DEF SeenByCaller
        <5>2. PICK c \in Args : SeenByCaller(a) = Final(c) /\ liveOuts[SeenByCaller(a)] = Position(c)
          BY <5>1 DEF LiveOutInv, PassInv
        <5> QED BY <5>1, <5>2, PositionsDiffer
      <4>2. CASE ~\E v \in DOMAIN liveOuts : liveOuts[v] = Position(a)
        <5>1. SeenByCaller(a) = a
          BY <4>2 DEF SeenByCaller
        <5> QED BY <4>2, <5>1 DEF LiveOutInv, PassInv
      <4> QED BY <4>1, <4>2
    <3> QED BY <3>2, <3>3
  <2>3. EveryLiveOutIsFound
    <3> SUFFICES ASSUME phase \in {"insert", "run", "aborted"},
                        NEW v \in DOMAIN liveOuts, NEW w \in DOMAIN liveOuts, liveOuts[v] = liveOuts[w]
                 PROVE  v = w
      BY DEF EveryLiveOutIsFound, LiveOutInv, PassInv
    <3>1. PICK a \in Args : v = Final(a) /\ liveOuts[v] = Position(a)
      BY DEF LiveOutInv, PassInv
    <3>2. PICK c \in Args : w = Final(c) /\ liveOuts[w] = Position(c)
      BY DEF LiveOutInv, PassInv
    <3> QED BY <3>1, <3>2, PositionsDiffer
  <2> QED BY <2>2, <2>3 DEF CallersFindLatest
<1> QED BY <1>1, LiveOutInvHolds, PTL
=============================================================================
