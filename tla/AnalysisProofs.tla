--------------------------- MODULE AnalysisProofs ---------------------------
(***************************************************************************)
(* The liveness analysis is exact, in every function: what it records is   *)
(* needed on a path, at every moment of the fixpoint and in any order of   *)
(* the visits, and when it has ended what a path needs is recorded, but    *)
(* for PHIs carried round a loop.                                          *)
(* The verifier of linearity is sound: in a function that it accepts on    *)
(* these results no value is read after its object was updated in place.   *)
(* Dead code elimination keeps what effects and callers need.  What is     *)
(* needed is defined from the effects backwards, the walk goes forwards    *)
(* and looks one use far: the invariant between the two is that the        *)
(* instructions that are left are closed under their operands.             *)
(* Coercion casts the indices of an access down to the first collection.   *)
(* Type inference asserts of an argument what comes to it from callers and *)
(* folds, and gets one call further in each run: what a run has inferred,  *)
(* and how far each call of infer has come, keep the reason for it.        *)
(***************************************************************************)
EXTENDS Liveness, DeadCode, Coerce, TypeInference, Iterations

(* A function is finite, its control stays within it, and a block ends     *)
(* with a terminator.                                                      *)
WholeFunction ==
  /\ IsFiniteSet(f.blocks)
  /\ \A b \in f.blocks : /\ SuccSet(f, b) \subseteq f.blocks
                         /\ Nph(b) \in Nat /\ Len(f.code[b]) \in Nat \ {0}

-----------------------------------------------------------------------------
(* Points are finitely many                                                *)

LEMMA PointsAreFinite ==
  ASSUME WholeFunction
  PROVE  IsFiniteSet(Points)
<1> DEFINE ats == [b \in f.blocks |-> {<<"at", b, k>> : k \in 1 .. Len(f.code[b])}]
           edges == [b \in f.blocks |-> {<<"edge", b, s>> : s \in SuccSet(f, b)}]
<1>1. ASSUME NEW b \in f.blocks PROVE IsFiniteSet(ats[b])
  <2> DEFINE g == [k \in 1 .. Len(f.code[b]) |-> <<"at", b, k>>]
             S == DOMAIN g
  <2>1. IsFiniteSet(S)
    <3>1. Len(f.code[b]) \in Nat
      BY DEF WholeFunction
    <3>2. IsFiniteSet(1 .. Len(f.code[b]))
      BY <3>1, FS_Interval
    <3> QED BY <3>2
  <2>2. ats[b] = {g[k] : k \in S}
    OBVIOUS
  <2> HIDE DEF g
  <2>3. IsFiniteSet({g[k] : k \in S})
    BY <2>1, ImageIsFinite
  <2> QED BY <2>2, <2>3
<1>2. ASSUME NEW b \in f.blocks PROVE IsFiniteSet(edges[b])
  <2> DEFINE g == [s \in SuccSet(f, b) |-> <<"edge", b, s>>]
             S == DOMAIN g
  <2>1. IsFiniteSet(S)
    BY FS_Subset DEF WholeFunction
  <2>2. edges[b] = {g[k] : k \in S}
    OBVIOUS
  <2> HIDE DEF g
  <2>3. IsFiniteSet({g[k] : k \in S})
    BY <2>1, ImageIsFinite
  <2> QED BY <2>2, <2>3
<1>3. \A b \in f.blocks : /\ ats[b] = {<<"at", b, k>> : k \in 1 .. Len(f.code[b])}
                          /\ edges[b] = {<<"edge", b, s>> : s \in SuccSet(f, b)}
  OBVIOUS
<1>4. DOMAIN ats = f.blocks /\ DOMAIN edges = f.blocks
  OBVIOUS
<1> HIDE DEF ats, edges
<1> DEFINE A == {ats[b] : b \in f.blocks}
           E == {edges[b] : b \in f.blocks}
<1>5. IsFiniteSet(A) /\ IsFiniteSet(E)
  BY <1>4, ImageIsFinite DEF WholeFunction
<1>6. (\A T \in A : IsFiniteSet(T)) /\ (\A T \in E : IsFiniteSet(T))
  BY <1>1, <1>2
<1>7. ASSUME NEW x \in Points PROVE \E b \in f.blocks : x \in ats[b] \/ x \in edges[b]
  <2>1. \/ \E b \in f.blocks : \E k \in 1 .. Len(f.code[b]) : x = <<"at", b, k>>
        \/ \E b \in f.blocks : \E s \in SuccSet(f, b) : x = <<"edge", b, s>>
    BY DEF Points
  <2> QED BY <1>3, <2>1
<1>8. Points \subseteq (UNION A) \cup (UNION E)
  BY <1>7
<1> HIDE DEF A, E
<1>10. IsFiniteSet(UNION A) /\ IsFiniteSet(UNION E)
  BY <1>5, <1>6, FS_UNION
<1>11. IsFiniteSet((UNION A) \cup (UNION E))
  BY <1>10, FS_Union
<1> QED BY <1>8, <1>11, FS_Subset

(* The points, and where they lead.                                        *)
LEMMA PointFacts ==
  ASSUME WholeFunction
  PROVE  /\ \A b \in f.blocks :
              /\ \A k \in 1 .. Len(f.code[b]) : <<"at", b, k>> \in Points
              /\ \A s \in SuccSet(f, b) : <<"edge", b, s>> \in Points
         /\ \A x \in Points : After(x) \subseteq Points
<1>1. \A b \in f.blocks :
        /\ \A k \in 1 .. Len(f.code[b]) : <<"at", b, k>> \in Points
        /\ \A s \in SuccSet(f, b) : <<"edge", b, s>> \in Points
  BY DEF Points
<1>2. ASSUME NEW x \in Points PROVE After(x) \subseteq Points
  <2>1. CASE \E b \in f.blocks : \E k \in 1 .. Len(f.code[b]) : x = <<"at", b, k>>
    <3>1. PICK b \in f.blocks : \E k \in 1 .. Len(f.code[b]) : x = <<"at", b, k>>
      BY <2>1
    <3>. PICK k \in 1 .. Len(f.code[b]) : x = <<"at", b, k>>
      BY <3>1
    <3>2. Len(f.code[b]) \in Nat
      BY DEF WholeFunction
    <3>3. k < Len(f.code[b]) => k + 1 \in 1 .. Len(f.code[b])
      BY <3>2
    <3> QED BY <1>1, <3>1, <3>3 DEF After, IsEdge
  <2>2. CASE \E b \in f.blocks : \E s \in SuccSet(f, b) : x = <<"edge", b, s>>
    <3>1. PICK b \in f.blocks : \E s \in SuccSet(f, b) : x = <<"edge", b, s>>
      BY <2>2
    <3>. PICK s \in SuccSet(f, b) : x = <<"edge", b, s>>
      BY <3>1
    <3>2. s \in f.blocks /\ 1 \in 1 .. Len(f.code[s])
      BY DEF WholeFunction
    <3> QED BY <1>1, <3>1, <3>2 DEF After, IsEdge
  <2> QED BY <2>1, <2>2 DEF Points
<1> QED BY <1>1, <1>2

-----------------------------------------------------------------------------
(* What is needed                                                          *)

(* R holds the uses of each point, and what it holds for the points after  *)
(* it but what is defined there.                                           *)
HoldsUses(R) ==
  \A x \in Points : Using(x) \subseteq R[x] /\ \A y \in After(x) : R[y] \ Defining(x) \subseteq R[x]

(* w[n] is what is needed of a use at most n points away.                  *)
IsWithin(w, N) ==
  \A n \in 0 .. N :
    w[n] = IF n = 0 THEN [x \in Points |-> Using(x)]
           ELSE [x \in Points |->
                   Using(x) \cup ((UNION {w[n - 1][y] : y \in After(x)}) \ Defining(x))]

(* Needed is the last of these.                                            *)
LEMMA NeededIsWithin ==
  ASSUME WholeFunction
  PROVE  \E w : IsWithin(w, Cardinality(Points)) /\ Needed = w[Cardinality(Points)]
<1> DEFINE N == Cardinality(Points)
           V == UNION {Using(x) : x \in Points}
           A == [Points -> SUBSET V]
           base == [x \in Points |-> Using(x)]
           grow == [r \in A |-> [x \in Points |->
                      Using(x) \cup ((UNION {r[y] : y \in After(x)}) \ Defining(x))]]
           step == [n \in 1 .. N |-> grow]
           Def(g) == g = [n \in 0 .. N |->
                            IF n = 0 THEN [x \in Points |-> Using(x)]
                            ELSE LET nearer == g[n - 1] IN
                                 [x \in Points |->
                                    Using(x) \cup ((UNION {nearer[y] : y \in After(x)}) \ Defining(x))]]
           within == CHOOSE g : Def(g)
<1>1. N \in Nat
  BY PointsAreFinite, FS_CardinalityType
<1>2. base \in A
  OBVIOUS
<1>3. ASSUME NEW r \in A PROVE grow[r] \in A
  <2>1. ASSUME NEW x \in Points
        PROVE  Using(x) \cup ((UNION {r[y] : y \in After(x)}) \ Defining(x)) \in SUBSET V
    <3>1. \A y \in After(x) : y \in Points
      BY PointFacts
    <3>2. \A y \in After(x) : r[y] \in SUBSET V
      BY <3>1
    <3>3. Using(x) \in SUBSET V
      OBVIOUS
    <3> HIDE DEF V
    <3> QED BY <3>2, <3>3
  <2> HIDE DEF V
  <2> QED BY <2>1
<1>4. StepsStayIn(A, N, base, step)
  <2> HIDE DEF A, N, base, grow
  <2> QED BY <1>1, <1>2, <1>3 DEF StepsStayIn
<1>5. PICK g \in [0 .. N -> A] : TakesSteps(g, N, base, step)
  <2> HIDE DEF A, N, base, step
  <2> QED BY <1>4, RecursionExists
<1>6. ASSUME NEW n \in 1 .. N
      PROVE  g[n] = [x \in Points |->
                       Using(x) \cup ((UNION {g[n - 1][y] : y \in After(x)}) \ Defining(x))]
  <2>1. n - 1 \in 0 .. N
    BY <1>1
  <2>2. g[n - 1] \in A
    BY <2>1
  <2>3. g[n] = grow[g[n - 1]]
    BY <1>5 DEF TakesSteps
  <2> HIDE DEF A
  <2> QED BY <2>2, <2>3
<1>7. Def(g)
  <2>1. g[0] = [x \in Points |-> Using(x)]
    BY <1>5 DEF TakesSteps
  <2>2. \A n \in 0 .. N : n # 0 => n \in 1 .. N
    BY <1>1
  <2>3. g = [n \in 0 .. N |-> g[n]]
    OBVIOUS
  <2> HIDE DEF A, N, V
  <2> QED BY <1>6, <2>1, <2>2, <2>3
<1>8. Def(within)
  <2> HIDE DEF N
  <2> QED BY <1>7
<1>9. Needed = within[N]
  BY DEF Needed
<1> HIDE DEF within, N, V, A, base, grow, step
<1>10. IsWithin(within, N)
  BY <1>8 DEF IsWithin
<1>11. IsWithin(within, Cardinality(Points)) /\ Needed = within[Cardinality(Points)]
  BY <1>9, <1>10 DEF N
<1> QED BY <1>11

(* The same, point by point.                                               *)
StepsWithin(w, N) ==
  /\ \A x \in Points : w[0][x] = Using(x)
  /\ \A n \in Nat : n + 1 <= N =>
       \A x \in Points :
         w[n + 1][x] = Using(x) \cup ((UNION {w[n][y] : y \in After(x)}) \ Defining(x))

LEMMA WithinStep ==
  ASSUME NEW N \in Nat, NEW w, IsWithin(w, N)
  PROVE  StepsWithin(w, N)
<1>1. \A x \in Points : w[0][x] = Using(x)
  <2>1. 0 \in 0 .. N
    OBVIOUS
  <2>2. w[0] = [x \in Points |-> Using(x)]
    BY <2>1 DEF IsWithin
  <2> QED BY <2>2
<1>2. ASSUME NEW n \in Nat, n + 1 <= N
      PROVE  \A x \in Points :
               w[n + 1][x] = Using(x) \cup ((UNION {w[n][y] : y \in After(x)}) \ Defining(x))
  <2> DEFINE m == n + 1
  <2>1. m \in 0 .. N /\ m # 0 /\ m - 1 = n
    BY <1>2
  <2> HIDE DEF m
  <2>2. w[m] = [x \in Points |->
                  Using(x) \cup ((UNION {w[m - 1][y] : y \in After(x)}) \ Defining(x))]
    BY <2>1 DEF IsWithin
  <2>3. w[m] = [x \in Points |->
                  Using(x) \cup ((UNION {w[n][y] : y \in After(x)}) \ Defining(x))]
    BY <2>1, <2>2
  <2> QED BY <2>3 DEF m
<1> QED BY <1>1, <1>2 DEF StepsWithin

(* Nothing is needed but by a use that lies ahead: what holds the uses     *)
(* holds all that is needed.                                               *)
LEMMA NeededIsLeast ==
  ASSUME WholeFunction, NEW R, HoldsUses(R)
  PROVE  \A x \in Points : Needed[x] \subseteq R[x]
<1> DEFINE N == Cardinality(Points)
<1>1. N \in Nat
  BY PointsAreFinite, FS_CardinalityType
<1>2. PICK w : IsWithin(w, N) /\ Needed = w[N]
  BY NeededIsWithin
<1> HIDE DEF N
<1> DEFINE S == {n \in Nat : n <= N => \A x \in Points : w[n][x] \subseteq R[x]}
<1>3. 0 \in S
  <2>1. \A x \in Points : w[0][x] = Using(x)
    BY <1>1, <1>2, WithinStep DEF StepsWithin
  <2> QED BY <2>1 DEF HoldsUses
<1>4. ASSUME NEW n \in Nat, n \in S PROVE n + 1 \in S
  <2> SUFFICES ASSUME n + 1 <= N, NEW x \in Points PROVE w[n + 1][x] \subseteq R[x]
    OBVIOUS
  <2>1. w[n + 1][x] = Using(x) \cup ((UNION {w[n][y] : y \in After(x)}) \ Defining(x))
    <3>1. StepsWithin(w, N)
      BY <1>1, <1>2, WithinStep
    <3> QED BY <3>1 DEF StepsWithin
  <2>2. After(x) \subseteq Points
    BY PointFacts
  <2>3. \A y \in Points : w[n][y] \subseteq R[y]
    BY <1>1, <1>4
  <2>4. Using(x) \subseteq R[x] /\ \A y \in After(x) : R[y] \ Defining(x) \subseteq R[x]
    BY DEF HoldsUses
  <2> QED BY <2>1, <2>2, <2>3, <2>4
<1> HIDE DEF S
<1>5. N \in S
  BY <1>1, <1>3, <1>4, SetInduction
<1> QED BY <1>1, <1>2, <1>5 DEF S

(* Paths need not be longer than there are points: of each value, the      *)
(* points that need it are closed.                                         *)
LEMMA NeededHoldsUses ==
  ASSUME WholeFunction
  PROVE  HoldsUses(Needed)
<1> DEFINE N == Cardinality(Points)
<1>1. N \in Nat /\ IsFiniteSet(Points)
  BY PointsAreFinite, FS_CardinalityType
<1>2. PICK w : IsWithin(w, N) /\ Needed = w[N]
  BY NeededIsWithin
<1>3. /\ \A x \in Points : w[0][x] = Using(x)
      /\ \A n \in Nat : n + 1 <= N =>
           \A x \in Points :
             w[n + 1][x] = Using(x) \cup ((UNION {w[n][y] : y \in After(x)}) \ Defining(x))
  <2> HIDE DEF N
  <2> QED BY <1>1, <1>2, WithinStep DEF StepsWithin
<1>4. \A x \in Points : After(x) \subseteq Points
  BY PointFacts
<1> DEFINE S == {n \in Nat : n + 1 <= N => \A x \in Points : w[n][x] \subseteq w[n + 1][x]}
<1>5. Nat \subseteq S
  <2> HIDE DEF N
  <2>1. 0 \in S
    <3> SUFFICES ASSUME 0 + 1 <= N, NEW x \in Points PROVE w[0][x] \subseteq w[0 + 1][x]
      OBVIOUS
    <3> QED BY <1>3
  <2>2. ASSUME NEW n \in Nat, n \in S PROVE n + 1 \in S
    <3> DEFINE m == n + 1
    <3> SUFFICES ASSUME m + 1 <= N, NEW x \in Points PROVE w[m][x] \subseteq w[m + 1][x]
      OBVIOUS
    <3>1. w[m][x] = Using(x) \cup ((UNION {w[n][y] : y \in After(x)}) \ Defining(x))
      BY <1>1, <1>3
    <3>2. w[m + 1][x] = Using(x) \cup ((UNION {w[m][y] : y \in After(x)}) \ Defining(x))
      <4>1. m \in Nat
        OBVIOUS
      <4> HIDE DEF m
      <4> QED BY <1>3, <4>1
    <3>3. \A y \in After(x) : w[n][y] \subseteq w[m][y]
      BY <1>1, <1>4, <2>2
    <3> HIDE DEF m
    <3> QED BY <3>1, <3>2, <3>3
  <2> HIDE DEF S
  <2> QED BY <2>1, <2>2, SetInduction
<1>6. ASSUME NEW v, NEW x \in Points,
             v \in Using(x) \/ (v \notin Defining(x) /\ \E y \in After(x) : v \in w[N][y])
      PROVE  v \in w[N][x]
  <2> DEFINE base == {z \in Points : v \in Using(z)}
             grow == [X \in SUBSET Points |->
                        X \cup {z \in Points : v \in Using(z)
                                               \/ (v \notin Defining(z) /\ \E y \in After(z) : y \in X)}]
             g == [n \in 0 .. N |-> {z \in Points : v \in w[n][z]}]
  <2>1. base \in SUBSET Points /\ GrowsWithin(Points, grow)
    BY DEF GrowsWithin
  <2>2. Grows(g, N, base, grow)
    <3>1. g[0] = base
      BY <1>1, <1>3
    <3>2. ASSUME NEW n \in 1 .. N PROVE g[n] = grow[g[n - 1]]
      <4> DEFINE m == n - 1
      <4>1. m \in Nat /\ m + 1 = n /\ m + 1 <= N /\ n \in 0 .. N /\ m \in 0 .. N
        BY <1>1
      <4>2. \A z \in Points : w[n][z] = Using(z) \cup ((UNION {w[m][y] : y \in After(z)}) \ Defining(z))
        BY <1>3, <4>1
      <4>3. \A z \in Points : w[m][z] \subseteq w[n][z]
        BY <1>5, <4>1
      <4>4. g[n] = {z \in Points : v \in w[n][z]} /\ g[m] = {z \in Points : v \in w[m][z]}
        BY <4>1
      <4> HIDE DEF g, m
      <4>5. g[m] \in SUBSET Points
        BY <4>4
      <4>6. grow[g[m]] = g[m] \cup {z \in Points : v \in Using(z)
                                    \/ (v \notin Defining(z) /\ \E y \in After(z) : y \in g[m])}
        BY <4>5
      <4>7. ASSUME NEW z \in Points PROVE z \in g[n] <=> z \in grow[g[m]]
        BY <1>4, <4>2, <4>3, <4>4, <4>6
      <4>8. g[n] \subseteq Points /\ grow[g[m]] \subseteq Points
        BY <4>4, <4>6
      <4> HIDE DEF grow
      <4>9. g[n] = grow[g[m]]
        BY <4>7, <4>8
      <4> QED BY <4>9 DEF m
    <3> HIDE DEF g, grow, base
    <3> QED BY <3>1, <3>2 DEF Grows
  <2>3. N \in 0 .. N
    BY <1>1
  <2>4. g[N] = {z \in Points : v \in w[N][z]}
    BY <2>3
  <2> HIDE DEF g, grow, base
  <2>5. grow[g[N]] = g[N]
    BY <1>1, <2>1, <2>2, IterationsClose
  <2>6. x \in grow[g[N]]
    <3>1. g[N] \in SUBSET Points
      BY <2>4
    <3> QED BY <1>4, <1>6, <2>4, <3>1 DEF grow
  <2> QED BY <2>4, <2>5, <2>6
<1> HIDE DEF N
<1> QED BY <1>2, <1>6 DEF HoldsUses

-----------------------------------------------------------------------------
(* What a visit computes                                                   *)

(* Across an edge: nothing but what is live at the first instruction that  *)
(* is no PHI and is no PHI, and what the PHIs take on the edge; and all of *)
(* it, but what a later PHI of the block, or the same, erases again.       *)
LEMMA InOnEdgeFacts ==
  ASSUME WholeFunction, NEW from \in f.blocks, NEW to \in SuccSet(f, from)
  PROVE  LET first == liveIn[to][Nph(to) + 1] IN
         /\ InOnEdge(from, to) \subseteq (first \ PhiDefs(to)) \cup PhiUses(to, from)
         /\ first \ PhiDefs(to) \subseteq InOnEdge(from, to)
         /\ PhiUses(to, from) \ CarriedPhis \subseteq InOnEdge(from, to)
<1> DEFINE N == Nph(to)
           first == liveIn[to][Nph(to) + 1]
           use == [k \in 1 .. N |-> f.phis[to][k].from[from]]
           def == [k \in 1 .. N |-> f.phis[to][k].def]
           V == first \cup {use[k] : k \in 1 .. N}
           step == [k \in 1 .. N |-> [X \in SUBSET V |-> (X \cup {use[k]}) \ {def[k]}]]
           Def(g) == g = [k \in 0 .. N |->
                            IF k = 0 THEN liveIn[to][Nph(to) + 1]
                            ELSE (g[k - 1] \cup {f.phis[to][k].from[from]}) \ {f.phis[to][k].def}]
           walked == CHOOSE g : Def(g)
<1>1. N \in Nat /\ to \in f.blocks
  BY DEF WholeFunction
<1>2. StepsStayIn(SUBSET V, N, first, step)
  <2>1. ASSUME NEW k \in 1 .. N, NEW X \in SUBSET V PROVE step[k][X] \in SUBSET V
    <3>1. use[k] \in V
      OBVIOUS
    <3>2. step[k][X] = (X \cup {use[k]}) \ {def[k]}
      OBVIOUS
    <3> HIDE DEF step, V, use, def
    <3> QED BY <3>1, <3>2
  <2>2. first \in SUBSET V
    OBVIOUS
  <2> HIDE DEF step, V, first, N
  <2> QED BY <1>1, <2>1, <2>2 DEF StepsStayIn
<1>3. PICK g \in [0 .. N -> SUBSET V] : TakesSteps(g, N, first, step)
  <2> HIDE DEF step, V, first, N
  <2> QED BY <1>2, RecursionExists
<1>4. Def(g)
  <2>1. g[0] = first
    BY <1>3 DEF TakesSteps
  <2>2. ASSUME NEW k \in 1 .. N PROVE g[k] = (g[k - 1] \cup {use[k]}) \ {def[k]}
    <3>1. k - 1 \in 0 .. N
      BY <1>1
    <3>2. g[k - 1] \in SUBSET V
      BY <3>1
    <3>3. g[k] = step[k][g[k - 1]]
      BY <1>3 DEF TakesSteps
    <3> HIDE DEF V, use, def
    <3> QED BY <3>2, <3>3
  <2>3. \A k \in 0 .. N : k # 0 => k \in 1 .. N
    BY <1>1
  <2>4. \A k \in 1 .. N : use[k] = f.phis[to][k].from[from] /\ def[k] = f.phis[to][k].def
    OBVIOUS
  <2>5. g = [k \in 0 .. N |-> g[k]]
    OBVIOUS
  <2> HIDE DEF V, use, def, N
  <2> QED BY <2>1, <2>2, <2>3, <2>4, <2>5
<1>5. Def(walked)
  <2> HIDE DEF N
  <2> QED BY <1>4
<1>6. InOnEdge(from, to) = walked[N]
  BY DEF InOnEdge
<1> HIDE DEF walked
<1>7. walked[0] = first
  BY <1>1, <1>5
<1>8. ASSUME NEW k \in Nat, k + 1 <= N
      PROVE  walked[k + 1] = (walked[k] \cup {use[k + 1]}) \ {def[k + 1]}
  <2> DEFINE m == k + 1
  <2>1. m \in 0 .. N /\ m # 0 /\ m - 1 = k /\ m \in 1 .. N
    BY <1>1, <1>8
  <2> HIDE DEF m, N
  <2>2. walked[m] = (walked[m - 1] \cup {f.phis[to][m].from[from]}) \ {f.phis[to][m].def}
    BY <1>5, <2>1
  <2>3. use[m] = f.phis[to][m].from[from] /\ def[m] = f.phis[to][m].def
    BY <2>1
  <2> QED BY <2>1, <2>2, <2>3 DEF m
<1>9. /\ PhiUses(to, from) = {use[k] : k \in 1 .. N}
      /\ PhiDefs(to) = {def[k] : k \in 1 .. N}
  BY DEF PhiUses, PhiDefs
<1>10. ASSUME NEW m \in 1 .. N, NEW k \in m .. N, use[m] = def[k]
       PROVE  use[m] \in CarriedPhis
  <2>1. from \in Preds(f, to)
    BY DEF Preds
  <2>2. k \in 1 .. N /\ m \in 1 .. k
    BY <1>1
  <2>3. f.phis[to][m].from[from] = f.phis[to][k].def /\ use[m] = f.phis[to][k].def
    BY <1>10, <2>2
  <2>4. k \in {n \in 1 .. Nph(to) :
                 \E j \in 1 .. n : \E p \in Preds(f, to) : f.phis[to][j].from[p] = f.phis[to][n].def}
    BY <2>1, <2>2, <2>3
  <2>5. f.phis[to][k].def \in
          {f.phis[to][x].def : x \in {n \in 1 .. Nph(to) :
             \E j \in 1 .. n : \E p \in Preds(f, to) : f.phis[to][j].from[p] = f.phis[to][n].def}}
    BY <2>4
  <2>6. f.phis[to][k].def \in CarriedPhis
    <3> DEFINE G(b) == {f.phis[b][x].def : x \in {n \in 1 .. Nph(b) :
                           \E j \in 1 .. n : \E p \in Preds(f, b) : f.phis[b][j].from[p] = f.phis[b][n].def}}
    <3>1. CarriedPhis = UNION {G(b) : b \in f.blocks}
      BY DEF CarriedPhis
    <3>2. f.phis[to][k].def \in G(to)
      BY <2>5
    <3> HIDE DEF G
    <3>3. \E b \in f.blocks : f.phis[to][k].def \in G(b)
      BY <1>1, <3>2
    <3> QED BY <3>1, <3>3
  <2> QED BY <2>3, <2>6
<1> DEFINE U == {use[k] : k \in 1 .. N}
           D == {def[k] : k \in 1 .. N}
<1>11. \A k \in 1 .. N : use[k] \in U /\ def[k] \in D
  OBVIOUS
<1>12. \A v \in D : \E k \in 1 .. N : v = def[k]
  OBVIOUS
<1>13. \A v \in U : \E k \in 1 .. N : v = use[k]
  OBVIOUS
<1> HIDE DEF use, def, V, step, first, N, U, D
<1> DEFINE S == {k \in Nat : k <= N =>
                   /\ walked[k] \subseteq first \cup U
                   /\ \A m \in 1 .. k : walked[k] \cap {def[m]} \subseteq U
                   /\ first \ D \subseteq walked[k]
                   /\ \A m \in 1 .. k : {use[m]} \ CarriedPhis \subseteq walked[k]}
<1>14. 0 \in S
  BY <1>7
<1>15. ASSUME NEW k \in Nat, k \in S PROVE k + 1 \in S
  <2> SUFFICES ASSUME k + 1 <= N
               PROVE  /\ walked[k + 1] \subseteq first \cup U
                      /\ \A m \in 1 .. k + 1 : walked[k + 1] \cap {def[m]} \subseteq U
                      /\ first \ D \subseteq walked[k + 1]
                      /\ \A m \in 1 .. k + 1 : {use[m]} \ CarriedPhis \subseteq walked[k + 1]
    OBVIOUS
  <2> DEFINE n == k + 1
  <2>1. /\ walked[k] \subseteq first \cup U
        /\ \A m \in 1 .. k : walked[k] \cap {def[m]} \subseteq U
        /\ first \ D \subseteq walked[k]
        /\ \A m \in 1 .. k : {use[m]} \ CarriedPhis \subseteq walked[k]
    BY <1>1, <1>15
  <2>2. n \in 1 .. N /\ \A m \in 1 .. n : m \in 1 .. k \/ m = n
    BY <1>1
  <2>3. walked[n] = (walked[k] \cup {use[n]}) \ {def[n]}
    BY <1>8
  <2>4. use[n] \in U /\ def[n] \in D
    BY <1>11, <2>2
  <2>5. \A m \in 1 .. n : m \in 1 .. N /\ n \in m .. N
    BY <1>1, <2>2
  <2> HIDE DEF n
  <2>6. \A m \in 1 .. n : walked[n] \cap {def[m]} \subseteq U
    BY <2>1, <2>2, <2>3, <2>4
  <2>7. \A m \in 1 .. n : {use[m]} \ CarriedPhis \subseteq walked[n]
    BY <1>10, <2>1, <2>2, <2>3, <2>5
  <2> QED BY <2>1, <2>3, <2>4, <2>6, <2>7 DEF n
<1> HIDE DEF S
<1>16. N \in S
  BY <1>1, <1>14, <1>15, SetInduction
<1>17. /\ walked[N] \subseteq first \cup U
       /\ \A m \in 1 .. N : walked[N] \cap {def[m]} \subseteq U
       /\ first \ D \subseteq walked[N]
       /\ \A m \in 1 .. N : {use[m]} \ CarriedPhis \subseteq walked[N]
  BY <1>1, <1>16 DEF S
<1>18. walked[N] \subseteq (first \ D) \cup U
  BY <1>12, <1>17
<1>19. U \ CarriedPhis \subseteq walked[N]
  BY <1>13, <1>17
<1> QED BY <1>6, <1>9, <1>17, <1>18, <1>19 DEF U, D, first

(* flow is what a visit of block b computes, from its last instruction up. *)
Flows(flow, b) ==
  LET n == Nph(b) + Len(f.code[b]) IN
  \A i \in 1 .. n :
    /\ flow[i].out = IF i = n THEN UNION {InOnEdge(b, s) : s \in SuccSet(f, b)} ELSE flow[i + 1].in
    /\ flow[i].in = (flow[i].out \ Kill(b, i)) \cup Gen(b, i)

LEMMA TransferredFlows ==
  ASSUME WholeFunction, NEW b \in f.blocks
  PROVE  Flows(Transferred(b), b)
<1> DEFINE n == Nph(b) + Len(f.code[b])
           last == UNION {InOnEdge(b, s) : s \in SuccSet(f, b)}
           V == last \cup UNION {Gen(b, i) : i \in 1 .. n}
           A == [out : SUBSET V, in : SUBSET V]
           Through(out, i) == [out |-> out, in |-> (out \ Kill(b, i)) \cup Gen(b, i)]
           N == n - 1
           step == [m \in 1 .. N |-> [r \in A |-> Through(r.in, n - m)]]
           Def(g) == g = [i \in 1 .. n |->
                            LET out == IF i = n THEN UNION {InOnEdge(b, s) : s \in SuccSet(f, b)}
                                       ELSE g[i + 1].in
                            IN  [out |-> out, in |-> (out \ Kill(b, i)) \cup Gen(b, i)]]
           flow == CHOOSE g : Def(g)
<1>1. n \in Nat \ {0} /\ N \in Nat
  <2> DEFINE p == Nph(b)
             c == Len(f.code[b])
  <2>1. p \in Nat /\ c \in Nat \ {0}
    BY DEF WholeFunction
  <2> HIDE DEF p, c
  <2>2. p + c \in Nat \ {0} /\ p + c - 1 \in Nat
    BY <2>1
  <2> QED BY <2>2 DEF p, c
<1>2. \A i \in 1 .. n : Gen(b, i) \subseteq V
  OBVIOUS
<1>3. last \subseteq V
  OBVIOUS
<1> HIDE DEF V, n, last
<1>4. ASSUME NEW i \in 1 .. n, NEW out \in SUBSET V PROVE Through(out, i) \in A
  BY <1>2
<1>5. StepsStayIn(A, N, Through(last, n), step)
  <2>1. n \in 1 .. n /\ \A m \in 1 .. N : n - m \in 1 .. n
    BY <1>1
  <2>2. Through(last, n) \in A
    BY <1>3, <1>4, <2>1
  <2>3. ASSUME NEW m \in 1 .. N, NEW r \in A PROVE step[m][r] \in A
    <3>1. Through(r.in, n - m) \in A
      BY <1>4, <2>1
    <3>2. step[m][r] = Through(r.in, n - m)
      OBVIOUS
    <3> QED BY <3>1, <3>2
  <2> HIDE DEF A, step, N, Through
  <2> QED BY <1>1, <2>2, <2>3 DEF StepsStayIn
<1>6. PICK h \in [0 .. N -> A] : TakesSteps(h, N, Through(last, n), step)
  <2> HIDE DEF A, step, N, Through
  <2> QED BY <1>5, RecursionExists
<1> DEFINE g == [i \in 1 .. n |-> h[n - i]]
<1>7. ASSUME NEW i \in 1 .. n
      PROVE  g[i] = Through(IF i = n THEN last ELSE g[i + 1].in, i)
  <2>1. CASE i = n
    <3>1. n - n = 0 /\ n \in 1 .. n
      BY <1>1
    <3>2. h[0] = Through(last, n)
      BY <1>6 DEF TakesSteps
    <3>3. g[n] = h[n - n]
      BY <3>1
    <3> HIDE DEF Through, g
    <3> QED BY <2>1, <3>1, <3>2, <3>3
  <2>2. CASE i # n
    <3> DEFINE m == n - i
    <3>1. m \in 1 .. N /\ m - 1 = n - (i + 1) /\ m - 1 \in 0 .. N /\ n - m = i /\ i + 1 \in 1 .. n
      BY <1>1, <2>2
    <3>2. h[m] = step[m][h[m - 1]]
      BY <1>6, <3>1 DEF TakesSteps
    <3>3. h[m - 1] \in A
      BY <1>6, <3>1
    <3>4. g[i] = h[m] /\ g[i + 1] = h[m - 1]
      BY <3>1
    <3> HIDE DEF Through, g, m, A
    <3>5. step[m][h[m - 1]] = Through(h[m - 1].in, n - m)
      BY <3>1, <3>3
    <3> QED BY <2>2, <3>1, <3>2, <3>4, <3>5
  <2> QED BY <2>1, <2>2
<1>8. Def(g)
  <2>1. g = [i \in 1 .. n |-> g[i]]
    OBVIOUS
  <2> HIDE DEF g
  <2> QED BY <1>7, <2>1 DEF last
<1>9. Def(flow)
  BY <1>8
<1>10. Transferred(b) = flow
  BY DEF Transferred, n
<1> HIDE DEF flow
<1>11. ASSUME NEW i \in 1 .. n
       PROVE  /\ flow[i].out = IF i = n THEN last ELSE flow[i + 1].in
              /\ flow[i].in = (flow[i].out \ Kill(b, i)) \cup Gen(b, i)
  <2>1. flow[i] = Through(IF i = n THEN last ELSE flow[i + 1].in, i)
    BY <1>9 DEF last
  <2> QED BY <2>1
<1> QED BY <1>10, <1>11 DEF Flows, n, last

-----------------------------------------------------------------------------
(* The fixpoint                                                            *)

(* What is recorded before an instruction that is no PHI is needed there.  *)
RecordsNeeded(live) ==
  \A b \in f.blocks : \A k \in 1 .. Len(f.code[b]) :
    live[b][Nph(b) + k] \subseteq Needed[<<"at", b, k>>]

(* The inductive invariant.                                                *)
LivenessInv ==
  /\ WholeFunction
  /\ DOMAIN liveIn = f.blocks
  /\ RecordsNeeded(liveIn)
  /\ verdict # "pending" => LivenessDone

(* A visit that starts from what is needed computes what is needed.        *)
LEMMA FlowIsNeeded ==
  ASSUME WholeFunction, RecordsNeeded(liveIn), NEW b \in f.blocks, NEW flow, Flows(flow, b)
  PROVE  \A k \in 1 .. Len(f.code[b]) : flow[Nph(b) + k].in \subseteq Needed[<<"at", b, k>>]
<1> DEFINE p == Nph(b)
           c == Len(f.code[b])
<1>1. p \in Nat /\ c \in Nat \ {0}
  BY DEF WholeFunction
<1>2. HoldsUses(Needed)
  BY NeededHoldsUses
<1>3. ASSUME NEW k \in 1 .. c
      PROVE  /\ <<"at", b, k>> \in Points
             /\ Gen(b, p + k) = Using(<<"at", b, k>>) /\ Kill(b, p + k) = Defining(<<"at", b, k>>)
             /\ k < c => After(<<"at", b, k>>) = {<<"at", b, k + 1>>}
             /\ k = c => After(<<"at", b, k>>) = {<<"edge", b, s>> : s \in SuccSet(f, b)}
  <2>1. <<"at", b, k>> \in Points
    BY PointFacts
  <2>2. ~(p + k <= p) /\ p + k - p = k
    BY <1>1
  <2>3. ~IsEdge(<<"at", b, k>>)
    BY DEF IsEdge
  <2>4. Gen(b, p + k) = f.code[b][k].uses /\ Kill(b, p + k) = {f.code[b][k].def}
    <3> DEFINE j == p + k
    <3>1. ~(j <= Nph(b)) /\ j - Nph(b) = k
      BY <1>1
    <3> HIDE DEF j
    <3>2. Gen(b, j) = f.code[b][k].uses
      BY <3>1 DEF Gen
    <3>3. Kill(b, j) = {f.code[b][k].def}
      BY <3>1 DEF Kill
    <3> QED BY <3>2, <3>3 DEF j
  <2>5. Using(<<"at", b, k>>) = f.code[b][k].uses /\ Defining(<<"at", b, k>>) = {f.code[b][k].def}
    BY <2>3 DEF Using, Defining
  <2>6. k < c => After(<<"at", b, k>>) = {<<"at", b, k + 1>>}
    BY <2>3 DEF After
  <2>7. k = c => After(<<"at", b, k>>) = {<<"edge", b, s>> : s \in SuccSet(f, b)}
    BY <1>1, <2>3 DEF After
  <2> QED BY <2>1, <2>4, <2>5, <2>6, <2>7
<1>4. ASSUME NEW s \in SuccSet(f, b)
      PROVE  InOnEdge(b, s) \subseteq Needed[<<"edge", b, s>>]
  <2>1. /\ <<"edge", b, s>> \in Points /\ s \in f.blocks
        /\ 1 \in 1 .. Len(f.code[s]) /\ Nph(s) \in Nat
    BY PointFacts DEF WholeFunction
  <2>2. InOnEdge(b, s) \subseteq (liveIn[s][Nph(s) + 1] \ PhiDefs(s)) \cup PhiUses(s, b)
    BY InOnEdgeFacts
  <2>3. liveIn[s][Nph(s) + 1] \subseteq Needed[<<"at", s, 1>>]
    BY <2>1 DEF RecordsNeeded
  <2>4. /\ Using(<<"edge", b, s>>) = PhiUses(s, b) /\ Defining(<<"edge", b, s>>) = PhiDefs(s)
        /\ <<"at", s, 1>> \in After(<<"edge", b, s>>)
    BY DEF Using, Defining, After, IsEdge
  <2>5. /\ Using(<<"edge", b, s>>) \subseteq Needed[<<"edge", b, s>>]
        /\ \A y \in After(<<"edge", b, s>>) :
             Needed[y] \ Defining(<<"edge", b, s>>) \subseteq Needed[<<"edge", b, s>>]
    BY <1>2, <2>1 DEF HoldsUses
  <2> QED BY <2>2, <2>3, <2>4, <2>5
<1>5. ASSUME NEW i \in 1 .. p + c
      PROVE  /\ flow[i].out = IF i = p + c THEN UNION {InOnEdge(b, s) : s \in SuccSet(f, b)} ELSE flow[i + 1].in
             /\ flow[i].in = (flow[i].out \ Kill(b, i)) \cup Gen(b, i)
  BY DEF Flows
<1>6. ASSUME NEW k \in 1 .. c,
             flow[p + k].out \subseteq UNION {Needed[y] : y \in After(<<"at", b, k>>)}
      PROVE  flow[p + k].in \subseteq Needed[<<"at", b, k>>]
  <2>1. p + k \in 1 .. p + c
    BY <1>1
  <2>2. flow[p + k].in = (flow[p + k].out \ Kill(b, p + k)) \cup Gen(b, p + k)
    BY <1>5, <2>1
  <2>3. /\ Using(<<"at", b, k>>) \subseteq Needed[<<"at", b, k>>]
        /\ \A y \in After(<<"at", b, k>>) :
             Needed[y] \ Defining(<<"at", b, k>>) \subseteq Needed[<<"at", b, k>>]
    BY <1>2, <1>3 DEF HoldsUses
  <2> QED BY <1>3, <1>6, <2>2, <2>3
<1> HIDE DEF p, c
<1> DEFINE S == {m \in Nat : m < c => flow[p + (c - m)].in \subseteq Needed[<<"at", b, c - m>>]}
<1>7. 0 \in S
  <2>1. c \in 1 .. c /\ p + c \in 1 .. p + c /\ c - 0 = c
    BY <1>1
  <2>2. flow[p + c].out = UNION {InOnEdge(b, s) : s \in SuccSet(f, b)}
    BY <1>5, <2>1
  <2>3. After(<<"at", b, c>>) = {<<"edge", b, s>> : s \in SuccSet(f, b)}
    BY <1>3, <2>1
  <2>4. flow[p + c].out \subseteq UNION {Needed[y] : y \in After(<<"at", b, c>>)}
    BY <1>4, <2>2, <2>3
  <2>5. flow[p + c].in \subseteq Needed[<<"at", b, c>>]
    BY <1>6, <2>1, <2>4
  <2> QED BY <2>1, <2>5
<1>8. ASSUME NEW m \in Nat, m \in S PROVE m + 1 \in S
  <2> SUFFICES ASSUME m + 1 < c
               PROVE  flow[p + (c - (m + 1))].in \subseteq Needed[<<"at", b, c - (m + 1)>>]
    OBVIOUS
  <2> DEFINE k == c - (m + 1)
  <2>1. k \in 1 .. c /\ k < c /\ k + 1 = c - m /\ p + k \in 1 .. p + c /\ p + k # p + c
        /\ p + k + 1 = p + (c - m)
    BY <1>1
  <2>2. flow[p + (c - m)].in \subseteq Needed[<<"at", b, c - m>>]
    BY <1>1, <1>8
  <2> HIDE DEF k
  <2>3. flow[p + k].out = flow[p + k + 1].in
    BY <1>5, <2>1
  <2>4. After(<<"at", b, k>>) = {<<"at", b, k + 1>>}
    BY <1>3, <2>1
  <2>5. flow[p + k].out \subseteq UNION {Needed[y] : y \in After(<<"at", b, k>>)}
    BY <2>1, <2>2, <2>3, <2>4
  <2>6. flow[p + k].in \subseteq Needed[<<"at", b, k>>]
    BY <1>6, <2>1, <2>5
  <2> QED BY <2>6 DEF k
<1> HIDE DEF S
<1>9. Nat \subseteq S
  BY <1>7, <1>8, SetInduction
<1>10. ASSUME NEW k \in 1 .. c PROVE flow[p + k].in \subseteq Needed[<<"at", b, k>>]
  <2>1. c - k \in Nat /\ c - k < c /\ c - (c - k) = k
    BY <1>1
  <2>2. c - k \in S
    BY <1>9, <2>1
  <2> QED BY <2>1, <2>2 DEF S
<1> QED BY <1>10 DEF p, c

(* At the fixpoint, what is needed is recorded, but for PHIs carried round *)
(* a loop: what is recorded, together with them, holds the uses.           *)
LEMMA FixpointHoldsNeeded ==
  ASSUME WholeFunction, LivenessDone
  PROVE  \A b \in f.blocks :
           /\ \A k \in 1 .. Len(f.code[b]) :
                Needed[<<"at", b, k>>] \ CarriedPhis \subseteq liveIn[b][Nph(b) + k]
           /\ \A s \in SuccSet(f, b) :
                Needed[<<"edge", b, s>>] \ CarriedPhis \subseteq LiveOnEdge(b, s)
<1> DEFINE At(b, k) == liveIn[b][Nph(b) + k]
           R == [x \in Points |-> CarriedPhis \cup IF IsEdge(x) THEN LiveOnEdge(x[2], x[3]) ELSE At(x[2], x[3])]
<1>1. ASSUME NEW b \in f.blocks, NEW s \in SuccSet(f, b)
      PROVE  /\ <<"edge", b, s>> \in Points /\ <<"at", s, 1>> \in Points
             /\ R[<<"edge", b, s>>] = CarriedPhis \cup LiveOnEdge(b, s)
             /\ R[<<"at", s, 1>>] = CarriedPhis \cup At(s, 1)
             /\ Using(<<"edge", b, s>>) = PhiUses(s, b) /\ Defining(<<"edge", b, s>>) = PhiDefs(s)
             /\ After(<<"edge", b, s>>) = {<<"at", s, 1>>}
  <2>1. s \in f.blocks /\ 1 \in 1 .. Len(f.code[s])
    BY DEF WholeFunction
  <2>2. <<"edge", b, s>> \in Points /\ <<"at", s, 1>> \in Points
    BY <2>1, PointFacts
  <2>3. IsEdge(<<"edge", b, s>>) /\ ~IsEdge(<<"at", s, 1>>)
    BY DEF IsEdge
  <2> HIDE DEF At
  <2>4. /\ R[<<"edge", b, s>>] = CarriedPhis \cup LiveOnEdge(b, s)
        /\ R[<<"at", s, 1>>] = CarriedPhis \cup At(s, 1)
    BY <2>2, <2>3
  <2> QED BY <2>2, <2>3, <2>4 DEF Using, Defining, After
<1>2. ASSUME NEW b \in f.blocks, NEW k \in 1 .. Len(f.code[b])
      PROVE  /\ <<"at", b, k>> \in Points
             /\ R[<<"at", b, k>>] = CarriedPhis \cup At(b, k)
             /\ Using(<<"at", b, k>>) = f.code[b][k].uses
             /\ Defining(<<"at", b, k>>) = {f.code[b][k].def}
             /\ After(<<"at", b, k>>) = IF k < Len(f.code[b]) THEN {<<"at", b, k + 1>>}
                                        ELSE {<<"edge", b, s>> : s \in SuccSet(f, b)}
  <2>1. <<"at", b, k>> \in Points
    BY PointFacts
  <2>2. ~IsEdge(<<"at", b, k>>)
    BY DEF IsEdge
  <2> HIDE DEF At
  <2>3. R[<<"at", b, k>>] = CarriedPhis \cup At(b, k)
    BY <2>1, <2>2
  <2> QED BY <2>1, <2>2, <2>3 DEF Using, Defining, After
<1> HIDE DEF R
<1>3. ASSUME NEW b \in f.blocks, NEW s \in SuccSet(f, b)
      PROVE  /\ Using(<<"edge", b, s>>) \subseteq R[<<"edge", b, s>>]
             /\ \A y \in After(<<"edge", b, s>>) :
                  R[y] \ Defining(<<"edge", b, s>>) \subseteq R[<<"edge", b, s>>]
  <2>1. At(s, 1) \ PhiDefs(s) \subseteq LiveOnEdge(b, s) /\ PhiUses(s, b) \subseteq LiveOnEdge(b, s)
    BY DEF LiveOnEdge
  <2> HIDE DEF At
  <2>2. /\ R[<<"edge", b, s>>] = CarriedPhis \cup LiveOnEdge(b, s)
        /\ R[<<"at", s, 1>>] = CarriedPhis \cup At(s, 1)
        /\ Using(<<"edge", b, s>>) = PhiUses(s, b) /\ Defining(<<"edge", b, s>>) = PhiDefs(s)
        /\ After(<<"edge", b, s>>) = {<<"at", s, 1>>}
    BY <1>1
  <2>3. Using(<<"edge", b, s>>) \subseteq R[<<"edge", b, s>>]
    BY <2>1, <2>2
  <2>4. R[<<"at", s, 1>>] \ PhiDefs(s) \subseteq R[<<"edge", b, s>>]
    BY <2>1, <2>2
  <2> QED BY <2>2, <2>3, <2>4
<1>4. ASSUME NEW b \in f.blocks, NEW k \in 1 .. Len(f.code[b])
      PROVE  /\ Using(<<"at", b, k>>) \subseteq R[<<"at", b, k>>]
             /\ \A y \in After(<<"at", b, k>>) :
                  R[y] \ Defining(<<"at", b, k>>) \subseteq R[<<"at", b, k>>]
  <2> DEFINE p == Nph(b)
             c == Len(f.code[b])
             flow == Transferred(b)
  <2>1. p \in Nat /\ c \in Nat \ {0} /\ k \in 1 .. c /\ p = Nph(b)
    BY DEF WholeFunction
  <2>2. \A i \in 1 .. p + c :
          /\ flow[i].out = IF i = p + c THEN UNION {InOnEdge(b, s) : s \in SuccSet(f, b)} ELSE flow[i + 1].in
          /\ flow[i].in = (flow[i].out \ Kill(b, i)) \cup Gen(b, i)
    BY TransferredFlows DEF Flows
  <2>3. \A i \in 1 .. p + c : liveIn[b][i] = flow[i].in
    BY DEF LivenessDone, Stable, Instructions
  <2>4. Gen(b, p + k) = f.code[b][k].uses /\ Kill(b, p + k) = {f.code[b][k].def}
    <3> DEFINE j == p + k
    <3>1. ~(j <= Nph(b)) /\ j - Nph(b) = k
      BY <2>1
    <3> HIDE DEF j
    <3>2. Gen(b, j) = f.code[b][k].uses
      BY <3>1 DEF Gen
    <3>3. Kill(b, j) = {f.code[b][k].def}
      BY <3>1 DEF Kill
    <3> QED BY <3>2, <3>3 DEF j
  <2>5. At(b, k) = liveIn[b][p + k] /\ At(b, k + 1) = liveIn[b][p + (k + 1)]
    OBVIOUS
  <2>6. /\ R[<<"at", b, k>>] = CarriedPhis \cup At(b, k)
        /\ Using(<<"at", b, k>>) = f.code[b][k].uses
        /\ Defining(<<"at", b, k>>) = {f.code[b][k].def}
        /\ After(<<"at", b, k>>) = IF k < c THEN {<<"at", b, k + 1>>}
                                   ELSE {<<"edge", b, s>> : s \in SuccSet(f, b)}
    BY <1>2
  <2>7. \A s \in SuccSet(f, b) : R[<<"edge", b, s>>] = CarriedPhis \cup LiveOnEdge(b, s)
    BY <1>1
  <2>8. k < c => R[<<"at", b, k + 1>>] = CarriedPhis \cup At(b, k + 1)
    <3>1. k < c => k + 1 \in 1 .. c
      BY <2>1
    <3> QED BY <1>2, <3>1
  <2> HIDE DEF p, c, flow, At
  <2>9. p + k \in 1 .. p + c
    BY <2>1
  <2>10. At(b, k) = (flow[p + k].out \ {f.code[b][k].def}) \cup f.code[b][k].uses
    BY <2>2, <2>3, <2>4, <2>5, <2>9
  <2>11. CASE k < c
    <3>1. p + k # p + c /\ p + k + 1 = p + (k + 1) /\ p + (k + 1) \in 1 .. p + c
      BY <2>1, <2>11
    <3>2. flow[p + k].out = At(b, k + 1)
      BY <2>2, <2>3, <2>5, <2>9, <3>1
    <3> QED BY <2>6, <2>8, <2>10, <2>11, <3>2
  <2>12. CASE ~(k < c)
    <3>1. p + k = p + c
      BY <2>1, <2>12
    <3>2. flow[p + k].out = UNION {InOnEdge(b, s) : s \in SuccSet(f, b)}
      BY <2>2, <2>9, <3>1
    <3>3. ASSUME NEW s \in SuccSet(f, b)
          PROVE  LiveOnEdge(b, s) \ CarriedPhis \subseteq flow[p + k].out
      <4>1. flow[p + k].out = liveOut[b][p + c]
        BY <2>9, <3>1 DEF LivenessDone, Stable, Instructions, p, c, flow
      <4>2. InOnEdge(b, s) \subseteq flow[p + k].out
        BY <3>2
      <4>3. /\ liveIn[s][Nph(s) + 1] \ PhiDefs(s) \subseteq InOnEdge(b, s)
            /\ PhiUses(s, b) \ CarriedPhis \subseteq InOnEdge(b, s)
        BY InOnEdgeFacts
      <4>4. LiveOnEdge(b, s) \subseteq
              (liveIn[s][Nph(s) + 1] \ PhiDefs(s)) \cup PhiUses(s, b) \cup liveOut[b][p + c]
        BY DEF LiveOnEdge, p, c
      <4> QED BY <4>1, <4>2, <4>3, <4>4
    <3> QED BY <2>6, <2>7, <2>10, <2>12, <3>3
  <2> QED BY <2>11, <2>12
<1>5. HoldsUses(R)
  <2> SUFFICES ASSUME NEW x \in Points
               PROVE  Using(x) \subseteq R[x] /\ \A y \in After(x) : R[y] \ Defining(x) \subseteq R[x]
    BY DEF HoldsUses
  <2>1. \/ \E b \in f.blocks : \E k \in 1 .. Len(f.code[b]) : x = <<"at", b, k>>
        \/ \E b \in f.blocks : \E s \in SuccSet(f, b) : x = <<"edge", b, s>>
    BY DEF Points
  <2> QED BY <1>3, <1>4, <2>1
<1>6. \A x \in Points : Needed[x] \subseteq R[x]
  BY <1>5, NeededIsLeast
<1>7. ASSUME NEW b \in f.blocks, NEW k \in 1 .. Len(f.code[b])
      PROVE  Needed[<<"at", b, k>>] \ CarriedPhis \subseteq liveIn[b][Nph(b) + k]
  BY <1>2, <1>6
<1>8. ASSUME NEW b \in f.blocks, NEW s \in SuccSet(f, b)
      PROVE  Needed[<<"edge", b, s>>] \ CarriedPhis \subseteq LiveOnEdge(b, s)
  BY <1>1, <1>6
<1> QED BY <1>7, <1>8

-----------------------------------------------------------------------------
(* The theorem                                                             *)

(* What is said of the function does not change while it is the same.      *)
LEMMA SameFunction ==
  ASSUME f' = f
  PROVE  WholeFunction' = WholeFunction /\ Needed' = Needed
<1>1. WholeFunction' = WholeFunction
  BY DEF WholeFunction, Nph, SuccSet
<1>2. Needed' = Needed
  BY DEF Needed, Points, Using, Defining, After, IsEdge, PhiUses, PhiDefs, Nph, SuccSet
<1> QED BY <1>1, <1>2

LEMMA SameFlow ==
  ASSUME f' = f, liveVars' = liveVars
  PROVE  LivenessDone' = LivenessDone
BY DEF liveVars, LivenessDone, Stable, Transferred, Instructions, InOnEdge, Gen, Kill, Preds, Nph, SuccSet

LEMMA LivenessInvInit ==
  Init => LivenessInv
<1> SUFFICES ASSUME Init PROVE LivenessInv
  OBVIOUS
<1>1. WholeFunction
  BY ProgramsAreWhole DEF Init, WholeFunction, Nph
<1>2. RecordsNeeded(liveIn)
  <2> SUFFICES ASSUME NEW b \in f.blocks, NEW k \in 1 .. Len(f.code[b])
               PROVE  liveIn[b][Nph(b) + k] = {}
    BY DEF RecordsNeeded
  <2> DEFINE p == Nph(b)
             c == Len(f.code[b])
  <2>1. p \in Nat /\ c \in Nat /\ k \in 1 .. c
    BY <1>1 DEF WholeFunction
  <2>2. liveIn[b] = [i \in 1 .. p + c |-> {}]
    BY DEF Init, LInit, Nothing, Instructions
  <2> HIDE DEF p, c
  <2>3. p + k \in 1 .. p + c
    BY <2>1
  <2> QED BY <2>2, <2>3 DEF p
<1>3. DOMAIN liveIn = f.blocks
  BY DEF Init, LInit, Nothing
<1> QED BY <1>1, <1>2, <1>3 DEF LivenessInv, Init

LEMMA LivenessInvStep ==
  LivenessInv /\ [Next]_vars => LivenessInv'
<1> SUFFICES ASSUME LivenessInv, [Next]_vars PROVE LivenessInv'
  OBVIOUS
<1> USE DEF LivenessInv
<1>1. ASSUME f' = f, liveVars' = liveVars, verdict' # "pending" => LivenessDone
      PROVE  LivenessInv'
  <2>1. WholeFunction' /\ LivenessDone' = LivenessDone /\ Needed' = Needed
    BY <1>1, SameFunction, SameFlow
  <2>2. RecordsNeeded(liveIn)'
    BY <1>1, <2>1 DEF RecordsNeeded, liveVars, Nph
  <2> QED BY <1>1, <2>1, <2>2 DEF liveVars
<1>2. ASSUME NEW b \in f.blocks, Visit(b), UNCHANGED <<f, verdict, missed, execVars>>
      PROVE  LivenessInv'
  <2>1. verdict = "pending"
    BY <1>2 DEF Visit, LivenessDone
  <2> DEFINE flow == Transferred(b)
  <2>2. liveIn' = [liveIn EXCEPT ![b] = [i \in Instructions(b) |-> flow[i].in]]
    BY <1>2 DEF Visit
  <2>3. \A k \in 1 .. Len(f.code[b]) : flow[Nph(b) + k].in \subseteq Needed[<<"at", b, k>>]
    BY FlowIsNeeded, TransferredFlows
  <2>4. f' = f /\ WholeFunction' /\ Needed' = Needed
    BY <1>2, SameFunction
  <2> HIDE DEF flow
  <2>5. ASSUME NEW d \in f.blocks, NEW k \in 1 .. Len(f.code[d])
        PROVE  liveIn'[d][Nph(d) + k] \subseteq Needed[<<"at", d, k>>]
    <3>1. CASE d = b
      <4> DEFINE p == Nph(b)
                 c == Len(f.code[b])
      <4>1. p \in Nat /\ c \in Nat /\ k \in 1 .. c
        BY <3>1 DEF WholeFunction
      <4>2. liveIn'[b] = [i \in 1 .. p + c |-> flow[i].in]
        BY <2>2 DEF Instructions
      <4> HIDE DEF p, c
      <4>3. p + k \in 1 .. p + c
        BY <4>1
      <4>4. liveIn'[b][p + k] = flow[p + k].in
        BY <4>2, <4>3
      <4> QED BY <2>3, <3>1, <4>4 DEF p
    <3>2. CASE d # b
      <4>1. liveIn'[d] = liveIn[d]
        BY <2>2, <3>2
      <4> QED BY <4>1 DEF RecordsNeeded
    <3> QED BY <3>1, <3>2
  <2>6. RecordsNeeded(liveIn)'
    BY <2>4, <2>5 DEF RecordsNeeded, Nph
  <2>7. DOMAIN liveIn' = f'.blocks /\ verdict' = "pending"
    BY <1>2, <2>1, <2>2, <2>4
  <2> QED BY <2>4, <2>6, <2>7
<1>3. CASE Verify
  BY <1>1, <1>3 DEF Verify
<1>4. CASE RunAccepted
  BY <1>1, <1>4 DEF RunAccepted, Run
<1>5. CASE UNCHANGED vars
  BY <1>1, <1>5 DEF vars
<1> QED BY <1>2, <1>3, <1>4, <1>5 DEF Next, Done

(* The analysis of liveness is exact, for every function and in whatever   *)
(* order its blocks are visited.                                           *)
THEOREM LivenessIsProved == Spec => []LivenessIsExact
<1>1. LivenessInv => LivenessIsExact
  <2> SUFFICES ASSUME LivenessInv PROVE LivenessIsExact
    OBVIOUS
  <2>1. NothingDeadIsLive
    BY DEF LivenessInv, RecordsNeeded, NothingDeadIsLive
  <2>2. ASSUME verdict \in {"linear", "rejected"}, steps = 0
        PROVE  \A b \in f.blocks :
                 /\ \A k \in 1 .. Len(f.code[b]) :
                      Needed[<<"at", b, k>>] \ CarriedPhis \subseteq liveIn[b][Nph(b) + k]
                 /\ \A s \in SuccSet(f, b) :
                      Needed[<<"edge", b, s>>] \ CarriedPhis \subseteq LiveOnEdge(b, s)
    BY <2>2, FixpointHoldsNeeded DEF LivenessInv
  <2>3. NeededIsLive
    BY <2>2 DEF NeededIsLive
  <2> QED BY <2>1, <2>3 DEF LivenessIsExact
<1> QED BY LivenessInvInit, LivenessInvStep, <1>1, PTL DEF Spec

-----------------------------------------------------------------------------
(* Parts                                                                   *)

(* A set of variables from which no merge leads.                           *)
Unmerged(C, merges) == \A m \in merges : m[1] \in C <=> m[2] \in C

(* A part holds what its variables are merged with, and no more: after as  *)
(* many rounds as there are merges every merge that can reach has joined.  *)
LEMMA PartFacts ==
  ASSUME NEW merges, IsFiniteSet(merges), NEW v
  PROVE  /\ v \in Part(merges, v)
         /\ Unmerged(Part(merges, v), merges)
         /\ \A C : v \in C /\ Unmerged(C, merges) => Part(merges, v) \subseteq C
<1> DEFINE N == Cardinality(merges)
           Ends(F) == UNION {{m[1], m[2]} : m \in F}
           Near(X) == {m \in merges : m[1] \in X \/ m[2] \in X}
           V == {v} \cup Ends(merges)
           grow == [X \in SUBSET V |-> X \cup Ends(Near(X))]
           Def(g) == g = [n \in 0 .. N |->
                            IF n = 0 THEN {v}
                            ELSE LET near == g[n - 1] IN
                                 near \cup UNION {{e[1], e[2]} : e \in
                                    {m \in merges : m[1] \in near \/ m[2] \in near}}]
           joined == CHOOSE g : Def(g)
<1>1. N \in Nat
  BY FS_CardinalityType
<1>2. Def(joined)
  <2>1. {v} \in SUBSET V /\ GrowsWithin(V, grow)
    <3>1. ASSUME NEW X \in SUBSET V PROVE X \cup Ends(Near(X)) \in SUBSET V
      OBVIOUS
    <3>2. \A X \in SUBSET V : grow[X] = X \cup Ends(Near(X))
      OBVIOUS
    <3>3. {v} \in SUBSET V
      OBVIOUS
    <3> HIDE DEF V, Near, Ends, grow
    <3> QED BY <3>1, <3>2, <3>3 DEF GrowsWithin
  <2> HIDE DEF N, V, grow
  <2>2. PICK g \in [0 .. N -> SUBSET V] : Grows(g, N, {v}, grow)
    BY <1>1, <2>1, GrowthExists
  <2>3. ASSUME NEW n \in 0 .. N, n # 0 PROVE g[n] = g[n - 1] \cup Ends(Near(g[n - 1]))
    <3>1. n \in 1 .. N /\ n - 1 \in 0 .. N
      BY <1>1, <2>3
    <3>2. g[n] = grow[g[n - 1]] /\ g[n - 1] \in SUBSET V
      BY <2>2, <3>1 DEF Grows
    <3> HIDE DEF Ends, Near
    <3> QED BY <3>2 DEF grow
  <2>4. g[0] = {v}
    BY <2>2 DEF Grows
  <2>5. g = [n \in 0 .. N |-> g[n]]
    BY <2>2
  <2>6. Def(g)
    BY <2>3, <2>4, <2>5
  <2> QED BY <2>6
<1>3. Part(merges, v) = joined[N]
  BY DEF Part
<1> HIDE DEF joined, N
<1>4. joined[0] = {v}
  BY <1>1, <1>2
<1>5. ASSUME NEW n \in Nat, n + 1 <= N
      PROVE  joined[n + 1] = joined[n] \cup Ends(Near(joined[n]))
  <2> DEFINE m == n + 1
  <2>1. m \in 0 .. N /\ m # 0 /\ m - 1 = n
    BY <1>1, <1>5
  <2> HIDE DEF m
  <2>2. joined[m] = joined[m - 1] \cup Ends(Near(joined[m - 1]))
    BY <1>2, <2>1
  <2> QED BY <2>1, <2>2 DEF m
<1>6. ASSUME NEW C, v \in C, Unmerged(C, merges)
      PROVE  joined[N] \subseteq C
  <2> DEFINE S == {n \in Nat : n <= N => joined[n] \subseteq C}
  <2>1. 0 \in S
    BY <1>4, <1>6
  <2>2. ASSUME NEW n \in Nat, n \in S PROVE n + 1 \in S
    <3> SUFFICES ASSUME n + 1 <= N PROVE joined[n + 1] \subseteq C
      OBVIOUS
    <3>1. joined[n] \subseteq C
      BY <1>1, <2>2
    <3>2. joined[n + 1] = joined[n] \cup Ends(Near(joined[n]))
      BY <1>5
    <3> QED BY <1>6, <3>1, <3>2 DEF Unmerged
  <2> HIDE DEF S
  <2>3. N \in S
    BY <1>1, <2>1, <2>2, SetInduction
  <2> QED BY <1>1, <2>3 DEF S
<1> DEFINE F == [n \in 0 .. N |-> IF n = 0 THEN {} ELSE Near(joined[n - 1])]
           more == [X \in SUBSET merges |-> X \cup Near({v} \cup Ends(X))]
           T == {n \in Nat : n <= N =>
                   /\ F[n] \in SUBSET merges /\ joined[n] = {v} \cup Ends(F[n])
                   /\ n + 1 <= N => F[n] \subseteq F[n + 1] /\ F[n + 1] = Near(joined[n])}
<1>7. ASSUME NEW n \in Nat, n + 1 <= N PROVE F[n + 1] = Near(joined[n])
  <2> DEFINE m == n + 1
  <2>1. m \in 0 .. N /\ m # 0 /\ m - 1 = n
    BY <1>1, <1>7
  <2> HIDE DEF m, Near
  <2>2. F[m] = Near(joined[m - 1])
    BY <2>1
  <2> QED BY <2>1, <2>2 DEF m
<1>8. F[0] = {}
  BY <1>1
<1>9. Nat \subseteq T
  <2> HIDE DEF F
  <2>1. 0 \in T
    <3> SUFFICES ASSUME 0 + 1 <= N PROVE F[0 + 1] = Near(joined[0])
      BY <1>4, <1>8
    <3> QED BY <1>7
  <2>2. ASSUME NEW n \in Nat, n \in T PROVE n + 1 \in T
    <3> DEFINE m == n + 1
    <3> SUFFICES ASSUME m <= N
                 PROVE  /\ F[m] \in SUBSET merges /\ joined[m] = {v} \cup Ends(F[m])
                        /\ m + 1 <= N => F[m] \subseteq F[m + 1] /\ F[m + 1] = Near(joined[m])
      OBVIOUS
    <3>1. /\ F[n] \in SUBSET merges /\ joined[n] = {v} \cup Ends(F[n])
          /\ F[n] \subseteq F[m] /\ F[m] = Near(joined[n])
      BY <1>1, <2>2
    <3>2. joined[m] = joined[n] \cup Ends(Near(joined[n]))
      BY <1>5
    <3>3. joined[m] = {v} \cup Ends(F[m])
      BY <3>1, <3>2
    <3>4. m + 1 <= N => F[m + 1] = Near(joined[m])
      <4>1. m \in Nat
        OBVIOUS
      <4> HIDE DEF m
      <4> QED BY <1>7, <4>1
    <3> QED BY <3>1, <3>3, <3>4
  <2> HIDE DEF T
  <2> QED BY <2>1, <2>2, SetInduction
<1>10. {} \in SUBSET merges /\ GrowsWithin(merges, more)
  <2>1. ASSUME NEW X \in SUBSET merges
        PROVE  more[X] = X \cup Near({v} \cup Ends(X)) /\ more[X] \in SUBSET merges
    OBVIOUS
  <2> HIDE DEF more, Near, Ends
  <2> QED BY <2>1 DEF GrowsWithin
<1>11. Grows(F, N, {}, more)
  <2>1. ASSUME NEW n \in 1 .. N PROVE F[n] = more[F[n - 1]]
    <3> DEFINE m == n - 1
    <3>0. m \in Nat /\ m + 1 = n /\ m + 1 <= N /\ m <= N
      BY <1>1
    <3>1. m \in T /\ m + 1 = n /\ m + 1 <= N /\ m <= N
      <4> HIDE DEF T, m
      <4> QED BY <1>9, <3>0
    <3> HIDE DEF m
    <3>2. /\ F[m] \in SUBSET merges /\ joined[m] = {v} \cup Ends(F[m])
          /\ F[m] \subseteq F[n] /\ F[n] = Near(joined[m])
      <4> HIDE DEF F, Near, Ends
      <4> QED BY <3>1
    <3> HIDE DEF F, Near, Ends
    <3>3. more[F[m]] = F[m] \cup Near({v} \cup Ends(F[m]))
      BY <3>2
    <3> QED BY <3>2, <3>3 DEF m
  <2> HIDE DEF more, F
  <2> QED BY <1>8, <2>1 DEF Grows
<1>12. more[F[N]] = F[N]
  <2> HIDE DEF more, F
  <2> QED BY <1>10, <1>11, IterationsClose DEF N
<1>13. F[N] \in SUBSET merges /\ joined[N] = {v} \cup Ends(F[N])
  <2> HIDE DEF F, Ends
  <2>1. N \in T
    BY <1>1, <1>9
  <2> QED BY <1>1, <2>1
<1>14. Near(joined[N]) \subseteq F[N]
  <2> HIDE DEF F, Near, Ends
  <2> QED BY <1>12, <1>13
<1>15. v \in joined[N] /\ Unmerged(joined[N], merges)
  <2> HIDE DEF F
  <2>1. ASSUME NEW m \in merges, m[1] \in joined[N] \/ m[2] \in joined[N]
        PROVE  m[1] \in joined[N] /\ m[2] \in joined[N]
    <3>1. m \in F[N]
      BY <1>14, <2>1
    <3> QED BY <1>13, <3>1
  <2> QED BY <1>13, <2>1 DEF Unmerged
<1> HIDE DEF F, more, T
<1> QED BY <1>3, <1>6, <1>15

(* The part of a variable of a part is within it.                          *)
LEMMA PartsHoldParts ==
  ASSUME NEW merges, IsFiniteSet(merges), NEW v, NEW w \in Part(merges, v)
  PROVE  Part(merges, w) \subseteq Part(merges, v)
<1>1. Unmerged(Part(merges, v), merges)
  BY PartFacts
<1> QED BY <1>1, PartFacts

(* A finite function has finitely many merges.                             *)
LEMMA MergesAreFinite ==
  ASSUME WholeFunction, f \in Programs
  PROVE  \A visited : IsFiniteSet(Merges(visited))
<1> DEFINE code == [b \in f.blocks |-> {f.code[b][k] : k \in 1 .. Len(f.code[b])}]
           phis == [b \in f.blocks |-> {f.phis[b][k] : k \in 1 .. Nph(b)}]
           ofCode == [i \in AllCode |-> <<i.def, i.obj>>]
           ofPhis == [p \in AllPhis |-> {<<p.def, v>> : v \in Incoming(p)}]
<1>1. ASSUME NEW b \in f.blocks PROVE IsFiniteSet(code[b]) /\ IsFiniteSet(phis[b])
  <2> DEFINE g == [k \in 1 .. Len(f.code[b]) |-> f.code[b][k]]
             h == [k \in 1 .. Nph(b) |-> f.phis[b][k]]
             S == DOMAIN g
             T == DOMAIN h
  <2>1. IsFiniteSet(S) /\ IsFiniteSet(T)
    <3>1. Len(f.code[b]) \in Nat /\ Nph(b) \in Nat
      BY DEF WholeFunction
    <3>2. S = 1 .. Len(f.code[b]) /\ T = 1 .. Nph(b)
      OBVIOUS
    <3>3. \A n \in Nat : IsFiniteSet(1 .. n)
      BY FS_Interval
    <3> HIDE DEF S, T
    <3> QED BY <3>1, <3>2, <3>3
  <2>2. code[b] = {g[k] : k \in S} /\ phis[b] = {h[k] : k \in T}
    OBVIOUS
  <2> HIDE DEF g, h
  <2>3. IsFiniteSet({g[k] : k \in S}) /\ IsFiniteSet({h[k] : k \in T})
    BY <2>1, ImageIsFinite
  <2> QED BY <2>2, <2>3
<1>2. IsFiniteSet(AllCode) /\ IsFiniteSet(AllPhis)
  <2> DEFINE S == {code[b] : b \in f.blocks}
             T == {phis[b] : b \in f.blocks}
  <2>1. DOMAIN code = f.blocks /\ DOMAIN phis = f.blocks
    OBVIOUS
  <2>2. AllCode \subseteq UNION S /\ AllPhis \subseteq UNION T
    <3>1. ASSUME NEW i \in AllCode PROVE i \in UNION S
      <4>1. PICK b \in f.blocks : \E k \in 1 .. Len(f.code[b]) : i = f.code[b][k]
        BY DEF AllCode
      <4>2. i \in code[b] /\ code[b] \in S
        BY <4>1
      <4> HIDE DEF S
      <4> QED BY <4>2
    <3>2. ASSUME NEW p \in AllPhis PROVE p \in UNION T
      <4>1. PICK b \in f.blocks : \E k \in 1 .. Nph(b) : p = f.phis[b][k]
        BY DEF AllPhis
      <4>2. p \in phis[b] /\ phis[b] \in T
        BY <4>1
      <4> HIDE DEF T
      <4> QED BY <4>2
    <3> HIDE DEF S, T
    <3> QED BY <3>1, <3>2
  <2> HIDE DEF code, phis
  <2>3. IsFiniteSet(S) /\ IsFiniteSet(T)
    BY <2>1, ImageIsFinite DEF WholeFunction
  <2>4. (\A X \in S : IsFiniteSet(X)) /\ \A X \in T : IsFiniteSet(X)
    BY <1>1
  <2> HIDE DEF S, T
  <2>5. IsFiniteSet(UNION S) /\ IsFiniteSet(UNION T)
    BY <2>3, <2>4, FS_UNION
  <2> QED BY <2>2, <2>5, FS_Subset
<1>3. ASSUME NEW p \in AllPhis PROVE IsFiniteSet(ofPhis[p])
  <2>1. PICK b \in f.blocks : \E k \in 1 .. Nph(b) : p = f.phis[b][k]
    BY DEF AllPhis
  <2>2. DOMAIN p.from = Preds(f, b)
    BY <2>1, ProgramsAreInSSA DEF Nph
  <2>3. IsFiniteSet(DOMAIN p.from)
    BY <2>2, FS_Subset DEF WholeFunction, Preds
  <2> DEFINE g == [q \in DOMAIN p.from |-> <<p.def, p.from[q]>>]
             S == DOMAIN g
  <2>4. S = DOMAIN p.from
    OBVIOUS
  <2>5. {<<p.def, v>> : v \in Incoming(p)} = {g[q] : q \in S}
    BY DEF Incoming
  <2> HIDE DEF g, S
  <2>6. IsFiniteSet({g[q] : q \in S})
    BY <2>3, <2>4, ImageIsFinite DEF S
  <2> QED BY <2>5, <2>6
<1> DEFINE S == {ofCode[i] : i \in AllCode}
           T == {ofPhis[p] : p \in AllPhis}
<1>4. DOMAIN ofCode = AllCode /\ DOMAIN ofPhis = AllPhis
  OBVIOUS
<1>5. ASSUME NEW visited, NEW m \in Merges(visited) PROVE m \in S \cup UNION T
  <2>1. CASE \E i \in Updates : m = <<i.def, i.obj>>
    BY <2>1 DEF Updates
  <2>2. CASE \E p \in AllPhis : \E v \in Incoming(p) : m = <<p.def, v>>
    BY <2>2
  <2> QED BY <1>5, <2>1, <2>2 DEF Merges, UpdateMerges, PhiMerges
<1> HIDE DEF ofCode, ofPhis
<1>6. IsFiniteSet(S) /\ IsFiniteSet(T)
  BY <1>2, <1>4, ImageIsFinite
<1>7. \A X \in T : IsFiniteSet(X)
  BY <1>3
<1> HIDE DEF S, T
<1>8. IsFiniteSet(S \cup UNION T)
  BY <1>6, <1>7, FS_UNION, FS_Union
<1> QED BY <1>5, <1>8, FS_Subset

-----------------------------------------------------------------------------
(* SSA form                                                                *)

(* A function of the programs, with its control.                           *)
LEMMA InSSA ==
  ASSUME f \in Programs
  PROVE  /\ WholeFunction
         /\ f.entry \in f.blocks /\ Nph(f.entry) = 0
         /\ \A b \in f.blocks : \A k \in 1 .. Len(f.code[b]) :
              /\ f.code[b][k].uses \subseteq Available(f, b, k)
              /\ \/ f.code[b][k].op \in {"alloc", "copy"} /\ DefinedOnce(f, b, k)
                 \/ f.code[b][k].op = "update" /\ DefinedOnce(f, b, k) /\ f.code[b][k].obj \in f.code[b][k].uses
                 \/ f.code[b][k].op \in {"read", "end", "unreachable"} /\ f.code[b][k].def = Absent
              /\ k = Len(f.code[b]) => f.code[b][k].op \in {"end", "unreachable"}
         /\ \A s \in f.blocks : \A k \in 1 .. Nph(s) :
              /\ DOMAIN f.phis[s][k].from = Preds(f, s)
              /\ \A b \in Preds(f, s) : f.phis[s][k].from[b] \in Available(f, b, Len(f.code[b]) + 1)
<1>1. WholeFunction
  BY ProgramsAreWhole DEF WholeFunction, Nph
<1> QED BY <1>1, ProgramsAreInSSA DEF Nph

(* What dominates a block dominates the blocks before it, but for itself.  *)
LEMMA DominatesBefore ==
  ASSUME NEW b \in f.blocks, NEW s \in SuccSet(f, b), s \in f.blocks,
         NEW c \in f.blocks, c # s, BlockDominates(f, c, s)
  PROVE  BlockDominates(f, c, b)
<1> SUFFICES ASSUME c # f.entry, b \in ReachableAvoiding(f, c), s \notin ReachableAvoiding(f, c) PROVE FALSE
  BY DEF BlockDominates
<1> DEFINE Rest == f.blocks \ {c}
<1>1. s \in Rest
  OBVIOUS
<1>2. ASSUME NEW S \in SUBSET Rest, f.entry \in S, \A p \in S : SuccSet(f, p) \ {c} \subseteq S
      PROVE  s \in S
  <2>1. b \in S
    BY <1>2 DEF ReachableAvoiding
  <2> QED BY <1>2, <2>1
<1> QED BY <1>1, <1>2 DEF ReachableAvoiding

(* Only the entry dominates itself.                                        *)
LEMMA NothingAboveEntry ==
  ASSUME f.entry \in f.blocks, NEW c \in f.blocks, BlockDominates(f, c, f.entry)
  PROVE  c = f.entry
<1> SUFFICES ASSUME c # f.entry PROVE f.entry \in ReachableAvoiding(f, c)
  BY DEF BlockDominates
<1> QED BY DEF ReachableAvoiding

(* The values defined by a block, and those available in it, one by one.   *)
CodeDefs(b, n) == {f.code[b][k].def : k \in 1 .. n}

LEMMA AvailableIs ==
  ASSUME NEW b, NEW k, NEW v
  PROVE  v \in Available(f, b, k) <=>
           /\ v # Absent
           /\ \/ v \in Args \/ v \in CodeDefs(b, k - 1)
              \/ \E c \in f.blocks : BlockDominates(f, c, b) /\ v \in PhiDefs(c)
              \/ \E c \in f.blocks : c # b /\ BlockDominates(f, c, b) /\ v \in CodeDefs(c, Len(f.code[c]))
BY DEF Available, Args, CodeDefs, PhiDefs, Nph

(* What becomes available is what was defined.                             *)
LEMMA AvailableNext ==
  ASSUME NEW b, NEW k \in Nat
  PROVE  Available(f, b, k + 1) \ {f.code[b][k].def} \subseteq Available(f, b, k)
<1> SUFFICES ASSUME NEW v \in Available(f, b, k + 1), v # f.code[b][k].def
             PROVE  v \in Available(f, b, k)
  OBVIOUS
<1>1. v \in CodeDefs(b, k + 1 - 1) => v \in CodeDefs(b, k - 1)
  <2> SUFFICES ASSUME NEW n \in 1 .. k + 1 - 1, v = f.code[b][n].def PROVE v \in CodeDefs(b, k - 1)
    BY DEF CodeDefs
  <2>1. n # k
    OBVIOUS
  <2>2. n \in 1 .. k - 1
    BY <2>1
  <2> QED BY <2>2 DEF CodeDefs
<1> QED BY <1>1, AvailableIs

LEMMA AvailableAlong ==
  ASSUME NEW b \in f.blocks, NEW s \in SuccSet(f, b), s \in f.blocks, Len(f.code[b]) \in Nat
  PROVE  Available(f, s, 1) \ PhiDefs(s) \subseteq Available(f, b, Len(f.code[b]) + 1)
<1> DEFINE last == Len(f.code[b])
<1> SUFFICES ASSUME NEW v \in Available(f, s, 1), v \notin PhiDefs(s)
             PROVE  v \in Available(f, b, last + 1)
  OBVIOUS
<1>1. last + 1 - 1 = last
  OBVIOUS
<1>2. CodeDefs(s, 1 - 1) = {}
  BY DEF CodeDefs
<1>3. CASE v \in Args
  BY <1>3, AvailableIs
<1>4. ASSUME NEW c \in f.blocks, BlockDominates(f, c, s), v \in PhiDefs(c)
      PROVE  v \in Available(f, b, last + 1)
  <2>1. BlockDominates(f, c, b)
    BY <1>4, DominatesBefore
  <2> QED BY <1>4, <2>1, AvailableIs
<1>5. ASSUME NEW c \in f.blocks, c # s, BlockDominates(f, c, s), v \in CodeDefs(c, Len(f.code[c]))
      PROVE  v \in Available(f, b, last + 1)
  <2>1. BlockDominates(f, c, b)
    BY <1>5, DominatesBefore
  <2>2. CASE c = b
    <3>1. v \in CodeDefs(b, last + 1 - 1)
      BY <1>1, <1>5, <2>2
    <3> QED BY <3>1, AvailableIs
  <2>3. CASE c # b
    BY <1>5, <2>1, <2>3, AvailableIs
  <2> QED BY <2>2, <2>3
<1> HIDE DEF last
<1> QED BY <1>2, <1>3, <1>4, <1>5, AvailableIs

(* At the start the arguments are available.                               *)
LEMMA AvailableAtEntry ==
  ASSUME f.entry \in f.blocks, Nph(f.entry) = 0
  PROVE  Available(f, f.entry, 1) \subseteq Args
<1> SUFFICES ASSUME NEW v \in Available(f, f.entry, 1) PROVE v \in Args
  OBVIOUS
<1>1. CodeDefs(f.entry, 1 - 1) = {} /\ PhiDefs(f.entry) = {}
  BY DEF CodeDefs, PhiDefs
<1> QED BY <1>1, AvailableIs, NothingAboveEntry

(* Nothing is needed but what is available; at the start, the arguments.   *)
LEMMA NeededIsAvailable ==
  ASSUME f \in Programs
  PROVE  /\ \A b \in f.blocks : \A k \in 1 .. Len(f.code[b]) :
              Needed[<<"at", b, k>>] \subseteq Available(f, b, k)
         /\ Needed[<<"at", f.entry, 1>>] \subseteq Args
<1> DEFINE Before(x) == IF IsEdge(x) THEN Available(f, x[2], Len(f.code[x[2]]) + 1)
                        ELSE Available(f, x[2], x[3])
           R == [x \in Points |-> Before(x)]
<1>1. WholeFunction
  BY InSSA
<1>2. \A b \in f.blocks :
        /\ \A k \in 1 .. Len(f.code[b]) : R[<<"at", b, k>>] = Available(f, b, k)
        /\ \A s \in SuccSet(f, b) : R[<<"edge", b, s>>] = Available(f, b, Len(f.code[b]) + 1)
  <2>1. \A b, k : ~IsEdge(<<"at", b, k>>) /\ IsEdge(<<"edge", b, k>>)
    BY DEF IsEdge
  <2>2. /\ \A b, k : Before(<<"at", b, k>>) = Available(f, b, k)
        /\ \A b, s : Before(<<"edge", b, s>>) = Available(f, b, Len(f.code[b]) + 1)
    BY <2>1
  <2> HIDE DEF Before
  <2> QED BY <1>1, <2>2, PointFacts
<1> HIDE DEF R
<1>3. ASSUME NEW b \in f.blocks, NEW k \in 1 .. Len(f.code[b])
      PROVE  /\ Using(<<"at", b, k>>) \subseteq R[<<"at", b, k>>]
             /\ \A y \in After(<<"at", b, k>>) : R[y] \ Defining(<<"at", b, k>>) \subseteq R[<<"at", b, k>>]
  <2>1. /\ Using(<<"at", b, k>>) = f.code[b][k].uses /\ Defining(<<"at", b, k>>) = {f.code[b][k].def}
        /\ After(<<"at", b, k>>) = IF k < Len(f.code[b]) THEN {<<"at", b, k + 1>>}
                                   ELSE {<<"edge", b, s>> : s \in SuccSet(f, b)}
    BY DEF Using, Defining, After, IsEdge
  <2>2. Available(f, b, k + 1) \ {f.code[b][k].def} \subseteq Available(f, b, k)
    BY <1>1, AvailableNext DEF WholeFunction
  <2>3. k = Len(f.code[b]) \/ (k < Len(f.code[b]) /\ k + 1 \in 1 .. Len(f.code[b]))
    BY <1>1 DEF WholeFunction
  <2>4. R[<<"at", b, k>>] = Available(f, b, k)
    BY <1>2
  <2>5. ASSUME NEW y \in After(<<"at", b, k>>) PROVE R[y] = Available(f, b, k + 1)
    <3>1. CASE k < Len(f.code[b])
      BY <1>2, <2>1, <2>3, <2>5, <3>1
    <3>2. CASE ~(k < Len(f.code[b]))
      BY <1>2, <2>1, <2>3, <2>5, <3>2
    <3> QED BY <3>1, <3>2
  <2>6. f.code[b][k].uses \subseteq Available(f, b, k)
    BY InSSA
  <2> QED BY <2>1, <2>2, <2>4, <2>5, <2>6
<1>4. ASSUME NEW b \in f.blocks, NEW s \in SuccSet(f, b)
      PROVE  /\ Using(<<"edge", b, s>>) \subseteq R[<<"edge", b, s>>]
             /\ \A y \in After(<<"edge", b, s>>) :
                  R[y] \ Defining(<<"edge", b, s>>) \subseteq R[<<"edge", b, s>>]
  <2> DEFINE last == Len(f.code[b])
  <2>1. /\ Using(<<"edge", b, s>>) = PhiUses(s, b) /\ Defining(<<"edge", b, s>>) = PhiDefs(s)
        /\ After(<<"edge", b, s>>) = {<<"at", s, 1>>}
    BY DEF Using, Defining, After, IsEdge
  <2>2. s \in f.blocks /\ 1 \in 1 .. Len(f.code[s]) /\ last \in Nat /\ b \in Preds(f, s)
    BY <1>1 DEF WholeFunction, Preds
  <2>3. /\ R[<<"edge", b, s>>] = Available(f, b, last + 1)
        /\ R[<<"at", s, 1>>] = Available(f, s, 1)
    BY <1>2, <2>2
  <2>4. PhiUses(s, b) \subseteq Available(f, b, last + 1)
    BY <2>2, InSSA DEF PhiUses
  <2>5. Available(f, s, 1) \ PhiDefs(s) \subseteq Available(f, b, last + 1)
    BY <2>2, AvailableAlong
  <2> HIDE DEF last
  <2> QED BY <2>1, <2>3, <2>4, <2>5
<1>5. HoldsUses(R)
  <2> SUFFICES ASSUME NEW x \in Points
               PROVE  Using(x) \subseteq R[x] /\ \A y \in After(x) : R[y] \ Defining(x) \subseteq R[x]
    BY DEF HoldsUses
  <2>1. \/ \E b \in f.blocks : \E k \in 1 .. Len(f.code[b]) : x = <<"at", b, k>>
        \/ \E b \in f.blocks : \E s \in SuccSet(f, b) : x = <<"edge", b, s>>
    BY DEF Points
  <2> QED BY <1>3, <1>4, <2>1
<1>6. ASSUME NEW b \in f.blocks, NEW k \in 1 .. Len(f.code[b])
      PROVE  Needed[<<"at", b, k>>] \subseteq Available(f, b, k)
  BY <1>1, <1>2, <1>5, NeededIsLeast, PointFacts
<1>7. Available(f, f.entry, 1) \subseteq Args
  BY InSSA, AvailableAtEntry
<1>8. f.entry \in f.blocks /\ 1 \in 1 .. Len(f.code[f.entry])
  BY <1>1, InSSA DEF WholeFunction
<1> QED BY <1>6, <1>7, <1>8

(* What holds the start and with a point those after it holds all points.  *)
LEMMA PointsAreReached ==
  ASSUME f \in Programs, NEW U, <<"at", f.entry, 1>> \in U,
         \A x \in Points : x \in U => After(x) \subseteq U
  PROVE  Points \subseteq U
<1>1. WholeFunction
  BY InSSA
<1>2. ASSUME NEW b \in f.blocks, <<"at", b, 1>> \in U
      PROVE  /\ \A k \in 1 .. Len(f.code[b]) : <<"at", b, k>> \in U
             /\ \A s \in SuccSet(f, b) : <<"edge", b, s>> \in U /\ <<"at", s, 1>> \in U
  <2> DEFINE c == Len(f.code[b])
  <2>1. c \in Nat \ {0}
    BY <1>1 DEF WholeFunction
  <2>2. ASSUME NEW k \in 1 .. c
        PROVE  /\ <<"at", b, k>> \in Points
               /\ After(<<"at", b, k>>) = IF k < c THEN {<<"at", b, k + 1>>}
                                          ELSE {<<"edge", b, s>> : s \in SuccSet(f, b)}
    BY <1>1, PointFacts DEF After, IsEdge
  <2> HIDE DEF c
  <2> DEFINE S == {n \in Nat : n + 1 <= c => <<"at", b, n + 1>> \in U}
  <2>3. 0 \in S
    BY <1>2
  <2>4. ASSUME NEW n \in Nat, n \in S PROVE n + 1 \in S
    <3> DEFINE m == n + 1
    <3> SUFFICES ASSUME m + 1 <= c PROVE <<"at", b, m + 1>> \in U
      OBVIOUS
    <3>1. m \in 1 .. c /\ m < c
      BY <2>1
    <3>2. <<"at", b, m>> \in U
      BY <2>1, <2>4
    <3> HIDE DEF m
    <3>3. After(<<"at", b, m>>) = {<<"at", b, m + 1>>} /\ <<"at", b, m>> \in Points
      BY <2>2, <3>1
    <3> QED BY <3>2, <3>3
  <2> HIDE DEF S
  <2>5. Nat \subseteq S
    BY <2>3, <2>4, SetInduction
  <2>6. ASSUME NEW k \in 1 .. c PROVE <<"at", b, k>> \in U
    <3>1. k - 1 \in Nat /\ k - 1 + 1 = k /\ k <= c
      BY <2>1
    <3>2. k - 1 \in S
      BY <2>5, <3>1
    <3> QED BY <3>1, <3>2 DEF S
  <2>7. c \in 1 .. c /\ ~(c < c)
    BY <2>1
  <2>8. After(<<"at", b, c>>) = {<<"edge", b, s>> : s \in SuccSet(f, b)} /\ <<"at", b, c>> \in Points
    BY <2>2, <2>7
  <2>9. \A s \in SuccSet(f, b) : <<"edge", b, s>> \in U
    BY <2>6, <2>7, <2>8
  <2>10. ASSUME NEW s \in SuccSet(f, b) PROVE <<"at", s, 1>> \in U
    <3>1. After(<<"edge", b, s>>) = {<<"at", s, 1>>} /\ <<"edge", b, s>> \in Points
      BY <1>1, PointFacts DEF After, IsEdge
    <3> QED BY <2>9, <3>1
  <2> QED BY <2>6, <2>9, <2>10 DEF c
<1> DEFINE B == {b \in f.blocks : <<"at", b, 1>> \in U}
<1>3. B \in SUBSET f.blocks /\ f.entry \in B /\ \A b \in B : SuccSet(f, b) \subseteq B
  BY <1>1, <1>2, InSSA DEF WholeFunction
<1> HIDE DEF B
<1>4. B = f.blocks
  BY <1>3, ProgramsAreInSSA DEF AllReachable
<1> SUFFICES ASSUME NEW x \in Points PROVE x \in U
  OBVIOUS
<1>5. \/ \E b \in f.blocks : \E k \in 1 .. Len(f.code[b]) : x = <<"at", b, k>>
      \/ \E b \in f.blocks : \E s \in SuccSet(f, b) : x = <<"edge", b, s>>
  BY DEF Points
<1> QED BY <1>2, <1>4, <1>5 DEF B

(* A version that is used somewhere is needed from its birth: no path to a *)
(* use comes round its definition.                                         *)
LEMMA VersionIsNeeded ==
  ASSUME f \in Programs, EveryVersionIsUsed, NEW b \in f.blocks, NEW k \in 1 .. Len(f.code[b]),
         f.code[b][k].op = "update"
  PROVE  k < Len(f.code[b]) /\ f.code[b][k].def \in Needed[<<"at", b, k + 1>>]
<1> DEFINE d == f.code[b][k].def
<1>1. WholeFunction /\ DefinedOnce(f, b, k) /\ k < Len(f.code[b])
  <2>1. WholeFunction /\ k # Len(f.code[b]) /\ DefinedOnce(f, b, k)
    BY InSSA
  <2> QED BY <2>1 DEF WholeFunction
<1>2. HoldsUses(Needed)
  BY <1>1, NeededHoldsUses
<1>3. PICK z \in Points : d \in Using(z)
  <2>1. f.code[b][k] \in Updates
    BY DEF Updates, AllCode
  <2>2. CASE \E j \in AllCode : d \in j.uses
    <3>1. PICK c \in f.blocks : \E n \in 1 .. Len(f.code[c]) : d \in f.code[c][n].uses
      BY <2>2 DEF AllCode
    <3>2. PICK n \in 1 .. Len(f.code[c]) : d \in f.code[c][n].uses
      BY <3>1
    <3> QED BY <1>1, <3>2, PointFacts DEF Using, IsEdge
  <2>3. CASE \E p \in AllPhis : d \in Incoming(p)
    <3>1. PICK s \in f.blocks : \E n \in 1 .. Nph(s) : d \in Incoming(f.phis[s][n])
      BY <2>3 DEF AllPhis
    <3>2. PICK n \in 1 .. Nph(s) : d \in Incoming(f.phis[s][n])
      BY <3>1
    <3>3. PICK c \in Preds(f, s) : d = f.phis[s][n].from[c]
      BY <3>2, InSSA DEF Incoming
    <3>4. c \in f.blocks /\ s \in SuccSet(f, c)
      BY <3>3 DEF Preds
    <3>5. Using(<<"edge", c, s>>) = PhiUses(s, c) /\ <<"edge", c, s>> \in Points
      BY <1>1, <3>4, PointFacts DEF Using, IsEdge
    <3> QED BY <3>2, <3>3, <3>5 DEF PhiUses
  <2> QED BY <2>1, <2>2, <2>3 DEF EveryVersionIsUsed
<1> SUFFICES ASSUME d \notin Needed[<<"at", b, k + 1>>] PROVE FALSE
  BY <1>1
<1> DEFINE U == {x \in Points : d \notin Needed[x]}
<1>4. <<"at", f.entry, 1>> \in U
  <2>1. d \notin Args
    BY <1>1 DEF DefinedOnce, Args
  <2>2. <<"at", f.entry, 1>> \in Points
    BY <1>1, InSSA, PointFacts DEF WholeFunction
  <2> QED BY <2>1, <2>2, NeededIsAvailable
<1>5. ASSUME NEW x \in Points, x \in U PROVE After(x) \subseteq U
  <2>1. After(x) \subseteq Points
    BY <1>1, PointFacts
  <2> SUFFICES ASSUME NEW y \in After(x), d \in Needed[y] PROVE FALSE
    BY <2>1
  <2>2. d \in Defining(x)
    BY <1>2, <1>5 DEF HoldsUses
  <2>3. CASE \E c \in f.blocks : \E n \in 1 .. Len(f.code[c]) : x = <<"at", c, n>>
    <3>1. PICK c \in f.blocks : \E n \in 1 .. Len(f.code[c]) : x = <<"at", c, n>>
      BY <2>3
    <3>2. PICK n \in 1 .. Len(f.code[c]) : x = <<"at", c, n>>
      BY <3>1
    <3>3. f.code[c][n].def = d
      BY <2>2, <3>2 DEF Defining, IsEdge
    <3>4. c = b /\ n = k
      BY <1>1, <3>3 DEF DefinedOnce
    <3>5. After(x) = {<<"at", b, k + 1>>}
      BY <1>1, <3>2, <3>4 DEF After, IsEdge
    <3> QED BY <3>5
  <2>4. CASE \E c \in f.blocks : \E s \in SuccSet(f, c) : x = <<"edge", c, s>>
    <3>1. PICK c \in f.blocks : \E s \in SuccSet(f, c) : x = <<"edge", c, s>>
      BY <2>4
    <3>2. PICK s \in SuccSet(f, c) : x = <<"edge", c, s>>
      BY <3>1
    <3>3. d \in PhiDefs(s) /\ s \in f.blocks
      BY <1>1, <2>2, <3>2 DEF Defining, IsEdge, WholeFunction
    <3> QED BY <1>1, <3>3 DEF DefinedOnce, PhiDefs, Nph
  <2> QED BY <2>3, <2>4 DEF Points
<1> HIDE DEF U
<1>6. Points \subseteq U
  BY <1>4, <1>5, PointsAreReached
<1> QED BY <1>2, <1>3, <1>6 DEF HoldsUses, U

-----------------------------------------------------------------------------
(* Running in place                                                        *)

(* The excuses of the property do not hold.                                *)
NothingIsMissed == ~missed /\ CarriedPhis = {} /\ EveryVersionIsUsed

(* The walk over the union-find that accepted the function.                *)
AcceptedWith(visited) ==
  /\ Tracked \subseteq visited
  /\ \A e \in Merges(visited) : {e[1], e[2]} \subseteq visited
  /\ Accepted(Merges(visited))

(* Values with one object are in one part.                                 *)
ObjectsAreParts(visited) ==
  /\ DOMAIN env \subseteq visited
  /\ \A v, w \in DOMAIN env : env[v][1] = env[w][1] => w \in Part(Merges(visited), v)

ObjectsAreThere ==
  /\ steps \in Nat
  /\ \A v \in DOMAIN env : env[v][1] \in DOMAIN mem
  /\ DOMAIN mem \subseteq {ArgObject(a) : a \in Args} \cup {MadeObject(n) : n \in 1 .. steps}

RunsInFunction ==
  /\ at = <<at[1], at[2]>>
  /\ at[1] \in f.blocks /\ at[2] \in 1 .. Len(f.code[at[1]])

(* What will be read has its version.                                      *)
NeededIsThere ==
  \A v \in Needed[<<"at", at[1], at[2]>>] : v \in DOMAIN env /\ ~Overwritten(v)

RunsInPlace ==
  /\ ~stale
  /\ RunsInFunction /\ ObjectsAreThere /\ NeededIsThere
  /\ \E visited : AcceptedWith(visited) /\ ObjectsAreParts(visited)

(* The inductive invariant.                                                *)
LinearInv ==
  /\ LivenessInv
  /\ f \in Programs
  /\ verdict = "pending" => RunInit /\ ~missed
  /\ verdict = "linear" /\ NothingIsMissed => RunsInPlace

(* What was accepted stays accepted.                                       *)
LEMMA SameVerdict ==
  ASSUME f' = f, liveVars' = liveVars
  PROVE  /\ missed' = missed => NothingIsMissed' = NothingIsMissed
         /\ Args' = Args /\ Tracked' = Tracked
         /\ \A visited : /\ AcceptedWith(visited)' = AcceptedWith(visited)
                         /\ Merges(visited)' = Merges(visited)
<1>1. AllCode' = AllCode /\ AllPhis' = AllPhis /\ Args' = Args
  BY DEF AllCode, AllPhis, Args, Nph
<1>2. Updates' = Updates
  BY <1>1 DEF Updates
<1>3. UpdateMerges' = UpdateMerges /\ Tracked' = Tracked
  BY <1>1, <1>2 DEF UpdateMerges, Tracked
<1>4. \A visited : Merges(visited)' = Merges(visited)
  BY <1>1, <1>3 DEF Merges, PhiMerges
<1>5. CarriedPhis' = CarriedPhis
  BY DEF CarriedPhis, Nph, Preds, SuccSet
<1>6. EveryVersionIsUsed' = EveryVersionIsUsed
  BY <1>1, <1>2 DEF EveryVersionIsUsed
<1>7. ASSUME NEW visited PROVE Accepted(Merges(visited))' = Accepted(Merges(visited))
  <2>1. Merges(visited)' = Merges(visited)
    BY <1>4
  <2> QED BY <2>1 DEF Accepted, liveVars, LiveOnEdge, PhiDefs, PhiUses, Nph, Instructions, SuccSet
<1> QED BY <1>1, <1>3, <1>4, <1>5, <1>6, <1>7 DEF NothingIsMissed, AcceptedWith

(* Where a function starts, its arguments have their objects.              *)
LEMMA RunStarts ==
  ASSUME f \in Programs, RunInit
  PROVE  /\ ~stale /\ RunsInFunction /\ ObjectsAreThere /\ NeededIsThere
         /\ \A visited : Tracked \subseteq visited => ObjectsAreParts(visited)
<1>1. /\ at = <<f.entry, 1>> /\ ~stale /\ steps = 0
      /\ DOMAIN env = Args /\ \A a \in Args : env[a] = <<ArgObject(a), 0>>
      /\ DOMAIN mem = {ArgObject(a) : a \in Args} /\ \A o \in DOMAIN mem : mem[o] = 0
  BY DEF RunInit
<1>2. at = <<at[1], at[2]>> /\ at[1] = f.entry /\ at[2] = 1
  BY <1>1
<1>3. RunsInFunction
  BY <1>2, InSSA DEF RunsInFunction, WholeFunction
<1>4. ObjectsAreThere
  BY <1>1 DEF ObjectsAreThere
<1>5. NeededIsThere
  <2> SUFFICES ASSUME NEW v \in Needed[<<"at", f.entry, 1>>] PROVE v \in DOMAIN env /\ ~Overwritten(v)
    BY <1>2 DEF NeededIsThere
  <2>1. v \in Args
    BY NeededIsAvailable
  <2> QED BY <1>1, <2>1 DEF Overwritten
<1>6. ASSUME NEW visited, Tracked \subseteq visited PROVE ObjectsAreParts(visited)
  <2>1. ASSUME NEW v \in DOMAIN env, NEW w \in DOMAIN env, env[v][1] = env[w][1]
        PROVE  w \in Part(Merges(visited), v)
    <3>1. v = w
      BY <1>1, <2>1 DEF ArgObject
    <3>2. IsFiniteSet(Merges(visited))
      BY InSSA, MergesAreFinite
    <3> QED BY <3>1, <3>2, PartFacts
  <2>2. DOMAIN env \subseteq visited
    BY <1>1, <1>6 DEF Tracked
  <2> QED BY <2>1, <2>2 DEF ObjectsAreParts
<1> QED BY <1>1, <1>3, <1>4, <1>5, <1>6

(* Before any point: nothing that is read was overwritten, and what is     *)
(* needed after the point and not defined by it was needed before it.      *)
LEMMA AtPoint ==
  ASSUME f \in Programs, RunsInFunction, NeededIsThere
  PROVE  LET x == <<"at", at[1], at[2]>> IN
         /\ Here = f.code[at[1]][at[2]] /\ x \in Points
         /\ Here.uses \subseteq Needed[x]
         /\ ~(\E v \in Here.uses : Overwritten(v))
         /\ \A y \in After(x) : \A v \in Needed[y] : v = Here.def \/ v \in Needed[x]
         /\ ~AtTerminator => /\ at[2] < Len(f.code[at[1]]) /\ at[2] + 1 \in 1 .. Len(f.code[at[1]])
                             /\ After(x) = {<<"at", at[1], at[2] + 1>>}
         /\ AtTerminator => After(x) = {<<"edge", at[1], s>> : s \in SuccSet(f, at[1])}
<1> DEFINE b == at[1]
           k == at[2]
           x == <<"at", b, k>>
<1>1. WholeFunction /\ b \in f.blocks /\ k \in 1 .. Len(f.code[b]) /\ Here = f.code[b][k]
  BY InSSA DEF RunsInFunction, Here
<1>2. x \in Points /\ Using(x) = Here.uses /\ Defining(x) = {Here.def}
  <2> HIDE DEF b, k
  <2> QED BY <1>1, PointFacts DEF Using, Defining, IsEdge
<1>3. HoldsUses(Needed)
  BY <1>1, NeededHoldsUses
<1>4. Using(x) \subseteq Needed[x] /\ \A y \in After(x) : Needed[y] \ Defining(x) \subseteq Needed[x]
  BY <1>2, <1>3 DEF HoldsUses
<1>5. Len(f.code[b]) \in Nat /\ (AtTerminator <=> k = Len(f.code[b]))
  BY <1>1 DEF AtTerminator, WholeFunction
<1>6. ~AtTerminator => k < Len(f.code[b]) /\ k + 1 \in 1 .. Len(f.code[b])
  <2> HIDE DEF b, k
  <2> QED BY <1>1, <1>5
<1>7. AtTerminator => ~(k < Len(f.code[b]))
  BY <1>5
<1>8. After(x) = IF k < Len(f.code[b]) THEN {<<"at", b, k + 1>>} ELSE {<<"edge", b, s>> : s \in SuccSet(f, b)}
  BY DEF After, IsEdge
<1>9. \A v \in Needed[x] : ~Overwritten(v)
  BY DEF NeededIsThere
<1> HIDE DEF x, b, k
<1>10. /\ Here = f.code[b][k] /\ x \in Points
       /\ Here.uses \subseteq Needed[x]
       /\ ~(\E v \in Here.uses : Overwritten(v))
       /\ \A y \in After(x) : \A v \in Needed[y] : v = Here.def \/ v \in Needed[x]
  BY <1>1, <1>2, <1>4, <1>9
<1>11. /\ ~AtTerminator => /\ k < Len(f.code[b]) /\ k + 1 \in 1 .. Len(f.code[b])
                           /\ After(x) = {<<"at", b, k + 1>>}
       /\ AtTerminator => After(x) = {<<"edge", b, s>> : s \in SuccSet(f, b)}
  BY <1>6, <1>7, <1>8
<1> QED BY <1>10, <1>11 DEF x, b, k

(* The instruction after which the next point is, in the same block.       *)
SteppedTo(y) ==
  /\ f' = f /\ liveVars' = liveVars /\ missed' = missed
  /\ at' = <<at[1], at[2] + 1>> /\ y = <<"at", at[1], at[2] + 1>>
  /\ steps' = steps + 1 /\ ~stale'

(* The facts of an instruction that is no terminator.                      *)
LEMMA ExecuteFacts ==
  ASSUME f \in Programs, RunsInPlace, Execute, f' = f, liveVars' = liveVars, missed' = missed
  PROVE  LET x == <<"at", at[1], at[2]>>
             y == <<"at", at[1], at[2] + 1>> IN
         /\ SteppedTo(y) /\ RunsInFunction' /\ Needed' = Needed
         /\ y \in Points /\ Needed[y] \subseteq Available(f, at[1], at[2] + 1)
         /\ \A v \in Needed[y] : v = Here.def \/ (v \in Needed[x] /\ v \in DOMAIN env /\ ~Overwritten(v))
         /\ \A v \in Here.uses : v \in DOMAIN env
<1> DEFINE x == <<"at", at[1], at[2]>>
           y == <<"at", at[1], at[2] + 1>>
<1>1. RunsInFunction /\ NeededIsThere /\ ~stale /\ ~AtTerminator
  BY DEF RunsInPlace, Execute
<1>2. WholeFunction /\ at[1] \in f.blocks
  BY <1>1, InSSA DEF RunsInFunction
<1>3. /\ Here.uses \subseteq Needed[x] /\ ~(\E v \in Here.uses : Overwritten(v))
      /\ at[2] + 1 \in 1 .. Len(f.code[at[1]]) /\ After(x) = {y}
      /\ \A v \in Needed[y] : v = Here.def \/ v \in Needed[x]
  BY <1>1, AtPoint
<1>4. at' = <<at[1], at[2] + 1>> /\ steps' = steps + 1 /\ ~stale'
  BY <1>1, <1>3 DEF Execute, Reads
<1>5. RunsInFunction'
  <2>1. at'[1] = at[1] /\ at'[2] = at[2] + 1 /\ at' = <<at'[1], at'[2]>>
    BY <1>4
  <2> QED BY <1>2, <1>3, <2>1 DEF RunsInFunction
<1>6. y \in Points /\ Needed[y] \subseteq Available(f, at[1], at[2] + 1)
  BY <1>2, <1>3, PointFacts, NeededIsAvailable
<1>7. \A v \in Needed[x] : v \in DOMAIN env /\ ~Overwritten(v)
  BY <1>1 DEF NeededIsThere
<1>8. Needed' = Needed
  BY SameFunction
<1> QED BY <1>3, <1>4, <1>5, <1>6, <1>7, <1>8 DEF SteppedTo

(* What is needed next is there if the values needed and defined, and the  *)
(* others that were there, are in the new memory.                          *)
LEMMA NeededNext ==
  ASSUME NEW y, SteppedTo(y), Needed' = Needed,
         \A v \in Needed[y] : v \in DOMAIN env' /\ mem'[env'[v][1]] = env'[v][2]
  PROVE  NeededIsThere'
<1>1. at'[1] = at[1] /\ at'[2] = at[2] + 1
  BY DEF SteppedTo
<1>2. <<"at", at'[1], at'[2]>> = y
  BY <1>1 DEF SteppedTo
<1>3. (\A v \in Needed'[<<"at", at'[1], at'[2]>>] : v \in DOMAIN env' /\ mem'[env'[v][1]] = env'[v][2])
  BY <1>2
<1> QED BY <1>3 DEF NeededIsThere, Overwritten

(* An instruction that defines no version changes no value.                *)
LEMMA ReadingRunsInPlace ==
  ASSUME f \in Programs, NothingIsMissed, RunsInPlace, Execute,
         f' = f, liveVars' = liveVars, missed' = missed,
         Here.op \in {"read", "end", "unreachable"}, Here.def = Absent
  PROVE  RunsInPlace'
<1> DEFINE y == <<"at", at[1], at[2] + 1>>
<1>1. env' = env /\ mem' = mem
  BY DEF Execute
<1>2. SteppedTo(y) /\ RunsInFunction' /\ Needed' = Needed
  BY ExecuteFacts
<1>3. \A v \in Needed[y] : v \in DOMAIN env /\ ~Overwritten(v)
  <2>1. Absent \notin Available(f, at[1], at[2] + 1)
    BY DEF Available
  <2> QED BY <2>1, ExecuteFacts
<1> HIDE DEF y
<1>4. NeededIsThere'
  BY <1>1, <1>2, <1>3, NeededNext DEF Overwritten
<1>5. ObjectsAreThere'
  <2>1. Args' = Args /\ steps' = steps + 1
    BY <1>2, SameVerdict DEF SteppedTo
  <2>2. steps \in Nat /\ steps' \in Nat /\ 1 .. steps \subseteq 1 .. steps'
    BY <2>1 DEF RunsInPlace, ObjectsAreThere
  <2>3. DOMAIN mem \subseteq {ArgObject(a) : a \in Args} \cup {MadeObject(n) : n \in 1 .. steps'}
    BY <2>2 DEF RunsInPlace, ObjectsAreThere
  <2> QED BY <1>1, <2>1, <2>2, <2>3 DEF RunsInPlace, ObjectsAreThere
<1>6. ASSUME NEW visited, AcceptedWith(visited), ObjectsAreParts(visited)
      PROVE  (AcceptedWith(visited) /\ ObjectsAreParts(visited))'
  BY <1>1, <1>6, SameVerdict DEF ObjectsAreParts
<1> QED BY <1>2, <1>4, <1>5, <1>6 DEF RunsInPlace, SteppedTo

(* A collection that is made has an object of its own.                     *)
LEMMA MakingRunsInPlace ==
  ASSUME f \in Programs, NothingIsMissed, RunsInPlace, Execute,
         f' = f, liveVars' = liveVars, missed' = missed,
         Here.op \in {"alloc", "copy"}
  PROVE  RunsInPlace'
<1> DEFINE y == <<"at", at[1], at[2] + 1>>
           n == steps + 1
           d == Here.def
           o == MadeObject(n)
<1>0. steps \in Nat /\ ObjectsAreThere /\ RunsInFunction
  BY DEF RunsInPlace, ObjectsAreThere
<1>1. env' = With(env, d, <<o, n>>) /\ mem' = With(mem, o, n)
  BY DEF Execute
<1>2. /\ DOMAIN env' = DOMAIN env \cup {d} /\ env'[d] = <<o, n>>
      /\ \A v \in DOMAIN env : v # d => env'[v] = env[v]
      /\ DOMAIN mem' = DOMAIN mem \cup {o} /\ mem'[o] = n
      /\ \A p \in DOMAIN mem : p # o => mem'[p] = mem[p]
  <2> HIDE DEF d, o, n
  <2> DEFINE e == <<o, n>>
  <2>1. env' = [w \in DOMAIN env \cup {d} |-> IF w = d THEN e ELSE env[w]]
    BY <1>1 DEF With
  <2>2. mem' = [w \in DOMAIN mem \cup {o} |-> IF w = o THEN n ELSE mem[w]]
    BY <1>1 DEF With
  <2> HIDE DEF e
  <2>3. DOMAIN env' = DOMAIN env \cup {d} /\ env'[d] = e /\ \A v \in DOMAIN env : v # d => env'[v] = env[v]
    BY <2>1
  <2>4. DOMAIN mem' = DOMAIN mem \cup {o} /\ mem'[o] = n /\ \A p \in DOMAIN mem : p # o => mem'[p] = mem[p]
    BY <2>2
  <2> QED BY <2>3, <2>4 DEF e
<1>3. SteppedTo(y) /\ RunsInFunction' /\ Needed' = Needed
      /\ \A v \in Needed[y] : v = d \/ (v \in DOMAIN env /\ ~Overwritten(v))
  BY ExecuteFacts
<1>4. o \notin DOMAIN mem
  <2>1. \A a \in Args : ArgObject(a) # o
    BY DEF ArgObject, MadeObject
  <2>2. \A m \in 1 .. steps : MadeObject(m) # o
    <3>1. \A m \in 1 .. steps : m # n
      BY <1>0
    <3> HIDE DEF n
    <3> QED BY <3>1 DEF MadeObject
  <2> QED BY <1>0, <2>1, <2>2 DEF ObjectsAreThere
<1>5. \A v \in DOMAIN env : env[v][1] \in DOMAIN mem /\ env[v][1] # o
  BY <1>0, <1>4 DEF ObjectsAreThere
<1>6. NeededIsThere'
  <2>1. ASSUME NEW v \in Needed[y] PROVE v \in DOMAIN env' /\ mem'[env'[v][1]] = env'[v][2]
    <3>1. CASE v = d
      BY <1>2, <3>1
    <3>2. CASE v # d
      BY <1>2, <1>3, <1>5, <3>2 DEF Overwritten
    <3> QED BY <3>1, <3>2
  <2> HIDE DEF y
  <2> QED BY <1>3, <2>1, NeededNext
<1>7. ObjectsAreThere'
  <2>1. Args' = Args /\ steps' = n
    BY <1>3, SameVerdict DEF SteppedTo
  <2>2. n \in Nat /\ 1 .. steps \subseteq 1 .. n /\ n \in 1 .. n
    BY <1>0
  <2>3. DOMAIN mem' \subseteq {ArgObject(a) : a \in Args} \cup {MadeObject(m) : m \in 1 .. n}
    <3> HIDE DEF n
    <3> QED BY <1>0, <1>2, <2>2 DEF ObjectsAreThere
  <2>4. \A v \in DOMAIN env' : env'[v][1] \in DOMAIN mem'
    <3> HIDE DEF o, d
    <3>1. ASSUME NEW v \in DOMAIN env' PROVE env'[v][1] \in DOMAIN mem'
      <4>1. CASE v = d
        BY <1>2, <4>1
      <4>2. CASE v # d
        BY <1>2, <1>5, <4>2
      <4> QED BY <4>1, <4>2
    <3> QED BY <3>1
  <2> HIDE DEF n
  <2> QED BY <2>1, <2>2, <2>3, <2>4 DEF ObjectsAreThere
<1>8. ASSUME NEW visited, AcceptedWith(visited), ObjectsAreParts(visited)
      PROVE  (AcceptedWith(visited) /\ ObjectsAreParts(visited))'
  <2>1. d \in Tracked
    <3>1. Here \in AllCode
      BY <1>0 DEF AllCode, Here, RunsInFunction
    <3> QED BY <3>1 DEF Tracked
  <2>2. AcceptedWith(visited)' /\ Merges(visited)' = Merges(visited)
    BY <1>8, SameVerdict
  <2>3. IsFiniteSet(Merges(visited))
    BY InSSA, MergesAreFinite
  <2>4. DOMAIN env' \subseteq visited
    BY <1>2, <1>8, <2>1 DEF AcceptedWith, ObjectsAreParts
  <2>5. ASSUME NEW v \in DOMAIN env', NEW w \in DOMAIN env', env'[v][1] = env'[w][1]
        PROVE  w \in Part(Merges(visited), v)
    <3> HIDE DEF d, o
    <3>1. CASE v = w
      BY <2>3, <3>1, PartFacts
    <3>2. CASE v # d /\ w # d
      <4>1. v \in DOMAIN env /\ w \in DOMAIN env /\ env[v][1] = env[w][1]
        BY <1>2, <2>5, <3>2
      <4> QED BY <1>8, <4>1 DEF ObjectsAreParts
    <3>3. CASE v # w /\ (v = d \/ w = d)
      BY <1>2, <1>5, <2>5, <3>3
    <3> QED BY <3>1, <3>2, <3>3
  <2> QED BY <2>2, <2>4, <2>5 DEF ObjectsAreParts
<1> QED BY <1>3, <1>6, <1>7, <1>8 DEF RunsInPlace, SteppedTo

(* An update overwrites no version that is needed: the other values of its *)
(* object are in one part with what it defines.                            *)
LEMMA UpdatingRunsInPlace ==
  ASSUME f \in Programs, LivenessDone, NothingIsMissed, RunsInPlace, Execute,
         f' = f, liveVars' = liveVars, missed' = missed,
         Here.op = "update", Here.obj \in Here.uses
  PROVE  RunsInPlace'
<1> DEFINE y == <<"at", at[1], at[2] + 1>>
           n == steps + 1
           d == Here.def
           o == env[Here.obj][1]
<1>0. steps \in Nat /\ ObjectsAreThere /\ RunsInFunction /\ ~AtTerminator
  BY DEF RunsInPlace, ObjectsAreThere, Execute
<1>1. env' = With(env, d, <<o, n>>) /\ mem' = With(mem, o, n)
  BY DEF Execute
<1>2. /\ DOMAIN env' = DOMAIN env \cup {d} /\ env'[d] = <<o, n>>
      /\ \A v \in DOMAIN env : v # d => env'[v] = env[v]
      /\ DOMAIN mem' = DOMAIN mem \cup {o} /\ mem'[o] = n
      /\ \A p \in DOMAIN mem : p # o => mem'[p] = mem[p]
  <2> HIDE DEF d, o, n
  <2> DEFINE e == <<o, n>>
  <2>1. env' = [w \in DOMAIN env \cup {d} |-> IF w = d THEN e ELSE env[w]]
    BY <1>1 DEF With
  <2>2. mem' = [w \in DOMAIN mem \cup {o} |-> IF w = o THEN n ELSE mem[w]]
    BY <1>1 DEF With
  <2> HIDE DEF e
  <2>3. DOMAIN env' = DOMAIN env \cup {d} /\ env'[d] = e /\ \A v \in DOMAIN env : v # d => env'[v] = env[v]
    BY <2>1
  <2>4. DOMAIN mem' = DOMAIN mem \cup {o} /\ mem'[o] = n /\ \A p \in DOMAIN mem : p # o => mem'[p] = mem[p]
    BY <2>2
  <2> QED BY <2>3, <2>4 DEF e
<1>3. /\ SteppedTo(y) /\ RunsInFunction' /\ Needed' = Needed
      /\ \A v \in Needed[y] : v = d \/ (v \in DOMAIN env /\ ~Overwritten(v))
      /\ Here.obj \in DOMAIN env
  BY ExecuteFacts
<1>4. o \in DOMAIN mem
  BY <1>0, <1>3 DEF ObjectsAreThere
<1>5. Here \in Updates
  BY <1>0 DEF Updates, AllCode, Here, RunsInFunction
<1>6. PICK visited : AcceptedWith(visited) /\ ObjectsAreParts(visited)
  BY DEF RunsInPlace
<1> DEFINE merges == Merges(visited)
<1>7. IsFiniteSet(merges) /\ AcceptedWith(visited)' /\ merges' = merges
  BY <1>6, SameVerdict, InSSA, MergesAreFinite
<1>8. <<d, Here.obj>> \in merges /\ d \in Tracked
  BY <1>5 DEF Merges, UpdateMerges, Tracked
<1>9. d \in Part(merges, Here.obj) /\ Here.obj \in Part(merges, d)
  <2> HIDE DEF merges
  <2>1. Unmerged(Part(merges, Here.obj), merges) /\ Unmerged(Part(merges, d), merges)
    BY <1>7, PartFacts
  <2>2. Here.obj \in Part(merges, Here.obj) /\ d \in Part(merges, d)
    BY <1>7, PartFacts
  <2> HIDE DEF d
  <2> DEFINE m == <<d, Here.obj>>
  <2>3. m \in merges /\ m[1] = d /\ m[2] = Here.obj
    BY <1>8
  <2> HIDE DEF m
  <2> QED BY <2>1, <2>2, <2>3 DEF Unmerged
<1>10. ASSUME NEW v \in DOMAIN env, env[v][1] = o
       PROVE  v \in Part(merges, d) /\ d \in Part(merges, v)
  <2>1. v \in Part(merges, Here.obj) /\ Here.obj \in Part(merges, v)
    BY <1>3, <1>6, <1>10 DEF ObjectsAreParts
  <2> HIDE DEF merges, d
  <2> QED BY <1>7, <1>9, <2>1, PartsHoldParts
<1>11. ASSUME NEW v \in Needed[y], v # d
       PROVE  env[v][1] # o
  <2> SUFFICES ASSUME env[v][1] = o PROVE FALSE
    OBVIOUS
  <2>1. v \in Part(merges, d)
    BY <1>3, <1>10, <1>11
  <2> DEFINE b == at[1]
             k == at[2]
             x == <<"at", b, k + 1>>
  <2>2. /\ WholeFunction /\ b \in f.blocks /\ k \in 1 .. Len(f.code[b])
        /\ Here = f.code[b][k] /\ k + 1 \in 1 .. Len(f.code[b])
    BY <1>0, AtPoint, InSSA DEF RunsInFunction, RunsInPlace
  <2>3. d \in Needed[x]
    <3> HIDE DEF b, k
    <3> QED BY <2>2, VersionIsNeeded DEF NothingIsMissed
  <2>4. Nph(b) + (k + 1) \in Instructions(b) /\ Nph(b) + (k + 1) > Nph(b)
    <3>1. Nph(b) \in Nat /\ Len(f.code[b]) \in Nat
      BY <2>2 DEF WholeFunction
    <3> DEFINE p == Nph(b)
               c == Len(f.code[b])
    <3> HIDE DEF p, c
    <3>2. p + (k + 1) \in 1 .. p + c /\ p + (k + 1) > p
      BY <2>2, <3>1 DEF p, c
    <3> QED BY <3>2 DEF p, c, Instructions
  <2>5. Needed[x] \subseteq liveIn[b][Nph(b) + (k + 1)]
    <3>1. CarriedPhis = {}
      BY DEF NothingIsMissed
    <3> DEFINE m == k + 1
    <3>2. m \in 1 .. Len(f.code[b])
      BY <2>2
    <3> HIDE DEF m, b, k
    <3>3. Needed[<<"at", b, m>>] \ CarriedPhis \subseteq liveIn[b][Nph(b) + m]
      BY <2>2, <3>2, FixpointHoldsNeeded
    <3> QED BY <3>1, <3>3 DEF m
  <2>6. OneOfEachPart(merges, liveIn[b][Nph(b) + (k + 1)])
    <3> DEFINE i == Nph(b) + (k + 1)
    <3>1. i \in Instructions(b) /\ i > Nph(b)
      BY <2>4
    <3> HIDE DEF i, b, k
    <3>2. OneOfEachPart(merges, liveIn[b][i])
      BY <1>6, <2>2, <3>1 DEF AcceptedWith, Accepted
    <3> QED BY <3>2 DEF i
  <2>7. d \in liveIn[b][Nph(b) + (k + 1)] /\ v \in liveIn[b][Nph(b) + (k + 1)]
    BY <2>3, <2>5, <1>11
  <2> HIDE DEF b, k, x, d, merges
  <2> QED BY <1>11, <2>1, <2>6, <2>7 DEF OneOfEachPart
<1>12. NeededIsThere'
  <2>1. ASSUME NEW v \in Needed[y] PROVE v \in DOMAIN env' /\ mem'[env'[v][1]] = env'[v][2]
    <3>1. CASE v = d
      BY <1>2, <3>1
    <3>2. CASE v # d
      <4>1. v \in DOMAIN env /\ mem[env[v][1]] = env[v][2] /\ env[v][1] # o
        BY <1>3, <1>11, <3>2 DEF Overwritten
      <4>2. env[v][1] \in DOMAIN mem
        BY <1>0, <4>1 DEF ObjectsAreThere
      <4> QED BY <1>2, <3>2, <4>1, <4>2
    <3> QED BY <3>1, <3>2
  <2> HIDE DEF y
  <2> QED BY <1>3, <2>1, NeededNext
<1>13. ObjectsAreThere'
  <2>1. Args' = Args /\ steps' = n
    BY <1>3, SameVerdict DEF SteppedTo
  <2>2. n \in Nat /\ 1 .. steps \subseteq 1 .. n
    BY <1>0
  <2>3. DOMAIN mem' \subseteq {ArgObject(a) : a \in Args} \cup {MadeObject(m) : m \in 1 .. n}
    <3> HIDE DEF n, o
    <3> QED BY <1>0, <1>2, <1>4, <2>2 DEF ObjectsAreThere
  <2>4. \A v \in DOMAIN env' : env'[v][1] \in DOMAIN mem'
    <3> HIDE DEF o, d
    <3>1. ASSUME NEW v \in DOMAIN env' PROVE env'[v][1] \in DOMAIN mem'
      <4>1. CASE v = d
        BY <1>2, <4>1
      <4>2. CASE v # d
        BY <1>0, <1>2, <4>2 DEF ObjectsAreThere
      <4> QED BY <4>1, <4>2
    <3> QED BY <3>1
  <2> HIDE DEF n
  <2> QED BY <2>1, <2>2, <2>3, <2>4 DEF ObjectsAreThere
<1>14. ObjectsAreParts(visited)'
  <2>1. DOMAIN env' \subseteq visited
    BY <1>2, <1>6, <1>8 DEF AcceptedWith, ObjectsAreParts
  <2>2. ASSUME NEW v \in DOMAIN env', NEW w \in DOMAIN env', env'[v][1] = env'[w][1]
        PROVE  w \in Part(merges, v)
    <3> HIDE DEF d, o, merges
    <3>1. CASE v = w
      BY <1>7, <3>1, PartFacts
    <3>2. CASE v # d /\ w # d
      <4>1. v \in DOMAIN env /\ w \in DOMAIN env /\ env[v][1] = env[w][1]
        BY <1>2, <2>2, <3>2
      <4> QED BY <1>6, <4>1 DEF ObjectsAreParts, merges
    <3>3. CASE v # w /\ w = d
      <4>1. v \in DOMAIN env /\ env[v][1] = o
        BY <1>2, <2>2, <3>3
      <4> QED BY <1>10, <3>3, <4>1
    <3>4. CASE v # w /\ v = d
      <4>1. w \in DOMAIN env /\ env[w][1] = o
        BY <1>2, <2>2, <3>4
      <4> QED BY <1>10, <3>4, <4>1
    <3> QED BY <3>1, <3>2, <3>3, <3>4
  <2> QED BY <1>7, <2>1, <2>2 DEF ObjectsAreParts
<1> QED BY <1>3, <1>7, <1>12, <1>13, <1>14 DEF RunsInPlace, SteppedTo

(* What the PHIs of a block take on an edge into it was needed there.      *)
Taken(s, b, v) == f.phis[s][CHOOSE k \in 1 .. Nph(s) : f.phis[s][k].def = v].from[b]

LEMMA TakenIsThere ==
  ASSUME f \in Programs, RunsInFunction, NeededIsThere, AtTerminator,
         NEW s \in SuccSet(f, at[1])
  PROVE  /\ s \in f.blocks /\ RunsInFunction
         /\ ~(\E v \in Here.uses : Overwritten(v))
         /\ \A v \in PhiDefs(s) :
              /\ Taken(s, at[1], v) \in DOMAIN env /\ ~Overwritten(Taken(s, at[1], v))
              /\ \E phi \in AllPhis : phi.def = v /\ Taken(s, at[1], v) \in Incoming(phi)
         /\ \A v \in Needed[<<"at", s, 1>>] \ PhiDefs(s) : v \in DOMAIN env /\ ~Overwritten(v)
<1> DEFINE b == at[1]
           x == <<"at", at[1], at[2]>>
           e == <<"edge", b, s>>
           y == <<"at", s, 1>>
<1>1. WholeFunction /\ b \in f.blocks /\ at[2] \in 1 .. Len(f.code[b])
  BY InSSA DEF RunsInFunction
<1>2. s \in f.blocks
  BY <1>1 DEF WholeFunction
<1>3. /\ Here = f.code[b][at[2]]
      /\ ~(\E v \in Here.uses : Overwritten(v))
      /\ e \in After(x)
      /\ \A z \in After(x) : \A v \in Needed[z] : v = Here.def \/ v \in Needed[x]
  BY AtPoint
<1>4. Here.def = Absent
  <2> DEFINE k == at[2]
  <2>1. k = Len(f.code[b])
    BY DEF AtTerminator
  <2>2. /\ \/ f.code[b][k].op \in {"alloc", "copy"}
           \/ f.code[b][k].op = "update"
           \/ f.code[b][k].op \in {"read", "end", "unreachable"} /\ f.code[b][k].def = Absent
        /\ k = Len(f.code[b]) => f.code[b][k].op \in {"end", "unreachable"}
    BY <1>1, InSSA
  <2> HIDE DEF k, b
  <2>3. f.code[b][k].def = Absent
    BY <2>1, <2>2
  <2> QED BY <1>3, <2>3 DEF k
<1>5. \A v \in Needed[x] : v \in DOMAIN env /\ ~Overwritten(v)
  BY DEF NeededIsThere
<1> HIDE DEF x
<1>6. ASSUME NEW v \in Needed[e], v # Absent
      PROVE  v \in DOMAIN env /\ ~Overwritten(v)
  BY <1>3, <1>4, <1>5, <1>6
<1>7. e \in Points /\ Using(e) = PhiUses(s, b) /\ Defining(e) = PhiDefs(s) /\ After(e) = {y}
  BY <1>1, PointFacts DEF Using, Defining, After, IsEdge
<1>8. PhiUses(s, b) \subseteq Needed[e] /\ Needed[y] \ PhiDefs(s) \subseteq Needed[e]
  <2>1. HoldsUses(Needed)
    BY <1>1, NeededHoldsUses
  <2> HIDE DEF e, y
  <2> QED BY <1>7, <2>1 DEF HoldsUses
<1>9. ASSUME NEW v \in Needed[y] \ PhiDefs(s)
      PROVE  v \in DOMAIN env /\ ~Overwritten(v)
  <2>1. v # Absent
    <3>1. 1 \in 1 .. Len(f.code[s])
      BY <1>1, <1>2 DEF WholeFunction
    <3>2. Needed[y] \subseteq Available(f, s, 1)
      BY <1>2, <3>1, NeededIsAvailable
    <3> QED BY <3>2, AvailableIs
  <2>2. v \in Needed[e]
    BY <1>8
  <2> HIDE DEF e, y
  <2> QED BY <1>6, <2>1, <2>2
<1>10. ASSUME NEW v \in PhiDefs(s)
       PROVE  LET w == Taken(s, b, v) IN
              /\ w \in DOMAIN env /\ ~Overwritten(w)
              /\ \E phi \in AllPhis : phi.def = v /\ w \in Incoming(phi)
  <2> DEFINE k == CHOOSE n \in 1 .. Nph(s) : f.phis[s][n].def = v
             phi == f.phis[s][k]
             w == phi.from[b]
  <2>1. \E n \in 1 .. Nph(s) : f.phis[s][n].def = v
    BY DEF PhiDefs
  <2>2. k \in 1 .. Nph(s) /\ phi.def = v
    BY <2>1
  <2>3. w = Taken(s, b, v)
    BY DEF Taken
  <2> HIDE DEF k
  <2>4. b \in Preds(f, s)
    BY <1>1 DEF Preds
  <2>5. DOMAIN phi.from = Preds(f, s) /\ w \in Available(f, b, Len(f.code[b]) + 1)
    <3> HIDE DEF b
    <3> QED BY <1>2, <2>2, <2>4, InSSA
  <2>6. w # Absent
    BY <2>5, AvailableIs
  <2>7. phi \in AllPhis
    BY <1>2, <2>2 DEF AllPhis
  <2>8. w \in Incoming(phi)
    BY <2>4, <2>5 DEF Incoming
  <2>9. w \in Needed[e]
    BY <1>8, <2>2 DEF PhiUses
  <2>10. w \in DOMAIN env /\ ~Overwritten(w)
    <3> HIDE DEF w, e
    <3> QED BY <1>6, <2>6, <2>9
  <2> HIDE DEF phi, w
  <2> QED BY <2>2, <2>3, <2>7, <2>8, <2>10
<1> QED BY <1>2, <1>3, <1>9, <1>10

(* Control takes an edge: a PHI stands for the object of what it takes,    *)
(* and is in one part with it.                                             *)
LEMMA BranchingRunsInPlace ==
  ASSUME f \in Programs, NothingIsMissed, RunsInPlace, NEW s \in f.blocks, Branch(s),
         f' = f, liveVars' = liveVars, missed' = missed
  PROVE  RunsInPlace'
<1> DEFINE b == at[1]
           y == <<"at", s, 1>>
           from == [v \in DOMAIN env \cup PhiDefs(s) |-> IF v \in PhiDefs(s) THEN Taken(s, b, v) ELSE v]
<1>1. /\ RunsInFunction /\ NeededIsThere /\ ObjectsAreThere /\ ~stale /\ steps \in Nat
      /\ AtTerminator /\ s \in SuccSet(f, at[1])
      /\ at' = <<s, 1>> /\ steps' = steps + 1 /\ mem' = mem
      /\ stale' = (stale \/ \E v \in Here.uses : Overwritten(v))
  BY DEF RunsInPlace, ObjectsAreThere, Branch, Reads
<1>2. /\ ~(\E v \in Here.uses : Overwritten(v))
      /\ \A v \in PhiDefs(s) :
           /\ Taken(s, b, v) \in DOMAIN env /\ ~Overwritten(Taken(s, b, v))
           /\ \E phi \in AllPhis : phi.def = v /\ Taken(s, b, v) \in Incoming(phi)
      /\ \A v \in Needed[y] \ PhiDefs(s) : v \in DOMAIN env /\ ~Overwritten(v)
  BY <1>1, TakenIsThere
<1>3. env' = [v \in DOMAIN env \cup PhiDefs(s) |-> IF v \in PhiDefs(s) THEN env[Taken(s, b, v)] ELSE env[v]]
  BY DEF Branch, Taken
<1>4. /\ DOMAIN env' = DOMAIN env \cup PhiDefs(s)
      /\ \A v \in DOMAIN env' : from[v] \in DOMAIN env /\ env'[v] = env[from[v]]
      /\ \A v \in PhiDefs(s) : from[v] = Taken(s, b, v)
      /\ \A v \in DOMAIN env \ PhiDefs(s) : from[v] = v
  <2>1. DOMAIN env' = DOMAIN env \cup PhiDefs(s)
    BY <1>3
  <2>2. ASSUME NEW v \in PhiDefs(s)
        PROVE  from[v] = Taken(s, b, v) /\ from[v] \in DOMAIN env /\ env'[v] = env[from[v]]
    BY <1>2, <1>3
  <2>3. ASSUME NEW v \in DOMAIN env \ PhiDefs(s)
        PROVE  from[v] = v /\ env'[v] = env[from[v]]
    BY <1>3
  <2> HIDE DEF from, b
  <2> QED BY <2>1, <2>2, <2>3
<1> HIDE DEF from
<1>5. ~stale' /\ RunsInFunction' /\ Needed' = Needed
  <2>1. ~stale'
    BY <1>1, <1>2
  <2>2. at'[1] = s /\ at'[2] = 1 /\ at' = <<at'[1], at'[2]>>
    BY <1>1
  <2>3. 1 \in 1 .. Len(f.code[s])
    BY InSSA DEF WholeFunction
  <2> QED BY <2>1, <2>2, <2>3, SameFunction DEF RunsInFunction
<1>6. NeededIsThere'
  <2>1. ASSUME NEW v \in Needed[y] PROVE v \in DOMAIN env' /\ mem'[env'[v][1]] = env'[v][2]
    <3> DEFINE w == from[v]
    <3>1. v \in DOMAIN env' /\ w \in DOMAIN env /\ ~Overwritten(w)
      <4>1. CASE v \in PhiDefs(s)
        BY <1>2, <1>4, <4>1
      <4>2. CASE v \notin PhiDefs(s)
        BY <1>2, <1>4, <4>2
      <4> QED BY <4>1, <4>2
    <3>2. env'[v] = env[w]
      BY <1>4, <3>1
    <3> HIDE DEF w
    <3> QED BY <1>1, <3>1, <3>2 DEF Overwritten
  <2>2. <<"at", at'[1], at'[2]>> = y
    BY <1>1
  <2> HIDE DEF y
  <2>3. \A v \in Needed'[<<"at", at'[1], at'[2]>>] : v \in DOMAIN env' /\ mem'[env'[v][1]] = env'[v][2]
    BY <1>5, <2>1, <2>2
  <2> QED BY <2>3 DEF NeededIsThere, Overwritten
<1>7. ObjectsAreThere'
  <2>1. Args' = Args
    BY SameVerdict
  <2>2. steps' \in Nat /\ 1 .. steps \subseteq 1 .. steps'
    BY <1>1
  <2>3. DOMAIN mem \subseteq {ArgObject(a) : a \in Args} \cup {MadeObject(n) : n \in 1 .. steps'}
    BY <1>1, <2>2 DEF ObjectsAreThere
  <2>4. \A v \in DOMAIN env' : env'[v][1] \in DOMAIN mem
    BY <1>1, <1>4 DEF ObjectsAreThere
  <2> QED BY <1>1, <2>1, <2>2, <2>3, <2>4 DEF ObjectsAreThere
<1>8. PICK visited : AcceptedWith(visited) /\ ObjectsAreParts(visited)
  BY DEF RunsInPlace
<1> DEFINE merges == Merges(visited)
<1>9. IsFiniteSet(merges) /\ AcceptedWith(visited)' /\ merges' = merges
  BY <1>8, SameVerdict, InSSA, MergesAreFinite
<1>10. ASSUME NEW v \in DOMAIN env'
       PROVE  v \in visited /\ v \in Part(merges, from[v]) /\ from[v] \in Part(merges, v)
  <2> DEFINE w == from[v]
  <2>1. CASE v \in PhiDefs(s)
    <3> DEFINE m == <<v, w>>
    <3>1. PICK phi \in AllPhis : phi.def = v /\ w \in Incoming(phi)
      BY <1>2, <1>4, <2>1
    <3>2. w \in visited
      BY <1>4, <1>8 DEF ObjectsAreParts
    <3> HIDE DEF w
    <3>3. m \in merges
      BY <3>1, <3>2 DEF Merges, PhiMerges
    <3>4. m[1] = v /\ m[2] = w
      OBVIOUS
    <3> HIDE DEF m, merges
    <3>5. Unmerged(Part(merges, v), merges) /\ Unmerged(Part(merges, w), merges)
      BY <1>9, PartFacts
    <3>6. v \in Part(merges, v) /\ w \in Part(merges, w)
      BY <1>9, PartFacts
    <3>7. v \in Part(merges, w) /\ w \in Part(merges, v)
      BY <3>3, <3>4, <3>5, <3>6 DEF Unmerged
    <3>8. v \in visited
      BY <1>8, <3>3, <3>4 DEF AcceptedWith, merges
    <3> QED BY <3>7, <3>8 DEF w
  <2>2. CASE v \notin PhiDefs(s)
    <3>1. w = v /\ v \in visited
      BY <1>4, <1>8, <2>2 DEF ObjectsAreParts
    <3> HIDE DEF merges
    <3> QED BY <1>9, <3>1, PartFacts
  <2> QED BY <2>1, <2>2
<1>11. ObjectsAreParts(visited)'
  <2>1. DOMAIN env' \subseteq visited
    BY <1>10
  <2>2. ASSUME NEW v \in DOMAIN env', NEW w \in DOMAIN env', env'[v][1] = env'[w][1]
        PROVE  w \in Part(merges, v)
    <3> DEFINE p == from[v]
               q == from[w]
    <3>1. p \in DOMAIN env /\ q \in DOMAIN env /\ env[p][1] = env[q][1]
      BY <1>4, <2>2
    <3>2. p \in Part(merges, v) /\ w \in Part(merges, q)
      BY <1>10
    <3> HIDE DEF p, q
    <3>3. q \in Part(merges, p)
      BY <1>8, <3>1 DEF ObjectsAreParts
    <3> HIDE DEF merges
    <3>4. Part(merges, p) \subseteq Part(merges, v) /\ Part(merges, q) \subseteq Part(merges, p)
      BY <1>9, <3>2, <3>3, PartsHoldParts
    <3> QED BY <3>2, <3>4
  <2> QED BY <1>9, <2>1, <2>2 DEF ObjectsAreParts
<1> QED BY <1>5, <1>6, <1>7, <1>9, <1>11 DEF RunsInPlace

-----------------------------------------------------------------------------
(* Every step                                                              *)

(* What is said of an execution does not change while it stands still.     *)
LEMMA SameVisit ==
  ASSUME f' = f, liveVars' = liveVars, execVars' = execVars
  PROVE  /\ stale' = stale /\ RunsInFunction' = RunsInFunction
         /\ ObjectsAreThere' = ObjectsAreThere /\ NeededIsThere' = NeededIsThere
         /\ \A visited : ObjectsAreParts(visited)' = ObjectsAreParts(visited)
<1>1. at' = at /\ env' = env /\ mem' = mem /\ steps' = steps /\ stale' = stale
  BY DEF execVars
<1>5. Args' = Args /\ \A visited : Merges(visited)' = Merges(visited)
  BY SameVerdict
<1>6. Needed' = Needed
  BY SameFunction
<1>7. ASSUME NEW visited PROVE ObjectsAreParts(visited)' = ObjectsAreParts(visited)
  <2>1. Merges(visited)' = Merges(visited)
    BY <1>5
  <2> QED BY <1>1, <2>1 DEF ObjectsAreParts
<1>8. RunsInFunction' = RunsInFunction
  BY <1>1 DEF RunsInFunction
<1>9. ObjectsAreThere' = ObjectsAreThere
  BY <1>1, <1>5 DEF ObjectsAreThere
<1>10. NeededIsThere' = NeededIsThere
  BY <1>1, <1>6 DEF NeededIsThere, Overwritten
<1> QED BY <1>1, <1>7, <1>8, <1>9, <1>10

LEMMA LinearInvInit ==
  Init => LinearInv
<1> SUFFICES ASSUME Init PROVE LinearInv
  OBVIOUS
<1> QED BY LivenessInvInit DEF Init, LinearInv

LEMMA LinearInvStep ==
  LinearInv /\ [Next]_vars => LinearInv'
<1> SUFFICES ASSUME LinearInv, [Next]_vars PROVE LinearInv'
  OBVIOUS
<1>1. LivenessInv' /\ f \in Programs
  BY LivenessInvStep DEF LinearInv
<1>2. ASSUME NEW b \in f.blocks, Visit(b), UNCHANGED <<f, verdict, missed, execVars>>
      PROVE  LinearInv'
  <2>1. verdict = "pending" /\ verdict' = "pending" /\ f' = f /\ ~missed'
    BY <1>2 DEF LinearInv, LivenessInv, Visit, LivenessDone
  <2>2. RunInit'
    BY <1>2, <2>1 DEF LinearInv, RunInit, execVars, Args
  <2> QED BY <1>1, <2>1, <2>2 DEF LinearInv
<1>3. CASE Verify
  <2>1. PICK late \in SUBSET ({p.def : p \in AllPhis} \ Tracked) :
          LET visited == Tracked \cup late
              merges  == Merges(visited) IN
          /\ verdict' = IF Accepted(merges) THEN "linear" ELSE "rejected"
          /\ missed' = (\E e \in merges : {e[1], e[2]} \ visited # {})
    BY <1>3 DEF Verify
  <2>2. PICK visited :
          /\ verdict' = IF Accepted(Merges(visited)) THEN "linear" ELSE "rejected"
          /\ missed' = (\E e \in Merges(visited) : {e[1], e[2]} \ visited # {})
          /\ Tracked \subseteq visited
    BY <2>1
  <2>3. /\ verdict = "pending" /\ f' = f /\ liveVars' = liveVars /\ execVars' = execVars
        /\ RunInit /\ verdict' # "pending"
    BY <1>3, <2>2 DEF Verify, LinearInv
  <2>4. ASSUME verdict' = "linear", NothingIsMissed' PROVE RunsInPlace'
    <3>1. Accepted(Merges(visited)) /\ ~missed'
      BY <2>2, <2>4 DEF NothingIsMissed
    <3>2. AcceptedWith(visited)
      BY <2>2, <3>1 DEF AcceptedWith
    <3>3. /\ ~stale /\ RunsInFunction /\ ObjectsAreThere /\ NeededIsThere
          /\ ObjectsAreParts(visited)
      BY <1>1, <2>2, <2>3, RunStarts
    <3>4. (AcceptedWith(visited) /\ ObjectsAreParts(visited))'
      BY <2>3, <3>2, <3>3, SameVisit, SameVerdict
    <3>5. (~stale /\ RunsInFunction /\ ObjectsAreThere /\ NeededIsThere)'
      BY <2>3, <3>3, SameVisit
    <3> QED BY <3>4, <3>5 DEF RunsInPlace
  <2> QED BY <1>1, <2>3, <2>4 DEF LinearInv
<1>4. CASE RunAccepted
  <2>1. /\ verdict = "linear" /\ f' = f /\ liveVars' = liveVars /\ verdict' = verdict /\ missed' = missed
        /\ LivenessDone
    BY <1>4 DEF RunAccepted, Run, LinearInv, LivenessInv
  <2>2. ASSUME NothingIsMissed' PROVE RunsInPlace'
    <3>1. NothingIsMissed /\ RunsInPlace
      BY <2>1, <2>2, SameVerdict DEF LinearInv
    <3>2. CASE Execute
      <4>1. /\ Here = f.code[at[1]][at[2]] /\ at[1] \in f.blocks /\ at[2] \in 1 .. Len(f.code[at[1]])
        BY <3>1 DEF RunsInPlace, RunsInFunction, Here
      <4>2. \/ Here.op \in {"alloc", "copy"}
            \/ Here.op = "update" /\ Here.obj \in Here.uses
            \/ Here.op \in {"read", "end", "unreachable"} /\ Here.def = Absent
        BY <1>1, <4>1, InSSA
      <4> QED BY <1>1, <2>1, <3>1, <3>2, <4>2, MakingRunsInPlace, UpdatingRunsInPlace, ReadingRunsInPlace
    <3>3. CASE \E s \in f.blocks : Branch(s)
      BY <1>1, <2>1, <3>1, <3>3, BranchingRunsInPlace
    <3> QED BY <1>4, <3>2, <3>3 DEF RunAccepted, Run
  <2> QED BY <1>1, <2>1, <2>2 DEF LinearInv
<1>5. CASE UNCHANGED vars
  <2>1. /\ f' = f /\ liveVars' = liveVars /\ execVars' = execVars /\ verdict' = verdict /\ missed' = missed
    BY <1>5 DEF vars
  <2>2. ASSUME verdict' = "linear", NothingIsMissed' PROVE RunsInPlace'
    <3>1. NothingIsMissed /\ RunsInPlace
      BY <2>1, <2>2, SameVerdict DEF LinearInv
    <3>2. PICK visited : AcceptedWith(visited) /\ ObjectsAreParts(visited)
      BY <3>1 DEF RunsInPlace
    <3>3. AcceptedWith(visited)'
      BY <2>1, <3>2, SameVerdict
    <3>4. ObjectsAreParts(visited)' /\ (~stale /\ RunsInFunction /\ ObjectsAreThere /\ NeededIsThere)'
      BY <2>1, <3>1, <3>2, SameVisit DEF RunsInPlace
    <3> QED BY <3>3, <3>4 DEF RunsInPlace
  <2>3. verdict' = "pending" => RunInit' /\ ~missed'
    <3> SUFFICES ASSUME verdict = "pending" PROVE RunInit' /\ ~missed'
      BY <2>1
    <3> QED BY <2>1 DEF LinearInv, RunInit, execVars, Args
  <2> QED BY <1>1, <2>1, <2>2, <2>3 DEF LinearInv
<1> QED BY <1>2, <1>3, <1>4, <1>5 DEF Next, Done

(* In a function that verify_linearity accepts, updates in place are not   *)
(* noticed, whatever path it takes and however long it runs: when the walk *)
(* over the union-find missed no PHI, no PHI is carried round a loop by    *)
(* one erased after it, and every version that is made has a use.          *)
THEOREM UpdatesInPlaceAreSafe == Spec => []InPlaceIsSafe
<1>1. LinearInv => InPlaceIsSafe
  BY DEF LinearInv, InPlaceIsSafe, NothingIsMissed, RunsInPlace
<1> QED BY LinearInvInit, LinearInvStep, <1>1, PTL DEF Spec

-----------------------------------------------------------------------------
(* Dead code elimination                                                   *)

(* What is left has its operands still, and they are left, too.            *)
KeptWithOperands ==
  /\ insts \in Functions
  /\ DOMAIN operands = DOMAIN insts
  /\ \A i \in DOMAIN insts : insts[i].effect \/ insts[i].liveOut => i \in alive
  /\ alive \subseteq DOMAIN insts
  /\ \A i \in alive : operands[i] = insts[i].uses /\ insts[i].uses \subseteq alive

-----------------------------------------------------------------------------
(* An instruction goes only when no instruction that is left uses it.      *)
LEMMA StepKeepsOperands == KeptWithOperands /\ [DCNext]_dceVars => KeptWithOperands'
<1> SUFFICES ASSUME KeptWithOperands, [DCNext]_dceVars PROVE KeptWithOperands'
  OBVIOUS
<1>1. CASE UNCHANGED dceVars
  BY <1>1 DEF KeptWithOperands, dceVars
<1>2. CASE VisitLine
  <2>1. insts' = insts /\ line \in DOMAIN insts
    BY <1>2 DEF VisitLine
  <2>2. CASE TriviallyDead(line, operands)
    <3>1. operands' = [operands EXCEPT ![line] = {}] /\ alive' = alive \ {line}
      BY <1>2, <2>2 DEF VisitLine, Eliminated
    <3>2. \A i \in alive : line \notin operands[i]
      BY <2>2 DEF TriviallyDead, Users
    <3>3. ~insts[line].effect /\ ~insts[line].liveOut
      BY <2>2 DEF TriviallyDead
    <3> QED BY <2>1, <3>1, <3>2, <3>3 DEF KeptWithOperands
  <2>3. CASE ~TriviallyDead(line, operands)
    BY <1>2, <2>1, <2>3 DEF VisitLine, Eliminated, KeptWithOperands
  <2> QED BY <2>2, <2>3
<1> QED BY <1>1, <1>2 DEF DCNext

(* What is demanded is demanded by a chain of operands from an effect or a *)
(* live-out; the instructions that are left hold every link of it.         *)
LEMMA DemandedWithin ==
  ASSUME FunctionsAreWhole, KeptWithOperands
  PROVE  Demanded \subseteq alive
<1> DEFINE D    == DOMAIN insts
           N    == Len(insts)
           base == {i \in D : insts[i].effect \/ insts[i].liveOut}
           grow == [X \in SUBSET D |-> X \cup UNION {insts[i].uses : i \in X}]
           Back(g) == g = [n \in 0 .. N |->
                             IF n = 0 THEN base
                             ELSE LET near == g[n - 1] IN near \cup UNION {insts[i].uses : i \in near}]
           back == CHOOSE g : Back(g)
<1>1. insts \in Seq(Instruction) /\ N \in Nat /\ \A i \in D : insts[i].uses \subseteq D
  BY DEF FunctionsAreWhole, KeptWithOperands
<1>2. base \in SUBSET D /\ \A X \in SUBSET D : grow[X] \in SUBSET D
  BY <1>1
<1>3. \E g : Back(g)
  <2> DEFINE step == [n \in 1 .. N |-> grow]
  <2>1. \A n \in 1 .. N : \A X \in SUBSET D : step[n][X] \in SUBSET D
    BY <1>2
  <2> HIDE DEF step
  <2>2. StepsStayIn(SUBSET D, N, base, step)
    BY <1>1, <1>2, <2>1 DEF StepsStayIn
  <2>3. PICK g \in [0 .. N -> SUBSET D] : TakesSteps(g, N, base, step)
    <3> HIDE DEF D, N, base
    <3> QED BY <2>2, RecursionExists
  <2>4. ASSUME NEW n \in 1 .. N
        PROVE  step[n][g[n - 1]] = g[n - 1] \cup UNION {insts[i].uses : i \in g[n - 1]}
    <3>1. n - 1 \in 0 .. N
      BY <1>1
    <3>2. g[n - 1] \in SUBSET D
      BY <3>1
    <3> QED BY <3>2 DEF step
  <2>5. \A n \in 0 .. N : n # 0 => n \in 1 .. N
    BY <1>1
  <2>6. Back(g)
    BY <2>3, <2>4, <2>5 DEF TakesSteps
  <2> QED BY <2>6
<1>4. Back(back)
  BY <1>3
<1>5. Demanded = back[N]
  BY DEF Demanded
<1> HIDE DEF back
<1>6. back[0] = base
  BY <1>1, <1>4
<1> DEFINE S == {n \in Nat : n <= N => back[n] \subseteq alive}
<1>7. 0 \in S
  BY <1>6 DEF KeptWithOperands
<1>8. ASSUME NEW n \in Nat, n \in S PROVE n + 1 \in S
  <2> SUFFICES ASSUME n + 1 <= N PROVE back[n + 1] \subseteq alive
    OBVIOUS
  <2>1. n + 1 \in 0 .. N /\ n + 1 # 0 /\ n + 1 - 1 = n /\ n <= N
    BY <1>1
  <2>2. back[n + 1] = back[n] \cup UNION {insts[i].uses : i \in back[n]}
    BY <1>4, <2>1
  <2>3. back[n] \subseteq alive
    BY <1>8, <2>1
  <2> QED BY <2>2, <2>3 DEF KeptWithOperands
<1> HIDE DEF S
<1>9. N \in S
  BY <1>1, <1>7, <1>8, SetInduction
<1> QED BY <1>1, <1>5, <1>9 DEF S

(* eliminate_dead_code deletes nothing that an effect or a caller needs,   *)
(* directly or not, and takes no operand from it.                          *)
THEOREM NothingDemandedIsDeleted ==
  ASSUME FunctionsAreWhole
  PROVE  DCSpec => []DemandedIsKept
<1>1. DCInit => KeptWithOperands
  BY DEF DCInit, KeptWithOperands, FunctionsAreWhole
<1>2. KeptWithOperands => DemandedIsKept
  BY DemandedWithin DEF DemandedIsKept, KeptWithOperands
<1> QED BY <1>1, <1>2, StepKeepsOperands, PTL DEF DCSpec

-----------------------------------------------------------------------------
(* Coercion                                                                *)

(* What an access reaches is defined from its object downwards: the type   *)
(* above, once more below.                                                 *)
LEMMA AccessedIsBelow ==
  ASSUME NEW a, Len(a.index) \in Nat
  PROVE  /\ Accessed(a, 1) = a.obj
         /\ \A k \in 1 .. Len(a.index) : Accessed(a, k + 1) = Below(a, Accessed(a, k), k)
<1> DEFINE N == Len(a.index)
           Down(g, m) == g = [n \in 1 .. m |-> IF n = 1 THEN a.obj ELSE Below(a, g[n - 1], n - 1)]
           S == {m \in Nat : \E g : Down(g, m + 1)}
<1>1. 0 \in S
  <2> DEFINE g == [n \in 1 .. 1 |-> a.obj]
  <2>1. Down(g, 0 + 1)
    OBVIOUS
  <2> QED BY <2>1
<1>2. ASSUME NEW m \in Nat, m \in S PROVE m + 1 \in S
  <2>1. PICK h : Down(h, m + 1)
    BY <1>2
  <2> DEFINE g == [n \in 1 .. m + 2 |-> IF n \in 1 .. m + 1 THEN h[n] ELSE Below(a, h[m + 1], m + 1)]
  <2>2. ASSUME NEW n \in 1 .. m + 2
        PROVE  g[n] = IF n = 1 THEN a.obj ELSE Below(a, g[n - 1], n - 1)
    <3>1. CASE n = 1
      BY <2>1, <3>1
    <3>2. CASE n \in 2 .. m + 1
      <4>1. n \in 1 .. m + 1 /\ n - 1 \in 1 .. m + 1 /\ n - 1 \in 1 .. m + 2 /\ n # 1
        BY <3>2
      <4>2. g[n] = h[n] /\ g[n - 1] = h[n - 1]
        BY <4>1
      <4>3. h[n] = Below(a, h[n - 1], n - 1)
        BY <2>1, <4>1
      <4> QED BY <4>1, <4>2, <4>3
    <3>3. CASE n = m + 2
      <4>1. n \notin 1 .. m + 1 /\ n - 1 = m + 1 /\ m + 1 \in 1 .. m + 1 /\ m + 1 \in 1 .. m + 2 /\ n # 1
        BY <3>3
      <4>2. g[n] = Below(a, h[m + 1], m + 1) /\ g[n - 1] = h[m + 1]
        BY <3>3, <4>1
      <4> QED BY <4>1, <4>2
    <3> QED BY <3>1, <3>2, <3>3
  <2>3. m + 1 + 1 = m + 2 /\ DOMAIN g = 1 .. m + 2 /\ g = [n \in 1 .. m + 2 |-> g[n]]
    OBVIOUS
  <2> HIDE DEF g
  <2>4. Down(g, m + 1 + 1)
    BY <2>2, <2>3
  <2> QED BY <2>4
<1> HIDE DEF S
<1>3. N \in S
  BY <1>1, <1>2, SetInduction
<1> DEFINE down == CHOOSE g : Down(g, N + 1)
<1>4. Down(down, N + 1)
  BY <1>3 DEF S
<1>5. \A k : Accessed(a, k) = down[k]
  BY DEF Accessed
<1> HIDE DEF down
<1>6. down[1] = a.obj
  BY <1>4
<1>7. ASSUME NEW k \in 1 .. N PROVE down[k + 1] = Below(a, down[k], k)
  <2>1. k + 1 \in 1 .. N + 1 /\ k + 1 # 1 /\ k + 1 - 1 = k
    OBVIOUS
  <2> QED BY <1>4, <2>1
<1> QED BY <1>5, <1>6, <1>7

(* How far the walk has come.                                              *)
Walked == IF position = 0 THEN Len(access.index) + 1 ELSE position

(* Up to the first collection the object is the type that the access       *)
(* reaches there; from then on it is a collection, though not always that  *)
(* one.  What the walk has passed is coerced, unless it is below a         *)
(* collection, and the rest is as it was.                                  *)
WalkIsExact ==
  LET N == Len(access.index) IN
  /\ access \in Accesses
  /\ position \in 0 .. N + 1
  /\ DOMAIN indices = 1 .. N
  /\ BelowCollections(Walked) \/ object = Accessed(access, Walked)
  /\ BelowCollections(Walked) => IsCollection(object)
  /\ \A k \in 1 .. N : IF k < Walked THEN BelowCollections(k) \/ Fits(k) ELSE indices[k] = access.index[k]
  /\ position # 0 => written = access.value
  /\ position = 0 /\ written # <<>> => written = Cast(access.value, ElementType(access))
  /\ ~failed

(* A step down into a field passes a tuple.                                *)
LEMMA WalkEnters ==
  ASSUME AccessesAreTyped, WalkIsExact, EnterField
  PROVE  WalkIsExact'
<1> DEFINE N == Len(access.index)
           k == position
<1>1. /\ access \in Accesses /\ N \in Nat /\ DOMAIN indices = 1 .. N
      /\ k \in 1 .. N /\ object.kind = "tuple" /\ ~IsCollection(object) /\ ~failed
      /\ Walked = k
  BY DEF WalkIsExact, AccessesAreTyped, EnterField, IsCollection, Walked
<1>2. ~BelowCollections(k) /\ object = Accessed(access, k)
  BY <1>1 DEF WalkIsExact
<1>3. access.field[k] \in DOMAIN object.fields
  BY <1>1, <1>2 DEF AccessesAreTyped
<1>4. /\ object' = object.fields[access.field[k]] /\ k' = k + 1
      /\ UNCHANGED <<access, indices, written, failed>>
  BY <1>3 DEF EnterField
<1>5. Accessed(access, k + 1) = object.fields[access.field[k]]
  BY <1>1, <1>2, <1>3, AccessedIsBelow DEF Below
<1>6. Walked' = k + 1 /\ k' # 0 /\ k' \in 0 .. N + 1
  BY <1>1, <1>4 DEF Walked
<1>7. ~BelowCollections(k + 1)
  BY <1>1, <1>2 DEF BelowCollections
<1>8. ASSUME NEW m \in 1 .. N
      PROVE  IF m < k + 1 THEN BelowCollections(m) \/ Fits(m) ELSE indices[m] = access.index[m]
  <2>1. CASE m = k
    BY <1>1, <1>2, <2>1 DEF Fits
  <2>2. CASE m # k
    <3>1. m < k + 1 <=> m < k
      BY <1>1, <2>2
    <3> QED BY <1>1, <3>1 DEF WalkIsExact
  <2> QED BY <2>1, <2>2
<1>9. \A m : (BelowCollections(m) <=> BelowCollections(m)') /\ (Fits(m) <=> Fits(m)')
  BY <1>4 DEF BelowCollections, Fits
<1>10. (\A m : Accessed(access, m) = Accessed(access, m)')
  BY <1>4
<1> QED BY <1>1, <1>4, <1>5, <1>6, <1>7, <1>8, <1>9, <1>10 DEF WalkIsExact

(* An index into a collection is cast as the first collection wants it.    *)
LEMMA WalkCoerces ==
  ASSUME AccessesAreTyped, WalkIsExact, CoerceIndex
  PROVE  WalkIsExact'
<1> DEFINE N == Len(access.index)
           k == position
<1>1. /\ access \in Accesses /\ N \in Nat /\ DOMAIN indices = 1 .. N
      /\ k \in 1 .. N /\ IsCollection(object) /\ ~failed
      /\ Walked = k
  BY DEF WalkIsExact, AccessesAreTyped, CoerceIndex, Walked
<1>2. /\ indices' = [indices EXCEPT ![k] = Cast(indices[k], KeyType(object))] /\ k' = k + 1
      /\ UNCHANGED <<access, object, written, failed>>
  BY DEF CoerceIndex
<1>3. DOMAIN indices' = 1 .. N /\ \A m \in 1 .. N \ {k} : indices'[m] = indices[m]
  BY <1>1, <1>2
<1>4. indices'[k] = Cast(access.index[k], KeyType(object))
  BY <1>1, <1>2 DEF WalkIsExact
<1>5. Walked' = k + 1 /\ k' # 0 /\ k' \in 0 .. N + 1
  BY <1>1, <1>2 DEF Walked
<1>6. BelowCollections(k + 1)
  <2>1. CASE BelowCollections(k)
    BY <1>1, <2>1 DEF BelowCollections
  <2>2. CASE ~BelowCollections(k)
    <3>1. IsCollection(Accessed(access, k)) /\ k \in 1 .. k + 1 - 1
      BY <1>1, <2>2 DEF WalkIsExact
    <3> QED BY <3>1 DEF BelowCollections
  <2> QED BY <2>1, <2>2
<1>7. \A m : BelowCollections(m) <=> BelowCollections(m)'
  BY <1>2 DEF BelowCollections
<1>8. ASSUME NEW m \in 1 .. N
      PROVE  IF m < k + 1 THEN BelowCollections(m) \/ Fits(m)' ELSE indices'[m] = access.index[m]
  <2>1. CASE m = k
    <3>1. BelowCollections(k) \/ object = Accessed(access, m)
      BY <1>1, <2>1 DEF WalkIsExact
    <3>2. BelowCollections(m) \/ Fits(m)'
      BY <1>2, <1>4, <2>1, <3>1 DEF Fits
    <3> QED BY <1>1, <2>1, <3>2
  <2>2. CASE m # k
    <3>1. m < k + 1 <=> m < k
      BY <1>1, <2>2
    <3>2. indices'[m] = indices[m]
      BY <1>3, <2>2
    <3>3. Fits(m) <=> Fits(m)'
      BY <1>2, <3>2 DEF Fits
    <3> QED BY <1>1, <3>1, <3>2, <3>3 DEF WalkIsExact
  <2> QED BY <2>1, <2>2
<1> QED BY <1>1, <1>2, <1>3, <1>5, <1>6, <1>7, <1>8 DEF WalkIsExact

(* The value comes last.                                                   *)
LEMMA WalkEnds ==
  ASSUME AccessesAreTyped, WalkIsExact, CoerceValue
  PROVE  WalkIsExact'
<1> DEFINE N == Len(access.index)
<1>1. /\ access \in Accesses /\ N \in Nat /\ position = N + 1 /\ position # 0
      /\ Walked = position /\ Walked' = position /\ position' = 0 /\ position' \in 0 .. N + 1
      /\ UNCHANGED <<access, indices, object, failed>>
  BY DEF WalkIsExact, AccessesAreTyped, CoerceValue, Walked
<1>2. \A m : (BelowCollections(m) <=> BelowCollections(m)') /\ (Fits(m) <=> Fits(m)')
  BY <1>1 DEF BelowCollections, Fits
<1>3. written' # <<>> => written' = Cast(access.value, ElementType(access))
  BY <1>1 DEF CoerceValue, WalkIsExact
<1> QED BY <1>1, <1>2, <1>3 DEF WalkIsExact

(* An object that an index finds is never of an unknown type.              *)
LEMMA WalkKnowsItsObject ==
  ASSUME AccessesAreTyped, WalkIsExact
  PROVE  ~UnknownObject
<1> SUFFICES ASSUME UnknownObject PROVE FALSE
  OBVIOUS
<1>1. /\ access \in Accesses /\ position \in 1 .. Len(access.index) /\ object.kind = "plain"
      /\ ~IsCollection(object) /\ Walked = position
  BY DEF WalkIsExact, AccessesAreTyped, UnknownObject, IsCollection, Walked
<1>2. object = Accessed(access, position)
  BY <1>1 DEF WalkIsExact
<1> QED BY <1>1, <1>2 DEF AccessesAreTyped

(* For every access whose indices find something to index, whatever its    *)
(* types and however deep it goes, CoercePass gives the indices down to    *)
(* the first collection, and the value written, the types that the         *)
(* collection has for them, as far as there is a cast, and does not fail.  *)
THEOREM OuterIndicesFitTheirTypes ==
  ASSUME AccessesAreTyped
  PROVE  CoSpec => []OuterIndicesAreCoerced
<1>1. CoInit => WalkIsExact
  <2> SUFFICES ASSUME CoInit PROVE WalkIsExact
    OBVIOUS
  <2>1. Len(access.index) \in Nat /\ DOMAIN access.index = 1 .. Len(access.index) /\ Walked = 1
    BY DEF CoInit, AccessesAreTyped, Walked
  <2>2. ~BelowCollections(1) /\ object = Accessed(access, 1)
    BY <2>1, AccessedIsBelow DEF BelowCollections, CoInit
  <2> QED BY <2>1, <2>2 DEF CoInit, WalkIsExact
<1>2. WalkIsExact /\ [CoNext]_coerceVars => WalkIsExact'
  <2> SUFFICES ASSUME WalkIsExact, [CoNext]_coerceVars PROVE WalkIsExact'
    OBVIOUS
  <2>1. CASE UNCHANGED coerceVars
    BY <2>1 DEF WalkIsExact, Walked, BelowCollections, Fits, coerceVars
  <2> QED BY <2>1, WalkCoerces, WalkEnters, WalkKnowsItsObject, WalkEnds DEF CoNext
<1>3. WalkIsExact => OuterIndicesAreCoerced
  <2> SUFFICES ASSUME WalkIsExact PROVE OuterIndicesAreCoerced
    OBVIOUS
  <2>1. ASSUME position = 0, NEW k \in DOMAIN indices PROVE BelowCollections(k) \/ Fits(k)
    <3>1. access \in Accesses /\ Len(access.index) \in Nat /\ k \in 1 .. Len(access.index)
      BY DEF WalkIsExact, AccessesAreTyped
    <3>2. k < Walked
      BY <2>1, <3>1 DEF Walked
    <3> QED BY <3>1, <3>2 DEF WalkIsExact
  <2> QED BY <2>1 DEF WalkIsExact, OuterIndicesAreCoerced
<1> QED BY <1>1, <1>2, <1>3, PTL DEF CoSpec

-----------------------------------------------------------------------------
(* Type inference: what comes to arguments                                 *)

(* A program is whole, and has finitely many slots.                        *)
LEMMA SlotsAreFinite ==
  ASSUME program \in Modules
  PROVE  /\ IsWhole(program)
         /\ \A s \in Slots : s = <<s[1], s[2]>> /\ s[1] \in DOMAIN program.args /\ s[2] \in 0 .. program.args[s[1]]
         /\ \A F \in DOMAIN program.args : \A k \in 0 .. program.args[F] : <<F, k>> \in Slots
         /\ IsFiniteSet(Slots) /\ Cardinality(Slots) \in Nat
<1>1. IsWhole(program)
  BY ModulesAreWhole
<1> DEFINE slots == [F \in DOMAIN program.args |-> {<<F, k>> : k \in 0 .. program.args[F]}]
<1>2. \A F \in DOMAIN program.args : program.args[F] \in Nat
  BY <1>1 DEF IsWhole
<1>3. ASSUME NEW F \in DOMAIN program.args PROVE IsFiniteSet(slots[F])
  <2> DEFINE pairs == [k \in 0 .. program.args[F] |-> <<F, k>>]
  <2>1. IsFiniteSet(0 .. program.args[F])
    BY <1>2, FS_Interval
  <2>2. IsFiniteSet({pairs[k] : k \in 0 .. program.args[F]})
    <3> HIDE DEF pairs
    <3>1. DOMAIN pairs = 0 .. program.args[F]
      BY DEF pairs
    <3> QED BY <2>1, <3>1, ImageIsFinite
  <2>3. slots[F] = {pairs[k] : k \in 0 .. program.args[F]}
    OBVIOUS
  <2> QED BY <2>2, <2>3
<1>4. IsFiniteSet({slots[F] : F \in DOMAIN program.args})
  <2>1. DOMAIN slots = DOMAIN program.args
    OBVIOUS
  <2> HIDE DEF slots
  <2> QED BY <1>1, <2>1, ImageIsFinite DEF IsWhole
<1>5. Slots = UNION {slots[F] : F \in DOMAIN program.args}
  BY DEF Slots
<1>6. IsFiniteSet(Slots)
  <2> HIDE DEF slots
  <2>1. \A S \in {slots[F] : F \in DOMAIN program.args} : IsFiniteSet(S)
    BY <1>3
  <2> QED BY <1>4, <1>5, <2>1, FS_UNION
<1>7. ASSUME NEW s \in Slots
      PROVE  s = <<s[1], s[2]>> /\ s[1] \in DOMAIN program.args /\ s[2] \in 0 .. program.args[s[1]]
  <2>1. PICK F \in DOMAIN program.args : s \in {<<F, k>> : k \in 0 .. program.args[F]}
    BY DEF Slots
  <2>2. PICK k \in 0 .. program.args[F] : s = <<F, k>>
    BY <2>1
  <2> QED BY <2>2
<1>8. \A F \in DOMAIN program.args : \A k \in 0 .. program.args[F] : <<F, k>> \in Slots
  BY DEF Slots
<1> QED BY <1>1, <1>6, <1>7, <1>8, FS_CardinalityType

(* What is passed to an argument are operands of the program.              *)
LEMMA PassedAreOperands ==
  ASSUME program \in Modules, NEW s \in Slots, s[2] # 0, NEW o \in Passed(s)
  PROVE  IsOperand(program, o)
<1>1. /\ IsWhole(program) /\ s[1] \in DOMAIN program.args /\ s[2] \in 1 .. program.args[s[1]]
  <2>1. IsWhole(program) /\ s[1] \in DOMAIN program.args /\ s[2] \in 0 .. program.args[s[1]]
    BY SlotsAreFinite
  <2>2. program.args[s[1]] \in Nat
    BY <2>1 DEF IsWhole
  <2> QED BY <2>1, <2>2
<1>2. CASE program.fold[s[1]] # <<>>
  <2>1. o = program.fold[s[1]][s[2]]
    BY <1>2 DEF Passed
  <2>2. \A n \in 1 .. program.args[s[1]] : IsOperand(program, program.fold[s[1]][n])
    BY <1>1, <1>2 DEF IsWhole
  <2> QED BY <1>1, <2>1, <2>2
<1>3. CASE program.fold[s[1]] = <<>>
  <2>1. PICK k \in DOMAIN program.calls[s[1]] : o = program.calls[s[1]][k].of[s[2]]
    BY <1>3 DEF Passed
  <2> QED BY <1>1, <2>1 DEF IsWhole
<1> QED BY <1>2, <1>3

(* An operand that is an argument is a slot.                               *)
LEMMA ArgumentsAreSlots ==
  ASSUME program \in Modules, NEW o, IsOperand(program, o), o[1] = "arg"
  PROVE  <<o[2], o[3]>> \in Slots /\ o[3] # 0 /\ o[2] \in DOMAIN program.args
<1>1. o[2] \in DOMAIN program.args /\ o[3] \in 1 .. program.args[o[2]]
  BY DEF IsOperand
<1>2. program.args[o[2]] \in Nat
  BY <1>1, SlotsAreFinite DEF IsWhole
<1> QED BY <1>1, <1>2, SlotsAreFinite

(* The functions that TypesWithin picks.                                   *)
IsFar(far, N) ==
  far = [i \in 0 .. N |-> IF i = 0 THEN [s \in Slots |-> OwnTypes(s)] ELSE OneFurther(far[i - 1])]

FarSteps(far, N) ==
  /\ \A s \in Slots : far[0][s] = OwnTypes(s)
  /\ \A n \in Nat : n + 1 <= N => far[n + 1] = OneFurther(far[n])

LEMMA FarStep ==
  ASSUME NEW N \in Nat, NEW far, IsFar(far, N)
  PROVE  FarSteps(far, N)
<1>1. far[0] = [s \in Slots |-> OwnTypes(s)]
  BY DEF IsFar
<1>2. ASSUME NEW n \in Nat, n + 1 <= N PROVE far[n + 1] = OneFurther(far[n])
  <2> DEFINE m == n + 1
  <2>1. m \in 0 .. N /\ m # 0 /\ m - 1 = n
    BY <1>2
  <2> HIDE DEF m
  <2>2. far[m] = OneFurther(far[m - 1])
    BY <2>1 DEF IsFar
  <2> QED BY <2>1, <2>2 DEF m
<1>3. \A s \in Slots : far[0][s] = OwnTypes(s)
  BY <1>1
<1> QED BY <1>2, <1>3 DEF FarSteps

(* The types of the program.                                               *)
Kinds ==
  (UNION {OwnTypes(s) : s \in Slots})
    \cup UNION {{o[2] : o \in Passed(s)} : s \in {x \in Slots : x[2] # 0}}

LEMMA FarExists ==
  ASSUME program \in Modules, NEW N \in Nat
  PROVE  \E far : IsFar(far, N)
<1> DEFINE A == [Slots -> SUBSET Kinds]
           base == [s \in Slots |-> OwnTypes(s)]
           once == [near \in A |-> OneFurther(near)]
           step == [n \in 1 .. N |-> once]
<1>1. base \in A
  BY DEF Kinds
<1>2. ASSUME NEW near \in A PROVE OneFurther(near) \in A
  <2>1. ASSUME NEW s \in Slots, s[2] # 0, NEW o \in Passed(s) PROVE Brings(near, o) \subseteq Kinds
    <3>1. IsOperand(program, o)
      BY <2>1, PassedAreOperands
    <3>2. CASE o[1] = "type"
      <4>1. s \in {x \in Slots : x[2] # 0} /\ o[2] \in {q[2] : q \in Passed(s)}
        BY <2>1
      <4>2. o[2] \in Kinds
        BY <4>1 DEF Kinds
      <4> QED BY <3>2, <4>2 DEF Brings
    <3>3. CASE o[1] = "arg"
      BY <3>1, <3>3, ArgumentsAreSlots DEF Brings
    <3> QED BY <3>2, <3>3 DEF Brings
  <2>2. ASSUME NEW s \in Slots
        PROVE  (IF OwnTypes(s) # {} \/ s[2] = 0 THEN OwnTypes(s)
                ELSE UNION {Brings(near, o) : o \in Passed(s)}) \in SUBSET Kinds
    <3>1. CASE OwnTypes(s) # {} \/ s[2] = 0
      BY <3>1 DEF Kinds
    <3>2. CASE ~(OwnTypes(s) # {} \/ s[2] = 0)
      BY <2>1, <3>2
    <3> QED BY <3>1, <3>2
  <2> QED BY <2>2 DEF OneFurther
<1>3. StepsStayIn(A, N, base, step)
  <2>1. \A n \in 1 .. N : \A x \in A : step[n][x] \in A
    BY <1>2
  <2> HIDE DEF A, base, step
  <2> QED BY <1>1, <2>1 DEF StepsStayIn
<1> HIDE DEF A, base, step
<1>4. PICK far \in [0 .. N -> A] : TakesSteps(far, N, base, step)
  BY <1>3, RecursionExists
<1>5. ASSUME NEW i \in 0 .. N
      PROVE  far[i] = IF i = 0 THEN base ELSE OneFurther(far[i - 1])
  <2>1. CASE i = 0
    BY <1>4, <2>1 DEF TakesSteps
  <2>2. CASE i # 0
    <3>1. i \in 1 .. N /\ i - 1 \in 0 .. N
      BY <2>2
    <3>2. far[i] = step[i][far[i - 1]] /\ far[i - 1] \in A
      BY <1>4, <3>1 DEF TakesSteps
    <3> QED BY <2>2, <3>1, <3>2 DEF step
  <2> QED BY <2>1, <2>2
<1>6. far = [i \in 0 .. N |-> IF i = 0 THEN base ELSE OneFurther(far[i - 1])]
  BY <1>4, <1>5
<1> QED BY <1>6 DEF IsFar, base

LEMMA TypesWithinIsFar ==
  ASSUME program \in Modules, NEW N \in Nat
  PROVE  \E far : IsFar(far, N) /\ TypesWithin(N) = far[N]
<1> DEFINE far == CHOOSE g : IsFar(g, N)
<1>1. IsFar(far, N)
  BY FarExists
<1>2. TypesWithin(N) = far[N]
  BY DEF TypesWithin, IsFar
<1> QED BY <1>1, <1>2

(* Two of them agree.                                                      *)
LEMMA FarAgree ==
  ASSUME NEW N \in Nat, NEW M \in Nat, N <= M, NEW near, IsFar(near, N), NEW far, IsFar(far, M)
  PROVE  far[N] = near[N]
<1> DEFINE S == {n \in Nat : n <= N => far[n] = near[n]}
<1>1. far[0] = near[0]
  BY DEF IsFar
<1>2. ASSUME NEW n \in Nat, n \in S PROVE n + 1 \in S
  <2> SUFFICES ASSUME n + 1 <= N PROVE far[n + 1] = near[n + 1]
    OBVIOUS
  <2>1. near[n + 1] = OneFurther(near[n])
    BY FarStep DEF FarSteps
  <2>2. n + 1 <= M
    OBVIOUS
  <2>3. far[n + 1] = OneFurther(far[n])
    BY <2>2, FarStep DEF FarSteps
  <2>4. far[n] = near[n]
    BY <1>2
  <2> QED BY <2>1, <2>3, <2>4
<1>3. 0 \in S
  BY <1>1
<1> HIDE DEF S
<1>4. N \in S
  BY <1>2, <1>3, SetInduction
<1> QED BY <1>4 DEF S

(* What comes one call further.                                            *)
LEMMA TypesComeFurther ==
  ASSUME program \in Modules
  PROVE  /\ \A s \in Slots : TypesWithin(0)[s] = OwnTypes(s)
         /\ \A n \in Nat : TypesWithin(n + 1) = OneFurther(TypesWithin(n))
<1>1. ASSUME NEW s \in Slots PROVE TypesWithin(0)[s] = OwnTypes(s)
  <2>1. PICK far : IsFar(far, 0) /\ TypesWithin(0) = far[0]
    BY TypesWithinIsFar
  <2> QED BY <2>1, FarStep DEF FarSteps
<1>2. ASSUME NEW n \in Nat PROVE TypesWithin(n + 1) = OneFurther(TypesWithin(n))
  <2> DEFINE m == n + 1
  <2>1. m \in Nat /\ n <= m
    OBVIOUS
  <2> HIDE DEF m
  <2>2. PICK near : IsFar(near, n) /\ TypesWithin(n) = near[n]
    BY TypesWithinIsFar
  <2>3. PICK far : IsFar(far, m) /\ TypesWithin(m) = far[m]
    BY <2>1, TypesWithinIsFar
  <2>4. far[n] = near[n]
    BY <2>1, <2>2, <2>3, FarAgree
  <2>5. far[m] = OneFurther(far[n])
    BY <2>1, <2>3, FarStep DEF FarSteps, m
  <2> QED BY <2>2, <2>3, <2>4, <2>5 DEF m
<1> QED BY <1>1, <1>2

(* t comes with o when it has come to the arguments X.                     *)
Carries(o, t, X) == (o[1] = "type" /\ o[2] = t) \/ (o[1] = "arg" /\ <<o[2], o[3]>> \in X)

Arrives(s, t, X) == OwnTypes(s) = {} /\ s[2] # 0 /\ \E o \in Passed(s) : Carries(o, t, X)

LEMMA FarGrows ==
  ASSUME program \in Modules, NEW N \in Nat, NEW far, IsFar(far, N)
  PROVE  \A n \in Nat : n + 1 <= N => \A s \in Slots : far[n][s] \subseteq far[n + 1][s]
<1> DEFINE S == {n \in Nat : n + 1 <= N => \A s \in Slots : far[n][s] \subseteq far[n + 1][s]}
<1>1. FarSteps(far, N)
  BY FarStep
<1>2. 0 \in S
  <2> SUFFICES ASSUME 0 + 1 <= N, NEW s \in Slots PROVE far[0][s] \subseteq far[0 + 1][s]
    OBVIOUS
  <2>1. far[0][s] = OwnTypes(s) /\ far[0 + 1] = OneFurther(far[0])
    BY <1>1 DEF FarSteps
  <2> QED BY <2>1 DEF OneFurther
<1>3. ASSUME NEW n \in Nat, n \in S PROVE n + 1 \in S
  <2> DEFINE m == n + 1
  <2> SUFFICES ASSUME m + 1 <= N, NEW s \in Slots PROVE far[m][s] \subseteq far[m + 1][s]
    OBVIOUS
  <2>1. m \in Nat /\ m <= N
    OBVIOUS
  <2>2. far[m] = OneFurther(far[n])
    BY <1>1, <2>1 DEF FarSteps
  <2>3. \A x \in Slots : far[n][x] \subseteq far[m][x]
    BY <1>3, <2>1
  <2> HIDE DEF m
  <2>4. far[m + 1] = OneFurther(far[m])
    BY <1>1, <2>1 DEF FarSteps
  <2>5. CASE OwnTypes(s) # {} \/ s[2] = 0
    BY <2>2, <2>4, <2>5 DEF OneFurther
  <2>6. CASE ~(OwnTypes(s) # {} \/ s[2] = 0)
    <3>1. \A o \in Passed(s) : Brings(far[n], o) \subseteq Brings(far[m], o)
      <4> SUFFICES ASSUME NEW o \in Passed(s) PROVE Brings(far[n], o) \subseteq Brings(far[m], o)
        OBVIOUS
      <4>1. o[1] = "arg" => <<o[2], o[3]>> \in Slots
        BY <2>6, PassedAreOperands, ArgumentsAreSlots
      <4> QED BY <2>3, <4>1 DEF Brings
    <3>2. /\ far[m][s] = UNION {Brings(far[n], o) : o \in Passed(s)}
          /\ far[m + 1][s] = UNION {Brings(far[m], o) : o \in Passed(s)}
      BY <2>2, <2>4, <2>6 DEF OneFurther
    <3> QED BY <3>1, <3>2
  <2> QED BY <2>5, <2>6
<1> HIDE DEF S
<1>4. Nat \subseteq S
  BY <1>2, <1>3, SetInduction
<1> QED BY <1>4 DEF S

(* AllTypes is closed: what is passed to an argument brings no more.       *)
LEMMA AllTypesAreClosed ==
  ASSUME program \in Modules, NEW s \in Slots, s[2] # 0
  PROVE  /\ OwnTypes(s) # {} => AllTypes[s] = OwnTypes(s)
         /\ OwnTypes(s) = {} => \A o \in Passed(s) : Brings(AllTypes, o) \subseteq AllTypes[s]
<1> DEFINE N == Cardinality(Slots)
<1>1. N \in Nat /\ IsFiniteSet(Slots)
  BY SlotsAreFinite
<1>2. PICK far : IsFar(far, N) /\ AllTypes = far[N]
  BY <1>1, TypesWithinIsFar DEF AllTypes
<1> HIDE DEF N
<1>3. FarSteps(far, N)
  BY <1>1, <1>2, FarStep
<1>4. ASSUME OwnTypes(s) # {} PROVE far[N][s] = OwnTypes(s)
  <2>1. CASE N = 0
    BY <1>3, <2>1 DEF FarSteps
  <2>2. CASE N # 0
    <3> DEFINE m == N - 1
    <3>1. m \in Nat /\ N = m + 1
      BY <1>1, <2>2
    <3> HIDE DEF m
    <3>2. far[N] = OneFurther(far[m])
      BY <1>1, <1>3, <3>1 DEF FarSteps
    <3> QED BY <1>4, <3>2 DEF OneFurther
  <2> QED BY <2>1, <2>2
<1>5. ASSUME NEW t, OwnTypes(s) = {}, NEW o \in Passed(s), t \in Brings(far[N], o)
      PROVE  t \in far[N][s]
  <2> DEFINE base == {x \in Slots : t \in OwnTypes(x)}
             grow == [X \in SUBSET Slots |-> X \cup {x \in Slots : Arrives(x, t, X)}]
             g == [n \in 0 .. N |-> {x \in Slots : t \in far[n][x]}]
  <2>1. base \in SUBSET Slots /\ GrowsWithin(Slots, grow)
    BY DEF GrowsWithin
  <2>2. Grows(g, N, base, grow)
    <3>1. g[0] = base
      BY <1>1, <1>3 DEF FarSteps
    <3>2. ASSUME NEW n \in 1 .. N PROVE g[n] = grow[g[n - 1]]
      <4> DEFINE m == n - 1
      <4>1. m \in Nat /\ m + 1 = n /\ m + 1 <= N /\ n \in 0 .. N /\ m \in 0 .. N
        BY <1>1
      <4>2. far[n] = OneFurther(far[m])
        BY <1>3, <4>1 DEF FarSteps
      <4>3. \A x \in Slots : far[m][x] \subseteq far[n][x]
        BY <1>1, <1>2, <4>1, FarGrows
      <4>4. g[n] = {x \in Slots : t \in far[n][x]} /\ g[m] = {x \in Slots : t \in far[m][x]}
        BY <4>1
      <4> HIDE DEF g, m
      <4>5. g[m] \in SUBSET Slots
        BY <4>4
      <4>6. grow[g[m]] = g[m] \cup {x \in Slots : Arrives(x, t, g[m])}
        BY <4>5
      <4>7. ASSUME NEW x \in Slots PROVE x \in g[n] <=> x \in grow[g[m]]
        <5>1. CASE OwnTypes(x) # {} \/ x[2] = 0
          <6>1. far[n][x] = OwnTypes(x)
            BY <4>2, <5>1 DEF OneFurther
          <6>2. t \in OwnTypes(x) => t \in far[m][x]
            <7>1. CASE m = 0
              BY <1>3, <7>1 DEF FarSteps
            <7>2. CASE m # 0
              <8> DEFINE i == m - 1
              <8>1. i \in Nat /\ m = i + 1 /\ i + 1 <= N
                BY <4>1, <7>2, <1>1
              <8> HIDE DEF i
              <8>2. far[m] = OneFurther(far[i])
                BY <1>3, <8>1 DEF FarSteps
              <8> QED BY <5>1, <8>2 DEF OneFurther
            <7> QED BY <7>1, <7>2
          <6>3. ~Arrives(x, t, g[m])
            BY <5>1 DEF Arrives
          <6> QED BY <4>3, <4>4, <4>6, <6>1, <6>2, <6>3
        <5>2. CASE OwnTypes(x) = {} /\ x[2] # 0
          <6>1. far[n][x] = UNION {Brings(far[m], q) : q \in Passed(x)}
            BY <4>2, <5>2 DEF OneFurther
          <6>2. ASSUME NEW q \in Passed(x) PROVE t \in Brings(far[m], q) <=> Carries(q, t, g[m])
            <7>1. q[1] = "arg" => <<q[2], q[3]>> \in Slots
              BY <5>2, PassedAreOperands, ArgumentsAreSlots
            <7> QED BY <4>4, <7>1 DEF Brings, Carries
          <6>3. t \in far[n][x] <=> Arrives(x, t, g[m])
            BY <5>2, <6>1, <6>2 DEF Arrives
          <6> QED BY <4>3, <4>4, <4>6, <6>3
        <5> QED BY <5>1, <5>2
      <4>8. g[n] \subseteq Slots /\ grow[g[m]] \subseteq Slots
        BY <4>4, <4>6
      <4> HIDE DEF grow
      <4>9. g[n] = grow[g[m]]
        BY <4>7, <4>8
      <4> QED BY <4>9 DEF m
    <3> HIDE DEF g, grow, base
    <3> QED BY <3>1, <3>2 DEF Grows
  <2>3. N \in 0 .. N
    BY <1>1
  <2>4. g[N] = {x \in Slots : t \in far[N][x]}
    BY <2>3
  <2> HIDE DEF g, grow, base
  <2>5. grow[g[N]] = g[N]
    BY <1>1, <2>1, <2>2, IterationsClose DEF N
  <2>6. s \in grow[g[N]]
    <3>1. g[N] \in SUBSET Slots
      BY <2>4
    <3>2. o[1] = "arg" => <<o[2], o[3]>> \in Slots
      BY PassedAreOperands, ArgumentsAreSlots
    <3>3. Carries(o, t, g[N])
      BY <1>5, <2>4, <3>2 DEF Brings, Carries
    <3>4. Arrives(s, t, g[N])
      BY <1>5, <3>3 DEF Arrives
    <3> QED BY <3>1, <3>4 DEF grow
  <2> QED BY <2>4, <2>5, <2>6
<1> QED BY <1>2, <1>4, <1>5

(* Callers of callers are callers.                                         *)
LEMMA CallersAreClosed ==
  ASSUME program \in Modules, NEW F \in DOMAIN program.args
  PROVE  /\ CallersOf(F) \subseteq DOMAIN program.args
         /\ Calling(F) \subseteq CallersOf(F)
         /\ \A G \in CallersOf(F) : Calling(G) \subseteq CallersOf(F)
<1> DEFINE D == DOMAIN program.args
           N == Cardinality(D)
           base == Calling(F)
           grow == [X \in SUBSET D |-> X \cup UNION {Calling(G) : G \in X}]
           IsG(g) == g = [n \in 0 .. N |-> IF n = 0 THEN Calling(F)
                            ELSE LET near == g[n - 1] IN near \cup UNION {Calling(G) : G \in near}]
<1>1. IsFiniteSet(D) /\ N \in Nat
  BY SlotsAreFinite, FS_CardinalityType DEF IsWhole
<1>2. \A G \in D : Calling(G) \subseteq D
  BY SlotsAreFinite DEF IsWhole, Calling
<1>3. base \in SUBSET D /\ GrowsWithin(D, grow)
  BY <1>2 DEF GrowsWithin
<1> HIDE DEF D, N
<1>4. \E h : IsG(h)
  <2>1. PICK h \in [0 .. N -> SUBSET D] : Grows(h, N, base, grow)
    <3> HIDE DEF base, grow
    <3> QED BY <1>1, <1>3, GrowthExists
  <2>2. ASSUME NEW n \in 0 .. N
        PROVE  h[n] = IF n = 0 THEN Calling(F) ELSE h[n - 1] \cup UNION {Calling(G) : G \in h[n - 1]}
    <3>1. CASE n = 0
      BY <2>1, <3>1 DEF Grows
    <3>2. CASE n # 0
      <4>1. n \in 1 .. N /\ n - 1 \in 0 .. N
        BY <1>1, <3>2
      <4>2. h[n] = grow[h[n - 1]] /\ h[n - 1] \in SUBSET D
        BY <2>1, <4>1 DEF Grows
      <4> QED BY <3>2, <4>2
    <3> QED BY <3>1, <3>2
  <2>3. IsG(h)
    BY <2>1, <2>2
  <2> QED BY <2>3
<1> DEFINE g == CHOOSE x : IsG(x)
<1>6. IsG(g)
  BY <1>4
<1>7. CallersOf(F) = g[N]
  BY DEF CallersOf, N, D
<1> HIDE DEF g
<1>8. Grows(g, N, base, grow)
  <2> DEFINE S == {n \in Nat : n <= N => g[n] \in SUBSET D}
  <2>1. g[0] = base
    BY <1>1, <1>6
  <2>2. ASSUME NEW n \in 1 .. N PROVE g[n] = g[n - 1] \cup UNION {Calling(G) : G \in g[n - 1]}
    <3>1. n \in 0 .. N /\ n # 0
      BY <1>1
    <3> QED BY <1>6, <3>1
  <2>3. 0 \in S
    BY <1>3, <2>1
  <2>4. ASSUME NEW n \in Nat, n \in S PROVE n + 1 \in S
    <3> SUFFICES ASSUME n + 1 <= N PROVE g[n + 1] \in SUBSET D
      OBVIOUS
    <3>1. g[n] \in SUBSET D
      BY <2>4, <1>1
    <3>2. n + 1 \in 1 .. N /\ (n + 1) - 1 = n
      BY <1>1
    <3>3. g[n + 1] = g[n] \cup UNION {Calling(G) : G \in g[n]}
      BY <2>2, <3>2
    <3> QED BY <1>2, <3>1, <3>3
  <2> HIDE DEF S
  <2>5. Nat \subseteq S
    BY <2>3, <2>4, SetInduction
  <2>6. ASSUME NEW n \in 1 .. N PROVE g[n] = grow[g[n - 1]]
    <3>1. n - 1 \in Nat /\ n - 1 <= N
      BY <1>1
    <3>2. g[n - 1] \in SUBSET D
      BY <2>5, <3>1 DEF S
    <3> QED BY <2>2, <3>2
  <2> HIDE DEF base, grow
  <2> QED BY <2>1, <2>6 DEF Grows
<1>9. g[N] \in SUBSET D /\ base \subseteq g[N] /\ grow[g[N]] = g[N]
  <2> HIDE DEF base, grow, IsG
  <2>1. grow[g[N]] = g[N]
    BY <1>1, <1>3, <1>8, IterationsClose DEF N
  <2>2. base \subseteq g[N]
    BY <1>1, <1>3, <1>8, IterationsClose DEF N
  <2>3. g[N] \in SUBSET D
    BY <1>1, <1>3, <1>8, IterationsClose DEF N
  <2> QED BY <2>1, <2>2, <2>3
<1>10. \A G \in g[N] : Calling(G) \subseteq g[N]
  <2>1. grow[g[N]] = g[N] \cup UNION {Calling(G) : G \in g[N]}
    BY <1>9
  <2> HIDE DEF grow
  <2> QED BY <1>9, <2>1
<1> QED BY <1>7, <1>9, <1>10 DEF D

-----------------------------------------------------------------------------
(* The invariant of type inference                                         *)

(* An operand for which type_of finds a type.                              *)
HasType(o) == o[1] = "type" \/ (o[1] = "arg" /\ asserted[<<o[2], o[3]>>] # {})

(* What is asserted comes from the callers, one call further in each run;  *)
(* what a body of a fold is asserted to return is the type of what the     *)
(* fold passes first, and so is what its first argument is asserted to be. *)
AssertionsAreJustified ==
  /\ program \in Modules /\ runs \in Nat /\ DOMAIN asserted = Slots
  /\ \A s \in Slots : OwnTypes(s) \subseteq asserted[s]
  /\ AssertionsAgree
  /\ \A n \in Nat : n = runs =>
       \A s \in Slots : s[2] # 0 /\ TypesWithin(n)[s] # {} => asserted[s] # {}
  /\ \A F \in DOMAIN program.args :
       program.fold[F] # <<>> /\ OwnTypes(<<F, 0>>) = {} /\ asserted[<<F, 0>>] # {} =>
         /\ asserted[<<F, 0>>] \subseteq Brings(AllTypes, program.fold[F][1])
         /\ asserted[<<F, 1>>] # {}

(* Why t may be inferred for s: an argument stays untyped if nothing that  *)
(* is passed to it has a type.                                             *)
ReturnIsJustified(F, t) ==
  program.fold[F] # <<>> /\ OwnTypes(<<F, 0>>) = {} /\ t # Untyped =>
    /\ t[2] \in Brings(AllTypes, program.fold[F][1])
    /\ asserted[<<F, 0>>] # {} \/ HasType(program.fold[F][1])

ArgumentIsJustified(s, t) ==
  IF t = Untyped THEN asserted[s] = {} /\ \A o \in Passed(s) : ~HasType(o)
  ELSE t[2] \in AllTypes[s]

IsJustified(s, t) == IF s[2] = 0 THEN ReturnIsJustified(s[1], t) ELSE ArgumentIsJustified(s, t)

InferredAreJustified ==
  DOMAIN inferred \subseteq Slots /\ \A s \in DOMAIN inferred : IsJustified(s, inferred[s])

(* A call of infer has inferred the arguments before the one it is at, and *)
(* the calls before the one it is at pass it nothing typed.                *)
IsAhead(c, known) ==
  /\ c.fun = MainFunction \/ \A k \in 1 .. program.args[c.fun] : k < c.arg => <<c.fun, k>> \in known
  /\ c.use > 0 =>
       /\ c.fun # MainFunction /\ c.arg \in 1 .. program.args[c.fun] /\ program.fold[c.fun] = <<>>
       /\ asserted[<<c.fun, c.arg>>] = {}
       /\ \A k \in DOMAIN program.calls[c.fun] : k < c.use => ~HasType(program.calls[c.fun][k].of[c.arg])

Frames == [fun : DOMAIN program.args, arg : Nat \ {0}, use : Nat, asked : BOOLEAN]

(* What was visited is inferred, but for the function at the bottom.       *)
IsInferred(F, known) == F = MainFunction \/ \A k \in 1 .. program.args[F] : <<F, k>> \in known

CallersAreAbove ==
  \A i, j \in DOMAIN inferring : i < j => inferring[j].fun \in CallersOf(inferring[i].fun)

VisitedAreInferred ==
  \A i \in DOMAIN program.order : i < nextFun =>
    \/ IsInferred(program.order[i], DOMAIN inferred)
    \/ inferring # <<>> /\ inferring[1].fun = program.order[i]

WorkIsAhead ==
  /\ inferring \in Seq(Frames) /\ nextFun \in Nat \ {0}
  /\ \A i \in DOMAIN inferring : IsAhead(inferring[i], DOMAIN inferred)
  /\ CallersAreAbove /\ VisitedAreInferred

InferenceInv ==
  /\ AssertionsAreJustified /\ InferredAreJustified /\ WorkIsAhead
  /\ outcome = "endless" => Len(inferring) = MaxCalls

(* What is said of the program does not change with the pass.              *)
LEMMA SameProgram ==
  ASSUME program' = program
  PROVE  /\ Slots' = Slots /\ AllTypes' = AllTypes /\ Frames' = Frames
         /\ \A n \in Nat : TypesWithin(n)' = TypesWithin(n)
         /\ \A F : CallersOf(F)' = CallersOf(F)
         /\ \A s : OwnTypes(s)' = OwnTypes(s) /\ Passed(s)' = Passed(s)
<1>1. Slots' = Slots /\ \A s : OwnTypes(s)' = OwnTypes(s) /\ Passed(s)' = Passed(s)
  BY DEF Slots, OwnTypes, Passed
<1>2. Frames' = Frames
  BY DEF Frames
<1>3. \A F : CallersOf(F)' = CallersOf(F)
  BY DEF CallersOf, Calling
<1>4. \A n \in Nat : TypesWithin(n)' = TypesWithin(n)
  BY DEF TypesWithin, OneFurther, Slots, OwnTypes, Passed, Brings
<1>5. AllTypes' = AllTypes
  BY DEF AllTypes, TypesWithin, OneFurther, Slots, OwnTypes, Passed, Brings
<1> QED BY <1>1, <1>2, <1>3, <1>4, <1>5

(* type_of finds what an operand brings.                                   *)
LEMMA TypeOfIsBrought ==
  ASSUME AssertionsAreJustified, NEW o, IsOperand(program, o), NEW t \in TypeOf(o)
  PROVE  IF t = Untyped THEN ~HasType(o) ELSE HasType(o) /\ t[2] \in Brings(AllTypes, o)
<1>1. CASE o[1] = "type"
  <2>1. o = <<"type", o[2]>>
    BY <1>1 DEF IsOperand
  <2>2. t = o /\ t # Untyped
    BY <1>1, <2>1 DEF TypeOf, Untyped
  <2> QED BY <1>1, <2>2 DEF HasType, Brings
<1>2. CASE o[1] = "arg"
  <2>1. <<o[2], o[3]>> \in Slots /\ o[3] # 0
    BY <1>2, ArgumentsAreSlots DEF AssertionsAreJustified
  <2>2. CASE asserted[<<o[2], o[3]>>] # {}
    <3>1. PICK x \in asserted[<<o[2], o[3]>>] : t = <<"type", x>>
      BY <1>2, <2>2 DEF TypeOf
    <3>2. x \in AllTypes[<<o[2], o[3]>>]
      BY <2>1, <3>1 DEF AssertionsAreJustified, AssertionsAgree
    <3>3. t # Untyped /\ t[2] = x
      BY <3>1 DEF Untyped
    <3> QED BY <1>2, <2>2, <3>2, <3>3 DEF HasType, Brings
  <2>3. CASE asserted[<<o[2], o[3]>>] = {}
    BY <1>2, <2>3 DEF TypeOf, HasType
  <2> QED BY <2>2, <2>3
<1>3. CASE o[1] # "type" /\ o[1] # "arg"
  BY <1>3 DEF TypeOf, HasType
<1> QED BY <1>1, <1>2, <1>3

-----------------------------------------------------------------------------
(* The parts, step by step                                                 *)

LEMMA AssertionsStay ==
  ASSUME AssertionsAreJustified, UNCHANGED <<program, asserted, runs>>
  PROVE  AssertionsAreJustified'
<1> USE DEF AssertionsAreJustified
<1>1. /\ Slots' = Slots /\ AllTypes' = AllTypes
      /\ \A n \in Nat : TypesWithin(n)' = TypesWithin(n)
      /\ \A s : OwnTypes(s)' = OwnTypes(s)
  BY SameProgram
<1>2. AssertionsAgree'
  BY <1>1 DEF AssertionsAgree
<1>3. (\A n \in Nat : n = runs =>
        \A s \in Slots : s[2] # 0 /\ TypesWithin(n)[s] # {} => asserted[s] # {})'
  BY <1>1
<1>4. (\A F \in DOMAIN program.args :
        program.fold[F] # <<>> /\ OwnTypes(<<F, 0>>) = {} /\ asserted[<<F, 0>>] # {} =>
          /\ asserted[<<F, 0>>] \subseteq Brings(AllTypes, program.fold[F][1])
          /\ asserted[<<F, 1>>] # {})'
  BY <1>1 DEF Brings
<1>5. (\A s \in Slots : OwnTypes(s) \subseteq asserted[s])'
  BY <1>1
<1> QED BY <1>1, <1>2, <1>3, <1>4, <1>5

LEMMA SameJustification ==
  ASSUME UNCHANGED <<program, asserted>>
  PROVE  \A s, t : IsJustified(s, t)' = IsJustified(s, t)
<1>1. AllTypes' = AllTypes /\ \A s : OwnTypes(s)' = OwnTypes(s) /\ Passed(s)' = Passed(s)
  BY SameProgram
<1>2. \A o : HasType(o)' = HasType(o)
  BY DEF HasType
<1>3. \A F, t : ReturnIsJustified(F, t)' = ReturnIsJustified(F, t)
  BY <1>1, <1>2 DEF ReturnIsJustified, Brings
<1>4. \A s, t : ArgumentIsJustified(s, t)' = ArgumentIsJustified(s, t)
  BY <1>1, <1>2 DEF ArgumentIsJustified
<1> QED BY <1>3, <1>4 DEF IsJustified

LEMMA InferredStay ==
  ASSUME InferredAreJustified, UNCHANGED <<program, asserted, inferred>>
  PROVE  InferredAreJustified'
BY SameProgram, SameJustification DEF InferredAreJustified

LEMMA RecordKeepsJustified ==
  ASSUME InferredAreJustified, UNCHANGED <<program, asserted>>,
         NEW s \in Slots, NEW t, Record(s, t), IsJustified(s, t)
  PROVE  InferredAreJustified' /\ DOMAIN inferred' = DOMAIN inferred \cup {s}
<1>1. /\ DOMAIN inferred' = DOMAIN inferred \cup {s}
      /\ \A x \in DOMAIN inferred' : inferred'[x] = IF x = s THEN t ELSE inferred[x]
  BY DEF Record
<1>2. \A x \in DOMAIN inferred' : IsJustified(x, inferred'[x])
  BY <1>1 DEF InferredAreJustified
<1>3. Slots' = Slots
  BY SameProgram
<1>4. DOMAIN inferred' \subseteq Slots'
  BY <1>1, <1>3 DEF InferredAreJustified
<1>5. \A x \in DOMAIN inferred' : IsJustified(x, inferred[x])'
  BY <1>2, SameJustification
<1> QED BY <1>1, <1>4, <1>5 DEF InferredAreJustified

(* At its first argument a call has passed none, and looked at no use.     *)
LEMMA FirstIsAhead ==
  ASSUME NEW c, NEW known, c.arg = 1, c.use = 0
  PROVE  IsAhead(c, known)
<1>1. \A k \in 1 .. program.args[c.fun] : ~ (k < c.arg)
  OBVIOUS
<1>2. ~ (c.use > 0)
  OBVIOUS
<1> QED BY <1>1, <1>2, Zenon DEF IsAhead

(* WorkIsAhead, of the calls and of what is known in the next state.       *)
LEMMA WorkNext ==
  ASSUME UNCHANGED <<program, asserted>>, AssertionsAreJustified,
         inferring' \in Seq(Frames), nextFun' \in Nat \ {0},
         \A i \in DOMAIN inferring' : IsAhead(inferring'[i], DOMAIN inferred'),
         \A i, j \in DOMAIN inferring' : i < j => inferring'[j].fun \in CallersOf(inferring'[i].fun),
         \A i \in DOMAIN program.order : i < nextFun' =>
           \/ IsInferred(program.order[i], DOMAIN inferred')
           \/ inferring' # <<>> /\ inferring'[1].fun = program.order[i]
  PROVE  WorkIsAhead'
<1>1. Frames' = Frames /\ \A F : CallersOf(F)' = CallersOf(F)
  BY SameProgram
<1>2. \A c, known : IsAhead(c, known)' = IsAhead(c, known)
  <2>1. \A o : HasType(o)' = HasType(o)
    BY DEF HasType
  <2> QED BY <2>1 DEF IsAhead
<1>3. \A F, known : IsInferred(F, known)' = IsInferred(F, known)
  BY DEF IsInferred
<1>4. CallersAreAbove'
  BY <1>1 DEF CallersAreAbove
<1>5. VisitedAreInferred'
  BY <1>3 DEF VisitedAreInferred
<1>6. (\A i \in DOMAIN inferring : IsAhead(inferring[i], DOMAIN inferred))'
  BY <1>2
<1> QED BY <1>1, <1>4, <1>5, <1>6 DEF WorkIsAhead

(* With more inferred, calls are still ahead.                              *)
LEMMA MoreIsKnown ==
  ASSUME NEW known, NEW more, known \subseteq more
  PROVE  /\ \A c : IsAhead(c, known) => IsAhead(c, more)
         /\ \A F : IsInferred(F, known) => IsInferred(F, more)
BY DEF IsAhead, IsInferred

(* A call of infer that goes on.                                           *)
LEMMA ContinuingIsAhead ==
  ASSUME UNCHANGED <<program, asserted, nextFun>>, AssertionsAreJustified, WorkIsAhead,
         inferring # <<>>, DOMAIN inferred \subseteq DOMAIN inferred',
         NEW c \in Frames, c.fun = Caller.fun, IsAhead(c, DOMAIN inferred'),
         inferring' = Continued(c)
  PROVE  WorkIsAhead'
<1> USE DEF WorkIsAhead
<1> DEFINE n == Len(inferring)
<1>1. n \in Nat \ {0} /\ inferring \in [1 .. n -> Frames] /\ DOMAIN inferring = 1 .. n
  OBVIOUS
<1>2. inferring' = [inferring EXCEPT ![n] = c] /\ Caller = inferring[n]
  BY DEF Continued, Caller
<1> HIDE DEF n
<1>3. /\ inferring' \in [1 .. n -> Frames] /\ DOMAIN inferring' = 1 .. n
      /\ \A i \in 1 .. n : inferring'[i] = IF i = n THEN c ELSE inferring[i]
  BY <1>1, <1>2
<1>4. inferring' \in Seq(Frames) /\ inferring' # <<>>
  BY <1>1, <1>3
<1>5. \A i \in 1 .. n : inferring'[i].fun = inferring[i].fun
  BY <1>2, <1>3
<1>6. ASSUME NEW i \in DOMAIN inferring' PROVE IsAhead(inferring'[i], DOMAIN inferred')
  BY <1>1, <1>3, MoreIsKnown
<1>7. ASSUME NEW i \in DOMAIN inferring', NEW j \in DOMAIN inferring', i < j
      PROVE  inferring'[j].fun \in CallersOf(inferring'[i].fun)
  BY <1>1, <1>3, <1>5, <1>7 DEF CallersAreAbove
<1>8. ASSUME NEW i \in DOMAIN program.order, i < nextFun'
      PROVE  \/ IsInferred(program.order[i], DOMAIN inferred')
             \/ inferring' # <<>> /\ inferring'[1].fun = program.order[i]
  <2>1. 1 \in 1 .. n
    BY <1>1
  <2> QED BY <1>4, <1>5, <1>8, <2>1, MoreIsKnown DEF VisitedAreInferred
<1> QED BY <1>4, <1>6, <1>7, <1>8, WorkNext

(* The arguments of a caller are inferred first.                           *)
LEMMA CallingIsAhead ==
  ASSUME UNCHANGED <<program, asserted, nextFun, inferred>>, AssertionsAreJustified, WorkIsAhead,
         inferring # <<>>,
         NEW c \in Frames, c.fun = Caller.fun, IsAhead(c, DOMAIN inferred),
         NEW F \in Calling(c.fun), inferring' = Append(Continued(c), Call_(F))
  PROVE  WorkIsAhead'
<1> USE DEF WorkIsAhead
<1> DEFINE n == Len(inferring)
<1>1. n \in Nat \ {0} /\ inferring \in [1 .. n -> Frames] /\ DOMAIN inferring = 1 .. n
  OBVIOUS
<1>2. inferring' = Append([inferring EXCEPT ![n] = c], Call_(F)) /\ Caller = inferring[n]
  BY DEF Continued, Caller
<1> HIDE DEF n
<1>3. /\ program \in Modules /\ c.fun \in DOMAIN program.args
      /\ \A i \in 1 .. n : inferring[i].fun \in DOMAIN program.args
  BY <1>1 DEF AssertionsAreJustified, Frames
<1>4. F \in DOMAIN program.args
  <2>1. PICK k \in DOMAIN program.calls[c.fun] : F = program.calls[c.fun][k].by
    BY DEF Calling
  <2>2. program.calls[c.fun][k].by \in DOMAIN program.args
    BY <1>3, <2>1, SlotsAreFinite DEF IsWhole
  <2> QED BY <2>1, <2>2
<1>5. Call_(F) \in Frames
  BY <1>4 DEF Call_, Frames
<1>6. /\ [inferring EXCEPT ![n] = c] \in Seq(Frames) /\ Len([inferring EXCEPT ![n] = c]) = n
      /\ \A i \in 1 .. n : [inferring EXCEPT ![n] = c][i] = IF i = n THEN c ELSE inferring[i]
  BY <1>1
<1>7. /\ inferring' \in Seq(Frames) /\ DOMAIN inferring' = 1 .. n + 1 /\ inferring' # <<>>
      /\ \A i \in 1 .. n : inferring'[i] = IF i = n THEN c ELSE inferring[i]
      /\ inferring'[n + 1] = Call_(F)
  <2> DEFINE q == [inferring EXCEPT ![n] = c]
  <2>1. q \in Seq(Frames) /\ Len(q) = n /\ inferring' = Append(q, Call_(F))
    BY <1>2, <1>6
  <2>2. \A i \in 1 .. n : q[i] = IF i = n THEN c ELSE inferring[i]
    BY <1>6
  <2> HIDE DEF q
  <2>3. inferring' \in Seq(Frames) /\ Len(inferring') = n + 1 /\ inferring'[n + 1] = Call_(F)
    BY <1>5, <2>1
  <2>4. \A i \in 1 .. n : inferring'[i] = q[i]
    BY <1>5, <2>1
  <2>5. DOMAIN inferring' = 1 .. n + 1 /\ inferring' # <<>>
    BY <1>1, <2>3
  <2> QED BY <2>2, <2>3, <2>4, <2>5
<1>8. \A i \in 1 .. n : inferring'[i].fun = inferring[i].fun
  BY <1>2, <1>7
<1>9. IsAhead(Call_(F), DOMAIN inferred)
  <2>1. Call_(F).fun = F /\ Call_(F).arg = 1 /\ Call_(F).use = 0
    BY DEF Call_
  <2> QED BY <2>1, FirstIsAhead
<1>10. ASSUME NEW i \in DOMAIN inferring' PROVE IsAhead(inferring'[i], DOMAIN inferred')
  <2>1. CASE i = n + 1
    BY <1>7, <1>9, <2>1
  <2>2. CASE i # n + 1
    <3>1. i \in 1 .. n
      BY <1>1, <1>7, <2>2
    <3> QED BY <1>1, <1>7, <3>1
  <2> QED BY <2>1, <2>2
<1>11. ASSUME NEW i \in DOMAIN inferring', NEW j \in DOMAIN inferring', i < j
       PROVE  inferring'[j].fun \in CallersOf(inferring'[i].fun)
  <2>1. i \in 1 .. n /\ (j \in 1 .. n \/ j = n + 1)
    BY <1>1, <1>7, <1>11
  <2>2. CASE j \in 1 .. n
    BY <1>1, <1>8, <1>11, <2>1, <2>2 DEF CallersAreAbove
  <2>3. CASE j = n + 1
    <3>1. inferring'[j].fun = F
      BY <1>7, <2>3 DEF Call_
    <3>2. i = n => F \in CallersOf(inferring'[i].fun)
      BY <1>3, <1>7, <2>1, CallersAreClosed
    <3>3. i < n => F \in CallersOf(inferring'[i].fun)
      <4> SUFFICES ASSUME i < n PROVE F \in CallersOf(inferring'[i].fun)
        OBVIOUS
      <4>1. n \in 1 .. n
        BY <1>1
      <4>2. c.fun \in CallersOf(inferring[i].fun)
        BY <1>1, <1>2, <2>1, <4>1 DEF CallersAreAbove
      <4>3. Calling(c.fun) \subseteq CallersOf(inferring[i].fun)
        BY <1>3, <2>1, <4>2, CallersAreClosed
      <4> QED BY <1>8, <2>1, <4>3
    <3>4. i = n \/ i < n
      BY <1>1, <2>1
    <3> QED BY <3>1, <3>2, <3>3, <3>4
  <2> QED BY <2>1, <2>2, <2>3
<1>12. ASSUME NEW i \in DOMAIN program.order, i < nextFun'
       PROVE  \/ IsInferred(program.order[i], DOMAIN inferred')
              \/ inferring' # <<>> /\ inferring'[1].fun = program.order[i]
  <2>1. 1 \in 1 .. n
    BY <1>1
  <2> QED BY <1>7, <1>8, <1>12, <2>1 DEF VisitedAreInferred
<1> QED BY <1>7, <1>10, <1>11, <1>12, WorkNext

(* A call of infer that returns has inferred all arguments.                *)
LEMMA ReturningIsAhead ==
  ASSUME UNCHANGED <<program, asserted, nextFun>>, AssertionsAreJustified, WorkIsAhead,
         inferring # <<>>, DOMAIN inferred \subseteq DOMAIN inferred',
         Caller.arg > program.args[Caller.fun],
         inferring' = SubSeq(inferring, 1, Len(inferring) - 1)
  PROVE  WorkIsAhead'
<1> USE DEF WorkIsAhead
<1> DEFINE n == Len(inferring)
<1>1. n \in Nat \ {0} /\ inferring \in [1 .. n -> Frames] /\ DOMAIN inferring = 1 .. n
  OBVIOUS
<1>2. inferring' = SubSeq(inferring, 1, n - 1) /\ Caller = inferring[n] /\ inferring \in Seq(Frames)
  BY DEF Caller
<1> HIDE DEF n
<1>3. /\ inferring' \in Seq(Frames) /\ DOMAIN inferring' = 1 .. n - 1 /\ Len(inferring') = n - 1
      /\ \A i \in 1 .. n - 1 : inferring'[i] = inferring[i]
  BY <1>1, <1>2
<1>4. IsInferred(Caller.fun, DOMAIN inferred)
  <2>1. Caller \in Frames /\ IsAhead(Caller, DOMAIN inferred)
    BY <1>1, <1>2
  <2>2. program.args[Caller.fun] \in Nat /\ Caller.arg \in Nat
    BY <2>1, SlotsAreFinite DEF AssertionsAreJustified, IsWhole, Frames
  <2>3. \/ Caller.fun = MainFunction
        \/ \A k \in 1 .. program.args[Caller.fun] : k < Caller.arg => <<Caller.fun, k>> \in DOMAIN inferred
    BY <2>1 DEF IsAhead
  <2>4. \A k \in 1 .. program.args[Caller.fun] : k < Caller.arg
    BY <2>2
  <2> QED BY <2>3, <2>4 DEF IsInferred
<1>5. ASSUME NEW i \in DOMAIN inferring' PROVE IsAhead(inferring'[i], DOMAIN inferred')
  <2>1. i \in DOMAIN inferring /\ inferring'[i] = inferring[i]
    BY <1>1, <1>3
  <2>2. IsAhead(inferring[i], DOMAIN inferred)
    BY <2>1
  <2> QED BY <2>1, <2>2, MoreIsKnown
<1>6. ASSUME NEW i \in DOMAIN inferring', NEW j \in DOMAIN inferring', i < j
      PROVE  inferring'[j].fun \in CallersOf(inferring'[i].fun)
  <2>1. i \in 1 .. n /\ j \in 1 .. n
    BY <1>1, <1>3
  <2> QED BY <1>1, <1>3, <1>6, <2>1 DEF CallersAreAbove
<1>7. ASSUME NEW i \in DOMAIN program.order, i < nextFun'
      PROVE  \/ IsInferred(program.order[i], DOMAIN inferred')
             \/ inferring' # <<>> /\ inferring'[1].fun = program.order[i]
  <2>1. CASE IsInferred(program.order[i], DOMAIN inferred)
    BY <2>1, MoreIsKnown
  <2>2. CASE ~IsInferred(program.order[i], DOMAIN inferred)
    <3>1. inferring[1].fun = program.order[i]
      BY <1>7, <2>2 DEF VisitedAreInferred
    <3>2. n # 1
      BY <1>2, <1>4, <2>2, <3>1
    <3>3. 1 \in 1 .. n - 1
      BY <1>1, <3>2
    <3>4. inferring' # <<>>
      <4>1. Len(inferring') # 0 /\ Len(<<>>) = 0
        BY <1>1, <1>3, <3>2
      <4> QED BY <4>1, Zenon
    <3>5. inferring'[1] = inferring[1]
      BY <1>3, <3>3
    <3> QED BY <3>1, <3>4, <3>5
  <2> QED BY <2>1, <2>2
<1> QED BY <1>3, <1>5, <1>6, <1>7, WorkNext

(* The next function is visited when the one before is inferred.           *)
LEMMA VisitingIsAhead ==
  ASSUME AssertionsAreJustified, WorkIsAhead, InferFunction
  PROVE  WorkIsAhead'
<1> USE DEF WorkIsAhead
<1> DEFINE F == program.order[nextFun]
<1>1. /\ UNCHANGED <<program, asserted, inferred>> /\ inferring = <<>> /\ nextFun' = nextFun + 1
      /\ nextFun <= Len(program.order)
      /\ inferring' = IF F = MainFunction THEN <<>> ELSE <<Call_(F)>>
  BY DEF InferFunction
<1>2. program.order \in Seq(DOMAIN program.args)
  BY SlotsAreFinite DEF AssertionsAreJustified, IsWhole
<1>3. nextFun \in DOMAIN program.order /\ F \in DOMAIN program.args
  BY <1>1, <1>2
<1> HIDE DEF F
<1>4. Call_(F) \in Frames /\ IsAhead(Call_(F), DOMAIN inferred)
  <2>1. Call_(F).arg = 1 /\ Call_(F).use = 0
    BY DEF Call_
  <2>2. Call_(F) \in Frames
    BY <1>3 DEF Call_, Frames
  <2> QED BY <2>1, <2>2, FirstIsAhead
<1>5. nextFun' \in Nat \ {0}
  BY <1>1
<1>6. ASSUME NEW i \in DOMAIN program.order, i < nextFun'
      PROVE  \/ IsInferred(program.order[i], DOMAIN inferred')
             \/ inferring' # <<>> /\ inferring'[1].fun = program.order[i]
  <2>1. CASE i = nextFun
    <3>1. CASE F = MainFunction
      BY <2>1, <3>1 DEF F, IsInferred
    <3>2. CASE F # MainFunction
      <4>1. inferring' = <<Call_(F)>>
        BY <1>1, <3>2
      <4>2. inferring' # <<>> /\ inferring'[1].fun = F
        BY <4>1 DEF Call_
      <4> QED BY <2>1, <4>2 DEF F
    <3> QED BY <3>1, <3>2
  <2>2. CASE i # nextFun
    <3>1. i < nextFun
      BY <1>1, <1>2, <1>6, <2>2
    <3> QED BY <1>1, <3>1 DEF VisitedAreInferred
  <2> QED BY <2>1, <2>2
<1>7. CASE F = MainFunction
  <2>1. inferring' = <<>>
    BY <1>1, <1>7
  <2> QED BY <1>1, <1>5, <1>6, <2>1, WorkNext
<1>8. CASE F # MainFunction
  <2>1. inferring' = <<Call_(F)>>
    BY <1>1, <1>8
  <2>2. inferring' \in Seq(Frames) /\ DOMAIN inferring' = {1} /\ inferring'[1] = Call_(F)
    BY <1>4, <2>1
  <2>3. \A i, j \in DOMAIN inferring' : ~(i < j)
    BY <2>2
  <2> QED BY <1>1, <1>4, <1>5, <1>6, <2>2, <2>3, WorkNext
<1> QED BY <1>7, <1>8

(* When the walk has ended all functions are inferred.                     *)
LEMMA AllAreInferred ==
  ASSUME InferenceInv, inferring = <<>>, nextFun > Len(program.order),
         NEW F \in DOMAIN program.args, F # MainFunction, NEW k \in 1 .. program.args[F]
  PROVE  <<F, k>> \in DOMAIN inferred /\ IsJustified(<<F, k>>, inferred[<<F, k>>])
<1>1. PICK i \in DOMAIN program.order : program.order[i] = F
  BY SlotsAreFinite DEF InferenceInv, AssertionsAreJustified, IsWhole
<1>2. program.order \in Seq(DOMAIN program.args)
  BY SlotsAreFinite DEF InferenceInv, AssertionsAreJustified, IsWhole
<1>3. i < nextFun
  BY <1>1, <1>2 DEF InferenceInv, WorkIsAhead
<1>4. IsInferred(F, DOMAIN inferred)
  BY <1>1, <1>3 DEF InferenceInv, WorkIsAhead, VisitedAreInferred
<1> QED BY <1>4 DEF IsInferred, InferenceInv, InferredAreJustified

(* Nothing is passed to the arguments of main.                             *)
LEMMA NothingIsPassedToMain ==
  ASSUME program \in Modules, NEW s \in Slots, s[2] # 0, NEW o \in Passed(s)
  PROVE  s[1] # MainFunction
<1>1. IsWhole(program) /\ s[1] \in DOMAIN program.args
  BY SlotsAreFinite
<1> SUFFICES ASSUME s[1] = MainFunction PROVE FALSE
  OBVIOUS
<1>2. program.fold[s[1]] = <<>> /\ program.calls[s[1]] = <<>>
  BY <1>1 DEF IsWhole
<1>3. PICK k \in DOMAIN program.calls[s[1]] : o = program.calls[s[1]][k].of[s[2]]
  BY <1>2 DEF Passed
<1> QED BY <1>2, <1>3

LEMMA AnnotatingIsJustified ==
  ASSUME InferenceInv, Annotate
  PROVE  InferenceInv'
<1> USE DEF InferenceInv
<1>1. /\ program' = program /\ program \in Modules /\ runs' = runs + 1 /\ runs \in Nat
      /\ inferring = <<>> /\ inferring' = <<>> /\ nextFun > Len(program.order) /\ nextFun' = 1
      /\ inferred' = <<>> /\ outcome' # "endless"
  BY DEF Annotate, AssertionsAreJustified
<1>2. asserted' = [s \in Slots |-> asserted[s] \cup
                     {inferred[x][2] : x \in {y \in {s} \cap DOMAIN inferred : inferred[y] # Untyped}}]
  BY DEF Annotate
<1>3. /\ DOMAIN asserted' = Slots
      /\ \A s \in Slots : \A t :
           t \in asserted'[s] <=>
             t \in asserted[s] \/ (s \in DOMAIN inferred /\ inferred[s] # Untyped /\ t = inferred[s][2])
  BY <1>2
<1>4. /\ Slots' = Slots /\ AllTypes' = AllTypes /\ Frames' = Frames
      /\ \A n \in Nat : TypesWithin(n)' = TypesWithin(n)
      /\ \A s : OwnTypes(s)' = OwnTypes(s) /\ Passed(s)' = Passed(s)
  BY <1>1, SameProgram
<1>5. ASSUME NEW s \in Slots PROVE asserted[s] \subseteq asserted'[s]
  BY <1>3
<1>6. (\A s \in Slots : OwnTypes(s) \subseteq asserted[s])'
  BY <1>4, <1>5 DEF AssertionsAreJustified
<1>7. AssertionsAgree'
  <2>1. ASSUME NEW s \in Slots, s[2] # 0, NEW t \in asserted'[s] PROVE t \in AllTypes[s]
    <3>1. CASE t \in asserted[s]
      BY <2>1, <3>1 DEF AssertionsAreJustified, AssertionsAgree
    <3>2. CASE t \notin asserted[s]
      <4>1. s \in DOMAIN inferred /\ inferred[s] # Untyped /\ t = inferred[s][2]
        BY <1>3, <2>1, <3>2
      <4> QED BY <2>1, <4>1 DEF InferredAreJustified, IsJustified, ArgumentIsJustified
    <3> QED BY <3>1, <3>2
  <2> QED BY <1>4, <2>1 DEF AssertionsAgree
<1>8. ASSUME NEW s \in Slots, s[2] # 0, NEW o \in Passed(s), HasType(o) PROVE asserted'[s] # {}
  <2>1. /\ s = <<s[1], s[2]>> /\ s[1] \in DOMAIN program.args /\ s[2] \in 0 .. program.args[s[1]]
        /\ program.args[s[1]] \in Nat
    BY <1>1, SlotsAreFinite DEF IsWhole
  <2>2. s[1] # MainFunction
    BY <1>1, <1>8, NothingIsPassedToMain
  <2>3. s[2] \in 1 .. program.args[s[1]]
    BY <1>8, <2>1
  <2>4. s \in DOMAIN inferred /\ IsJustified(s, inferred[s])
    BY <1>1, <2>1, <2>2, <2>3, AllAreInferred
  <2>5. inferred[s] # Untyped
    BY <1>8, <2>4 DEF IsJustified, ArgumentIsJustified
  <2> QED BY <1>3, <2>4, <2>5
<1>9. ASSUME NEW s \in Slots, s[2] # 0, TypesWithin(runs + 1)[s] # {} PROVE asserted'[s] # {}
  <2>1. TypesWithin(runs + 1) = OneFurther(TypesWithin(runs))
    BY <1>1, TypesComeFurther
  <2>2. CASE OwnTypes(s) # {}
    BY <1>5, <2>2 DEF AssertionsAreJustified
  <2>3. CASE OwnTypes(s) = {}
    <3>1. TypesWithin(runs + 1)[s] = UNION {Brings(TypesWithin(runs), o) : o \in Passed(s)}
      BY <1>9, <2>1, <2>3 DEF OneFurther
    <3>2. PICK o \in Passed(s) : Brings(TypesWithin(runs), o) # {}
      BY <1>9, <3>1
    <3>3. HasType(o)
      <4>1. CASE o[1] = "type"
        BY <4>1 DEF HasType
      <4>2. CASE o[1] = "arg"
        <5> DEFINE x == <<o[2], o[3]>>
        <5>1. x \in Slots /\ x[2] # 0
          BY <1>1, <1>9, <4>2, PassedAreOperands, ArgumentsAreSlots
        <5>2. TypesWithin(runs)[x] # {}
          BY <3>2, <4>2 DEF Brings
        <5>3. asserted[x] # {}
          BY <1>1, <5>1, <5>2 DEF AssertionsAreJustified
        <5> QED BY <4>2, <5>3 DEF HasType
      <4> QED BY <3>2, <4>1, <4>2 DEF Brings
    <3> QED BY <1>8, <1>9, <3>3
  <2> QED BY <2>2, <2>3
<1>10. (\A n \in Nat : n = runs =>
         \A s \in Slots : s[2] # 0 /\ TypesWithin(n)[s] # {} => asserted[s] # {})'
  <2> SUFFICES ASSUME NEW n \in Nat, n = runs + 1, NEW s \in Slots, s[2] # 0, TypesWithin(n)[s] # {}
               PROVE  asserted'[s] # {}
    BY <1>1, <1>4
  <2> QED BY <1>9
<1>11. ASSUME NEW F \in DOMAIN program.args,
              program.fold[F] # <<>>, OwnTypes(<<F, 0>>) = {}, asserted'[<<F, 0>>] # {}
       PROVE  /\ asserted'[<<F, 0>>] \subseteq Brings(AllTypes, program.fold[F][1])
              /\ asserted'[<<F, 1>>] # {}
  <2> DEFINE r == <<F, 0>>
             a == <<F, 1>>
  <2>1. IsWhole(program) /\ program.args[F] \in Nat /\ program.args[F] > 0
    BY <1>1, <1>11, SlotsAreFinite DEF IsWhole
  <2>2. r \in Slots /\ a \in Slots /\ r[2] = 0 /\ r[1] = F /\ a[2] # 0
    BY <1>1, <2>1, SlotsAreFinite
  <2>3. Passed(a) = {program.fold[F][1]}
    BY <1>11 DEF Passed
  <2> HIDE DEF r, a
  <2>4. ASSUME NEW t \in asserted'[r] PROVE t \in Brings(AllTypes, program.fold[F][1]) /\ asserted'[a] # {}
    <3>1. CASE asserted[r] # {} /\ t \in asserted[r]
      BY <1>5, <1>11, <2>2, <3>1 DEF AssertionsAreJustified, r, a
    <3>2. CASE t \notin asserted[r]
      <4>1. r \in DOMAIN inferred /\ inferred[r] # Untyped /\ t = inferred[r][2]
        BY <1>3, <2>2, <2>4, <3>2
      <4>2. ReturnIsJustified(F, inferred[r])
        BY <2>2, <4>1 DEF InferredAreJustified, IsJustified
      <4>3. /\ t \in Brings(AllTypes, program.fold[F][1])
            /\ asserted[r] # {} \/ HasType(program.fold[F][1])
        BY <1>11, <4>1, <4>2 DEF ReturnIsJustified, r
      <4>4. CASE asserted[r] # {}
        BY <1>5, <1>11, <2>2, <4>3, <4>4 DEF AssertionsAreJustified, r, a
      <4>5. CASE HasType(program.fold[F][1])
        BY <1>8, <2>2, <2>3, <4>3, <4>5
      <4> QED BY <4>3, <4>4, <4>5
    <3> QED BY <3>1, <3>2
  <2> QED BY <1>11, <2>4 DEF r, a
<1>12. (\A F \in DOMAIN program.args :
         program.fold[F] # <<>> /\ OwnTypes(<<F, 0>>) = {} /\ asserted[<<F, 0>>] # {} =>
           /\ asserted[<<F, 0>>] \subseteq Brings(AllTypes, program.fold[F][1])
           /\ asserted[<<F, 1>>] # {})'
  BY <1>1, <1>4, <1>11 DEF Brings
<1>13. AssertionsAreJustified'
  BY <1>1, <1>3, <1>4, <1>6, <1>7, <1>10, <1>12 DEF AssertionsAreJustified
<1>14. InferredAreJustified'
  BY <1>1 DEF InferredAreJustified
<1>15. WorkIsAhead'
  <2>1. program.order \in Seq(DOMAIN program.args)
    BY <1>1, SlotsAreFinite DEF IsWhole
  <2>2. VisitedAreInferred'
    BY <1>1, <2>1 DEF VisitedAreInferred
  <2>3. CallersAreAbove'
    BY <1>1 DEF CallersAreAbove
  <2>4. (\A i \in DOMAIN inferring : IsAhead(inferring[i], DOMAIN inferred))'
    BY <1>1
  <2> QED BY <1>1, <1>4, <2>2, <2>3, <2>4 DEF WorkIsAhead
<1> QED BY <1>1, <1>13, <1>14, <1>15

-----------------------------------------------------------------------------
(* The actions                                                             *)

LEMMA InferenceInvInit ==
  TIInit => InferenceInv
<1> SUFFICES ASSUME TIInit PROVE InferenceInv
  OBVIOUS
<1> USE DEF TIInit
<1>1. AssertionsAgree
  <2> SUFFICES ASSUME NEW s \in Slots, s[2] # 0 PROVE asserted[s] \subseteq AllTypes[s]
    BY DEF AssertionsAgree
  <2>1. asserted[s] = OwnTypes(s)
    OBVIOUS
  <2>2. OwnTypes(s) # {} => AllTypes[s] = OwnTypes(s)
    BY AllTypesAreClosed
  <2> QED BY <2>1, <2>2
<1>2. \A n \in Nat : n = runs =>
        \A s \in Slots : s[2] # 0 /\ TypesWithin(n)[s] # {} => asserted[s] # {}
  BY TypesComeFurther
<1>3. \A F \in DOMAIN program.args : program.fold[F] # <<>> => <<F, 0>> \in Slots
  <2> SUFFICES ASSUME NEW F \in DOMAIN program.args PROVE <<F, 0>> \in Slots
    OBVIOUS
  <2>1. program.args[F] \in Nat
    BY SlotsAreFinite DEF IsWhole
  <2>2. 0 \in 0 .. program.args[F]
    BY <2>1
  <2> QED BY <2>2, SlotsAreFinite
<1>4. AssertionsAreJustified
  BY <1>1, <1>2, <1>3 DEF AssertionsAreJustified
<1>5. InferredAreJustified
  BY DEF InferredAreJustified
<1>6. WorkIsAhead
  <2>1. program.order \in Seq(DOMAIN program.args)
    BY SlotsAreFinite DEF IsWhole
  <2> QED BY <2>1 DEF WorkIsAhead, CallersAreAbove, VisitedAreInferred
<1> QED BY <1>4, <1>5, <1>6 DEF InferenceInv

(* The call of infer that is at work.                                      *)
LEMMA CallerFacts ==
  ASSUME InferenceInv, Working
  PROVE  /\ inferring # <<>> /\ Caller \in Frames /\ IsAhead(Caller, DOMAIN inferred)
         /\ program \in Modules /\ IsWhole(program)
         /\ Caller.fun \in DOMAIN program.args /\ program.args[Caller.fun] \in Nat
         /\ Caller.arg \in Nat \ {0} /\ Caller.use \in Nat /\ Caller.asked \in BOOLEAN
         /\ DOMAIN program.calls[Caller.fun] \subseteq Nat \ {0}
<1>1. inferring # <<>> /\ inferring \in Seq(Frames) /\ program \in Modules
  BY DEF InferenceInv, Working, WorkIsAhead, AssertionsAreJustified
<1>2. Len(inferring) \in DOMAIN inferring
  BY <1>1
<1>3. Caller \in Frames /\ IsAhead(Caller, DOMAIN inferred)
  BY <1>1, <1>2 DEF Caller, InferenceInv, WorkIsAhead
<1>4. IsWhole(program)
  BY <1>1, SlotsAreFinite
<1>5. /\ Caller.fun \in DOMAIN program.args
      /\ Caller.arg \in Nat \ {0} /\ Caller.use \in Nat /\ Caller.asked \in BOOLEAN
  BY <1>3 DEF Frames
<1>6. program.args[Caller.fun] \in Nat
  BY <1>4, <1>5 DEF IsWhole
<1>7. DOMAIN program.calls[Caller.fun] \subseteq Nat \ {0}
  <2>1. DOMAIN program.calls[Caller.fun] = 1 .. Len(program.calls[Caller.fun])
    BY <1>4, <1>5 DEF IsWhole
  <2> QED BY <2>1
<1> QED BY <1>1, <1>3, <1>4, <1>5, <1>6, <1>7

(* The slot of the argument that is being inferred.                        *)
LEMMA SlotFacts ==
  ASSUME InferenceInv, Working, Caller.arg <= program.args[Caller.fun]
  PROVE  /\ Slot \in Slots /\ Slot[1] = Caller.fun /\ Slot[2] = Caller.arg /\ Slot[2] # 0
         /\ Caller.arg \in 1 .. program.args[Caller.fun]
         /\ OwnTypes(Slot) \subseteq asserted[Slot]
         /\ \A o \in Passed(Slot) : IsOperand(program, o)
<1>1. Caller.arg \in 1 .. program.args[Caller.fun] /\ Caller.arg \in 0 .. program.args[Caller.fun]
  BY CallerFacts
<1>2. Slot \in Slots /\ Slot[1] = Caller.fun /\ Slot[2] = Caller.arg /\ Slot[2] # 0
  BY <1>1, CallerFacts, SlotsAreFinite DEF Slot
<1>3. OwnTypes(Slot) \subseteq asserted[Slot]
  BY <1>2 DEF InferenceInv, AssertionsAreJustified
<1> QED BY <1>1, <1>2, <1>3, CallerFacts, PassedAreOperands

LEMMA NextArgumentIsAhead ==
  ASSUME InferenceInv, UNCHANGED <<program, asserted, nextFun>>, Working,
         DOMAIN inferred \subseteq DOMAIN inferred',
         Caller.fun = MainFunction \/ Slot \in DOMAIN inferred', NextArgument
  PROVE  WorkIsAhead'
<1>1. PICK c : c = [Caller EXCEPT !.arg = @ + 1, !.use = 0, !.asked = FALSE]
  OBVIOUS
<1>2. c \in Frames /\ c.fun = Caller.fun /\ c.arg = Caller.arg + 1 /\ c.use = 0
  <2>1. PICK q, n : q = Caller /\ n = Caller.arg + 1
    OBVIOUS
  <2>2. q \in Frames /\ n \in Nat \ {0}
    BY <2>1, CallerFacts
  <2>3. c = [q EXCEPT !.arg = n, !.use = 0, !.asked = FALSE]
    BY <1>1, <2>1
  <2>4. c \in Frames
    BY <2>2, <2>3 DEF Frames
  <2>5. c.fun = q.fun /\ c.arg = n /\ c.use = 0
    BY <2>2, <2>3 DEF Frames
  <2> QED BY <2>1, <2>4, <2>5
<1>3. IsAhead(c, DOMAIN inferred')
  <2>1. SUFFICES ASSUME c.fun # MainFunction, NEW k \in 1 .. program.args[c.fun], k < c.arg
                 PROVE  <<c.fun, k>> \in DOMAIN inferred'
    BY <1>2 DEF IsAhead
  <2>2. CASE k < Caller.arg
    BY <1>2, <2>1, <2>2, CallerFacts DEF IsAhead
  <2>3. CASE ~(k < Caller.arg)
    <3>1. k = Caller.arg
      BY <1>2, <2>1, <2>3, CallerFacts
    <3> QED BY <1>2, <2>1, <3>1 DEF Slot
  <2> QED BY <2>2, <2>3
<1>4. inferring' = Continued(c)
  BY <1>1 DEF NextArgument
<1> QED BY <1>2, <1>3, <1>4, CallerFacts, ContinuingIsAhead DEF InferenceInv

(* An argument is inferred, for a reason.                                  *)
LEMMA ArgumentIsInferred ==
  ASSUME InferenceInv, UNCHANGED <<program, asserted, nextFun>>, Working,
         Caller.arg <= program.args[Caller.fun],
         NEW t, Record(Slot, t), ArgumentIsJustified(Slot, t), NextArgument
  PROVE  InferredAreJustified' /\ WorkIsAhead'
<1>1. Slot \in Slots /\ IsJustified(Slot, t)
  BY SlotFacts DEF IsJustified
<1>2. InferredAreJustified' /\ DOMAIN inferred' = DOMAIN inferred \cup {Slot}
  <2>1. \A s \in Slots : Record(s, t) /\ IsJustified(s, t) =>
          InferredAreJustified' /\ DOMAIN inferred' = DOMAIN inferred \cup {s}
    BY RecordKeepsJustified DEF InferenceInv
  <2> QED BY <1>1, <2>1
<1>3. DOMAIN inferred \subseteq DOMAIN inferred' /\ Slot \in DOMAIN inferred'
  BY <1>2
<1> QED BY <1>2, <1>3, NextArgumentIsAhead

(* What an operand brings to an argument without an assertion.             *)
LEMMA OperandTypesArgument ==
  ASSUME InferenceInv, Working, Caller.arg <= program.args[Caller.fun], asserted[Slot] = {},
         NEW o \in Passed(Slot), NEW t \in TypeOf(o)
  PROVE  IF t = Untyped THEN ~HasType(o) ELSE ArgumentIsJustified(Slot, t)
<1>1. IsOperand(program, o) /\ OwnTypes(Slot) = {} /\ Slot \in Slots /\ Slot[2] # 0 /\ program \in Modules
  BY SlotFacts, CallerFacts
<1>2. Brings(AllTypes, o) \subseteq AllTypes[Slot]
  <2>1. \A s \in Slots : s[2] # 0 /\ OwnTypes(s) = {} =>
          \A q \in Passed(s) : Brings(AllTypes, q) \subseteq AllTypes[s]
    BY <1>1, AllTypesAreClosed
  <2> QED BY <1>1, <2>1
<1>3. IF t = Untyped THEN ~HasType(o) ELSE t[2] \in Brings(AllTypes, o)
  BY <1>1, TypeOfIsBrought DEF InferenceInv
<1> QED BY <1>2, <1>3 DEF ArgumentIsJustified

LEMMA KnownArgumentStep ==
  InferenceInv /\ KnownArgument => InferredAreJustified' /\ WorkIsAhead'
<1> SUFFICES ASSUME InferenceInv, KnownArgument PROVE InferredAreJustified' /\ WorkIsAhead'
  OBVIOUS
<1>1. /\ Working /\ Caller.arg <= program.args[Caller.fun] /\ NextArgument
      /\ UNCHANGED <<program, asserted, nextFun>>
  BY DEF KnownArgument, AtArgument
<1>2. CASE (Slot \in DOMAIN inferred \/ Caller.fun = MainFunction) /\ UNCHANGED inferred
  BY <1>1, <1>2, InferredStay, NextArgumentIsAhead DEF InferenceInv
<1>3. ASSUME NEW t \in asserted[Slot], Record(Slot, <<"type", t>>)
      PROVE  InferredAreJustified' /\ WorkIsAhead'
  <2>1. PICK u : u = <<"type", t>>
    OBVIOUS
  <2>2. u # Untyped /\ u[2] = t
    BY <2>1 DEF Untyped
  <2>3. t \in AllTypes[Slot]
    BY <1>1, <1>3, SlotFacts DEF InferenceInv, AssertionsAreJustified, AssertionsAgree
  <2>4. ArgumentIsJustified(Slot, u)
    BY <2>2, <2>3 DEF ArgumentIsJustified
  <2> QED BY <1>1, <1>3, <2>1, <2>4, ArgumentIsInferred
<1> QED BY <1>2, <1>3 DEF KnownArgument

LEMMA ArgumentOfFoldStep ==
  InferenceInv /\ ArgumentOfFold => InferredAreJustified' /\ WorkIsAhead'
<1> SUFFICES ASSUME InferenceInv, ArgumentOfFold PROVE InferredAreJustified' /\ WorkIsAhead'
  OBVIOUS
<1> DEFINE o == program.fold[Caller.fun][Caller.arg]
<1>1. /\ Working /\ Caller.arg <= program.args[Caller.fun] /\ NextArgument
      /\ UNCHANGED <<program, asserted, nextFun>>
      /\ asserted[Slot] = {} /\ program.fold[Caller.fun] # <<>>
  BY DEF ArgumentOfFold, AtArgument, Unknown
<1>2. PICK t \in TypeOf(o) : Record(Slot, t)
  BY DEF ArgumentOfFold
<1>3. Passed(Slot) = {o}
  BY <1>1 DEF Passed, Slot
<1> HIDE DEF o
<1>4. IF t = Untyped THEN ~HasType(o) ELSE ArgumentIsJustified(Slot, t)
  BY <1>1, <1>2, <1>3, OperandTypesArgument
<1>5. ArgumentIsJustified(Slot, t)
  BY <1>1, <1>3, <1>4 DEF ArgumentIsJustified
<1> QED BY <1>1, <1>2, <1>5, ArgumentIsInferred

LEMMA LookAtCallersStep ==
  InferenceInv /\ LookAtCallers => InferredAreJustified' /\ WorkIsAhead'
<1> SUFFICES ASSUME InferenceInv, LookAtCallers PROVE InferredAreJustified' /\ WorkIsAhead'
  OBVIOUS
<1>1. /\ Working /\ Caller.arg <= program.args[Caller.fun]
      /\ UNCHANGED <<program, asserted, inferred, nextFun>>
      /\ asserted[Slot] = {} /\ Caller.fun # MainFunction /\ program.fold[Caller.fun] = <<>>
  BY DEF LookAtCallers, AtArgument, Unknown
<1>2. PICK c : c = [Caller EXCEPT !.use = 1]
  OBVIOUS
<1>3. c \in Frames /\ c.fun = Caller.fun /\ c.arg = Caller.arg /\ c.use = 1
  BY <1>1, <1>2, CallerFacts DEF Frames
<1>4. \A k \in DOMAIN program.calls[c.fun] : ~(k < 1)
  BY <1>1, <1>3, CallerFacts
<1>5. IsAhead(c, DOMAIN inferred')
  BY <1>1, <1>3, <1>4, CallerFacts, SlotFacts DEF IsAhead, Slot
<1>6. inferring' = Continued(c)
  BY <1>2 DEF LookAtCallers
<1>7. WorkIsAhead'
  BY <1>1, <1>3, <1>5, <1>6, CallerFacts, ContinuingIsAhead DEF InferenceInv
<1> QED BY <1>1, <1>7, InferredStay DEF InferenceInv

(* The call that is looked at.                                             *)
LEMMA AtCallFacts ==
  ASSUME InferenceInv, AtCall
  PROVE  /\ Working /\ Caller.arg <= program.args[Caller.fun] /\ Caller.use > 0
         /\ Caller.fun # MainFunction /\ program.fold[Caller.fun] = <<>> /\ asserted[Slot] = {}
         /\ Caller.use \in DOMAIN program.calls[Caller.fun]
         /\ TheCall.of[Caller.arg] \in Passed(Slot)
<1>1. Working /\ Caller.use > 0 /\ Caller.use <= Len(program.calls[Caller.fun])
  BY DEF AtCall
<1>2. /\ Caller.fun # MainFunction /\ Caller.arg \in 1 .. program.args[Caller.fun]
      /\ program.fold[Caller.fun] = <<>> /\ asserted[Slot] = {}
  BY <1>1, CallerFacts DEF IsAhead, Slot
<1>3. Caller.use \in DOMAIN program.calls[Caller.fun]
  BY <1>1, CallerFacts DEF IsWhole
<1>4. Passed(Slot) = {x.of[Caller.arg] : x \in {program.calls[Caller.fun][k] : k \in DOMAIN program.calls[Caller.fun]}}
  BY <1>2 DEF Passed, Slot
<1>5. TheCall.of[Caller.arg] \in Passed(Slot)
  BY <1>3, <1>4 DEF TheCall
<1> QED BY <1>1, <1>2, <1>3, <1>5, CallerFacts

LEMMA InferCallerStep ==
  InferenceInv /\ InferCaller => InferredAreJustified' /\ WorkIsAhead'
<1> SUFFICES ASSUME InferenceInv, InferCaller PROVE InferredAreJustified' /\ WorkIsAhead'
  OBVIOUS
<1>1. AtCall /\ UNCHANGED <<program, asserted, inferred, nextFun>>
  BY DEF InferCaller
<1>2. PICK c : c = [Caller EXCEPT !.asked = TRUE]
  OBVIOUS
<1>3. /\ c \in Frames /\ c.fun = Caller.fun /\ c.arg = Caller.arg /\ c.use = Caller.use
  BY <1>1, <1>2, AtCallFacts, CallerFacts DEF Frames
<1>4. IsAhead(c, DOMAIN inferred)
  <2>1. IsAhead(Caller, DOMAIN inferred)
    BY <1>1, AtCallFacts, CallerFacts
  <2> QED BY <1>3, <2>1 DEF IsAhead
<1>5. inferring # <<>>
  BY <1>1, AtCallFacts, CallerFacts
<1>6. CASE TheCall.by = Caller.fun
  <2>1. inferring' = Continued(c)
    BY <1>2, <1>6 DEF InferCaller
  <2>2. WorkIsAhead'
    BY <1>1, <1>3, <1>4, <1>5, <2>1, ContinuingIsAhead DEF InferenceInv
  <2> QED BY <1>1, <2>2, InferredStay DEF InferenceInv
<1>7. CASE TheCall.by # Caller.fun
  <2>1. PICK F : F = TheCall.by
    OBVIOUS
  <2>2. inferring' = Append(Continued(c), Call_(F))
    BY <1>2, <1>7, <2>1 DEF InferCaller
  <2>3. F \in Calling(c.fun)
    BY <1>1, <1>3, <1>7, <2>1, AtCallFacts DEF Calling, TheCall
  <2>4. WorkIsAhead'
    BY <1>1, <1>3, <1>4, <1>5, <2>2, <2>3, CallingIsAhead DEF InferenceInv
  <2> QED BY <1>1, <2>4, InferredStay DEF InferenceInv
<1> QED BY <1>6, <1>7

LEMMA TypeOperandStep ==
  InferenceInv /\ TypeOperand => InferredAreJustified' /\ WorkIsAhead'
<1> SUFFICES ASSUME InferenceInv, TypeOperand PROVE InferredAreJustified' /\ WorkIsAhead'
  OBVIOUS
<1> DEFINE o == TheCall.of[Caller.arg]
<1>1. /\ Working /\ Caller.arg <= program.args[Caller.fun] /\ Caller.use > 0
      /\ Caller.fun # MainFunction /\ program.fold[Caller.fun] = <<>> /\ asserted[Slot] = {}
      /\ Caller.use \in DOMAIN program.calls[Caller.fun] /\ o \in Passed(Slot)
  BY AtCallFacts DEF TypeOperand
<1>2. UNCHANGED <<program, asserted, nextFun>>
  BY DEF TypeOperand
<1>3. PICK t \in TypeOf(o) :
        IF t # Untyped THEN Record(Slot, t) /\ NextArgument
        ELSE /\ inferring' = Continued([Caller EXCEPT !.use = @ + 1, !.asked = FALSE])
             /\ UNCHANGED inferred
  BY DEF TypeOperand
<1>4. IF t = Untyped THEN ~HasType(o) ELSE ArgumentIsJustified(Slot, t)
  <2> HIDE DEF o
  <2> QED BY <1>1, <1>3, OperandTypesArgument
<1>5. CASE t # Untyped
  BY <1>1, <1>2, <1>3, <1>4, <1>5, ArgumentIsInferred
<1>6. CASE t = Untyped
  <2>1. PICK c : c = [Caller EXCEPT !.use = @ + 1, !.asked = FALSE]
    OBVIOUS
  <2>2. c \in Frames /\ c.fun = Caller.fun /\ c.arg = Caller.arg /\ c.use = Caller.use + 1
    <3>1. PICK q, n : q = Caller /\ n = Caller.use + 1
      OBVIOUS
    <3>2. q \in Frames /\ n \in Nat
      BY <1>1, <3>1, CallerFacts
    <3>3. c = [q EXCEPT !.use = n, !.asked = FALSE]
      BY <2>1, <3>1
    <3>4. c \in Frames
      BY <3>2, <3>3 DEF Frames
    <3>5. c.fun = q.fun /\ c.arg = q.arg /\ c.use = n
      BY <3>2, <3>3 DEF Frames
    <3> QED BY <3>1, <3>4, <3>5
  <2>3. ASSUME NEW k \in DOMAIN program.calls[c.fun], k < c.use
        PROVE  ~HasType(program.calls[c.fun][k].of[c.arg])
    <3>1. CASE k = Caller.use
      BY <1>4, <1>6, <2>2, <3>1 DEF TheCall
    <3>2. CASE k # Caller.use
      <4>1. k \in Nat
        BY <1>1, <2>2, CallerFacts
      <4>2. k < Caller.use
        BY <1>1, <2>2, <2>3, <3>2, <4>1, CallerFacts
      <4> QED BY <1>1, <2>2, <4>2, CallerFacts DEF IsAhead
    <3> QED BY <3>1, <3>2
  <2>4. UNCHANGED inferred /\ inferring' = Continued(c)
    BY <1>3, <1>6, <2>1
  <2>5. IsAhead(c, DOMAIN inferred')
    BY <1>1, <2>2, <2>3, <2>4, CallerFacts, SlotFacts DEF IsAhead, Slot
  <2>6. WorkIsAhead'
    BY <1>1, <1>2, <2>2, <2>4, <2>5, CallerFacts, ContinuingIsAhead DEF InferenceInv
  <2> QED BY <1>2, <2>4, <2>6, InferredStay DEF InferenceInv
<1> QED BY <1>5, <1>6

LEMMA NoTypedCallerStep ==
  InferenceInv /\ NoTypedCaller => InferredAreJustified' /\ WorkIsAhead'
<1> SUFFICES ASSUME InferenceInv, NoTypedCaller PROVE InferredAreJustified' /\ WorkIsAhead'
  OBVIOUS
<1>1. /\ Working /\ Caller.use > Len(program.calls[Caller.fun])
      /\ Record(Slot, Untyped) /\ NextArgument /\ UNCHANGED <<program, asserted, nextFun>>
  BY DEF NoTypedCaller
<1>2. DOMAIN program.calls[Caller.fun] = 1 .. Len(program.calls[Caller.fun])
        /\ Len(program.calls[Caller.fun]) \in Nat
  BY <1>1, CallerFacts DEF IsWhole
<1>3. Caller.use > 0
  BY <1>1, <1>2, CallerFacts
<1>4. /\ Caller.arg \in 1 .. program.args[Caller.fun] /\ program.fold[Caller.fun] = <<>>
      /\ asserted[Slot] = {}
      /\ \A k \in DOMAIN program.calls[Caller.fun] : k < Caller.use =>
           ~HasType(program.calls[Caller.fun][k].of[Caller.arg])
  BY <1>1, <1>3, CallerFacts DEF IsAhead, Slot
<1>5. ASSUME NEW o \in Passed(Slot) PROVE ~HasType(o)
  <2>1. PICK k \in DOMAIN program.calls[Caller.fun] : o = program.calls[Caller.fun][k].of[Caller.arg]
    BY <1>4 DEF Passed, Slot
  <2>2. k < Caller.use
    BY <1>1, <1>2, CallerFacts
  <2> QED BY <1>4, <2>1, <2>2
<1>6. ArgumentIsJustified(Slot, Untyped)
  BY <1>4, <1>5 DEF ArgumentIsJustified
<1>7. Caller.arg <= program.args[Caller.fun]
  BY <1>1, <1>4, CallerFacts
<1>8. PICK t : t = Untyped
  OBVIOUS
<1> QED BY <1>1, <1>6, <1>7, <1>8, ArgumentIsInferred

LEMMA InferReturnStep ==
  InferenceInv /\ InferReturn => InferredAreJustified' /\ WorkIsAhead'
<1> SUFFICES ASSUME InferenceInv, InferReturn PROVE InferredAreJustified' /\ WorkIsAhead'
  OBVIOUS
<1> DEFINE F == Caller.fun
           slot == <<F, 0>>
<1>1. /\ Working /\ Caller.arg > program.args[F] /\ UNCHANGED <<program, asserted, nextFun>>
      /\ inferring' = SubSeq(inferring, 1, Len(inferring) - 1)
      /\ IF slot \in DOMAIN inferred \/ F = MainFunction THEN UNCHANGED inferred
         ELSE IF asserted[slot] # {} THEN \E t \in asserted[slot] : Record(slot, <<"type", t>>)
         ELSE \E t \in IF program.fold[F] = <<>> THEN {Untyped} ELSE TypeOf(program.fold[F][1]) : Record(slot, t)
  BY DEF InferReturn
<1>2. F \in DOMAIN program.args /\ program \in Modules /\ IsWhole(program) /\ inferring # <<>>
  BY <1>1, CallerFacts
<1>3. slot \in Slots /\ slot[1] = F /\ slot[2] = 0
  <2>1. program.args[F] \in Nat
    BY <1>1, CallerFacts
  <2>2. 0 \in 0 .. program.args[F]
    BY <2>1
  <2> QED BY <1>2, <2>2, SlotsAreFinite
<1>4. CASE UNCHANGED inferred
  BY <1>1, <1>2, <1>4, InferredStay, ReturningIsAhead DEF InferenceInv
<1>5. ASSUME NEW t, Record(slot, t), ReturnIsJustified(F, t)
      PROVE  InferredAreJustified' /\ WorkIsAhead'
  <2>1. PICK s : s = slot
    OBVIOUS
  <2>2. s \in Slots /\ IsJustified(s, t) /\ Record(s, t)
    BY <1>3, <1>5, <2>1 DEF IsJustified
  <2>3. InferredAreJustified' /\ DOMAIN inferred' = DOMAIN inferred \cup {s}
    BY <1>1, <2>2, RecordKeepsJustified DEF InferenceInv
  <2>4. DOMAIN inferred \subseteq DOMAIN inferred'
    BY <2>3
  <2> QED BY <1>1, <1>2, <2>3, <2>4, ReturningIsAhead DEF InferenceInv
<1>6. ASSUME NEW t \in asserted[slot], Record(slot, <<"type", t>>)
      PROVE  InferredAreJustified' /\ WorkIsAhead'
  <2>1. PICK u : u = <<"type", t>>
    OBVIOUS
  <2>2. u[2] = t
    BY <2>1
  <2>3. ReturnIsJustified(F, u)
    BY <1>2, <1>6, <2>2 DEF ReturnIsJustified, InferenceInv, AssertionsAreJustified
  <2> QED BY <1>5, <1>6, <2>1, <2>3
<1>7. ASSUME program.fold[F] = <<>>, Record(slot, Untyped)
      PROVE  InferredAreJustified' /\ WorkIsAhead'
  <2>1. PICK u : u = Untyped
    OBVIOUS
  <2>2. ReturnIsJustified(F, u)
    BY <1>7 DEF ReturnIsJustified
  <2> QED BY <1>5, <1>7, <2>1, <2>2
<1>8. ASSUME program.fold[F] # <<>>, NEW t \in TypeOf(program.fold[F][1]), Record(slot, t)
      PROVE  InferredAreJustified' /\ WorkIsAhead'
  <2>1. program.args[F] \in Nat /\ program.args[F] > 0
    BY <1>2, <1>8 DEF IsWhole
  <2>2. IsOperand(program, program.fold[F][1])
    <3>1. \A n \in 1 .. program.args[F] : IsOperand(program, program.fold[F][n])
      BY <1>2, <1>8 DEF IsWhole
    <3>2. 1 \in 1 .. program.args[F]
      BY <2>1
    <3> QED BY <3>1, <3>2
  <2>3. t # Untyped => HasType(program.fold[F][1]) /\ t[2] \in Brings(AllTypes, program.fold[F][1])
    BY <1>8, <2>2, TypeOfIsBrought DEF InferenceInv
  <2>4. ReturnIsJustified(F, t)
    BY <2>3 DEF ReturnIsJustified
  <2> QED BY <1>5, <1>8, <2>4
<1> QED BY <1>1, <1>4, <1>6, <1>7, <1>8

LEMMA InferenceInvStep ==
  InferenceInv /\ [TINext]_inferVars => InferenceInv'
<1> SUFFICES ASSUME InferenceInv, [TINext]_inferVars PROVE InferenceInv'
  OBVIOUS
<1>1. ASSUME UNCHANGED <<program, asserted, runs, outcome>>, InferredAreJustified', WorkIsAhead',
             outcome = "running"
      PROVE  InferenceInv'
  BY <1>1, AssertionsStay DEF InferenceInv
<1>2. CASE InferFunction
  <2>1. UNCHANGED <<program, asserted, inferred, runs, outcome>> /\ outcome = "running"
    BY <1>2 DEF InferFunction
  <2>2. WorkIsAhead'
    BY <1>2, VisitingIsAhead DEF InferenceInv
  <2> QED BY <1>1, <2>1, <2>2, InferredStay DEF InferenceInv
<1>3. CASE KnownArgument
  BY <1>1, <1>3, KnownArgumentStep DEF KnownArgument, AtArgument, Working
<1>4. CASE ArgumentOfFold
  BY <1>1, <1>4, ArgumentOfFoldStep DEF ArgumentOfFold, AtArgument, Working
<1>5. CASE LookAtCallers
  BY <1>1, <1>5, LookAtCallersStep DEF LookAtCallers, AtArgument, Working
<1>6. CASE InferCaller
  BY <1>1, <1>6, InferCallerStep DEF InferCaller, AtCall, Working
<1>7. CASE TypeOperand
  BY <1>1, <1>7, TypeOperandStep DEF TypeOperand, AtCall, Working
<1>8. CASE NoTypedCaller
  BY <1>1, <1>8, NoTypedCallerStep DEF NoTypedCaller, Working
<1>9. CASE InferReturn
  BY <1>1, <1>9, InferReturnStep DEF InferReturn, Working
<1>10. CASE Annotate
  BY <1>10, AnnotatingIsJustified
<1>11. ASSUME UNCHANGED <<program, asserted, inferred, inferring, nextFun, runs>>,
              outcome' = "endless" => Len(inferring) = MaxCalls
       PROVE  InferenceInv'
  <2>1. AssertionsAreJustified' /\ InferredAreJustified'
    BY <1>11, AssertionsStay, InferredStay DEF InferenceInv
  <2>2. WorkIsAhead'
    BY <1>11, WorkNext DEF InferenceInv, WorkIsAhead, CallersAreAbove, VisitedAreInferred
  <2> QED BY <1>11, <2>1, <2>2 DEF InferenceInv
<1>12. CASE Endless
  BY <1>11, <1>12 DEF Endless
<1>13. CASE UNCHANGED inferVars
  BY <1>11, <1>13 DEF inferVars, InferenceInv
<1> QED BY <1>2, <1>3, <1>4, <1>5, <1>6, <1>7, <1>8, <1>9, <1>10, <1>12, <1>13 DEF TINext, TIStep

(* As deep as this, some function waits for itself.                        *)
LEMMA TooDeepIsACircle ==
  ASSUME InferenceInv, Len(inferring) = MaxCalls
  PROVE  \E F \in DOMAIN program.args : F \in CallersOf(F)
<1>1. inferring \in Seq(Frames) /\ program \in Modules /\ IsWhole(program)
  BY SlotsAreFinite DEF InferenceInv, WorkIsAhead, AssertionsAreJustified
<1> DEFINE T == DOMAIN program.args
           S == 1 .. MaxCalls
           g == [i \in S |-> inferring[i].fun]
<1>2. MaxCalls \in Nat /\ IsFiniteSet(T) /\ Cardinality(T) < MaxCalls
  BY <1>1, DepthAssumption DEF IsWhole
<1>3. IsFiniteSet(S) /\ Cardinality(S) = MaxCalls
  BY <1>2, FS_Interval
<1>4. DOMAIN inferring = S /\ \A i \in S : inferring[i] \in Frames
  BY <1>1
<1>5. g \in [S -> T]
  BY <1>4 DEF Frames
<1>6. PICK i, j \in S : i # j /\ g[i] = g[j]
  <2> HIDE DEF g, S, T
  <2> QED BY <1>2, <1>3, <1>5, FS_PigeonHole
<1>7. i < j \/ j < i
  BY <1>2, <1>6
<1>8. inferring[i].fun = inferring[j].fun /\ inferring[i].fun \in T
  BY <1>4, <1>6 DEF Frames
<1> QED BY <1>4, <1>6, <1>7, <1>8 DEF InferenceInv, WorkIsAhead, CallersAreAbove

LEMMA InferredComeFromCallers ==
  InferenceInv => InferredFromCallers
<1> SUFFICES ASSUME InferenceInv PROVE InferredFromCallers
  OBVIOUS
<1> USE DEF InferenceInv, AssertionsAreJustified
<1>1. OneCallFurther
  BY DEF OneCallFurther
<1>2. BodiesReturnWhatTheyTake
  <2> SUFFICES ASSUME Typable, NEW F \in DOMAIN program.args, program.fold[F] # <<>>,
                      asserted[<<F, 0>>] # {}, <<F, 0>> \notin DOMAIN program.types
               PROVE  asserted[<<F, 1>>] = asserted[<<F, 0>>]
    BY DEF BodiesReturnWhatTheyTake
  <2> DEFINE a == <<F, 1>>
             o == program.fold[F][1]
  <2>1. OwnTypes(<<F, 0>>) = {}
    BY DEF OwnTypes
  <2>2. asserted[<<F, 0>>] \subseteq Brings(AllTypes, o) /\ asserted[a] # {}
    BY <2>1
  <2>3. program.args[F] \in Nat /\ program.args[F] > 0
    BY SlotsAreFinite DEF IsWhole
  <2>4. a \in Slots /\ a[2] # 0
    BY <2>3, SlotsAreFinite
  <2>5. o \in Passed(a)
    BY DEF Passed
  <2> HIDE DEF a, o
  <2>6. asserted[a] \subseteq AllTypes[a]
    BY <2>4 DEF AssertionsAgree
  <2>7. Brings(AllTypes, o) \subseteq AllTypes[a] /\ \A t, u \in AllTypes[a] : t = u
    BY <2>4, <2>5 DEF Typable
  <2>8. \A t \in asserted[<<F, 0>>] : \A u \in asserted[a] : t = u
    BY <2>2, <2>6, <2>7
  <2>9. PICK X, Y : X = asserted[a] /\ Y = asserted[<<F, 0>>]
    OBVIOUS
  <2>10. X # {} /\ Y # {} /\ \A t \in Y : \A u \in X : t = u
    BY <2>2, <2>8, <2>9
  <2>11. X = Y
    BY <2>10
  <2> QED BY <2>9, <2>11 DEF a
<1>3. EndlessOnlyInCircles
  BY TooDeepIsACircle DEF EndlessOnlyInCircles
<1> QED BY <1>1, <1>2, <1>3 DEF InferredFromCallers

(* Of whatever module, on whatever path through it: an argument is only    *)
(* asserted to have a type that comes to it from a caller or a fold, each  *)
(* run types what is one call further from a type, the body of a fold      *)
(* returns what it accumulates, and only functions that call one another   *)
(* in a circle keep infer from coming back.                                *)
THEOREM TypesComeFromCallers == TISpec => []InferredFromCallers
BY InferenceInvInit, InferenceInvStep, InferredComeFromCallers, PTL DEF TISpec
=============================================================================
