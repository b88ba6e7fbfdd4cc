----------------------------- MODULE Iterations -----------------------------
(***************************************************************************)
(* Induction for the recursive functions of the models.  The induction     *)
(* theorems of the library take the induction hypothesis as an operator;   *)
(* here it is a set, the numbers for which the hypothesis holds.  From it  *)
(* follow that a function defined by recursion over 0 .. N exists, and     *)
(* that growing a subset of a finite set often enough closes it.           *)
(***************************************************************************)
EXTENDS Integers, FiniteSets, FiniteSetTheorems, WellFoundedInduction, TLAPS

(* Induction: a set of numbers that holds 0 and with n also n + 1 holds    *)
(* all.  A least number outside of it would have its predecessor in it.    *)
LEMMA SetInduction ==
  ASSUME NEW S, 0 \in S, \A n \in Nat : n \in S => n + 1 \in S
  PROVE  Nat \subseteq S
<1> DEFINE T == Nat \ S
<1>1. SUFFICES ASSUME T # {} PROVE FALSE
  OBVIOUS
<1>2. PICK x \in T : \A y \in T : <<y, x>> \notin OpToRel(<, Nat)
  BY <1>1, NatLessThanWellFounded, WFMin
<1>3. \A y \in T : ~(y < x)
  BY <1>2 DEF OpToRel
<1>4. x # 0 /\ x - 1 \in Nat /\ x - 1 < x
  OBVIOUS
<1>5. x - 1 \in S
  BY <1>3, <1>4
<1> QED BY <1>4, <1>5

(* base is in A and each of N steps leads from A into A.                   *)
StepsStayIn(A, N, base, step) ==
  N \in Nat /\ base \in A /\ \A n \in 1 .. N : \A x \in A : step[n][x] \in A

(* g starts from base and takes the n-th step from its value at n - 1.     *)
TakesSteps(g, N, base, step) == g[0] = base /\ \A n \in 1 .. N : g[n] = step[n][g[n - 1]]

(* A function that takes the steps exists.                                 *)
LEMMA RecursionExists ==
  ASSUME NEW A, NEW N, NEW base, NEW step, StepsStayIn(A, N, base, step)
  PROVE  \E g \in [0 .. N -> A] : TakesSteps(g, N, base, step)
<1> USE DEF StepsStayIn, TakesSteps
<1> DEFINE Upto(g, m) == g[0] = base /\ \A n \in 1 .. m : g[n] = step[n][g[n - 1]]
           S == {m \in Nat : m <= N => \E g \in [0 .. m -> A] : Upto(g, m)}
<1>1. 0 \in S
  <2> DEFINE g == [n \in 0 .. 0 |-> base]
  <2>1. g \in [0 .. 0 -> A] /\ Upto(g, 0)
    OBVIOUS
  <2> QED BY <2>1
<1>2. ASSUME NEW m \in Nat, m \in S PROVE m + 1 \in S
  <2> SUFFICES ASSUME m + 1 <= N PROVE \E g \in [0 .. m + 1 -> A] : Upto(g, m + 1)
    OBVIOUS
  <2>1. PICK h \in [0 .. m -> A] : Upto(h, m)
    BY <1>2
  <2> DEFINE g == [n \in 0 .. m + 1 |-> IF n \in 0 .. m THEN h[n] ELSE step[m + 1][h[m]]]
  <2>2. g \in [0 .. m + 1 -> A]
    <3>1. h[m] \in A /\ m + 1 \in 1 .. N
      OBVIOUS
    <3> QED BY <3>1
  <2>3. ASSUME NEW n \in 0 .. m + 1 PROVE g[n] = IF n = 0 THEN base ELSE step[n][g[n - 1]]
    <3>1. CASE n = 0
      BY <2>1, <3>1
    <3>2. CASE n \in 1 .. m
      <4>1. n - 1 \in 0 .. m /\ n \in 0 .. m /\ n - 1 \in 0 .. m + 1
        BY <3>2
      <4>2. g[n] = h[n] /\ g[n - 1] = h[n - 1]
        BY <4>1
      <4>3. h[n] = step[n][h[n - 1]]
        BY <2>1, <3>2
      <4> QED BY <3>2, <4>2, <4>3
    <3>3. CASE n = m + 1
      <4>1. n \notin 0 .. m /\ n - 1 = m /\ m \in 0 .. m /\ m \in 0 .. m + 1 /\ n # 0
        BY <3>3
      <4>2. g[n] = step[m + 1][h[m]] /\ g[n - 1] = h[m]
        BY <3>3, <4>1
      <4> QED BY <3>3, <4>1, <4>2
    <3> QED BY <3>1, <3>2, <3>3
  <2>4. Upto(g, m + 1)
    <3> HIDE DEF g
    <3> QED BY <2>3
  <2> QED BY <2>2, <2>4
<1> HIDE DEF S
<1>3. N \in S
  BY <1>1, <1>2, SetInduction
<1> QED BY <1>3 DEF S

-----------------------------------------------------------------------------
(* Growing a subset                                                        *)

(* Subsets of D grow, and within D.                                        *)
GrowsWithin(D, grow) == \A X \in SUBSET D : X \subseteq grow[X] /\ grow[X] \in SUBSET D

(* g[n] is base, grown n times.                                            *)
Grows(g, N, base, grow) == g[0] = base /\ \A n \in 1 .. N : g[n] = grow[g[n - 1]]

(* Growing can be repeated.                                                *)
LEMMA GrowthExists ==
  ASSUME NEW D, NEW N \in Nat, NEW base \in SUBSET D, NEW grow, GrowsWithin(D, grow)
  PROVE  \E g \in [0 .. N -> SUBSET D] : Grows(g, N, base, grow)
<1> DEFINE step == [n \in 1 .. N |-> grow]
<1>1. StepsStayIn(SUBSET D, N, base, step)
  BY DEF StepsStayIn, GrowsWithin
<1> HIDE DEF step
<1>2. PICK g \in [0 .. N -> SUBSET D] : TakesSteps(g, N, base, step)
  BY <1>1, RecursionExists
<1>3. \A n \in 1 .. N : step[n] = grow
  BY DEF step
<1> QED BY <1>2, <1>3 DEF TakesSteps, Grows

(* X holds base and with a subset all that it grows to.                    *)
HoldsGrowth(X, D, base, grow) ==
  base \subseteq X /\ \A Y \in SUBSET D : Y \subseteq X => grow[Y] \subseteq X

(* Whatever holds base and with a subset all that it grows to holds every  *)
(* iterate.                                                                *)
LEMMA IterationsStayWithin ==
  ASSUME NEW D, NEW N \in Nat, NEW base \in SUBSET D, NEW grow, GrowsWithin(D, grow),
         NEW g, Grows(g, N, base, grow),
         NEW X, HoldsGrowth(X, D, base, grow)
  PROVE  g[N] \subseteq X
<1> USE DEF GrowsWithin, Grows, HoldsGrowth
<1> DEFINE S == {n \in Nat : n <= N => g[n] \in SUBSET D /\ g[n] \subseteq X}
<1>1. 0 \in S
  OBVIOUS
<1>2. ASSUME NEW n \in Nat, n \in S PROVE n + 1 \in S
  <2> SUFFICES ASSUME n + 1 <= N PROVE g[n + 1] \in SUBSET D /\ g[n + 1] \subseteq X
    OBVIOUS
  <2>1. g[n] \subseteq X /\ g[n] \in SUBSET D
    BY <1>2
  <2>2. n + 1 \in 1 .. N /\ n + 1 - 1 = n
    OBVIOUS
  <2>3. g[n + 1] = grow[g[n]]
    BY <2>2
  <2> QED BY <2>1, <2>3
<1> HIDE DEF S
<1>3. Nat \subseteq S
  BY <1>1, <1>2, SetInduction
<1> QED BY <1>3 DEF S

(* A subset of D that grows as often as D has further elements grows no    *)
(* more: as long as it does, every iterate has one element more.           *)
LEMMA GrowthEnds ==
  ASSUME NEW D, IsFiniteSet(D), NEW base \in SUBSET D, NEW grow, GrowsWithin(D, grow),
         NEW N \in Nat, Cardinality(D) <= N + Cardinality(base), NEW g, Grows(g, N, base, grow)
  PROVE  LET last == g[N] IN
         last \in SUBSET D /\ base \subseteq last /\ grow[last] = last
<1> USE DEF GrowsWithin, Grows
<1> DEFINE m == Cardinality(base)
           S == {n \in Nat : n <= N =>
                   /\ g[n] \in SUBSET D /\ g[0] \subseteq g[n]
                   /\ grow[g[n]] = g[n] \/ Cardinality(g[n]) >= n + m}
<1>0. m \in Nat /\ Cardinality(D) \in Nat /\ \A X \in SUBSET D : IsFiniteSet(X) /\ Cardinality(X) \in Nat
  BY FS_CardinalityType, FS_Subset
<1> HIDE DEF m
<1>1. 0 \in S
  BY <1>0 DEF m
<1>2. ASSUME NEW n \in Nat, n \in S PROVE n + 1 \in S
  <2> SUFFICES ASSUME n + 1 <= N
               PROVE  /\ g[n + 1] \in SUBSET D /\ g[0] \subseteq g[n + 1]
                      /\ grow[g[n + 1]] = g[n + 1] \/ Cardinality(g[n + 1]) >= n + 1 + m
    OBVIOUS
  <2>1. /\ g[n] \in SUBSET D /\ g[0] \subseteq g[n]
        /\ grow[g[n]] = g[n] \/ Cardinality(g[n]) >= n + m
    BY <1>2
  <2>2. g[n + 1] = grow[g[n]]
    <3>1. n + 1 \in 1 .. N /\ n + 1 - 1 = n
      OBVIOUS
    <3> QED BY <3>1
  <2>3. g[n + 1] \in SUBSET D /\ g[n] \subseteq g[n + 1]
    BY <2>1, <2>2
  <2>4. CASE grow[g[n]] = g[n]
    BY <2>1, <2>2, <2>4
  <2>5. CASE grow[g[n]] # g[n]
    <3>1. Cardinality(g[n]) >= n + m /\ g[n] # g[n + 1]
      BY <2>1, <2>2, <2>5
    <3>2. Cardinality(g[n]) < Cardinality(g[n + 1])
      BY <1>0, <2>3, <3>1, FS_Subset
    <3>3. Cardinality(g[n]) \in Nat /\ Cardinality(g[n + 1]) \in Nat
      BY <1>0, <2>1, <2>3
    <3>4. Cardinality(g[n + 1]) >= n + 1 + m
      BY <1>0, <3>1, <3>2, <3>3
    <3> QED BY <2>1, <2>3, <3>4
  <2> QED BY <2>4, <2>5
<1> HIDE DEF S
<1>3. N \in S
  BY <1>1, <1>2, SetInduction
<1>4. /\ g[N] \in SUBSET D /\ g[0] \subseteq g[N]
      /\ grow[g[N]] = g[N] \/ Cardinality(g[N]) >= N + m
  BY <1>3 DEF S
<1>5. CASE Cardinality(g[N]) >= N + m
  <2>1. g[N] = D
    <3>1. Cardinality(g[N]) \in Nat /\ Cardinality(D) <= N + m
      BY <1>0, <1>4 DEF m
    <3>2. Cardinality(g[N]) <= Cardinality(D) /\ (Cardinality(D) = Cardinality(g[N]) => D = g[N])
      BY <1>4, FS_Subset
    <3> QED BY <1>0, <1>5, <3>1, <3>2
  <2> QED BY <1>4, <2>1
<1> QED BY <1>4, <1>5

(* So does one that grows as often as D has elements.                      *)
LEMMA IterationsClose ==
  ASSUME NEW D, IsFiniteSet(D), NEW base \in SUBSET D, NEW grow, GrowsWithin(D, grow),
         NEW g, Grows(g, Cardinality(D), base, grow)
  PROVE  LET last == g[Cardinality(D)] IN
         last \in SUBSET D /\ base \subseteq last /\ grow[last] = last
<1>1. Cardinality(D) \in Nat /\ Cardinality(base) \in Nat
  BY FS_CardinalityType, FS_Subset
<1>2. Cardinality(D) <= Cardinality(D) + Cardinality(base)
  BY <1>1
<1> QED BY <1>1, <1>2, GrowthEnds

(* The image of a finite set is finite.                                    *)
LEMMA ImageIsFinite ==
  ASSUME NEW S, IsFiniteSet(S), NEW g, DOMAIN g = S
  PROVE  IsFiniteSet({g[x] : x \in S}) /\ Cardinality({g[x] : x \in S}) <= Cardinality(S)
<1> DEFINE T == {g[x] : x \in S}
           h == [x \in S |-> g[x]]
<1>1. h \in Surjection(S, T)
  BY DEF Surjection
<1> QED BY <1>1, FS_Surjection
=============================================================================
