------------------------ MODULE SSADestructionProofs -----------------------
(***************************************************************************)
(* Theorems about SSADestruction, for every set of functions and names.    *)
(* A version is replaced by one whose definition comes earlier, and        *)
(* earlier is a strict order because dominance is one: no value is ever    *)
(* replaced by itself, directly or through the replacements noted before.  *)
(***************************************************************************)
EXTENDS SSADestruction, SSAConstructionProofs

-----------------------------------------------------------------------------
(* The inductive invariant                                                 *)

(* The values of the function lie in its blocks.                           *)
Places == prog.blocks \X Int

(* u is defined before v: the runtime's result takes the place of the      *)
(* instruction it is coalesced with.                                       *)
Precedes(u, v) ==
  \/ u.kind = "lowered" /\ u.at = v.at
  \/ Dominates(prog, u.at, v.at)

(* A value stands for an earlier one of the same object.                   *)
EarlierVersion(u, v) == u \in LoweredValues /\ u.of = v.of /\ u.at \in Places /\ Precedes(u, v)

Descends(f) == \A v \in DOMAIN f : v \in Values /\ v.at \in Places /\ EarlierVersion(f[v], v)

LowInv ==
  /\ stage \in Stages
  /\ stage # "idle" => pc = "done"
  /\ stage = "idle" => DOMAIN low = {} /\ DOMAIN coalesced = {} /\ DOMAIN replaced = {}
  /\ DOMAIN low \subseteq DOMAIN operand
  /\ low \in [DOMAIN low -> LoweredValues]
  /\ coalesced \in [DOMAIN coalesced -> LoweredValues]
  /\ replaced \in [DOMAIN replaced -> LoweredValues]
  /\ staged \subseteq {x \in CodePositions(prog) : IsStaged(Instr(prog, x))}
  /\ split \subseteq CodePositions(prog)
  /\ cursor \in prog.blocks
  /\ layout \subseteq prog.blocks
  /\ victim \in Values \cup {NoValue}
  /\ candidate \in LoweredValues \cup {NoValue}
  /\ DOMAIN replaced \subseteq DOMAIN coalesced
  /\ LowKeepsNames
  /\ Descends(coalesced)
  /\ Descends(replaced)
  /\ \A s \in DOMAIN low : low[s] \notin DOMAIN replaced
  /\ stage = "find" => /\ victim \in DOMAIN coalesced
                       /\ EarlierVersion(candidate, victim)
  /\ stage \in {"layout", "find"} =>
       \A v \in DOMAIN coalesced : v \in DOMAIN replaced \/ v.at[1] \in layout \cup {cursor}
  /\ stage = "lowered" => DOMAIN coalesced = DOMAIN replaced

LEMMA VersionPlace ==
  ASSUME IInv, NEW v \in Values, IsVersion(v)
  PROVE  v.at \in Places
<1>1. prog \in Programs /\ insertedPhis \subseteq prog.blocks \X DefinedNames(prog)
  BY DEF IInv, TypeOK
<1>2. CASE v.kind = "name"
  <2>1. v.of \in DefinedNames(prog) /\ v = NameValue(prog, v.of)
    BY <1>2 DEF IsVersion
  <2> QED
    BY <1>1, <2>1, DefPositionFacts, NameValueFacts DEF Places
<1>3. CASE v.kind = "phi"
  <2>1. <<v.at[1], v.of>> \in insertedPhis /\ v = PhiValue(v.at[1], v.of)
    BY <1>3 DEF IsVersion
  <2>2. v.at = <<v.at[1], 0>>
    BY <2>1 DEF PhiValue
  <2> QED
    BY <1>1, <2>1, <2>2 DEF Places
<1>4. CASE v.kind = "redef"
  <2>1. v.at \in CodePositions(prog)
    BY <1>4 DEF IsVersion
  <2>2. /\ v.at = <<v.at[1], v.at[2]>>
        /\ v.at[1] \in prog.blocks
        /\ v.at[2] \in 1 .. Len(prog.code[v.at[1]])
    BY <1>1, <2>1, CodePositionFacts
  <2>3. Len(prog.code[v.at[1]]) \in Nat
    BY <1>1, <2>2, CodeLength
  <2>4. v.at[2] \in Int
    BY <2>2, <2>3
  <2> QED
    BY <2>2, <2>4 DEF Places
<1> QED
  BY <1>2, <1>3, <1>4 DEF Values

(* The object a new version was made from is an earlier version of it.     *)
LEMMA VersionFacts ==
  ASSUME IInv, NEW x \in CodePositions(prog), Redefines(Instr(prog, x))
  PROVE  /\ VersionAt(x) \in Values
         /\ VersionAt(x).kind = "redef"
         /\ VersionAt(x).at = x
         /\ VersionAt(x).at \in Places
         /\ EarlierVersion(ObjectAt(x), VersionAt(x))
<1> DEFINE s == ObjSite(x[1], x[2])
           ins == Instr(prog, x)
<1>1. prog \in Programs
  BY DEF IInv, TypeOK
<1>2. /\ x = <<x[1], x[2]>>
      /\ x[1] \in prog.blocks
      /\ x[2] \in 1 .. Len(prog.code[x[1]])
      /\ ins \in Instructions
      /\ Len(prog.code[x[1]]) \in Nat
  BY <1>1, CodePositionFacts, CodeLength
<1>3. ins.obj # Absent
  BY <1>1, ProgramsAssumption DEF WellFormed
<1>4. s \in SourceSites(prog)
  BY <1>3 DEF SourceSites
<1>5. s \in DOMAIN operand
  BY <1>4 DEF IInv, SitesInv
<1>6. s.at = x /\ s.slot = "obj" /\ s.edge = Absent
  BY <1>2 DEF ObjSite
<1>7. operand[s] \in Values
  BY <1>5 DEF IInv, TypeOK
<1>8. operand[s].of = ins.obj
  BY <1>5, <1>6 DEF IInv, OperandsKeepTheirNames, NameAt
<1>9. IsVersion(operand[s]) /\ Dominates(prog, operand[s].at, x)
  BY <1>2, <1>5, <1>6 DEF IInv, OperandsAreDefined, IsLookup, Point
<1>10. operand[s].at \in Places
  BY <1>7, <1>9, VersionPlace
<1>11. x \in Places /\ x \in Positions
  BY <1>1, <1>2 DEF Places, Positions, Blocks
<1>12. /\ VersionAt(x) = [kind |-> "redef", of |-> ins.obj, at |-> x]
       /\ ins.obj \in Names
  BY <1>2, <1>3 DEF VersionAt, Redefinition, Instructions
<1>13. VersionAt(x) \in Values
  BY <1>11, <1>12 DEF Values
<1> QED
  BY <1>7, <1>8, <1>9, <1>10, <1>11, <1>12, <1>13
  DEF EarlierVersion, LoweredValues, Precedes, ObjectAt

(* The runtime's result takes the place of the instruction that made it.   *)
LEMMA NewObjectFacts ==
  ASSUME IInv, NEW x \in CodePositions(prog), Instr(prog, x).def # Absent
  PROVE  LET v == NameValue(prog, Instr(prog, x).def) IN
         /\ v \in Values
         /\ v.kind = "name"
         /\ v.of = Instr(prog, x).def
         /\ v.at \in Places
         /\ EarlierVersion(Lowered(v.of), v)
<1> DEFINE n == Instr(prog, x).def
<1>1. prog \in Programs
  BY DEF IInv, TypeOK
<1>2. n \in DefinedNames(prog)
  <2>1. n \in Names
    BY <1>1, CodePositionFacts DEF Instructions
  <2>2. x \in DefPositions(prog, n)
    BY DEF DefPositions
  <2> QED
    BY <2>1, <2>2 DEF DefinedNames
<1>3. /\ NameValue(prog, n) \in Values
      /\ NameValue(prog, n).kind = "name"
      /\ NameValue(prog, n).of = n
      /\ NameValue(prog, n).at = DefPosition(prog, n)
  BY <1>1, <1>2, NameValueFacts
<1>4. /\ DefPosition(prog, n) \in prog.blocks \X Int
      /\ DefPosition(prog, n) \in Positions
      /\ n \in Names
  BY <1>1, <1>2, DefPositionFacts DEF Positions, Blocks
<1>5. EarlierVersion(Lowered(n), NameValue(prog, n))
  BY <1>3, <1>4 DEF Lowered, EarlierVersion, LoweredValues, Precedes, Places
<1> QED
  BY <1>3, <1>4, <1>5 DEF Places

-----------------------------------------------------------------------------
(* The steps of the pass                                                   *)

LEMMA LowInit == RInit => LowInv
<1> SUFFICES ASSUME RInit
             PROVE  LowInv
  OBVIOUS
<1>1. IInv
  BY InitInv DEF RInit, LInit
<1>2. prog \in Programs /\ prog.entry \in prog.blocks
  BY <1>1, GraphFacts DEF IInv, TypeOK
<1>3. /\ stage = "idle"
      /\ DOMAIN low = {} /\ low = [s \in DOMAIN low |-> NoValue]
      /\ DOMAIN coalesced = {} /\ coalesced = [s \in DOMAIN coalesced |-> NoValue]
      /\ DOMAIN replaced = {} /\ replaced = [s \in DOMAIN replaced |-> NoValue]
      /\ staged = {} /\ split = {} /\ cursor = prog.entry /\ layout = {}
      /\ victim = NoValue /\ candidate = NoValue
  BY DEF RInit, LInit
<1> QED
  BY <1>2, <1>3 DEF LowInv, Stages, LowKeepsNames, Descends

(* Coalesced values keep descending when values that descend are added.    *)
LEMMA VisitInv == IInv /\ LowInv /\ Visit => LowInv'
<1> SUFFICES ASSUME IInv, LowInv, Visit
             PROVE  LowInv'
  OBVIOUS
<1>1. /\ pc = "done" /\ stage = "idle" /\ stage' = "staged"
      /\ low' = [s \in {t \in DOMAIN operand : IsOperand(t)} |-> operand[s]]
      /\ coalesced' = [v \in WalkedVersions \cup Copies |-> StandsFor(v)]
      /\ staged' = {x \in CodePositions(prog) : IsStaged(Instr(prog, x))}
      /\ UNCHANGED <<prog, pc, operand, split, cursor, layout, victim, candidate, replaced>>
  BY DEF Visit, vars
<1>2. DOMAIN replaced = {}
  BY <1>1 DEF LowInv
<1>3. \A s \in DOMAIN operand : operand[s] \in LoweredValues /\ operand[s].of = NameAt(prog, s)
  BY DEF IInv, TypeOK, OperandsKeepTheirNames, LoweredValues
<1>4. ASSUME NEW v \in WalkedVersions \cup Copies
      PROVE  v \in Values /\ v.at \in Places /\ EarlierVersion(StandsFor(v), v)
  <2>1. CASE v \in Copies
    <3>1. PICK x \in CodePositions(prog) :
            Instr(prog, x).def # Absent /\ v = NameValue(prog, Instr(prog, x).def)
      BY <2>1 DEF Copies
    <3>2. v \in Values /\ v.at \in Places /\ EarlierVersion(Lowered(v.of), v)
      BY <3>1, NewObjectFacts
    <3> QED
      BY <2>1, <3>2 DEF StandsFor
  <2>2. CASE v \notin Copies
    <3>1. PICK x \in CodePositions(prog) : Redefines(Instr(prog, x)) /\ v = VersionAt(x)
      BY <2>2 DEF WalkedVersions
    <3>2. v \in Values /\ v.at \in Places /\ v.at = x /\ EarlierVersion(ObjectAt(x), v)
      BY <3>1, VersionFacts
    <3> QED
      BY <2>2, <3>2 DEF StandsFor
  <2> QED
    BY <2>1, <2>2
<1>5. LowKeepsNames'
  BY <1>1, <1>3 DEF LowKeepsNames
<1>6. Descends(coalesced)'
  BY <1>1, <1>4 DEF Descends, EarlierVersion, Precedes, Places
<1>7. coalesced' \in [DOMAIN coalesced' -> LoweredValues]
  BY <1>1, <1>4 DEF EarlierVersion
<1>8. low' \in [DOMAIN low' -> LoweredValues] /\ DOMAIN low' \subseteq DOMAIN operand
  BY <1>1, <1>3
<1> HIDE DEF LowKeepsNames
<1> QED
  BY <1>1, <1>2, <1>5, <1>6, <1>7, <1>8 DEF LowInv, Stages, Descends

(* What the two ways to add to coalesced_values have in common.            *)
LEMMA CoalescedGrows ==
  ASSUME LowInv, stage = "staged", UNCHANGED <<vars, low, cursor, layout, victim, candidate, replaced>>,
         stage' = stage,
         staged' \subseteq staged, split' \subseteq split \cup CodePositions(prog),
         NEW new \in SUBSET Values,
         NEW f, \A v \in new : v.at \in Places /\ EarlierVersion(f[v], v),
         coalesced' = [v \in DOMAIN coalesced \cup new |-> IF v \in new THEN f[v] ELSE coalesced[v]]
  PROVE  LowInv'
<1>1. UNCHANGED <<prog, pc, operand>>
  BY DEF vars
<1>2. Descends(coalesced)'
  BY <1>1 DEF LowInv, Descends, EarlierVersion, Precedes, Places
<1>3. coalesced' \in [DOMAIN coalesced' -> LoweredValues]
  BY DEF LowInv, EarlierVersion
<1>4. DOMAIN replaced' \subseteq DOMAIN coalesced'
  BY DEF LowInv
<1>5. LowKeepsNames' /\ Descends(replaced)'
  BY <1>1 DEF LowInv, LowKeepsNames, Descends, EarlierVersion, Precedes, Places
<1> QED
  BY <1>1, <1>2, <1>3, <1>4, <1>5 DEF LowInv, Stages

LEMMA LowerAllocInv == IInv /\ LowInv /\ LowerAlloc => LowInv'
<1> SUFFICES ASSUME IInv, LowInv, LowerAlloc
             PROVE  LowInv'
  OBVIOUS
<1>1. PICK x \in staged :
        /\ Instr(prog, x).op = "alloc"
        /\ coalesced' = Put(coalesced, NameValue(prog, Instr(prog, x).def),
                            Lowered(Instr(prog, x).def))
        /\ staged' = staged \ {x}
  BY DEF LowerAlloc
<1> DEFINE v == NameValue(prog, Instr(prog, x).def)
           f == [u \in {v} |-> Lowered(v.of)]
<1>2. x \in CodePositions(prog) /\ Instr(prog, x).def # Absent
  BY <1>1 DEF LowInv, IsStaged
<1>3. v \in Values /\ v.of = Instr(prog, x).def /\ v.at \in Places
        /\ EarlierVersion(Lowered(v.of), v)
  BY <1>2, NewObjectFacts
<1>4. coalesced' = [u \in DOMAIN coalesced \cup {v} |-> IF u \in {v} THEN f[u] ELSE coalesced[u]]
  BY <1>1, <1>3 DEF Put
<1>5. /\ stage = "staged" /\ stage' = stage /\ split' = split
      /\ UNCHANGED <<vars, low, cursor, layout, victim, candidate, replaced>>
  BY DEF LowerAlloc
<1>6. \A u \in {v} : u.at \in Places /\ EarlierVersion(f[u], u)
  BY <1>3
<1> HIDE DEF v, f
<1> QED
  BY <1>1, <1>3, <1>4, <1>5, <1>6, CoalescedGrows

LEMMA LowerFoldInv == IInv /\ LowInv /\ LowerFold => LowInv'
<1> SUFFICES ASSUME IInv, LowInv, LowerFold
             PROVE  LowInv'
  OBVIOUS
<1>1. PICK x \in staged :
        /\ coalesced' = [v \in DOMAIN coalesced \cup Choices(x) |->
                           IF v \in Choices(x) THEN ObjectAt(v.at) ELSE coalesced[v]]
        /\ split' = split \cup {x}
        /\ staged' = staged \ {x}
  BY DEF LowerFold
<1> DEFINE f == [v \in Choices(x) |-> ObjectAt(v.at)]
<1>2. ASSUME NEW r \in Choices(x)
      PROVE  r \in Values /\ r.at \in Places /\ EarlierVersion(f[r], r)
  <2>1. r \in ClosedRetPhis(x)
    BY DEF Choices, OwnRetPhis
  <2>2. PICK y \in CodePositions(prog) :
          Instr(prog, y).op = "fold" /\ Instr(prog, y).mutates /\ r = VersionAt(y)
    BY <2>1 DEF ClosedRetPhis, RetPhis
  <2>3. Redefines(Instr(prog, y))
    BY <2>2 DEF Redefines
  <2> QED
    BY <2>2, <2>3, VersionFacts
<1>3. coalesced' = [v \in DOMAIN coalesced \cup Choices(x) |->
                      IF v \in Choices(x) THEN f[v] ELSE coalesced[v]]
  BY <1>1
<1>4. /\ stage = "staged" /\ stage' = stage
      /\ UNCHANGED <<vars, low, cursor, layout, victim, candidate, replaced>>
  BY DEF LowerFold
<1>5. x \in CodePositions(prog)
  BY DEF LowInv
<1> HIDE DEF f
<1> QED
  BY <1>1, <1>2, <1>3, <1>4, <1>5, CoalescedGrows

LEMMA GiveUpInv == LowInv /\ GiveUp => LowInv'
BY DEF LowInv, GiveUp, vars, Stages, LowKeepsNames, Descends, EarlierVersion, Precedes, Places

LEMMA StagesDoneInv == IInv /\ LowInv /\ StagesDone => LowInv'
<1> SUFFICES ASSUME IInv, LowInv, StagesDone
             PROVE  LowInv'
  OBVIOUS
<1>1. prog \in Programs /\ prog.entry \in prog.blocks
  BY GraphFacts DEF IInv, TypeOK
<1>2. \A v \in DOMAIN coalesced : v.at[1] \in prog.blocks
  BY DEF LowInv, Descends, Places
<1> QED
  BY <1>1, <1>2
  DEF LowInv, StagesDone, vars, Stages, LowKeepsNames, Descends, EarlierVersion, Precedes, Places

LEMMA CoalesceInv == LowInv /\ Coalesce => LowInv'
<1> SUFFICES ASSUME LowInv, Coalesce
             PROVE  LowInv'
  OBVIOUS
<1>1. PICK v \in FirstWaiting(cursor) : victim' = v /\ candidate' = coalesced[v]
  BY DEF Coalesce
<1>2. v \in DOMAIN coalesced
  BY DEF FirstWaiting, Waiting
<1>3. v \in Values /\ EarlierVersion(coalesced[v], v)
  BY <1>2 DEF LowInv, Descends
<1>4. candidate' \in LoweredValues
  BY <1>1, <1>3 DEF EarlierVersion
<1>5. /\ stage = "layout" /\ stage' = "find"
      /\ UNCHANGED <<prog, pc, operand, low, coalesced, staged, split, cursor, layout, replaced>>
  BY DEF Coalesce, vars
<1>6. EarlierVersion(candidate, victim)'
  BY <1>1, <1>3, <1>5 DEF EarlierVersion, Precedes, Places
<1> QED
  BY <1>1, <1>2, <1>3, <1>4, <1>5, <1>6
  DEF LowInv, Stages, LowKeepsNames, Descends, EarlierVersion, Precedes, Places

(* What a chain of replacements leads to precedes what it started from.    *)
LEMMA EarlierTransitive ==
  ASSUME prog \in Programs, NEW u, NEW w \in Values, NEW v,
         w.at \in Places, v.at \in Places,
         EarlierVersion(u, w), EarlierVersion(w, v)
  PROVE  EarlierVersion(u, v)
<1>1. u \in LoweredValues /\ u.of = v.of /\ u.at \in Places
  BY DEF EarlierVersion
<1>2. Dominates(prog, w.at, v.at)
  BY DEF EarlierVersion, Precedes, Values
<1>3. CASE u.kind = "lowered" /\ u.at = w.at
  BY <1>1, <1>2, <1>3 DEF EarlierVersion, Precedes
<1>4. CASE Dominates(prog, u.at, w.at)
  BY <1>1, <1>2, <1>4, PointsTransitive DEF EarlierVersion, Precedes, Places
<1> QED
  BY <1>3, <1>4 DEF EarlierVersion, Precedes

LEMMA FollowReplacementInv == IInv /\ LowInv /\ FollowReplacement => LowInv'
<1> SUFFICES ASSUME IInv, LowInv, FollowReplacement
             PROVE  LowInv'
  OBVIOUS
<1>1. prog \in Programs
  BY DEF IInv, TypeOK
<1>2. /\ stage = "find" /\ candidate \in DOMAIN replaced /\ candidate' = replaced[candidate]
      /\ UNCHANGED <<prog, pc, operand, stage, low, coalesced, staged, split, cursor, layout,
                     victim, replaced>>
  BY DEF FollowReplacement, WasReplaced, vars
<1>3. /\ candidate \in Values /\ candidate.at \in Places
      /\ EarlierVersion(replaced[candidate], candidate)
  BY <1>2 DEF LowInv, Descends
<1>4. victim.at \in Places /\ EarlierVersion(candidate, victim)
  BY <1>2 DEF LowInv, Descends
<1>5. EarlierVersion(replaced[candidate], victim)
  BY <1>1, <1>3, <1>4, EarlierTransitive
<1>6. EarlierVersion(candidate, victim)' /\ candidate' \in LoweredValues
  BY <1>2, <1>5 DEF EarlierVersion, Precedes, Places
<1> QED
  BY <1>2, <1>6 DEF LowInv, Stages, LowKeepsNames, Descends, EarlierVersion, Precedes, Places

LEMMA ReplaceInv == IInv /\ LowInv /\ Replace => LowInv'
<1> SUFFICES ASSUME IInv, LowInv, Replace
             PROVE  LowInv'
  OBVIOUS
<1>1. prog \in Programs
  BY DEF IInv, TypeOK
<1>2. /\ stage = "find" /\ stage' = "layout" /\ candidate \notin DOMAIN replaced
      /\ low' = [s \in DOMAIN low |-> IF low[s] = victim THEN candidate ELSE low[s]]
      /\ replaced' = [v \in DOMAIN replaced \cup {victim} |->
                        IF v = victim THEN candidate ELSE replaced[v]]
      /\ UNCHANGED <<prog, pc, operand, coalesced, staged, split, cursor, layout, victim,
                     candidate>>
  BY DEF Replace, WasReplaced, Noted, Put, vars
<1>3. /\ victim \in DOMAIN coalesced /\ victim \in Values /\ victim.at \in Places
      /\ EarlierVersion(candidate, victim)
  BY <1>2 DEF LowInv, Descends
<1>4. candidate # victim
  <2>1. CASE candidate.kind = "lowered"
    BY <1>3, <2>1 DEF Values
  <2>2. CASE Dominates(prog, candidate.at, victim.at)
    BY <1>1, <1>3, <2>2, PointsStrict DEF Places
  <2> QED
    BY <1>3, <2>1, <2>2 DEF EarlierVersion, Precedes
<1>5. candidate \in LoweredValues /\ candidate.of = victim.of
  BY <1>3 DEF EarlierVersion
<1>6. LowKeepsNames'
  BY <1>2, <1>5 DEF LowInv, LowKeepsNames
<1>7. Descends(replaced)'
  BY <1>2, <1>3 DEF LowInv, Descends, EarlierVersion, Precedes, Places
<1>8. Descends(coalesced)'
  BY <1>2 DEF LowInv, Descends, EarlierVersion, Precedes, Places
<1>9. \A s \in DOMAIN low' : low'[s] \notin DOMAIN replaced'
  BY <1>2, <1>4 DEF LowInv
<1>10. low' \in [DOMAIN low' -> LoweredValues] /\ replaced' \in [DOMAIN replaced' -> LoweredValues]
  BY <1>2, <1>5 DEF LowInv
<1> QED
  BY <1>2, <1>3, <1>6, <1>7, <1>8, <1>9, <1>10 DEF LowInv, Stages

LEMMA NextInLayoutInv == LowInv /\ NextInLayout => LowInv'
<1> SUFFICES ASSUME LowInv, NextInLayout
             PROVE  LowInv'
  OBVIOUS
<1>1. PICK b \in layout : cursor' = b /\ layout' = layout \ {b}
  BY DEF NextInLayout
<1>2. /\ stage = "layout" /\ Waiting(cursor) = {}
      /\ UNCHANGED <<prog, pc, operand, stage, low, coalesced, staged, split, victim, candidate,
                     replaced>>
  BY DEF NextInLayout, vars
<1>3. \A v \in DOMAIN coalesced : v \in DOMAIN replaced \/ v.at[1] \in layout' \cup {cursor'}
  BY <1>1, <1>2 DEF LowInv, Waiting
<1> QED
  BY <1>1, <1>2, <1>3
  DEF LowInv, Stages, LowKeepsNames, Descends, EarlierVersion, Precedes, Places

LEMMA CleanupInv == LowInv /\ Cleanup => LowInv'
<1> SUFFICES ASSUME LowInv, Cleanup
             PROVE  LowInv'
  OBVIOUS
<1>1. /\ stage = "layout" /\ Waiting(cursor) = {} /\ layout = {} /\ stage' = "lowered"
      /\ low' = [s \in DOMAIN low |-> IF low[s] \in DOMAIN coalesced THEN NoValue ELSE low[s]]
      /\ UNCHANGED <<prog, pc, operand, coalesced, staged, split, cursor, layout, victim,
                     candidate, replaced>>
  BY DEF Cleanup, vars
<1>2. DOMAIN coalesced = DOMAIN replaced
  BY <1>1 DEF LowInv, Waiting
<1>3. low' = low
  BY <1>1, <1>2 DEF LowInv
<1> QED
  BY <1>1, <1>2, <1>3 DEF LowInv, Stages, LowKeepsNames, Descends, EarlierVersion, Precedes, Places

-----------------------------------------------------------------------------
(* The theorems                                                            *)

(* A step of construction belongs to a function that is not lowered yet.   *)
LEMMA ConstructInv == LowInv /\ Construct /\ UNCHANGED lowerVars => LowInv'
<1> SUFFICES ASSUME LowInv, Construct, UNCHANGED lowerVars
             PROVE  LowInv'
  OBVIOUS
<1>1. prog' = prog /\ pc # "done"
  BY DEF Construct, Walk, PickName, InsertPhis, NameDone, PickBlock, SubtreeDone, WalkDone, Begin,
         Follow, Rename, Advance, LeaveBlock
<1>2. stage = "idle"
  BY <1>1 DEF LowInv
<1>3. UNCHANGED <<stage, low, coalesced, staged, split, cursor, layout, victim, candidate, replaced>>
  BY DEF lowerVars
<1>4. CodePositions(prog)' = CodePositions(prog)
  BY <1>1
<1> QED
  BY <1>1, <1>2, <1>3, <1>4 DEF LowInv, LowKeepsNames, Descends

LEMMA StutterInv == LowInv /\ UNCHANGED <<vars, lowerVars>> => LowInv'
BY DEF LowInv, vars, lowerVars, Stages, LowKeepsNames, Descends, EarlierVersion, Precedes, Places

LEMMA LowNextInv == IInv /\ LowInv /\ [RNext]_allVars => IInv' /\ LowInv'
<1> SUFFICES ASSUME IInv, LowInv, [RNext]_allVars
             PROVE  IInv' /\ LowInv'
  OBVIOUS
<1>1. CASE Construct /\ UNCHANGED <<lowerVars, execVars>>
  BY <1>1, NextInv, ConstructInv DEF Next
<1>2. CASE Destruct /\ UNCHANGED execVars
  <2>1. UNCHANGED vars
    BY <1>2 DEF Destruct, Visit, LowerAlloc, LowerFold, GiveUp, StagesDone, Coalesce,
                FollowReplacement, Replace, NextInLayout, Cleanup
  <2>2. IInv'
    BY <2>1, NextInv
  <2>3. LowInv'
    BY <1>2, VisitInv, LowerAllocInv, LowerFoldInv, GiveUpInv, StagesDoneInv, CoalesceInv,
       FollowReplacementInv, ReplaceInv, NextInLayoutInv, CleanupInv DEF Destruct
  <2> QED
    BY <2>2, <2>3
<1>3. CASE UNCHANGED <<vars, lowerVars>>
  BY <1>3, NextInv, StutterInv
<1> QED
  BY <1>1, <1>2, <1>3 DEF RNext, RunInstruction, RunBranch, Stopped, allVars

LEMMA LowInvariance == RSpec => [](IInv /\ LowInv)
<1>1. RInit => IInv /\ LowInv
  BY InitInv, LowInit DEF RInit, LInit
<1>2. IInv /\ LowInv /\ [RNext]_allVars => (IInv /\ LowInv)'
  BY LowNextInv
<1> QED
  BY <1>1, <1>2, PTL DEF RSpec

(* The types of the state of destruction, for every function.              *)
THEOREM LowerTypeCorrect == RSpec => []LowerTypeOK
<1>1. LowInv => LowerTypeOK
  <2>1. LowInv => DOMAIN coalesced \subseteq Values
    BY DEF LowInv, Descends
  <2>2. LowInv => staged \subseteq CodePositions(prog)
    BY DEF LowInv
  <2> QED
    BY <2>1, <2>2 DEF LowInv, LowerTypeOK
<1> QED
  BY <1>1, LowInvariance, PTL

(* Destruction never makes an operand one of another object, whatever the  *)
(* order of the staged instructions and of the blocks.                     *)
THEOREM LowNamesAreKept == RSpec => []LowKeepsNames
<1>1. LowInv => LowKeepsNames
  BY DEF LowInv
<1> QED
  BY <1>1, LowInvariance, PTL

(* What do_coalesce has replaced is never used again, and what cleanup     *)
(* deletes has no use left, because replacements only lead to values       *)
(* defined earlier.                                                        *)
THEOREM NothingIsLeftDangling == RSpec => []NothingDangles
<1>1. LowInv => NothingDangles
  BY DEF LowInv, NothingDangles
<1> QED
  BY <1>1, LowInvariance, PTL

-----------------------------------------------------------------------------
(* The versions                                                            *)

(* The runtime's result for an instruction whose own one is in a set.      *)
IsResult(v, S) ==
  /\ v.kind = "lowered"
  /\ v.of \in DefinedNames(prog)
  /\ v = Lowered(v.of)
  /\ v.at \in CodePositions(prog)
  /\ NameValue(prog, v.of) \in S

(* The values of the lowered function: the versions, and the results that  *)
(* are coalesced with the instructions they are for.                       *)
IsValue(v) == IsVersion(v) \/ IsResult(v, DOMAIN coalesced)

(* Each version has a value to stand for, or its fold is yet to be lowered.*)
VersionsStand ==
  \A x \in CodePositions(prog) :
    Redefines(Instr(prog, x)) => VersionAt(x) \in DOMAIN coalesced \/ x \in staged

VersionInv ==
  /\ \A s \in DOMAIN low : IsValue(low[s])
  /\ \A v \in DOMAIN coalesced : IsValue(coalesced[v])
  /\ \A v \in DOMAIN replaced : IsValue(replaced[v])
  /\ stage = "find" => IsValue(candidate)
  /\ stage \notin {"idle", "unreachable"} => VersionsStand
  /\ stage \in {"layout", "find", "lowered"} => staged = {}

LEMMA ValuesStay ==
  UNCHANGED <<prog, insertedPhis>> /\ DOMAIN coalesced \subseteq DOMAIN coalesced'
    => \A v : IsValue(v) => IsValue(v)'
<1> SUFFICES ASSUME UNCHANGED <<prog, insertedPhis>>, DOMAIN coalesced \subseteq DOMAIN coalesced'
             PROVE  \A v : IsValue(v) => IsValue(v)'
  OBVIOUS
<1>1. \A v : IsVersion(v) => IsVersion(v)'
  BY DEF IsVersion
<1>2. \A v : IsResult(v, DOMAIN coalesced) => IsResult(v, DOMAIN coalesced)'
  BY DEF IsResult, Lowered
<1> QED
  BY <1>1, <1>2 DEF IsValue

LEMMA MadeResult ==
  ASSUME IInv, NEW x \in CodePositions(prog), Instr(prog, x).def # Absent
  PROVE  LET n == Instr(prog, x).def IN
         /\ n \in DefinedNames(prog)
         /\ DefPosition(prog, n) = x
         /\ IsResult(Lowered(n), {NameValue(prog, n)})
<1> DEFINE n == Instr(prog, x).def
<1>1. prog \in Programs
  BY DEF IInv, TypeOK
<1>2. n \in DefinedNames(prog) /\ x \in DefPositions(prog, n)
  <2>1. n \in Names
    BY <1>1, CodePositionFacts DEF Instructions
  <2>2. x \in DefPositions(prog, n)
    BY DEF DefPositions
  <2> QED
    BY <2>1, <2>2 DEF DefinedNames
<1>3. DefPosition(prog, n) = x
  BY <1>1, <1>2, DefPositionFacts, ProgramsAssumption DEF InSSAForm
<1> QED
  BY <1>2, <1>3 DEF IsResult, Lowered

LEMMA ObjectIsVersion ==
  ASSUME IInv, NEW x \in CodePositions(prog), Redefines(Instr(prog, x))
  PROVE  IsVersion(ObjectAt(x))
<1>1. Instr(prog, x).obj # Absent
  BY ProgramsAssumption DEF WellFormed, IInv, TypeOK
<1>2. ObjSite(x[1], x[2]) \in DOMAIN operand
  BY <1>1 DEF IInv, SitesInv, SourceSites
<1> QED
  BY <1>2 DEF ObjectAt, IInv, OperandsAreDefined

(* The RetPHI of a fold that closes over an object is among those its      *)
(* search chooses from, and it is chosen when any is.                      *)
LEMMA OwnVersionIsChosen ==
  ASSUME IInv, NEW x \in CodePositions(prog), Instr(prog, x).op = "fold",
         Redefines(Instr(prog, x)), ClosedRetPhis(x) = {} \/ Choices(x) # {}
  PROVE  VersionAt(x) \in Choices(x)
<1>1. prog \in Programs
  BY DEF IInv, TypeOK
<1>2. Instr(prog, x).mutates /\ Instr(prog, x).obj # Absent
  BY <1>1, ProgramsAssumption DEF WellFormed, Redefines
<1>3. VersionAt(x) \in RetPhis(ObjectAt(x))
  BY <1>2 DEF RetPhis
<1>4. VersionAt(x) \in ClosedRetPhis(x)
  BY <1>2, <1>3 DEF ClosedRetPhis
<1>5. VersionAt(x).at = x
  BY <1>2, VersionFacts
<1>6. VersionAt(x) \in OwnRetPhis(x)
  BY <1>4, <1>5 DEF OwnRetPhis, SameBlock
<1> QED
  BY <1>4, <1>6 DEF Choices

LEMMA VersionInit == RInit => VersionInv
BY DEF RInit, LInit, VersionInv

(* The steps that leave the notes of the pass as they are.                 *)
LEMMA VersionsRest ==
  ASSUME VersionInv, UNCHANGED <<prog, insertedPhis, low, coalesced, staged, replaced>>,
         stage' = "find" => IsValue(candidate'),
         stage' = stage \/ stage' \in {"unreachable", "layout", "find"},
         stage' \in {"layout", "find"} => staged = {} /\ stage \in {"staged", "layout", "find"}
  PROVE  VersionInv'
<1>1. \A v : IsValue(v) => IsValue(v)'
  BY ValuesStay
<1>2. VersionsStand => VersionsStand'
  BY DEF VersionsStand, VersionAt
<1>3. IsValue(candidate') => IsValue(candidate)'
  BY <1>1
<1> QED
  BY <1>1, <1>2, <1>3 DEF VersionInv

LEMMA VersionVisit == IInv /\ LowInv /\ VersionInv /\ Visit => VersionInv'
<1> SUFFICES ASSUME IInv, LowInv, VersionInv, Visit
             PROVE  VersionInv'
  OBVIOUS
<1>1. /\ stage = "idle" /\ stage' = "staged"
      /\ low' = [s \in {t \in DOMAIN operand : IsOperand(t)} |-> operand[s]]
      /\ coalesced' = [v \in WalkedVersions \cup Copies |-> StandsFor(v)]
      /\ staged' = {x \in CodePositions(prog) : IsStaged(Instr(prog, x))}
      /\ UNCHANGED <<prog, insertedPhis, operand, replaced>>
  BY DEF Visit, vars, phiVars
<1>2. DOMAIN replaced = {} /\ DOMAIN coalesced = {}
  BY <1>1 DEF LowInv
<1>3. \A v : IsVersion(v) => IsVersion(v)'
  BY <1>1 DEF IsVersion
<1>4. ASSUME NEW v \in WalkedVersions \cup Copies
      PROVE  IsVersion(StandsFor(v)) \/ IsResult(StandsFor(v), WalkedVersions \cup Copies)
  <2>1. CASE v \in Copies
    <3>1. PICK x \in CodePositions(prog) :
            Instr(prog, x).def # Absent /\ v = NameValue(prog, Instr(prog, x).def)
      BY <2>1 DEF Copies
    <3>2. v.of = Instr(prog, x).def /\ IsResult(Lowered(v.of), {v})
      BY <3>1, MadeResult, NewObjectFacts
    <3> QED
      BY <2>1, <3>2 DEF StandsFor, IsResult
  <2>2. CASE v \notin Copies
    <3>1. PICK x \in CodePositions(prog) : Redefines(Instr(prog, x)) /\ v = VersionAt(x)
      BY <2>2 DEF WalkedVersions
    <3>2. v.at = x
      BY <3>1, VersionFacts
    <3> QED
      BY <2>2, <3>1, <3>2, ObjectIsVersion DEF StandsFor
  <2> QED
    BY <2>1, <2>2
<1>5. VersionsStand'
  <2>1. ASSUME NEW x \in CodePositions(prog), Redefines(Instr(prog, x)), x \notin staged'
        PROVE  VersionAt(x) \in WalkedVersions
    BY <1>1, <2>1 DEF WalkedVersions, IsStaged
  <2> QED
    BY <1>1, <2>1 DEF VersionsStand, VersionAt
<1>6. \A v : IsResult(v, WalkedVersions \cup Copies) => IsResult(v, DOMAIN coalesced)'
  BY <1>1 DEF IsResult, Lowered
<1>7. (\A s \in DOMAIN low : IsValue(low[s]))'
  BY <1>1, <1>3 DEF IsValue, IInv, OperandsAreDefined
<1>8. (\A v \in DOMAIN coalesced : IsValue(coalesced[v]))'
  BY <1>1, <1>3, <1>4, <1>6 DEF IsValue
<1>9. (\A v \in DOMAIN replaced : IsValue(replaced[v]))'
  BY <1>1, <1>2
<1> QED
  BY <1>1, <1>5, <1>7, <1>8, <1>9 DEF VersionInv

(* Choosing RetPHIs, or nothing, and taking an instruction off staged.     *)
LEMMA VersionStaged ==
  ASSUME IInv, VersionInv, stage = "staged", stage' = stage,
         UNCHANGED <<prog, insertedPhis, low, replaced>>,
         NEW x \in CodePositions(prog), staged' = staged \ {x},
         NEW new, NEW f, \A v \in new : IsVersion(f[v]) \/ IsResult(f[v], new),
         coalesced' = [v \in DOMAIN coalesced \cup new |-> IF v \in new THEN f[v] ELSE coalesced[v]],
         Redefines(Instr(prog, x)) => VersionAt(x) \in new
  PROVE  VersionInv'
<1>1. VersionsStand'
  BY DEF VersionInv, VersionsStand, VersionAt
<1>2. \A v : IsValue(v) => IsValue(v)'
  BY ValuesStay
<1>3. \A v : IsVersion(v) => IsVersion(v)'
  BY DEF IsVersion
<1>4. \A v : IsResult(v, new) => IsResult(v, DOMAIN coalesced)'
  BY DEF IsResult, Lowered
<1>5. \A v \in new : IsValue(f[v])'
  BY <1>3, <1>4 DEF IsValue
<1>6. (\A v \in DOMAIN coalesced : IsValue(coalesced[v]))'
  BY <1>2, <1>5 DEF VersionInv
<1>7. (\A s \in DOMAIN low : IsValue(low[s]))'
  BY <1>2 DEF VersionInv
<1>8. (\A v \in DOMAIN replaced : IsValue(replaced[v]))'
  BY <1>2 DEF VersionInv
<1> QED
  BY <1>1, <1>6, <1>7, <1>8 DEF VersionInv

LEMMA VersionAlloc == IInv /\ LowInv /\ VersionInv /\ LowerAlloc => VersionInv'
<1> SUFFICES ASSUME IInv, LowInv, VersionInv, LowerAlloc
             PROVE  VersionInv'
  OBVIOUS
<1>1. PICK x \in staged :
        /\ Instr(prog, x).op = "alloc"
        /\ coalesced' = Put(coalesced, NameValue(prog, Instr(prog, x).def),
                            Lowered(Instr(prog, x).def))
        /\ staged' = staged \ {x}
  BY DEF LowerAlloc
<1> DEFINE v == NameValue(prog, Instr(prog, x).def)
           f == [u \in {v} |-> Lowered(Instr(prog, x).def)]
<1>2. x \in CodePositions(prog)
  BY DEF LowInv
<1>3. \A u \in {v} : IsResult(f[u], {v})
  BY <1>1, <1>2, MadeResult DEF LowInv, IsStaged
<1>4. coalesced' = [u \in DOMAIN coalesced \cup {v} |-> IF u \in {v} THEN f[u] ELSE coalesced[u]]
  BY <1>1 DEF Put
<1>5. stage = "staged" /\ stage' = stage /\ UNCHANGED <<prog, insertedPhis, low, replaced>>
  BY DEF LowerAlloc, vars, phiVars
<1>6. ~ Redefines(Instr(prog, x))
  BY <1>1 DEF Redefines
<1> HIDE DEF v, f
<1> QED
  BY <1>1, <1>2, <1>3, <1>4, <1>5, <1>6, VersionStaged

LEMMA VersionFold == IInv /\ LowInv /\ VersionInv /\ LowerFold => VersionInv'
<1> SUFFICES ASSUME IInv, LowInv, VersionInv, LowerFold
             PROVE  VersionInv'
  OBVIOUS
<1>1. PICK x \in staged :
        /\ Instr(prog, x).op = "fold"
        /\ ClosedRetPhis(x) = {} \/ Choices(x) # {}
        /\ coalesced' = [v \in DOMAIN coalesced \cup Choices(x) |->
                           IF v \in Choices(x) THEN ObjectAt(v.at) ELSE coalesced[v]]
        /\ staged' = staged \ {x}
  BY DEF LowerFold
<1> DEFINE f == [v \in Choices(x) |-> ObjectAt(v.at)]
<1>2. x \in CodePositions(prog)
  BY DEF LowInv
<1>3. ASSUME NEW v \in Choices(x)
      PROVE  IsVersion(f[v])
  <2>1. v \in ClosedRetPhis(x)
    BY DEF Choices, OwnRetPhis
  <2>2. PICK y \in CodePositions(prog) :
          Instr(prog, y).op = "fold" /\ Instr(prog, y).mutates /\ v = VersionAt(y)
    BY <2>1 DEF ClosedRetPhis, RetPhis
  <2>3. Redefines(Instr(prog, y))
    BY <2>2 DEF Redefines
  <2>4. v.at = y
    BY <2>2, <2>3, VersionFacts
  <2> QED
    BY <2>3, <2>4, ObjectIsVersion
<1>4. coalesced' = [v \in DOMAIN coalesced \cup Choices(x) |->
                      IF v \in Choices(x) THEN f[v] ELSE coalesced[v]]
  BY <1>1
<1>5. stage = "staged" /\ stage' = stage /\ UNCHANGED <<prog, insertedPhis, low, replaced>>
  BY DEF LowerFold, vars, phiVars
<1>6. Redefines(Instr(prog, x)) => VersionAt(x) \in Choices(x)
  BY <1>1, <1>2, OwnVersionIsChosen
<1> HIDE DEF f
<1> QED
  BY <1>1, <1>2, <1>3, <1>4, <1>5, <1>6, VersionStaged

LEMMA VersionLayout ==
  IInv /\ VersionInv /\ (GiveUp \/ StagesDone \/ Coalesce \/ FollowReplacement \/ NextInLayout)
    => VersionInv'
<1> SUFFICES ASSUME IInv, VersionInv,
                    GiveUp \/ StagesDone \/ Coalesce \/ FollowReplacement \/ NextInLayout
             PROVE  VersionInv'
  OBVIOUS
<1>1. CASE GiveUp
  BY <1>1, VersionsRest DEF GiveUp, vars, phiVars
<1>2. CASE StagesDone
  BY <1>2, VersionsRest DEF StagesDone, vars, phiVars
<1>3. CASE Coalesce
  <2>1. PICK v \in DOMAIN coalesced : candidate' = coalesced[v]
    BY <1>3 DEF Coalesce, FirstWaiting, Waiting
  <2>2. IsValue(candidate')
    BY <2>1 DEF VersionInv
  <2>3. staged = {} /\ stage = "layout" /\ stage' = "find"
    BY <1>3 DEF Coalesce, VersionInv
  <2>4. UNCHANGED <<prog, insertedPhis, low, coalesced, staged, replaced>>
    BY <1>3 DEF Coalesce, vars, phiVars
  <2> QED
    BY <2>2, <2>3, <2>4, VersionsRest
<1>4. CASE FollowReplacement
  <2>1. IsValue(candidate')
    BY <1>4 DEF FollowReplacement, WasReplaced, VersionInv
  <2>2. staged = {} /\ stage = "find" /\ stage' = "find"
    BY <1>4 DEF FollowReplacement, VersionInv
  <2>3. UNCHANGED <<prog, insertedPhis, low, coalesced, staged, replaced>>
    BY <1>4 DEF FollowReplacement, vars, phiVars
  <2> QED
    BY <2>1, <2>2, <2>3, VersionsRest
<1>5. CASE NextInLayout
  <2>1. staged = {} /\ stage = "layout" /\ stage' = "layout"
    BY <1>5 DEF NextInLayout, VersionInv
  <2>2. UNCHANGED <<prog, insertedPhis, low, coalesced, staged, replaced>>
    BY <1>5 DEF NextInLayout, vars, phiVars
  <2> QED
    BY <2>1, <2>2, VersionsRest
<1> QED
  BY <1>1, <1>2, <1>3, <1>4, <1>5

LEMMA VersionReplace == VersionInv /\ Replace => VersionInv'
<1> SUFFICES ASSUME VersionInv, Replace
             PROVE  VersionInv'
  OBVIOUS
<1>1. /\ stage = "find" /\ stage' = "layout"
      /\ low' = [s \in DOMAIN low |-> IF low[s] = victim THEN candidate ELSE low[s]]
      /\ replaced' = [v \in DOMAIN replaced \cup {victim} |->
                        IF v = victim THEN candidate ELSE replaced[v]]
      /\ UNCHANGED <<prog, insertedPhis, coalesced, staged>>
  BY DEF Replace, Noted, Put, vars, phiVars
<1>2. IsValue(candidate) /\ staged = {} /\ VersionsStand
  BY <1>1 DEF VersionInv
<1>3. \A v : IsValue(v) => IsValue(v)'
  BY <1>1, ValuesStay
<1>4. (\A s \in DOMAIN low : IsValue(low[s]))'
  BY <1>1, <1>2, <1>3 DEF VersionInv
<1>5. (\A v \in DOMAIN replaced : IsValue(replaced[v]))'
  BY <1>1, <1>2, <1>3 DEF VersionInv
<1>6. (\A v \in DOMAIN coalesced : IsValue(coalesced[v]))'
  BY <1>1, <1>3 DEF VersionInv
<1>7. VersionsStand'
  BY <1>1, <1>2 DEF VersionsStand, VersionAt
<1> QED
  BY <1>1, <1>2, <1>4, <1>5, <1>6, <1>7 DEF VersionInv

(* Cleanup deletes nothing that is in use, so it changes no operand.       *)
LEMMA VersionCleanup == LowInv /\ VersionInv /\ Cleanup => VersionInv'
<1> SUFFICES ASSUME LowInv, VersionInv, Cleanup
             PROVE  VersionInv'
  OBVIOUS
<1>1. /\ stage = "layout" /\ Waiting(cursor) = {} /\ layout = {} /\ stage' = "lowered"
      /\ low' = [s \in DOMAIN low |-> IF low[s] \in DOMAIN coalesced THEN NoValue ELSE low[s]]
      /\ UNCHANGED <<prog, insertedPhis, coalesced, staged, replaced>>
  BY DEF Cleanup, vars, phiVars
<1>2. DOMAIN coalesced = DOMAIN replaced
  BY <1>1 DEF LowInv, Waiting
<1>3. low' = low
  BY <1>1, <1>2 DEF LowInv
<1>4. staged = {} /\ VersionsStand
  BY <1>1 DEF VersionInv
<1>5. VersionsStand'
  BY <1>1, <1>4 DEF VersionsStand, VersionAt
<1>6. \A v : IsValue(v) => IsValue(v)'
  BY <1>1, ValuesStay
<1> QED
  BY <1>1, <1>3, <1>4, <1>5, <1>6 DEF VersionInv

LEMMA VersionNext == IInv /\ LowInv /\ VersionInv /\ [RNext]_allVars => VersionInv'
<1> SUFFICES ASSUME IInv, LowInv, VersionInv, [RNext]_allVars
             PROVE  VersionInv'
  OBVIOUS
<1>1. CASE Construct /\ UNCHANGED <<lowerVars, execVars>>
  <2>1. pc # "done"
    BY <1>1 DEF Construct, Walk, PickName, InsertPhis, NameDone, PickBlock, SubtreeDone, WalkDone,
                Begin, Follow, Rename, Advance, LeaveBlock
  <2>2. stage = "idle" /\ UNCHANGED <<stage, low, coalesced, staged, replaced>>
    BY <1>1, <2>1 DEF LowInv, lowerVars
  <2>3. DOMAIN low = {} /\ DOMAIN coalesced = {} /\ DOMAIN replaced = {}
    BY <2>2 DEF LowInv
  <2> QED
    BY <2>2, <2>3 DEF VersionInv
<1>2. CASE Destruct /\ UNCHANGED execVars
  BY <1>2, VersionVisit, VersionAlloc, VersionFold, VersionLayout, VersionReplace, VersionCleanup
  DEF Destruct
<1>3. CASE UNCHANGED <<vars, lowerVars>>
  <2>1. candidate' = candidate
          /\ UNCHANGED <<stage, prog, insertedPhis, low, coalesced, staged, replaced>>
    BY <1>3 DEF vars, phiVars, lowerVars
  <2>2. /\ stage' = "find" => IsValue(candidate')
        /\ stage' \in {"layout", "find"} => staged = {} /\ stage \in {"staged", "layout", "find"}
    BY <2>1 DEF VersionInv
  <2> QED
    BY <2>1, <2>2, VersionsRest
<1> QED
  BY <1>1, <1>2, <1>3 DEF RNext, RunInstruction, RunBranch, Stopped, allVars

LEMMA VersionsAreGone == LowInv /\ VersionInv => NoVersionIsLeft
<1> SUFFICES ASSUME LowInv, VersionInv, stage = "lowered",
                    NEW s \in DOMAIN low, low[s].kind = "redef"
             PROVE  FALSE
  BY DEF NoVersionIsLeft
<1>1. /\ low[s].at \in CodePositions(prog)
      /\ Redefines(Instr(prog, low[s].at))
      /\ low[s] = VersionAt(low[s].at)
  BY DEF VersionInv, IsValue, IsVersion, IsResult, VersionAt
<1>2. low[s] \in DOMAIN coalesced
  BY <1>1 DEF VersionInv, VersionsStand
<1> QED
  BY <1>2 DEF LowInv

(* No operand of the lowered function is a new version of an object: what  *)
(* each stands for was found, the RetPHIs of folds too, and it was         *)
(* replaced by a value that exists at run time.                            *)
THEOREM NoVersionRemains == RSpec => []NoVersionIsLeft
<1>1. RInit => IInv /\ LowInv /\ VersionInv
  BY InitInv, LowInit, VersionInit DEF RInit, LInit
<1>2. IInv /\ LowInv /\ VersionInv /\ [RNext]_allVars => (IInv /\ LowInv /\ VersionInv)'
  BY LowNextInv, VersionNext
<1> QED
  BY <1>1, <1>2, VersionsAreGone, PTL DEF RSpec

-----------------------------------------------------------------------------
(* The run of the lowered function                                         *)

(* The operands of the lowered function are those construction left, each  *)
(* with a value defined before it.                                         *)
OperandsInv ==
  /\ stage # "idle" => DOMAIN low = {s \in DOMAIN operand : IsOperand(s)}
  /\ \A s \in DOMAIN low : Dominates(prog, low[s].at, Point(prog, s))

LEMMA PointPlace ==
  ASSUME NEW p \in Programs, NEW s \in Sites, NEW x \in p.blocks \X Int,
         Dominates(p, x, Point(p, s))
  PROVE  Point(p, s) \in p.blocks \X Int
<1>1. Point(p, s)[1] \in p.blocks
  <2>1. p.dom \subseteq p.blocks \X p.blocks
    BY GraphFacts DEF AnalysisIsSound, DominatorPairs
  <2> QED
    BY <2>1 DEF Dominates
<1>2. CASE s.edge = Absent
  BY <1>1, <1>2 DEF Point, Sites, Positions
<1>3. CASE s.edge # Absent
  BY <1>1, <1>3, CodeLength DEF Point, Terminator
<1> QED
  BY <1>2, <1>3

LEMMA OperandsInit == RInit => OperandsInv
BY DEF RInit, LInit, OperandsInv

LEMMA OperandsNext ==
  IInv /\ LowInv /\ OperandsInv /\ [RNext]_allVars => OperandsInv'
<1> SUFFICES ASSUME IInv, LowInv, OperandsInv, [RNext]_allVars
             PROVE  OperandsInv'
  OBVIOUS
<1>1. prog \in Programs
  BY DEF IInv, TypeOK
<1>2. CASE UNCHANGED <<prog, operand, low>> /\ (stage' # "idle" => stage # "idle")
  BY <1>2 DEF OperandsInv, Point, Terminator, Dominates, IsOperand
<1>3. CASE Construct /\ UNCHANGED <<lowerVars, execVars>>
  <2>1. pc # "done"
    BY <1>3 DEF Construct, Walk, PickName, InsertPhis, NameDone, PickBlock, SubtreeDone, WalkDone,
                Begin, Follow, Rename, Advance, LeaveBlock
  <2>2. stage = "idle" /\ UNCHANGED <<stage, low>>
    BY <1>3, <2>1 DEF LowInv, lowerVars
  <2>3. DOMAIN low = {}
    BY <2>2 DEF LowInv
  <2> QED
    BY <2>2, <2>3 DEF OperandsInv
<1>4. CASE Visit
  <2>1. /\ low' = [s \in {t \in DOMAIN operand : IsOperand(t)} |-> operand[s]]
        /\ prog' = prog /\ operand' = operand
    BY <1>4 DEF Visit, vars
  <2>2. ASSUME NEW s \in DOMAIN operand, IsOperand(s)
        PROVE  Dominates(prog, operand[s].at, Point(prog, s))
    <3>1. IsLookup(s) => s.slot \in Names
      BY DEF IInv, TypeOK, SitesInv, DefinedNames
    <3>2. ~ IsLookup(s)
      BY <2>2, <3>1, NamesAssumption DEF IsOperand, IsLookup
    <3> QED
      BY <3>2 DEF IInv, OperandsAreDefined
  <2> QED
    BY <2>1, <2>2 DEF OperandsInv, Point, Terminator, Dominates, IsOperand
<1>5. CASE Replace
  <2>1. /\ low' = [s \in DOMAIN low |-> IF low[s] = victim THEN candidate ELSE low[s]]
        /\ stage = "find" /\ stage' = "layout" /\ prog' = prog /\ operand' = operand
    BY <1>5 DEF Replace, vars
  <2>2. victim.at \in Places /\ EarlierVersion(candidate, victim)
    BY <2>1 DEF LowInv, Descends
  <2>3. ASSUME NEW s \in DOMAIN low
        PROVE  Dominates(prog, low'[s].at, Point(prog, s))
    <3>1. CASE low[s] = victim
      <4>1. Dominates(prog, victim.at, Point(prog, s)) /\ low'[s] = candidate
        BY <2>1, <3>1 DEF OperandsInv
      <4>2. s \in Sites
        BY DEF LowInv, IInv, TypeOK
      <4>3. Point(prog, s) \in Places
        BY <1>1, <2>2, <4>1, <4>2, PointPlace DEF Places
      <4> QED
        BY <1>1, <2>2, <4>1, <4>3, PointsTransitive DEF EarlierVersion, Precedes, Places
    <3>2. CASE low[s] # victim
      BY <2>1, <3>2 DEF OperandsInv
    <3> QED
      BY <3>1, <3>2
  <2> QED
    BY <2>1, <2>3 DEF OperandsInv, Point, Terminator, Dominates, IsOperand
<1>6. CASE Cleanup
  <2>1. /\ stage = "layout" /\ stage' = "lowered" /\ prog' = prog /\ operand' = operand
        /\ Waiting(cursor) = {} /\ layout = {}
        /\ low' = [s \in DOMAIN low |-> IF low[s] \in DOMAIN coalesced THEN NoValue ELSE low[s]]
    BY <1>6 DEF Cleanup, vars
  <2>2. DOMAIN coalesced = DOMAIN replaced
    BY <2>1 DEF LowInv, Waiting
  <2>3. low' = low
    BY <2>1, <2>2 DEF LowInv
  <2> QED
    BY <1>2, <2>1, <2>3
<1> QED
  BY <1>2, <1>3, <1>4, <1>5, <1>6
  DEF RNext, Destruct, RunInstruction, RunBranch, Stopped, allVars, vars, lowerVars, LowerAlloc,
      LowerFold, GiveUp, StagesDone, Coalesce, FollowReplacement, NextInLayout

(* The values that cleanup leaves.                                         *)
Remains(u) == u \in LoweredValues /\ IsValue(u) /\ u.kind # "redef" /\ u \notin DOMAIN coalesced

RunPoint == <<rblock, ridx>>

(* Each value that is available where the run is refers to the object its  *)
(* name does in the source.                                                *)
RefersRight ==
  \A u : Remains(u) /\ Dominates(prog, u.at, RunPoint) =>
    /\ u.of \in DOMAIN sourceRef
    /\ u \in DOMAIN ref
    /\ ref[u] = sourceRef[u.of]

RunInv ==
  /\ rblock \in prog.blocks
  /\ ridx \in 1 .. Len(prog.code[rblock]) + 1
  /\ stage = "lowered" => RefersRight
  /\ stage # "lowered" =>
       /\ rblock = prog.entry
       /\ ridx = 1
       /\ sourceRef = [n \in prog.args |-> <<"arg", n>>]
       /\ ref = [v \in {NameValue(prog, n) : n \in prog.args} |-> <<"arg", v.of>>]

(* Where a name is defined.                                                *)
LEMMA DefPositionCases ==
  ASSUME NEW p \in Programs, NEW n \in DefinedNames(p)
  PROVE  LET x == DefPosition(p, n) IN
         \/ n \in p.args /\ x = <<p.entry, -1>>
         \/ <<x[1], n>> \in SourcePhis(p) /\ x = <<x[1], 0>> /\ x[1] # p.entry
         \/ x \in CodePositions(p) /\ x[2] >= 1 /\ Instr(p, x).def = n
<1> DEFINE x == DefPosition(p, n)
<1>1. x \in DefPositions(p, n)
  BY DefPositionFacts
<1>2. CASE x \in {<<p.entry, -1>> : m \in p.args \cap {n}}
  BY <1>2
<1>3. CASE x \in {<<b, 0>> : b \in {c \in p.blocks : <<c, n>> \in SourcePhis(p)}}
  <2>1. PICK b \in p.blocks : x = <<b, 0>> /\ <<b, n>> \in SourcePhis(p)
    BY <1>3
  <2>2. n \in DOMAIN p.phis[b]
    BY <2>1, SourcePhiFacts
  <2>3. b # p.entry
    BY <2>2, ProgramsAssumption DEF WellFormed
  <2> QED
    BY <2>1, <2>3
<1>4. CASE x \in CodePositions(p) /\ Instr(p, x).def = n
  BY <1>4, CodePositionFacts, CodeLength
<1> QED
  BY <1>1, <1>2, <1>3, <1>4 DEF DefPositions

(* What remains is defined where its name is, or it is a PHI below.        *)
LEMMA RemainsFacts ==
  ASSUME IInv, PhisBelow, NEW u, Remains(u)
  PROVE  /\ u.of \in DefinedNames(prog)
         /\ u.at \in prog.blocks \X Int
         /\ \/ /\ u.at = DefPosition(prog, u.of)
               /\ u.kind = "name" /\ u = NameValue(prog, u.of) /\ u \notin DOMAIN coalesced
            \/ /\ u.at = DefPosition(prog, u.of)
               /\ u.kind = "lowered" /\ u = Lowered(u.of) /\ u.at \in CodePositions(prog)
               /\ NameValue(prog, u.of) \in DOMAIN coalesced
            \/ /\ u.kind = "phi" /\ u = PhiValue(u.at[1], u.of)
               /\ u.at = <<u.at[1], 0>> /\ u.at[2] = 0
               /\ <<u.at[1], u.of>> \in insertedPhis
               /\ u.at[1] # prog.entry
               /\ Dominates(prog, DefPosition(prog, u.of), u.at)
<1>1. prog \in Programs /\ insertedPhis \subseteq prog.blocks \X DefinedNames(prog)
  BY DEF IInv, TypeOK
<1>2. CASE u.kind = "name"
  <2>1. u.of \in DefinedNames(prog) /\ u = NameValue(prog, u.of) /\ u \notin DOMAIN coalesced
    BY <1>2 DEF Remains, IsValue, IsVersion, IsResult
  <2> QED
    BY <1>1, <1>2, <2>1, NameValueFacts, DefPositionFacts
<1>3. CASE u.kind = "lowered"
  <2>1. IsResult(u, DOMAIN coalesced)
    BY <1>3 DEF Remains, IsValue, IsVersion
  <2>2. u.at = DefPosition(prog, u.of)
    BY <2>1 DEF IsResult, Lowered
  <2> QED
    BY <1>1, <1>3, <2>1, <2>2, DefPositionFacts DEF IsResult
<1>4. CASE u.kind = "phi"
  <2>1. <<u.at[1], u.of>> \in insertedPhis /\ u = PhiValue(u.at[1], u.of)
    BY <1>4 DEF Remains, IsValue, IsVersion, IsResult
  <2>2. u.at = <<u.at[1], 0>> /\ u.at[2] = 0
    <3>1. u.at = <<u.at[1], 0>>
      BY <2>1 DEF PhiValue
    <3> QED
      BY <3>1
  <2>3. /\ u.at[1] # prog.entry
        /\ Dominates(prog, DefPosition(prog, u.of), <<u.at[1], 0>>)
    BY <2>1 DEF PhisBelow
  <2> QED
    BY <1>1, <1>4, <2>1, <2>2, <2>3
<1> QED
  BY <1>2, <1>3, <1>4 DEF Remains, LoweredValues, Values

(* It is at an instruction, or before those of its block.                  *)
LEMMA RemainsPlaces ==
  ASSUME IInv, PhisBelow, NEW u, Remains(u)
  PROVE  /\ u.at[2] < 1 => u.at = <<prog.entry, -1>> \/ u.at = <<u.at[1], 0>>
         /\ u.at[2] <= Len(prog.code[u.at[1]])
<1>1. prog \in Programs
  BY DEF IInv, TypeOK
<1>2. u.of \in DefinedNames(prog) /\ u.at[1] \in prog.blocks
  BY RemainsFacts
<1>3. Len(prog.code[u.at[1]]) \in Nat
  BY <1>1, <1>2, CodeLength
<1>4. CASE u.at = DefPosition(prog, u.of)
  <2>1. CASE u.at = <<prog.entry, -1>>
    <3>1. u.at[2] = -1
      BY <2>1
    <3> QED
      BY <1>3, <2>1, <3>1
  <2>2. CASE u.at = <<u.at[1], 0>>
    <3>1. u.at[2] = 0
      BY <2>2
    <3> QED
      BY <1>3, <2>2, <3>1
  <2>3. CASE u.at \in CodePositions(prog) /\ u.at[2] >= 1
    <3>1. u.at[2] \in 1 .. Len(prog.code[u.at[1]])
      BY <1>1, <2>3, CodePositionFacts, CodeLength
    <3> QED
      BY <1>3, <3>1
  <2> QED
    BY <1>1, <1>2, <1>4, <2>1, <2>2, <2>3, DefPositionCases
<1>5. CASE u.at # DefPosition(prog, u.of)
  <2>1. u.at = <<u.at[1], 0>> /\ u.at[2] = 0
    BY <1>5, RemainsFacts
  <2> QED
    BY <1>3, <2>1
<1> QED
  BY <1>4, <1>5

(* What is available after an instruction was so before, or is the result. *)
LEMMA OneStepOn ==
  ASSUME NEW p \in Programs, NEW b, NEW i \in Int, NEW x \in p.blocks \X Int,
         Dominates(p, x, <<b, i + 1>>)
  PROVE  x = <<b, i>> \/ Dominates(p, x, <<b, i>>)
<1>1. x = <<x[1], x[2]>> /\ x[2] \in Int
  OBVIOUS
<1>2. CASE x[1] = b
  <2>1. x[2] < i + 1
    BY <1>2 DEF Dominates
  <2>2. x[2] = i \/ x[2] < i
    BY <1>1, <2>1
  <2> QED
    BY <1>1, <1>2, <2>2 DEF Dominates
<1>3. CASE x[1] # b
  BY <1>3 DEF Dominates
<1> QED
  BY <1>2, <1>3

LEMMA NoneBothWays ==
  ASSUME NEW p \in Programs, NEW x \in p.blocks \X Int, NEW y \in p.blocks \X Int,
         Dominates(p, x, y), Dominates(p, y, x)
  PROVE  FALSE
BY PointsTransitive, PointsStrict

LEMMA RunInstructionInv ==
  ASSUME IInv, PhisBelow, LowInv, RunInv, RunInstruction
  PROVE  RunInv'
<1>1. prog \in Programs
  BY DEF IInv, TypeOK
<1>2. /\ stage = "lowered" /\ rblock' = rblock /\ ridx' = ridx + 1
      /\ ridx <= Len(prog.code[rblock])
      /\ UNCHANGED <<prog, insertedPhis, stage, coalesced>>
  BY DEF RunInstruction, AtCode, CanRun, vars, phiVars, lowerVars
<1>3. rblock \in prog.blocks /\ ridx \in 1 .. Len(prog.code[rblock]) /\ RefersRight
  BY <1>1, <1>2, CodeLength DEF RunInv
<1>4. <<rblock, ridx>> \in CodePositions(prog)
  BY <1>1, <1>3, CodePositionIntro
<1>5. Current = Instr(prog, <<rblock, ridx>>)
  BY DEF Current, Instr
<1> DEFINE n == Current.def
           o == <<"new", steps + 1>>
<1>6. Len(prog.code[rblock]) \in Nat /\ ridx \in Int /\ ridx >= 1
  BY <1>1, <1>3, CodeLength
<1>7. ASSUME NEW u, Remains(u), Dominates(prog, u.at, <<rblock, ridx + 1>>)
      PROVE  \/ n # Absent /\ u.of = n /\ u = Result(Current)
             \/ u.of # n /\ Dominates(prog, u.at, RunPoint)
  <2>1. u.at \in prog.blocks \X Int /\ u.of \in DefinedNames(prog)
    BY <1>7, RemainsFacts
  <2>2. u.at = <<rblock, ridx>> \/ Dominates(prog, u.at, <<rblock, ridx>>)
    BY <1>1, <1>6, <1>7, <2>1, OneStepOn
  <2>3. u.of # Absent
    BY <2>1, NamesAssumption DEF DefinedNames
  <2>4. CASE u.at = <<rblock, ridx>>
    <3>1. u.at[2] # 0
      BY <1>6, <2>4
    <3>2. /\ u.at = DefPosition(prog, u.of)
          /\ \/ u = NameValue(prog, u.of) /\ u \notin DOMAIN coalesced
             \/ u = Lowered(u.of) /\ NameValue(prog, u.of) \in DOMAIN coalesced
      BY <1>7, <3>1, RemainsFacts
    <3>3. u.at = DefPosition(prog, u.of) /\ (u = Result(Current) \/ u.of # n)
      BY <3>2 DEF Result
    <3>4. Instr(prog, u.at).def = u.of
      <4>1. u.at # <<prog.entry, -1>> /\ u.at # <<u.at[1], 0>>
        BY <1>6, <2>4
      <4> QED
        BY <1>1, <2>1, <3>3, <4>1, DefPositionCases
    <3> QED
      BY <1>5, <2>3, <2>4, <3>3, <3>4
  <2>5. CASE u.at # <<rblock, ridx>> /\ u.of = n
    <3>1. DefPosition(prog, n) = <<rblock, ridx>>
      BY <1>4, <1>5, <2>3, <2>5, MadeResult
    <3>2. u.at # DefPosition(prog, u.of)
      BY <2>5, <3>1
    <3>3. Dominates(prog, <<rblock, ridx>>, u.at)
      BY <1>7, <2>5, <3>1, <3>2, RemainsFacts
    <3>4. <<rblock, ridx>> \in prog.blocks \X Int
      BY <1>3, <1>6
    <3> QED
      BY <1>1, <2>1, <2>2, <2>5, <3>3, <3>4, NoneBothWays
  <2>6. CASE u.at # <<rblock, ridx>> /\ u.of # n
    BY <2>2, <2>6 DEF RunPoint
  <2> QED
    BY <2>4, <2>5, <2>6
<1>8. \A u : Remains(u)' => Remains(u)
  BY <1>2 DEF Remains, IsValue, IsVersion, IsResult, Lowered
<1>9. IF n = Absent THEN UNCHANGED <<sourceRef, ref>>
      ELSE /\ sourceRef' = Put(sourceRef, n, o)
           /\ ref' = Put(ref, Result(Current), o)
  BY DEF RunInstruction
<1>10. ASSUME NEW u, Remains(u), Dominates(prog, u.at, <<rblock, ridx + 1>>)
       PROVE  u.of \in DOMAIN sourceRef' /\ u \in DOMAIN ref' /\ ref'[u] = sourceRef'[u.of]
  <2>1. CASE n # Absent /\ u.of = n /\ u = Result(Current)
    BY <1>9, <2>1 DEF Put
  <2>2. CASE u.of # n /\ Dominates(prog, u.at, RunPoint)
    <3>1. u.of \in DOMAIN sourceRef /\ u \in DOMAIN ref /\ ref[u] = sourceRef[u.of]
      BY <1>3, <1>10, <2>2 DEF RefersRight
    <3>2. Result(Current).of = n
      BY DEF Result, Lowered, NameValue
    <3> QED
      BY <1>9, <2>2, <3>1, <3>2 DEF Put
  <2> QED
    BY <1>7, <1>10, <2>1, <2>2
<1>11. RefersRight'
  BY <1>2, <1>8, <1>10 DEF RefersRight, RunPoint, Dominates
<1>12. ridx + 1 \in 1 .. Len(prog.code[rblock]) + 1
  BY <1>3, <1>6
<1> QED
  BY <1>2, <1>3, <1>11, <1>12 DEF RunInv

LEMMA RunBranchInv ==
  ASSUME IInv, PhisBelow, LowInv, VersionInv, OperandsInv, RunInv, RunBranch
  PROVE  RunInv'
<1>1. prog \in Programs
  BY DEF IInv, TypeOK
<1>2. /\ stage = "lowered" /\ ridx' = 1
      /\ ridx > Len(prog.code[rblock])
      /\ UNCHANGED <<prog, insertedPhis, stage, coalesced>>
  BY DEF RunBranch, CanRun, vars, phiVars, lowerVars
<1>3. rblock \in prog.blocks /\ ridx = Len(prog.code[rblock]) + 1 /\ RefersRight
  BY <1>1, <1>2, CodeLength DEF RunInv
<1>4. PICK k \in DOMAIN prog.succ[rblock] :
       LET t == prog.succ[rblock][k]
           e == <<rblock, k>>
           own == DOMAIN prog.phis[t]
           phis == {NameValue(prog, n) : n \in own}
                     \cup {PhiValue(t, n) : n \in {m \in Names : <<t, m>> \in insertedPhis}}
           Incoming(v) == low[PhiSite(t, v.of, e)]
           defined == {v \in phis : Incoming(v) \in DOMAIN ref}
       IN  /\ rblock' = t
           /\ ref' = [v \in DOMAIN ref \cup defined |->
                        IF v \in defined THEN ref[Incoming(v)] ELSE ref[v]]
           /\ sourceRef' = [n \in DOMAIN sourceRef \cup own |->
                              IF n \in own THEN sourceRef[prog.phis[t][n][e]] ELSE sourceRef[n]]
  BY DEF RunBranch
<1> DEFINE t == prog.succ[rblock][k]
           e == <<rblock, k>>
           own == DOMAIN prog.phis[t]
           phis == {NameValue(prog, n) : n \in own}
                     \cup {PhiValue(t, n) : n \in {m \in Names : <<t, m>> \in insertedPhis}}
           Incoming(v) == low[PhiSite(t, v.of, e)]
           defined == {v \in phis : Incoming(v) \in DOMAIN ref}
<1>5. /\ rblock' = t
      /\ ref' = [v \in DOMAIN ref \cup defined |->
                   IF v \in defined THEN ref[Incoming(v)] ELSE ref[v]]
      /\ sourceRef' = [n \in DOMAIN sourceRef \cup own |->
                         IF n \in own THEN sourceRef[prog.phis[t][n][e]] ELSE sourceRef[n]]
  BY <1>4
<1>6. /\ t \in prog.blocks /\ t # prog.entry /\ e \in EdgesInto(prog, t)
      /\ rblock \in Preds(prog, t) /\ e # Absent
  <2>1. t \in SuccSet(prog, rblock)
    BY DEF SuccSet
  <2>2. t \in prog.blocks /\ t # prog.entry
    BY <1>1, <1>3, <2>1, SuccessorFacts
  <2>3. e \in EdgesInto(prog, t)
    BY <1>3 DEF EdgesInto, Edges
  <2> QED
    BY <1>1, <1>3, <2>1, <2>2, <2>3, EdgeFacts DEF Preds
<1>7. \A v \in phis : \/ v.of \in own /\ v = NameValue(prog, v.of)
                      \/ v = PhiValue(t, v.of) /\ <<t, v.of>> \in insertedPhis
  <2> TAKE v \in phis
  <2>1. CASE \E n \in own : v = NameValue(prog, n)
    BY <2>1 DEF NameValue
  <2>2. CASE \E n \in Names : <<t, n>> \in insertedPhis /\ v = PhiValue(t, n)
    BY <2>2 DEF PhiValue
  <2> QED
    BY <2>1, <2>2
<1>8. \A n \in own : n \in DefinedNames(prog) /\ DefPosition(prog, n) = <<t, 0>>
  <2> TAKE n \in own
  <2>1. <<t, n>> \in SourcePhis(prog)
    BY <1>6 DEF SourcePhis
  <2>2. n \in Names /\ <<t, 0>> \in DefPositions(prog, n)
    BY <1>1, <1>6, <2>1, SourcePhiFacts DEF DefPositions
  <2>3. n \in DefinedNames(prog)
    BY <2>2 DEF DefinedNames
  <2> QED
    BY <1>1, <2>2, <2>3, DefPositionFacts, ProgramsAssumption DEF InSSAForm
(* The operand of a PHI along the edge refers to what its name does.       *)
<1>9. ASSUME NEW n, <<t, n>> \in SourcePhis(prog) \/ <<t, n>> \in insertedPhis
      PROVE  LET s == PhiSite(t, n, e)
                 m == IF <<t, n>> \in SourcePhis(prog) THEN prog.phis[t][n][e] ELSE n
             IN  m \in DOMAIN sourceRef /\ low[s] \in DOMAIN ref /\ ref[low[s]] = sourceRef[m]
  <2> DEFINE s == PhiSite(t, n, e)
             m == IF <<t, n>> \in SourcePhis(prog) THEN prog.phis[t][n][e] ELSE n
  <2>1. s \in DOMAIN operand
    <3>1. CASE <<t, n>> \in SourcePhis(prog)
      <4>1. s \in {PhiSite(<<t, n>>[1], <<t, n>>[2], d) : d \in EdgesInto(prog, <<t, n>>[1])}
        BY <1>6
      <4>2. s \in SourceSites(prog)
        BY <3>1, <4>1 DEF SourceSites
      <4> QED
        BY <4>2 DEF IInv, SitesInv
    <3>2. CASE <<t, n>> \in insertedPhis
      BY <1>6, <3>2 DEF IInv, SitesInv
    <3> QED
      BY <1>9, <3>1, <3>2
  <2>2. s.edge = e /\ s.edge # Absent /\ s.slot = n /\ s.at = <<t, 0>>
    BY <1>6 DEF PhiSite
  <2>3. s \in DOMAIN low
    BY <1>2, <2>1, <2>2 DEF OperandsInv, IsOperand
  <2>4. n # "obj" /\ n # "in"
    BY <1>1, <1>9, SourcePhiFacts, NamesAssumption DEF IInv, TypeOK, DefinedNames
  <2>5. low[s].of = m
    <3>1. low[s].of = NameAt(prog, s)
      BY <2>3 DEF LowInv, LowKeepsNames
    <3> HIDE DEF s
    <3>2. NameAt(prog, s) = m
      BY <2>2, <2>4 DEF NameAt
    <3> QED
      BY <3>1, <3>2
  <2>6. Remains(low[s])
    <3>1. low[s] \in LoweredValues /\ low[s] \notin DOMAIN coalesced
      BY <1>2, <2>3 DEF LowInv
    <3>2. IsValue(low[s])
      BY <2>3 DEF VersionInv
    <3>3. low[s].kind # "redef"
      BY <1>2, <2>3, VersionsAreGone DEF NoVersionIsLeft
    <3> QED
      BY <3>1, <3>2, <3>3 DEF Remains
  <2>7. Dominates(prog, low[s].at, RunPoint)
    BY <1>3, <2>2, <2>3 DEF OperandsInv, Point, Terminator, RunPoint
  <2> QED
    BY <1>3, <2>5, <2>6, <2>7 DEF RefersRight
<1>10. ASSUME NEW u, Remains(u), Dominates(prog, u.at, <<t, 1>>)
       PROVE  u.of \in DOMAIN sourceRef' /\ u \in DOMAIN ref' /\ ref'[u] = sourceRef'[u.of]
  <2>1. u.at \in prog.blocks \X Int /\ u.of \in DefinedNames(prog)
    BY <1>10, RemainsFacts
  <2>2. CASE u.at[1] = t
    <3>1. u.at = <<t, 0>>
      <4>1. u.at[2] < 1
        BY <1>10, <2>2 DEF Dominates
      <4>2. u.at = <<prog.entry, -1>> \/ u.at = <<u.at[1], 0>>
        BY <1>10, <4>1, RemainsPlaces
      <4>3. u.at # <<prog.entry, -1>>
        BY <1>6, <2>2
      <4> QED
        BY <2>2, <4>2, <4>3
    <3>2. u \in phis /\ (<<t, u.of>> \in SourcePhis(prog) \/ <<t, u.of>> \in insertedPhis)
      <4>1. CASE u.at = DefPosition(prog, u.of)
        <5>1. <<t, u.of>> \in SourcePhis(prog)
          BY <1>1, <2>1, <3>1, <4>1, DefPositionCases
        <5>2. u.of \in own
          BY <1>1, <5>1, SourcePhiFacts
        <5>3. u.kind = "name" /\ u = NameValue(prog, u.of)
          <6>1. u.at \notin CodePositions(prog)
            BY <1>1, <3>1, CodePositionFacts
          <6>2. u.kind # "phi"
            <7> SUFFICES ASSUME u.kind = "phi" PROVE FALSE
              OBVIOUS
            <7>1. Dominates(prog, u.at, u.at)
              BY <1>10, <4>1, RemainsFacts
            <7> QED
              BY <1>1, <2>1, <7>1, PointsStrict
          <6> QED
            BY <1>10, <6>1, <6>2, RemainsFacts
        <5> QED
          BY <5>1, <5>2, <5>3
      <4>2. CASE u.at # DefPosition(prog, u.of)
        <5>1. u = PhiValue(t, u.of) /\ <<t, u.of>> \in insertedPhis
          BY <1>10, <2>2, <4>2, RemainsFacts
        <5> QED
          BY <2>1, <5>1 DEF DefinedNames
      <4> QED
        BY <4>1, <4>2
    <3>3. LET m == IF <<t, u.of>> \in SourcePhis(prog) THEN prog.phis[t][u.of][e] ELSE u.of
          IN  m \in DOMAIN sourceRef /\ Incoming(u) \in DOMAIN ref /\ ref[Incoming(u)] = sourceRef[m]
      BY <1>9, <3>2
    <3>4. u \in defined
      BY <3>2, <3>3
    <3>5. ref'[u] = ref[Incoming(u)] /\ u \in DOMAIN ref'
      BY <1>5, <3>4
    <3>6. <<t, u.of>> \in SourcePhis(prog) <=> u.of \in own
      BY <1>1, <1>6, SourcePhiFacts DEF SourcePhis
    <3>7. /\ u.of \in DOMAIN sourceRef'
          /\ sourceRef'[u.of] = sourceRef[IF u.of \in own THEN prog.phis[t][u.of][e] ELSE u.of]
      BY <1>5, <3>3, <3>6
    <3> QED
      BY <3>3, <3>5, <3>6, <3>7
  <2>3. CASE u.at[1] # t
    <3>1. <<u.at[1], t>> \in prog.dom
      BY <1>10, <2>3 DEF Dominates
    <3>2. <<u.at[1], rblock>> \in prog.dom
      BY <1>1, <1>6, <2>1, <2>3, <3>1, DominatesPredecessors
    <3>3. Dominates(prog, u.at, RunPoint)
      <4>1. u.at[1] = rblock => u.at[2] < ridx
        <5>1. u.at[1] \in prog.blocks /\ Len(prog.code[u.at[1]]) \in Nat
          BY <1>1, <2>1, CodeLength
        <5>2. u.at[2] <= Len(prog.code[u.at[1]])
          BY <1>10, RemainsPlaces
        <5> QED
          BY <1>3, <2>1, <5>1, <5>2
      <4> QED
        BY <3>2, <4>1 DEF Dominates, RunPoint
    <3>4. u.of \in DOMAIN sourceRef /\ u \in DOMAIN ref /\ ref[u] = sourceRef[u.of]
      BY <1>3, <1>10, <3>3 DEF RefersRight
    <3>5. u.of \notin own
      <4> SUFFICES ASSUME u.of \in own PROVE FALSE
        OBVIOUS
      <4>1. DefPosition(prog, u.of) = <<t, 0>>
        BY <1>8
      <4>2. u.at # DefPosition(prog, u.of)
        BY <2>3, <4>1
      <4>3. Dominates(prog, <<t, 0>>, u.at)
        BY <1>10, <4>1, <4>2, RemainsFacts
      <4>4. <<t, u.at[1]>> \in prog.dom
        BY <2>3, <4>3 DEF Dominates
      <4> QED
        BY <1>1, <1>6, <2>1, <2>3, <3>1, <4>4, DominanceAntisymmetric
    <3>6. u \notin phis
      <4> SUFFICES ASSUME u \in phis PROVE FALSE
        OBVIOUS
      <4>1. u = PhiValue(t, u.of)
        BY <1>7, <3>5
      <4> QED
        BY <2>3, <4>1 DEF PhiValue
    <3> QED
      BY <1>5, <3>4, <3>5, <3>6
  <2> QED
    BY <2>2, <2>3
<1>11. \A u : Remains(u)' => Remains(u)
  BY <1>2 DEF Remains, IsValue, IsVersion, IsResult, Lowered
<1> HIDE DEF t, e, own, phis, defined
<1>12. RefersRight'
  BY <1>2, <1>5, <1>10, <1>11 DEF RefersRight, RunPoint, Dominates
<1>13. 1 \in 1 .. Len(prog.code[t]) + 1
  BY <1>1, <1>6, CodeLength
<1> QED
  BY <1>2, <1>5, <1>6, <1>12, <1>13 DEF RunInv

LEMMA RunInit == RInit => RunInv
<1> SUFFICES ASSUME RInit PROVE RunInv
  OBVIOUS
<1>1. prog \in Programs /\ rblock = prog.entry /\ ridx = 1 /\ stage = "idle"
  BY DEF RInit, LInit, Init
<1>2. prog.entry \in prog.blocks
  BY <1>1, ProgramsAssumption DEF WellFormed
<1>3. 1 \in 1 .. Len(prog.code[prog.entry]) + 1
  BY <1>1, <1>2, CodeLength
<1> QED
  BY <1>1, <1>2, <1>3 DEF RunInv, RInit

(* Before the run nothing is available but the arguments.                  *)
LEMMA RunCleanupInv ==
  ASSUME IInv, PhisBelow, LowInv, RunInv, Cleanup, UNCHANGED execVars
  PROVE  RunInv'
<1>1. prog \in Programs
  BY DEF IInv, TypeOK
<1>2. stage = "layout" /\ stage' = "lowered" /\ UNCHANGED <<prog, insertedPhis, coalesced>>
  BY DEF Cleanup, vars, phiVars
<1>3. /\ rblock = prog.entry /\ ridx = 1
      /\ sourceRef = [n \in prog.args |-> <<"arg", n>>]
      /\ ref = [v \in {NameValue(prog, n) : n \in prog.args} |-> <<"arg", v.of>>]
  BY <1>2 DEF RunInv
<1>4. UNCHANGED <<rblock, ridx, sourceRef, ref>>
  BY DEF execVars
<1>5. ASSUME NEW u, Remains(u), Dominates(prog, u.at, <<prog.entry, 1>>)
      PROVE  u.of \in DOMAIN sourceRef /\ u \in DOMAIN ref /\ ref[u] = sourceRef[u.of]
  <2>1. u.of \in DefinedNames(prog) /\ u.at \in prog.blocks \X Int
    BY RemainsFacts, <1>5
  <2>2. u.at[1] = prog.entry
    <3> SUFFICES ASSUME u.at[1] # prog.entry PROVE FALSE
      OBVIOUS
    <3>1. <<u.at[1], prog.entry>> \in prog.dom
      BY <1>5 DEF Dominates
    <3>2. <<prog.entry, u.at[1]>> \in prog.dom
      BY <1>1, <2>1, GraphFacts, DominanceFacts
    <3> QED
      BY <1>1, <2>1, <3>1, <3>2, GraphFacts, DominanceAntisymmetric
  <2>3. u.at[2] < 1
    BY <1>5, <2>2 DEF Dominates
  <2>4. u.at = <<prog.entry, -1>> \/ u.at = <<prog.entry, 0>>
    BY <1>5, <2>2, <2>3, RemainsPlaces
  <2>5. u.at = DefPosition(prog, u.of)
    BY <1>5, <2>2, RemainsFacts
  <2>6. u.of \in prog.args /\ u.at = <<prog.entry, -1>>
    <3>1. ~ (u.at \in CodePositions(prog) /\ u.at[2] >= 1)
      BY <2>3, <2>1
    <3> QED
      BY <1>1, <2>1, <2>2, <2>5, <3>1, DefPositionCases
  <2>7. u = NameValue(prog, u.of)
    <3>1. u.at \notin CodePositions(prog)
      <4> SUFFICES ASSUME u.at \in CodePositions(prog) PROVE FALSE
        OBVIOUS
      <4>1. u.at[2] \in 1 .. Len(prog.code[u.at[1]]) /\ Len(prog.code[u.at[1]]) \in Nat
        BY <1>1, <2>1, CodePositionFacts, CodeLength
      <4> QED
        BY <2>3, <4>1
    <3> QED
      BY <1>5, <2>2, <3>1, RemainsFacts
  <2> QED
    BY <1>3, <2>6, <2>7
<1>6. \A u : Remains(u)' => Remains(u)
  BY <1>2 DEF Remains, IsValue, IsVersion, IsResult, Lowered
<1>7. RefersRight'
  BY <1>2, <1>3, <1>4, <1>5, <1>6 DEF RefersRight, RunPoint, Dominates
<1> QED
  BY <1>2, <1>3, <1>4, <1>7 DEF RunInv

LEMMA RunNext ==
  IInv /\ PhisBelow /\ LowInv /\ VersionInv /\ OperandsInv /\ RunInv /\ [RNext]_allVars => RunInv'
<1> SUFFICES ASSUME IInv, PhisBelow, LowInv, VersionInv, OperandsInv, RunInv, [RNext]_allVars
             PROVE  RunInv'
  OBVIOUS
<1>1. CASE Cleanup /\ UNCHANGED execVars
  BY <1>1, RunCleanupInv
<1>2. CASE RunInstruction
  BY <1>2, RunInstructionInv
<1>3. CASE RunBranch
  BY <1>3, RunBranchInv
<1>4. CASE UNCHANGED allVars
  BY <1>4 DEF allVars, vars, phiVars, lowerVars, execVars, RunInv, RefersRight, RunPoint, Remains,
              IsValue, IsVersion, IsResult, Lowered, Dominates
<1>5. CASE Construct /\ UNCHANGED <<lowerVars, execVars>>
  <2>1. pc # "done" /\ prog' = prog
    BY <1>5 DEF Construct, Walk, PickName, InsertPhis, NameDone, PickBlock, SubtreeDone, WalkDone,
                Begin, Follow, Rename, Advance, LeaveBlock
  <2>2. stage = "idle" /\ stage' = "idle"
    BY <1>5, <2>1 DEF LowInv, lowerVars
  <2>3. UNCHANGED <<prog, rblock, ridx, sourceRef, ref>>
    BY <1>5, <2>1 DEF execVars
  <2> QED
    BY <2>2, <2>3 DEF RunInv
<1>6. CASE /\ Visit \/ LowerAlloc \/ LowerFold \/ GiveUp \/ StagesDone
              \/ Coalesce \/ FollowReplacement \/ Replace \/ NextInLayout
           /\ UNCHANGED execVars
  <2>1. stage # "lowered" /\ stage' # "lowered" /\ prog' = prog
    BY <1>6 DEF Visit, LowerAlloc, LowerFold, GiveUp, StagesDone, Coalesce, FollowReplacement,
                Replace, NextInLayout, vars
  <2>2. UNCHANGED <<prog, rblock, ridx, sourceRef, ref>>
    BY <1>6, <2>1 DEF execVars
  <2> QED
    BY <2>1, <2>2 DEF RunInv
<1> QED
  BY <1>1, <1>2, <1>3, <1>4, <1>5, <1>6 DEF RNext, Destruct, Stopped, allVars

(* The inductive invariant of the passes and the run.                      *)
RunIInv ==
  IInv /\ PhisBelow /\ LowInv /\ VersionInv /\ OperandsInv /\ RunInv

LEMMA ObjectsAgree == RunIInv => RoundTrip
<1> SUFFICES ASSUME RunIInv, AtCode,
                    NEW s \in DOMAIN low, s.at = <<rblock, ridx>>, s.edge = Absent
             PROVE  low[s] \in DOMAIN ref /\ ref[low[s]] = sourceRef[NameAt(prog, s)]
  BY DEF RoundTrip
<1> USE DEF RunIInv
<1>1. stage = "lowered" /\ RefersRight
  BY DEF AtCode, CanRun, RunInv
<1>2. low[s].of = NameAt(prog, s)
  BY DEF LowInv, LowKeepsNames
<1>3. Remains(low[s])
  <2>1. low[s] \in LoweredValues /\ low[s] \notin DOMAIN coalesced
    BY <1>1 DEF LowInv
  <2>2. IsValue(low[s])
    BY DEF VersionInv
  <2>3. low[s].kind # "redef"
    BY <1>1, VersionsAreGone DEF NoVersionIsLeft
  <2> QED
    BY <2>1, <2>2, <2>3 DEF Remains
<1>4. Dominates(prog, low[s].at, RunPoint)
  BY DEF OperandsInv, Point, RunPoint
<1> QED
  BY <1>1, <1>2, <1>3, <1>4 DEF RefersRight

(* Every instruction of the lowered function has the objects it had in the *)
(* source: the two passes together leave what the function does.           *)
THEOREM ObjectsAreTheSame == RSpec => []RoundTrip
<1>1. RInit => RunIInv
  <2>1. RInit => PhisBelow
    BY DEF RInit, LInit, Init, PhisBelow
  <2> QED
    BY <2>1, InitInv, LowInit, VersionInit, OperandsInit, RunInit DEF RInit, LInit, RunIInv
<1>2. RunIInv /\ [RNext]_allVars => RunIInv'
  <2>1. [RNext]_allVars => [Next]_vars
    BY DEF RNext, Destruct, RunInstruction, RunBranch, Stopped, allVars, Next, Visit, LowerAlloc,
           LowerFold, GiveUp, StagesDone, Coalesce, FollowReplacement, Replace, NextInLayout, Cleanup
  <2> QED
    BY <2>1, LowNextInv, PhisBelowNext, VersionNext, OperandsNext, RunNext DEF RunIInv
<1> QED
  BY <1>1, <1>2, ObjectsAgree, PTL DEF RSpec

=============================================================================
