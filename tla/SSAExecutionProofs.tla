------------------------- MODULE SSAExecutionProofs -------------------------
(***************************************************************************)
(* The rewritten function runs like its source: along every path, however  *)
(* often a loop runs, an instruction finds in each operand the contents    *)
(* its object has in the source.                                           *)
(*                                                                         *)
(* Two facts carry the argument.  The worklist of the PHIs is complete:    *)
(* when the walk begins no PHI is due on the frontier of a definition or   *)
(* an update.  So the nearest version of a name at the beginning of a      *)
(* block is a PHI of it or was the nearest at the end of each predecessor, *)
(* and the invariant of the run is that the nearest version of each name   *)
(* in use holds the contents of its object.  Names in use are of different *)
(* objects, in the functions that satisfy CanRun.                          *)
(***************************************************************************)
EXTENDS SSAExecution, SSAConstructionProofs

-----------------------------------------------------------------------------
(* The PHIs                                                                *)

(* A block with a definition or a version of a name, and its frontier.     *)
IsParent(n, c) == c \in DefParents(n) \/ <<c, n>> \in insertedPhis
NoneIsDue(n, c) == \A f \in prog.frontier[c] : ~ NeedsPhi(n, f)

(* No PHI is due for a name that was processed, but on the frontier of     *)
(* what is in the worklist.                                                *)
NoneIsMissing ==
  \A n \in DefinedNames(prog) \ unprocessed : \A c \in prog.blocks :
    IsParent(n, c) /\ ~ (pc = "insert" /\ n = current /\ c \in defWork) => NoneIsDue(n, c)

PhisInv ==
  /\ \A x \in insertedPhis : x[2] \notin unprocessed
  /\ pc = "insert" => current \notin unprocessed
  /\ pc \notin {"pick name", "insert"} => unprocessed = {}
  /\ NoneIsMissing

LEMMA ParentStays ==
  ASSUME prog' = prog, NEW n, NEW c
  PROVE  IsParent(n, c)' <=> c \in DefParents(n) \/ <<c, n>> \in insertedPhis'
BY DEF IsParent, DefParents

LEMMA DueStays ==
  ASSUME prog' = prog, insertedPhis \subseteq insertedPhis', NEW n, NEW c, NoneIsDue(n, c)
  PROVE  NoneIsDue(n, c)'
<1>1. \A f : NeedsPhi(n, f)' => NeedsPhi(n, f)
  BY DEF NeedsPhi, DominatesPreds, AlreadyInPhi
<1> QED
  BY <1>1 DEF NoneIsDue

LEMMA PhisPick == IInv /\ PhisInv /\ PickName => PhisInv'
<1> SUFFICES ASSUME IInv, PhisInv, PickName
             PROVE  PhisInv'
  OBVIOUS
<1>1. PICK m \in unprocessed : /\ current' = m
                               /\ unprocessed' = unprocessed \ {m}
                               /\ defWork' = DefParents(m)
  BY DEF PickName
<1>2. /\ prog' = prog /\ insertedPhis' = insertedPhis /\ pc = "pick name" /\ pc' = "insert"
      /\ \A x \in insertedPhis : x[2] \notin unprocessed
  BY DEF PickName, PhisInv
<1>3. ASSUME NEW n \in DefinedNames(prog) \ unprocessed', NEW c \in prog.blocks,
             IsParent(n, c)', ~ (n = m /\ c \in DefParents(m))
      PROVE  NoneIsDue(n, c)'
  <2>1. IsParent(n, c)
    BY <1>2, <1>3, ParentStays DEF IsParent
  <2>2. n # m
    <3> SUFFICES ASSUME n = m
                 PROVE  FALSE
      OBVIOUS
    <3>1. <<c, m>> \in insertedPhis
      BY <1>3, <2>1 DEF IsParent
    <3>2. <<c, m>>[2] \notin unprocessed
      BY <1>2, <3>1
    <3> QED
      BY <3>2
  <2>3. n \in DefinedNames(prog) \ unprocessed
    BY <1>1, <2>2
  <2>4. NoneIsDue(n, c)
    BY <1>2, <2>1, <2>3 DEF PhisInv, NoneIsMissing
  <2> QED
    BY <1>2, <2>4, DueStays
<1>4. NoneIsMissing'
  BY <1>1, <1>2, <1>3 DEF NoneIsMissing
<1> QED
  BY <1>1, <1>2, <1>4 DEF PhisInv

LEMMA PhisInsert == IInv /\ PhisInv /\ InsertPhis => PhisInv'
<1> SUFFICES ASSUME IInv, PhisInv, InsertPhis
             PROVE  PhisInv'
  OBVIOUS
<1>1. PICK b \in defWork :
        LET new == {f \in prog.frontier[b] : NeedsPhi(current, f)}
        IN  /\ insertedPhis' = insertedPhis \cup (new \X {current})
            /\ defWork' = (defWork \ {b}) \cup new
  BY DEF InsertPhis
<1> DEFINE new == {f \in prog.frontier[b] : NeedsPhi(current, f)}
<1>2. insertedPhis' = insertedPhis \cup (new \X {current}) /\ defWork' = (defWork \ {b}) \cup new
  BY <1>1
<1>3. \A f \in prog.frontier[b] : NeedsPhi(current, f) => f \in new
  OBVIOUS
<1> HIDE DEF new
<1>4. /\ UNCHANGED <<prog, pc, unprocessed, current>> /\ pc = "insert" /\ current \notin unprocessed
      /\ insertedPhis \subseteq insertedPhis'
  BY <1>2 DEF InsertPhis, PhisInv
<1>5. \A x \in insertedPhis' : x[2] \notin unprocessed
  BY <1>2, <1>4 DEF PhisInv
<1>6. ASSUME NEW n \in DefinedNames(prog) \ unprocessed, NEW c \in prog.blocks,
             IsParent(n, c)', ~ (n = current /\ c \in defWork')
      PROVE  NoneIsDue(n, c)'
  <2>1. c \in DefParents(n) \/ <<c, n>> \in insertedPhis'
    BY <1>4, <1>6, ParentStays
  <2>2. IsParent(n, c)
    <3>1. CASE <<c, n>> \in new \X {current}
      BY <1>2, <1>6, <3>1
    <3> QED
      BY <1>2, <2>1, <3>1 DEF IsParent
  <2>3. CASE n = current /\ c = b
    <3>1. ASSUME NEW f \in prog.frontier[b], NeedsPhi(n, f)'
          PROVE  FALSE
      <4>1. NeedsPhi(n, f)
        BY <1>4, <3>1 DEF NeedsPhi, DominatesPreds, AlreadyInPhi
      <4>2. <<f, n>> \in insertedPhis'
        BY <1>2, <1>3, <2>3, <4>1
      <4> QED
        BY <3>1, <4>2 DEF NeedsPhi
    <3> QED
      BY <1>4, <2>3, <3>1 DEF NoneIsDue
  <2>4. CASE ~ (n = current /\ c = b)
    <3>1. ~ (n = current /\ c \in defWork)
      BY <1>2, <1>6, <2>4
    <3>2. NoneIsDue(n, c)
      BY <2>2, <3>1 DEF PhisInv, NoneIsMissing
    <3> QED
      BY <1>4, <3>2, DueStays
  <2> QED
    BY <2>3, <2>4
<1>7. NoneIsMissing'
  BY <1>4, <1>6 DEF NoneIsMissing
<1> QED
  BY <1>4, <1>5, <1>7 DEF PhisInv

LEMMA PhisRest ==
  ASSUME PhisInv, UNCHANGED <<prog, insertedPhis, unprocessed, current, defWork>>,
         pc = "insert" => pc' = "insert" \/ defWork = {},
         pc' = "insert" => pc = "insert",
         pc' \notin {"pick name", "insert"} => unprocessed = {}
  PROVE  PhisInv'
<1>1. ASSUME NEW n \in DefinedNames(prog) \ unprocessed, NEW c \in prog.blocks,
             IsParent(n, c)', ~ (pc' = "insert" /\ n = current /\ c \in defWork)
      PROVE  NoneIsDue(n, c)'
  <2>1. IsParent(n, c)
    BY <1>1, ParentStays DEF IsParent
  <2>2. NoneIsDue(n, c)
    BY <1>1, <2>1 DEF PhisInv, NoneIsMissing
  <2> QED
    BY <2>2, DueStays
<1>2. NoneIsMissing'
  BY <1>1 DEF NoneIsMissing
<1> QED
  BY <1>2 DEF PhisInv

LEMMA PhisNext == IInv /\ PhisInv /\ [Next]_vars => PhisInv'
<1> SUFFICES ASSUME IInv, PhisInv, [Next]_vars
             PROVE  PhisInv'
  OBVIOUS
<1>1. CASE NameDone
  BY <1>1, PhisRest DEF NameDone, phiVars
<1>2. CASE Walk \/ Finished \/ UNCHANGED vars
  BY <1>2, PhisRest
     DEF PhisInv, Walk, Finished, PickBlock, SubtreeDone, WalkDone, Begin, Follow, Rename, Advance,
         LeaveBlock, vars, phiVars
<1> QED
  BY <1>1, <1>2, PhisPick, PhisInsert DEF Next, Construct

LEMMA PhisInit == Init => PhisInv
BY DEF Init, PhisInv, NoneIsMissing

-----------------------------------------------------------------------------
(* The names in use                                                        *)

(* A name that is defined at a point and may still be used there.          *)
InUse(p, n, x) ==
  /\ n \in DefinedNames(p)
  /\ Dominates(p, DefPosition(p, n), x)
  /\ x[1] = DefPosition(p, n)[1] \/ x[1] \in LiveIn(p, n)

LEMMA LiveInClosed ==
  ASSUME NEW p, NEW n, NEW b \in p.blocks, b # DefPosition(p, n)[1],
         n \in UsedIn(p, b) \/ SuccSet(p, b) \cap LiveIn(p, n) # {}
  PROVE  b \in LiveIn(p, n)
<1> DEFINE Closed(S) == \A c \in p.blocks :
             /\ c # DefPosition(p, n)[1]
             /\ n \in UsedIn(p, c) \/ SuccSet(p, c) \cap S # {}
             => c \in S
<1>1. LiveIn(p, n) = {c \in p.blocks : \A S \in SUBSET p.blocks : Closed(S) => c \in S}
  BY DEF LiveIn
<1>2. ASSUME NEW S \in SUBSET p.blocks, Closed(S)
      PROVE  b \in S
  <2>1. LiveIn(p, n) \subseteq S
    BY <1>1, <1>2
  <2>2. n \in UsedIn(p, b) \/ SuccSet(p, b) \cap S # {}
    BY <2>1
  <2> QED
    BY <1>2, <2>2
<1> HIDE DEF Closed
<1> QED
  BY <1>1, <1>2

(* What an operand names is in use where it is used.                       *)
LEMMA OperandsAreInUse ==
  ASSUME NEW p \in Programs, NEW s \in SourceSites(p), Point(p, s)[1] \in p.blocks
  PROVE  InUse(p, NameAt(p, s), Point(p, s))
<1>1. NameAt(p, s) \in DefinedNames(p) /\ Dominates(p, DefPosition(p, NameAt(p, s)), Point(p, s))
  BY SourceSiteFacts
<1>2. NameAt(p, s) \in UsedIn(p, Point(p, s)[1])
  BY DEF UsedIn
<1> QED
  BY <1>1, <1>2, LiveInClosed DEF InUse

LEMMA InUseBefore ==
  ASSUME NEW p \in Programs, NEW n, NEW b, NEW i \in Int, InUse(p, n, <<b, i + 1>>),
         DefPosition(p, n) # <<b, i>>
  PROVE  InUse(p, n, <<b, i>>)
<1>1. n \in DefinedNames(p) /\ Dominates(p, DefPosition(p, n), <<b, i + 1>>)
  BY DEF InUse
<1>2. DefPosition(p, n) \in p.blocks \X Int
  BY <1>1, DefPositionFacts
<1>3. Dominates(p, DefPosition(p, n), <<b, i>>)
  BY <1>1, <1>2, NextPoint
<1> QED
  BY <1>3 DEF InUse

LEMMA InUseAtEnd ==
  ASSUME NEW p \in Programs, NEW n, NEW b \in p.blocks, NEW t \in SuccSet(p, b),
         InUse(p, n, <<t, 1>>), DefPosition(p, n)[1] # t
  PROVE  InUse(p, n, Terminator(p, b))
<1>1. /\ n \in DefinedNames(p) /\ <<DefPosition(p, n)[1], t>> \in p.dom /\ t \in LiveIn(p, n)
      /\ t \in p.blocks /\ b \in Preds(p, t)
  BY SuccessorFacts DEF InUse, Dominates, Preds
<1>2. DefPosition(p, n)[1] \in p.blocks
  BY <1>1, DefPositionFacts
<1>3. <<DefPosition(p, n)[1], b>> \in p.dom
  BY <1>1, <1>2, DominatesPredecessors
<1>4. Dominates(p, DefPosition(p, n), Terminator(p, b))
  BY <1>1, <1>3, DummiesAreDominated
<1>5. b = DefPosition(p, n)[1] \/ b \in LiveIn(p, n)
  BY <1>1, LiveInClosed
<1> QED
  BY <1>1, <1>4, <1>5 DEF InUse, Terminator

(* At the beginning of a block the PHIs have defined their names.          *)
LEMMA DefinedByPhi ==
  ASSUME NEW p \in Programs, NEW t \in p.blocks \ {p.entry}, NEW n \in DefinedNames(p),
         Dominates(p, DefPosition(p, n), <<t, 1>>), DefPosition(p, n)[1] = t
  PROVE  DefPosition(p, n) = <<t, 0>> /\ n \in DOMAIN p.phis[t] /\ n \notin p.args
<1>1. DefPosition(p, n) \in DefPositions(p, n) /\ DefPosition(p, n)[2] < 1
  BY DefPositionFacts DEF Dominates
<1>2. CASE n \in p.args
  BY <1>2, ArgumentFacts
<1>3. CASE DefPosition(p, n) \in CodePositions(p)
  <2>1. DefPosition(p, n)[2] \in 1 .. Len(p.code[t])
    BY <1>3, CodePositionFacts
  <2> QED
    BY <1>1, <2>1
<1>4. CASE n \notin p.args /\ \E b \in p.blocks : DefPosition(p, n) = <<b, 0>> /\ <<b, n>> \in SourcePhis(p)
  <2>1. DefPosition(p, n) = <<t, 0>> /\ <<t, n>> \in SourcePhis(p)
    BY <1>4
  <2>2. n \in DOMAIN p.phis[t]
    BY <2>1, SourcePhiFacts
  <2> QED
    BY <1>4, <2>1, <2>2
<1> QED
  BY <1>1, <1>2, <1>3, <1>4, PositionCases

LEMMA PhiDefines ==
  ASSUME NEW p \in Programs, NEW t \in p.blocks, NEW n \in DOMAIN p.phis[t]
  PROVE  /\ n \in DefinedNames(p) /\ DefPosition(p, n) = <<t, 0>> /\ t # p.entry
         /\ <<t, n>> \in SourcePhis(p) /\ n \notin p.args
<1>1. t # p.entry /\ n \in Names
  BY ProgramsAssumption DEF WellFormed
<1>2. <<t, n>> \in SourcePhis(p)
  BY DEF SourcePhis
<1>3. <<t, 0>> \in DefPositions(p, n)
  BY <1>2 DEF DefPositions
<1>4. n \in DefinedNames(p)
  BY <1>1, <1>3 DEF DefinedNames
<1>5. DefPosition(p, n) = <<t, 0>>
  BY <1>3, <1>4, DefPositionFacts, ProgramsAssumption DEF InSSAForm
<1>6. n \notin p.args
  BY <1>5, ArgumentFacts
<1> QED
  BY <1>1, <1>2, <1>4, <1>5, <1>6

-----------------------------------------------------------------------------
(* From the end of a block to the beginning of the next                    *)

(* The pass is done with a function that can run.                          *)
Built == WInv /\ PhisInv /\ pc = "done" /\ todo = <<>> /\ CanRun(prog)

LEMMA VersionIsParent ==
  ASSUME Built, NEW v, IsVersion(v)
  PROVE  \/ IsParent(v.of, v.at[1])
         \/ prog.frontier[v.at[1]] = {}
         \/ v.at[1] = prog.entry
<1>1. IInv /\ prog \in Programs
  BY DEF Built, WInv, IInv, TypeOK
<1>2. v.of \in DefinedNames(prog)
  BY <1>1, VersionKinds
<1>3. v.at[1] = DefPosition(prog, v.of)[1] => IsParent(v.of, v.at[1]) \/ v.at[1] = prog.entry
  BY <1>1, ArgumentFacts DEF IsParent, DefParents
<1>4. CASE v.kind = "name"
  BY <1>1, <1>3, <1>4, VersionKinds
<1>5. CASE v.kind = "phi"
  BY <1>1, <1>5, VersionKinds DEF IsParent
<1>6. CASE v.kind = "redef"
  <2>1. /\ v.at \in CodePositions(prog) /\ Redefines(Instr(prog, v.at))
        /\ Instr(prog, v.at).obj = v.of
    BY <1>1, <1>6, VersionKinds
  <2>2. CASE Instr(prog, v.at).op = "call"
    BY <1>3, <2>1, <2>2 DEF Built, CanRun, CallsAreCovered, IsParent, DefParents
  <2>3. CASE Instr(prog, v.at).op # "call"
    <3>1. IsMutating(Instr(prog, v.at))
      BY <2>1, <2>3 DEF Redefines, IsMutating
    <3> QED
      BY <2>1, <3>1 DEF MutatingBlocks, IsParent, DefParents
  <2> QED
    BY <2>2, <2>3
<1> QED
  BY <1>1, <1>4, <1>5, <1>6, VersionKinds

(* The versions that are defined at the beginning of a block are its PHIs. *)
LEMMA VersionsAtBeginning ==
  ASSUME IInv, NEW t \in prog.blocks \ {prog.entry}, NEW v, IsVersion(v),
         Dominates(prog, v.at, <<t, 1>>), v.at[1] = t
  PROVE  /\ v.at = <<t, 0>>
         /\ \/ v = NameValue(prog, v.of) /\ v.of \in DOMAIN prog.phis[t]
            \/ v = PhiValue(t, v.of) /\ <<t, v.of>> \in insertedPhis
<1>1. prog \in Programs /\ v.at \in prog.blocks \X Int /\ v.of \in DefinedNames(prog)
  BY VersionKinds DEF IInv, TypeOK
<1>2. CASE v.kind = "name"
  <2>1. v = NameValue(prog, v.of) /\ v.at = DefPosition(prog, v.of)
    BY <1>2, VersionKinds
  <2> QED
    BY <1>1, <2>1, DefinedByPhi
<1>3. CASE v.kind = "phi"
  BY <1>1, <1>3, VersionKinds
<1>4. CASE v.kind = "redef"
  <2>1. 1 <= v.at[2] /\ v.at[2] < 1 /\ v.at[2] \in Int
    BY <1>1, <1>4, VersionKinds DEF Dominates
  <2> QED
    BY <2>1
<1> QED
  BY <1>2, <1>3, <1>4, VersionKinds

(* When a PHI of the block is a version, it is the nearest.                *)
LEMMA PhiIsNearest ==
  ASSUME IInv, NEW t \in prog.blocks, NEW v, NEW w, IsVersion(v), IsVersion(w), w.of = v.of,
         w.at = <<t, 0>>, NoneNearer(v, <<t, 1>>), Dominates(prog, v.at, <<t, 1>>)
  PROVE  v.at[1] = t
<1> SUFFICES ASSUME v.at[1] # t
             PROVE  FALSE
  OBVIOUS
<1>1. prog \in Programs /\ v.at[1] \in prog.blocks
  BY VersionKinds DEF IInv, TypeOK
<1>2. <<v.at[1], t>> \in prog.dom
  BY DEF Dominates
<1>3. Dominates(prog, w.at, <<t, 1>>)
  BY DEF Dominates
<1>4. w = v \/ Dominates(prog, w.at, v.at)
  BY <1>3, Nearest
<1>5. <<t, v.at[1]>> \in prog.dom
  BY <1>4 DEF Dominates
<1> QED
  BY <1>1, <1>2, <1>5, DominanceAntisymmetric

(* A version from above that is the nearest at the beginning of a block    *)
(* was the nearest at the end of each predecessor: one that comes between  *)
(* has the block on its frontier, and the pass gave it a PHI there.        *)
LEMMA NearestAtEnd ==
  ASSUME Built, NEW b \in prog.blocks, NEW t \in SuccSet(prog, b), NEW v, IsVersion(v),
         Dominates(prog, v.at, <<t, 1>>), v.at[1] # t, NoneNearer(v, <<t, 1>>),
         InUse(prog, v.of, <<t, 1>>)
  PROVE  /\ DefPosition(prog, v.of)[1] # t
         /\ Dominates(prog, v.at, Terminator(prog, b))
         /\ NoneNearer(v, Terminator(prog, b))
<1>1. /\ IInv /\ PhisBelow /\ prog \in Programs /\ t \in prog.blocks /\ t # prog.entry
      /\ b \in Preds(prog, t)
  BY SuccessorFacts DEF Built, WInv, IInv, TypeOK, Preds
<1>2. /\ v.at \in prog.blocks \X Int /\ v.of \in DefinedNames(prog)
      /\ v.at[2] <= Len(prog.code[v.at[1]])
  BY <1>1, VersionKinds
<1>3. \A w : IsVersion(w) /\ w.of = v.of => w.at # <<t, 0>>
  BY <1>1, PhiIsNearest
<1> DEFINE n == v.of
           d == DefPosition(prog, n)
<1>4. Dominates(prog, d, <<t, 1>>) /\ (t = d[1] \/ t \in LiveIn(prog, n)) /\ d \in prog.blocks \X Int
  BY <1>1, <1>2, DefPositionFacts DEF InUse
<1>5. d[1] # t
  <2> SUFFICES ASSUME d[1] = t
               PROVE  FALSE
    OBVIOUS
  <2>1. d = <<t, 0>>
    BY <1>1, <1>2, <1>4, DefinedByPhi
  <2>2. IsVersion(NameValue(prog, n)) /\ NameValue(prog, n).of = n /\ NameValue(prog, n).at = d
    BY <1>1, <1>2, NameValueFacts DEF IsVersion
  <2> QED
    BY <1>3, <2>1, <2>2
<1>6. <<v.at[1], b>> \in prog.dom
  BY <1>1, <1>2, DominatesPredecessors DEF Dominates
<1>7. Dominates(prog, v.at, Terminator(prog, b))
  BY <1>1, <1>2, <1>6, CodeLength DEF Dominates, Terminator
<1>8. ASSUME NEW w, IsVersion(w), w.of = n, Dominates(prog, w.at, Terminator(prog, b))
      PROVE  w = v \/ Dominates(prog, w.at, v.at)
  <2>1. w.at \in prog.blocks \X Int /\ w.of = v.of
    BY <1>1, <1>8, VersionKinds
  <2> DEFINE c == w.at[1]
  <2>2. <<c, b>> \in prog.dom /\ c \in prog.blocks
    BY <1>1, <1>8, <2>1, DominanceFacts DEF Dominates, Terminator
  <2>3. CASE Dominates(prog, w.at, <<t, 1>>)
    BY <1>8, <2>1, <2>3, Nearest
  <2>4. CASE ~ Dominates(prog, w.at, <<t, 1>>)
    <3>1. <<c, t>> \in prog.dom => c = t
      BY <2>4 DEF Dominates
    <3>2. t \in prog.frontier[c]
      <4>1. prog.frontier[c] = Frontier(prog, prog.dom, c)
        BY <1>1, <2>2, GraphFacts DEF AnalysisIsSound
      <4> QED
        BY <1>1, <2>2, <3>1, <4>1 DEF Frontier
    <3>3. c # prog.entry
      <4>1. <<prog.entry, t>> \in prog.dom
        BY <1>1, GraphFacts, DominanceFacts
      <4> QED
        BY <1>1, <3>1, <4>1
    <3>4. IsParent(n, c)
      BY <1>8, <3>2, <3>3, VersionIsParent
    <3>5. ~ NeedsPhi(n, t)
      <4>1. unprocessed = {} /\ pc # "insert" /\ NoneIsMissing
        BY DEF Built, PhisInv
      <4>2. n \in DefinedNames(prog) \ unprocessed
        BY <1>2, <4>1
      <4>3. NoneIsDue(n, c)
        BY <2>2, <3>4, <4>1, <4>2 DEF NoneIsMissing
      <4> QED
        BY <3>2, <4>3 DEF NoneIsDue
    <3>6. <<t, n>> \notin insertedPhis
      <4> SUFFICES ASSUME <<t, n>> \in insertedPhis
                   PROVE  FALSE
        OBVIOUS
      <4>1. /\ PhiValue(t, n).kind = "phi" /\ PhiValue(t, n).of = n /\ PhiValue(t, n).at = <<t, 0>>
            /\ PhiValue(t, n).at[1] = t
        BY DEF PhiValue
      <4>2. IsVersion(PhiValue(t, n))
        BY <4>1 DEF IsVersion
      <4> QED
        BY <1>3, <4>1, <4>2
    <3>7. DominatesPreds(n, t)
      <4>1. <<d[1], t>> \in prog.dom
        BY <1>4, <1>5 DEF Dominates
      <4>2. \A q \in Preds(prog, t) : <<d[1], q>> \in prog.dom
        BY <1>1, <1>4, <1>5, <4>1, DominatesPredecessors
      <4> QED
        BY <4>2 DEF DominatesPreds
    <3>8. ~ AlreadyInPhi(n, t)
      <4> SUFFICES ASSUME NEW q \in DOMAIN prog.phis[t], NEW e \in EdgesInto(prog, t),
                          prog.phis[t][q][e] = n
                   PROVE  FALSE
        BY DEF AlreadyInPhi
      <4>1. t \notin LiveIn(prog, n)
        BY <1>1 DEF Built, CanRun, PhisTakeOver
      <4> QED
        BY <1>4, <1>5, <4>1
    <3> QED
      BY <3>5, <3>6, <3>7, <3>8 DEF NeedsPhi
  <2> QED
    BY <2>3, <2>4
<1> QED
  BY <1>5, <1>7, <1>8, NearestIntro

-----------------------------------------------------------------------------
(* The invariant of the run                                                *)

(* The run is at x, k steps old; o are the objects of the names, c their   *)
(* contents, e the contents of the rewritten program's values.             *)
IsPlace(x, k) ==
  /\ k \in Nat
  /\ x[1] \in prog.blocks /\ x[2] \in 1 .. Len(prog.code[x[1]]) + 1
  /\ x = <<x[1], x[2]>>

IsObject(u, k) ==
  \/ \E a \in prog.args : u = <<"arg", a>>
  \/ \E j \in Nat : 1 <= j /\ j <= k /\ u = <<"new", j>>

ObjectsOK(k, o, c) == \A n \in DOMAIN o : IsObject(o[n], k) /\ o[n] \in DOMAIN c

DefinedAreKnown(x, o) ==
  \A n \in DefinedNames(prog) : Dominates(prog, DefPosition(prog, n), x) => n \in DOMAIN o

(* No two names in use are of one object.                                  *)
NamesAreApart(x, o) ==
  \A m, n : InUse(prog, m, x) /\ InUse(prog, n, x) /\ o[m] = o[n] => m = n

(* The nearest version of each name in use holds what its object does.     *)
NearestHold(x, o, c, e) ==
  \A v : /\ IsVersion(v) /\ Dominates(prog, v.at, x) /\ NoneNearer(v, x)
         /\ InUse(prog, v.of, x)
         => v \in DOMAIN e /\ e[v] = c[o[v.of]]

ArgumentsHold(o, e) ==
  \A a \in prog.args :
    /\ a \in DOMAIN o /\ o[a] = <<"arg", a>>
    /\ NameValue(prog, a) \in DOMAIN e /\ e[NameValue(prog, a)] = <<<<"arg", a>>, 0>>

RunOK(x, k, o, c, e) ==
  /\ IsPlace(x, k)
  /\ ObjectsOK(k, o, c)
  /\ DefinedAreKnown(x, o)
  /\ NamesAreApart(x, o)
  /\ NearestHold(x, o, c, e)
  /\ ArgumentsHold(o, e)

LEMMA BuiltFacts ==
  ASSUME Built
  PROVE  IInv /\ PhisBelow /\ SitesAre /\ prog \in Programs /\ CanRun(prog)
BY DEF Built, WInv, IInv, TypeOK

LEMMA HeldThere ==
  ASSUME NEW x, NEW o, NEW c, NEW e, NearestHold(x, o, c, e), NEW v, IsVersion(v),
         Dominates(prog, v.at, x), NoneNearer(v, x), InUse(prog, v.of, x)
  PROVE  v \in DOMAIN e /\ e[v] = c[o[v.of]]
BY DEF NearestHold

(* An operand that names what is in use has the contents of its object.    *)
LEMMA OperandHolds ==
  ASSUME Built, NEW x, NEW k, NEW o, NEW c, NEW e, RunOK(x, k, o, c, e),
         NEW s \in DOMAIN operand, ~ IsLookup(s), Point(prog, s) = x, InUse(prog, NameAt(prog, s), x)
  PROVE  /\ IsVersion(operand[s])
         /\ operand[s] \in DOMAIN e /\ e[operand[s]] = c[o[NameAt(prog, s)]]
<1>1. IsVersion(operand[s]) /\ Dominates(prog, operand[s].at, x) /\ operand[s].of = NameAt(prog, s)
  BY BuiltFacts DEF IInv, OperandsAreDefined, OperandsKeepTheirNames
<1>2. NoneNearer(operand[s], x)
  BY NoneIsAhead DEF Built, WInv, WalkInv, RenamedToNearest
<1> QED
  BY <1>1, <1>2, HeldThere DEF RunOK

LEMMA SourceOperandHolds ==
  ASSUME Built, NEW x, NEW k, NEW o, NEW c, NEW e, RunOK(x, k, o, c, e),
         NEW s \in SourceSites(prog), Point(prog, s) = x
  PROVE  /\ s \in DOMAIN operand
         /\ InUse(prog, NameAt(prog, s), x)
         /\ operand[s] \in DOMAIN e /\ e[operand[s]] = c[o[NameAt(prog, s)]]
<1>1. s \in DOMAIN operand /\ ~ IsLookup(s)
  BY BuiltFacts, SourceSiteFacts DEF IInv, SitesInv
<1>2. x[1] \in prog.blocks
  BY DEF RunOK, IsPlace
<1>3. InUse(prog, NameAt(prog, s), x)
  BY <1>2, BuiltFacts, OperandsAreInUse
<1> QED
  BY <1>1, <1>3, OperandHolds

-----------------------------------------------------------------------------
(* A step within a block                                                   *)

(* What an instruction defines.                                            *)
LEMMA DefinedHere ==
  ASSUME NEW p \in Programs, NEW x \in CodePositions(p), NEW n \in DefinedNames(p)
  PROVE  /\ DefPosition(p, n) = x <=> Instr(p, x).def = n
         /\ Instr(p, x).def = n => n \notin p.args
<1>1. x[2] \in 1 .. Len(p.code[x[1]])
  BY CodePositionFacts
<1>2. x[2] # 0 /\ x[2] # -1
  BY <1>1
<1>3. ASSUME DefPosition(p, n) = x
      PROVE  Instr(p, x).def = n
  BY <1>2, <1>3, DefPositionFacts, PositionCases
<1>4. ASSUME Instr(p, x).def = n
      PROVE  DefPosition(p, n) = x
  <2>1. x \in DefPositions(p, n)
    BY <1>4 DEF DefPositions
  <2> QED
    BY <2>1, DefPositionFacts, ProgramsAssumption DEF InSSAForm
<1>5. n \in p.args => DefPosition(p, n) # x
  BY <1>2, ArgumentFacts
<1> QED
  BY <1>3, <1>4, <1>5

LEMMA VersionHere ==
  ASSUME IInv, NEW x \in CodePositions(prog), NEW v, IsVersion(v), v.at = x
  PROVE  \/ /\ Redefines(Instr(prog, x)) /\ v.of = Instr(prog, x).obj
            /\ v = Redefinition(v.of, x[1], x[2])
         \/ v = NameValue(prog, v.of) /\ Instr(prog, x).def = v.of
<1>1. prog \in Programs /\ v.of \in DefinedNames(prog)
  BY VersionKinds DEF IInv, TypeOK
<1>2. x[2] \in 1 .. Len(prog.code[x[1]])
  BY <1>1, CodePositionFacts
<1>3. x[2] # 0
  BY <1>2
<1>4. CASE v.kind = "name"
  <2>1. v = NameValue(prog, v.of) /\ DefPosition(prog, v.of) = x
    BY <1>4, VersionKinds
  <2> QED
    BY <1>1, <2>1, DefinedHere
<1>5. CASE v.kind = "phi"
  BY <1>3, <1>5, VersionKinds
<1>6. CASE v.kind = "redef"
  BY <1>6, VersionKinds
<1> QED
  BY <1>4, <1>5, <1>6, VersionKinds

LEMMA NextPlace ==
  ASSUME prog \in Programs, NEW b \in prog.blocks, NEW i, <<b, i>> \in CodePositions(prog), NEW k \in Nat
  PROVE  /\ IsPlace(<<b, i + 1>>, k + 1) /\ i \in Int
         /\ \A u : IsObject(u, k) => IsObject(u, k + 1) /\ u # <<"new", k + 1>>
<1>1. i \in 1 .. Len(prog.code[b]) /\ Len(prog.code[b]) \in Nat
  BY CodePositionFacts, CodeLength
<1>2. i + 1 \in 1 .. Len(prog.code[b]) + 1 /\ i \in Int /\ k + 1 \in Nat
  BY <1>1
<1>3. ASSUME NEW u, IsObject(u, k)
      PROVE  IsObject(u, k + 1) /\ u # <<"new", k + 1>>
  <2>1. CASE \E a \in prog.args : u = <<"arg", a>>
    BY <2>1 DEF IsObject
  <2>2. CASE \E j \in Nat : 1 <= j /\ j <= k /\ u = <<"new", j>>
    <3>1. PICK j \in Nat : 1 <= j /\ j <= k /\ u = <<"new", j>>
      BY <2>2
    <3>2. j <= k + 1 /\ j # k + 1
      BY <3>1
    <3> QED
      BY <3>1, <3>2 DEF IsObject
  <2> QED
    BY <1>3, <2>1, <2>2 DEF IsObject
<1> QED
  BY <1>2, <1>3 DEF IsPlace

(* A version that an instruction makes is the nearest after it, and no     *)
(* other is nearest that was not before.                                   *)
LEMMA NearestAfter ==
  ASSUME IInv, NEW b \in prog.blocks, NEW i \in Int, NEW v, IsVersion(v),
         Dominates(prog, v.at, <<b, i + 1>>), NoneNearer(v, <<b, i + 1>>)
  PROVE  /\ v.at # <<b, i>> => Dominates(prog, v.at, <<b, i>>) /\ NoneNearer(v, <<b, i>>)
         /\ \A w : IsVersion(w) /\ w.of = v.of /\ w.at = <<b, i>> => v = w
<1>1. prog \in Programs /\ v.at \in prog.blocks \X Int
  BY VersionKinds DEF IInv, TypeOK
<1> DEFINE x == <<b, i>>
           y == <<b, i + 1>>
<1>2. x \in prog.blocks \X Int /\ y \in prog.blocks \X Int
  OBVIOUS
<1>3. Dominates(prog, x, y)
  BY DEF Dominates
<1>4. v.at # x => Dominates(prog, v.at, x)
  BY <1>1, NextPoint
<1>5. ASSUME NEW w, IsVersion(w), w.of = v.of, Dominates(prog, w.at, x)
      PROVE  w = v \/ Dominates(prog, w.at, v.at)
  <2>1. w.at \in prog.blocks \X Int
    BY <1>5, VersionKinds
  <2>2. Dominates(prog, w.at, y)
    BY <1>1, <1>2, <1>3, <1>5, <2>1, PointsTransitive
  <2> QED
    BY <1>5, <2>2, Nearest
<1>6. NoneNearer(v, x)
  BY <1>5, NearestIntro
<1>7. ASSUME NEW w, IsVersion(w), w.of = v.of, w.at = x
      PROVE  v = w
  <2>1. w = v \/ Dominates(prog, x, v.at)
    BY <1>3, <1>7, Nearest
  <2>2. ~ Dominates(prog, x, x)
    BY <1>1, <1>2, PointsStrict
  <2>3. Dominates(prog, x, v.at) => v.at # x
    BY <2>2
  <2>4. ~ Dominates(prog, x, v.at)
    BY <1>1, <1>2, <1>4, <2>2, <2>3, PointsTransitive
  <2> QED
    BY <2>1, <2>4
<1> QED
  BY <1>4, <1>6, <1>7

(* What is known at an instruction, and after it.                          *)
LEMMA WithinABlock ==
  ASSUME Built, NEW b, NEW i, <<b, i>> \in CodePositions(prog),
         NEW k, NEW o, NEW c, NEW e, RunOK(<<b, i>>, k, o, c, e)
  PROVE  /\ b \in prog.blocks /\ i \in Int /\ k \in Nat /\ IsPlace(<<b, i + 1>>, k + 1)
         /\ \A n : InUse(prog, n, <<b, i + 1>>) /\ Instr(prog, <<b, i>>).def # n
                     => InUse(prog, n, <<b, i>>)
         /\ \A n \in DefinedNames(prog) :
              Dominates(prog, DefPosition(prog, n), <<b, i + 1>>) /\ Instr(prog, <<b, i>>).def # n
                => Dominates(prog, DefPosition(prog, n), <<b, i>>)
         /\ \A n : InUse(prog, n, <<b, i>>) => n \in DOMAIN o /\ o[n] \in DOMAIN c /\ IsObject(o[n], k)
<1>1. IInv /\ prog \in Programs
  BY BuiltFacts
<1>2. k \in Nat
  BY DEF RunOK, IsPlace
<1>3. b \in prog.blocks
  BY <1>1, CodePositionFacts
<1>4. i \in Int /\ IsPlace(<<b, i + 1>>, k + 1)
  BY <1>1, <1>2, <1>3, NextPlace
<1>5. ASSUME NEW n \in DefinedNames(prog), Instr(prog, <<b, i>>).def # n
      PROVE  DefPosition(prog, n) # <<b, i>> /\ DefPosition(prog, n) \in prog.blocks \X Int
  BY <1>1, <1>5, DefinedHere, DefPositionFacts
<1>6. ASSUME NEW n, InUse(prog, n, <<b, i + 1>>), Instr(prog, <<b, i>>).def # n
      PROVE  InUse(prog, n, <<b, i>>)
  <2>1. DefPosition(prog, n) # <<b, i>>
    BY <1>5, <1>6 DEF InUse
  <2> QED
    BY <1>1, <1>4, <1>6, <2>1, InUseBefore
<1>7. ASSUME NEW n \in DefinedNames(prog), Instr(prog, <<b, i>>).def # n,
             Dominates(prog, DefPosition(prog, n), <<b, i + 1>>)
      PROVE  Dominates(prog, DefPosition(prog, n), <<b, i>>)
  BY <1>4, <1>5, <1>7, NextPoint
<1>8. ASSUME NEW n, InUse(prog, n, <<b, i>>)
      PROVE  n \in DOMAIN o /\ o[n] \in DOMAIN c /\ IsObject(o[n], k)
  BY <1>8 DEF RunOK, InUse, DefinedAreKnown, ObjectsOK
<1> QED
  BY <1>2, <1>3, <1>4, <1>6, <1>7, <1>8

(* A version made elsewhere that is the nearest now was so before.         *)
LEMMA StillHeld ==
  ASSUME Built, NEW b, NEW i, <<b, i>> \in CodePositions(prog),
         NEW k, NEW o, NEW c, NEW e, RunOK(<<b, i>>, k, o, c, e),
         NEW v, IsVersion(v), Dominates(prog, v.at, <<b, i + 1>>),
         NoneNearer(v, <<b, i + 1>>), v.at # <<b, i>>, InUse(prog, v.of, <<b, i>>)
  PROVE  v \in DOMAIN e /\ e[v] = c[o[v.of]]
<1>1. IInv /\ b \in prog.blocks /\ i \in Int
  BY BuiltFacts, WithinABlock
<1>2. Dominates(prog, v.at, <<b, i>>) /\ NoneNearer(v, <<b, i>>)
  BY <1>1, NearestAfter
<1> QED
  BY <1>2, HeldThere DEF RunOK

(* What the objects are does not change where nothing is defined.          *)
LEMMA SameObjects ==
  ASSUME Built, NEW b, NEW i, <<b, i>> \in CodePositions(prog), Instr(prog, <<b, i>>).def = Absent,
         NEW k, NEW o, NEW c, NEW e, RunOK(<<b, i>>, k, o, c, e),
         NEW d, DOMAIN c \subseteq DOMAIN d
  PROVE  /\ IsPlace(<<b, i + 1>>, k + 1) /\ ObjectsOK(k + 1, o, d)
         /\ DefinedAreKnown(<<b, i + 1>>, o) /\ NamesAreApart(<<b, i + 1>>, o)
         /\ \A n : InUse(prog, n, <<b, i + 1>>) => InUse(prog, n, <<b, i>>)
<1>1. prog \in Programs /\ Absent \notin DefinedNames(prog)
  BY BuiltFacts, NamesAssumption DEF DefinedNames
<1>2. b \in prog.blocks /\ k \in Nat /\ IsPlace(<<b, i + 1>>, k + 1)
  BY WithinABlock
<1>3. ObjectsOK(k + 1, o, d)
  BY <1>1, <1>2, NextPlace DEF RunOK, ObjectsOK
<1>4. DefinedAreKnown(<<b, i + 1>>, o)
  BY <1>1, WithinABlock DEF RunOK, DefinedAreKnown
<1>5. \A n : InUse(prog, n, <<b, i + 1>>) => InUse(prog, n, <<b, i>>)
  BY <1>1, WithinABlock DEF InUse
<1>6. NamesAreApart(<<b, i + 1>>, o)
  BY <1>5 DEF RunOK, NamesAreApart
<1> QED
  BY <1>2, <1>3, <1>4, <1>5, <1>6

LEMMA ArgumentsPut ==
  ASSUME NEW o, NEW e, ArgumentsHold(o, e), NEW r, NEW y,
         \A a \in prog.args : NameValue(prog, a) # r
  PROVE  ArgumentsHold(o, Put(e, r, y))
BY PutFacts DEF ArgumentsHold

LEMMA MutationStep ==
  ASSUME Built, NEW b, NEW i, <<b, i>> \in CodePositions(prog),
         NEW k, NEW o, NEW c, NEW e, RunOK(<<b, i>>, k, o, c, e),
         NEW ins, ins = Instr(prog, <<b, i>>),
         ins.op \in {"mut", "call"} \/ (ins.op = "fold" /\ ins.mutates),
         NEW c1, c1 = Put(c, o[ins.obj], <<o[ins.obj], k + 1>>),
         NEW e1, e1 = Put(e, Redefinition(ins.obj, b, i), <<o[ins.obj], k + 1>>)
  PROVE  RunOK(<<b, i + 1>>, k + 1, o, c1, e1)
<1>1. IInv /\ prog \in Programs
  BY BuiltFacts
<1> DEFINE x == <<b, i>>
           y == <<b, i + 1>>
           n == ins.obj
           r == Redefinition(n, b, i)
           new == <<o[n], k + 1>>
<1>2. ins.def = Absent
  BY BuiltFacts DEF CanRun, ObjectsAreMade
<1>3. Redefines(ins) /\ n # Absent
  BY <1>1, ProgramsAssumption DEF Redefines, WellFormed
<1>4. DOMAIN c \subseteq DOMAIN c1
  BY DEF Put
<1>5. /\ IsPlace(y, k + 1) /\ ObjectsOK(k + 1, o, c1)
      /\ DefinedAreKnown(y, o) /\ NamesAreApart(y, o)
      /\ \A m : InUse(prog, m, y) => InUse(prog, m, x)
  BY <1>2, <1>4, SameObjects
<1>6. r.kind = "redef" /\ r.of = n /\ r.at = x
  BY DEF Redefinition
<1>7. IsVersion(r)
  BY <1>3, <1>6 DEF IsVersion
<1>8. InUse(prog, n, x)
  BY <1>1, <1>3, ObjectFacts, SourceOperandHolds
<1>9. n \in DOMAIN o /\ o[n] \in DOMAIN c
  BY <1>8, WithinABlock
<1>10. NearestHold(y, o, c1, e1)
  <2> SUFFICES ASSUME NEW v, IsVersion(v), Dominates(prog, v.at, y), NoneNearer(v, y),
                      InUse(prog, v.of, y)
               PROVE  v \in DOMAIN e1 /\ e1[v] = c1[o[v.of]]
    BY DEF NearestHold
  <2>1. CASE v.of = n
    <3>1. v = r
      <4>1. b \in prog.blocks /\ i \in Int
        BY WithinABlock
      <4> QED
        BY <1>1, <1>6, <1>7, <2>1, <4>1, NearestAfter
    <3>2. r \in DOMAIN e1 /\ e1[r] = new /\ c1[o[n]] = new
      BY PutFacts
    <3> QED
      BY <2>1, <3>1, <3>2
  <2>2. CASE v.of # n
    <3>1. v.at # x
      <4> SUFFICES ASSUME v.at = x
                   PROVE  FALSE
        OBVIOUS
      <4>1. v.of \in Names
        BY <1>1, VersionKinds DEF DefinedNames
      <4> QED
        BY <1>1, <1>2, <2>2, <4>1, VersionHere, NamesAssumption
    <3>2. InUse(prog, v.of, x)
      BY <1>5
    <3>3. v \in DOMAIN e /\ e[v] = c[o[v.of]]
      BY <3>1, <3>2, StillHeld
    <3>4. v # r
      BY <1>6, <2>2
    <3>5. v \in DOMAIN e1 /\ e1[v] = e[v]
      BY <3>3, <3>4, PutFacts
    <3>6. o[v.of] # o[n]
      BY <1>8, <2>2, <3>2 DEF RunOK, NamesAreApart
    <3>7. o[v.of] \in DOMAIN c
      BY <3>2, WithinABlock
    <3>8. c1[o[v.of]] = c[o[v.of]]
      BY <3>6, <3>7, PutFacts
    <3> QED
      BY <3>3, <3>5, <3>8
  <2> QED
    BY <2>1, <2>2
<1>11. ArgumentsHold(o, e1)
  <2>1. \A a \in prog.args : NameValue(prog, a) # r
    BY <1>6 DEF NameValue
  <2> QED
    BY <2>1, ArgumentsPut DEF RunOK
<1> QED
  BY <1>5, <1>10, <1>11 DEF RunOK

LEMMA ReadStep ==
  ASSUME Built, NEW b, NEW i, <<b, i>> \in CodePositions(prog),
         NEW k, NEW o, NEW c, NEW e, RunOK(<<b, i>>, k, o, c, e),
         NEW ins, ins = Instr(prog, <<b, i>>), ins.def = Absent,
         NEW e1, e1 = IF Redefines(ins)
                      THEN Put(e, Redefinition(ins.obj, b, i), e[operand[ObjSite(b, i)]])
                      ELSE e
  PROVE  RunOK(<<b, i + 1>>, k + 1, o, c, e1)
<1>1. IInv /\ prog \in Programs
  BY BuiltFacts
<1> DEFINE x == <<b, i>>
           y == <<b, i + 1>>
           n == ins.obj
           r == Redefinition(n, b, i)
<1>2. /\ IsPlace(y, k + 1) /\ ObjectsOK(k + 1, o, c)
      /\ DefinedAreKnown(y, o) /\ NamesAreApart(y, o)
      /\ \A m : InUse(prog, m, y) => InUse(prog, m, x)
  BY SameObjects
<1>3. r.kind = "redef" /\ r.of = n /\ r.at = x
  BY DEF Redefinition
<1>4. ASSUME Redefines(ins)
      PROVE  /\ IsVersion(r)
             /\ r \in DOMAIN e1 /\ e1[r] = c[o[n]]
             /\ \A v \in DOMAIN e : v # r => v \in DOMAIN e1 /\ e1[v] = e[v]
  <2>1. IsVersion(r)
    BY <1>3, <1>4 DEF IsVersion
  <2>2. n # Absent
    BY <1>1, <1>4, ProgramsAssumption DEF WellFormed
  <2>3. e[operand[ObjSite(b, i)]] = c[o[n]]
    BY <1>1, <2>2, ObjectFacts, SourceOperandHolds
  <2> QED
    BY <1>4, <2>1, <2>3, PutFacts
<1>5. NearestHold(y, o, c, e1)
  <2> SUFFICES ASSUME NEW v, IsVersion(v), Dominates(prog, v.at, y), NoneNearer(v, y),
                      InUse(prog, v.of, y)
               PROVE  v \in DOMAIN e1 /\ e1[v] = c[o[v.of]]
    BY DEF NearestHold
  <2>1. CASE Redefines(ins) /\ v.of = n
    <3>1. v = r
      <4>1. b \in prog.blocks /\ i \in Int
        BY WithinABlock
      <4> QED
        BY <1>1, <1>3, <1>4, <2>1, <4>1, NearestAfter
    <3> QED
      BY <1>4, <2>1, <3>1
  <2>2. CASE ~ (Redefines(ins) /\ v.of = n)
    <3>1. v.at # x
      <4> SUFFICES ASSUME v.at = x
                   PROVE  FALSE
        OBVIOUS
      <4>1. v.of \in Names
        BY <1>1, VersionKinds DEF DefinedNames
      <4> QED
        BY <1>1, <2>2, <4>1, VersionHere, NamesAssumption
    <3>2. v \in DOMAIN e /\ e[v] = c[o[v.of]]
      <4>1. InUse(prog, v.of, x)
        BY <1>2
      <4> QED
        BY <3>1, <4>1, StillHeld
    <3>3. Redefines(ins) => v # r
      BY <1>3, <2>2
    <3> QED
      BY <1>4, <3>2, <3>3
  <2> QED
    BY <2>1, <2>2
<1>6. ArgumentsHold(o, e1)
  <2>1. \A a \in prog.args : NameValue(prog, a) # r
    BY <1>3 DEF NameValue
  <2> QED
    BY <2>1, ArgumentsPut DEF RunOK
<1> QED
  BY <1>2, <1>5, <1>6 DEF RunOK

LEMMA DefinitionStep ==
  ASSUME Built, NEW b, NEW i, <<b, i>> \in CodePositions(prog),
         NEW k, NEW o, NEW c, NEW e, RunOK(<<b, i>>, k, o, c, e),
         NEW d, d = Instr(prog, <<b, i>>).def, d # Absent,
         NEW u, u = <<"new", k + 1>>,
         NEW o1, o1 = Put(o, d, u), NEW c1, c1 = Put(c, u, <<u, k + 1>>),
         NEW e1, e1 = Put(e, NameValue(prog, d), <<u, k + 1>>)
  PROVE  RunOK(<<b, i + 1>>, k + 1, o1, c1, e1)
<1>1. IInv /\ prog \in Programs
  BY BuiltFacts
<1> DEFINE x == <<b, i>>
           y == <<b, i + 1>>
           ins == Instr(prog, x)
           new == <<u, k + 1>>
<1>2. b \in prog.blocks /\ i \in Int /\ k \in Nat /\ IsPlace(y, k + 1)
  BY WithinABlock
<1>3. \A w : IsObject(w, k) => IsObject(w, k + 1) /\ w # u
  BY <1>1, <1>2, NextPlace
<1>4. ~ Redefines(ins)
  BY BuiltFacts DEF CanRun, ObjectsAreMade, Redefines
<1>5. d \in DefinedNames(prog) /\ d \notin prog.args /\ DefPosition(prog, d) = x
  <2>1. d \in Names
    BY <1>1, CodePositionFacts DEF Instructions
  <2>2. x \in DefPositions(prog, d)
    BY DEF DefPositions
  <2>3. d \in DefinedNames(prog)
    BY <2>1, <2>2 DEF DefinedNames
  <2> QED
    BY <1>1, <2>3, DefinedHere
<1>6. IsVersion(NameValue(prog, d)) /\ NameValue(prog, d).at = x /\ NameValue(prog, d).of = d
  BY <1>1, <1>5, NameValueFacts DEF IsVersion
<1>7. /\ \A n \in DOMAIN o : n # d => n \in DOMAIN o1 /\ o1[n] = o[n]
      /\ d \in DOMAIN o1 /\ o1[d] = u
      /\ \A n \in DOMAIN o1 : n # d => n \in DOMAIN o
      /\ u \in DOMAIN c1 /\ c1[u] = new
      /\ \A w \in DOMAIN c : w # u => w \in DOMAIN c1 /\ c1[w] = c[w]
      /\ NameValue(prog, d) \in DOMAIN e1 /\ e1[NameValue(prog, d)] = new
      /\ \A v \in DOMAIN e : v # NameValue(prog, d) => v \in DOMAIN e1 /\ e1[v] = e[v]
  BY PutFacts
<1>8. \A n : InUse(prog, n, y) /\ n # d => InUse(prog, n, x)
  BY WithinABlock
<1>9. \A n : InUse(prog, n, x) => n \in DOMAIN o /\ o[n] \in DOMAIN c /\ o[n] # u
  BY <1>3, WithinABlock
<1>10. ObjectsOK(k + 1, o1, c1)
  <2> SUFFICES ASSUME NEW n \in DOMAIN o1
               PROVE  IsObject(o1[n], k + 1) /\ o1[n] \in DOMAIN c1
    BY DEF ObjectsOK
  <2>1. CASE n = d
    <3>1. k + 1 \in Nat /\ 1 <= k + 1 /\ k + 1 <= k + 1
      BY <1>2
    <3>2. IsObject(u, k + 1)
      BY <3>1 DEF IsObject
    <3> QED
      BY <1>7, <2>1, <3>2
  <2>2. CASE n # d
    <3>1. IsObject(o[n], k) /\ o[n] \in DOMAIN c /\ o1[n] = o[n]
      BY <1>7, <2>2 DEF RunOK, ObjectsOK
    <3> QED
      BY <1>3, <1>7, <3>1
  <2> QED
    BY <2>1, <2>2
<1>11. DefinedAreKnown(y, o1)
  <2> SUFFICES ASSUME NEW n \in DefinedNames(prog), Dominates(prog, DefPosition(prog, n), y), n # d
               PROVE  n \in DOMAIN o1
    BY <1>7 DEF DefinedAreKnown
  <2>1. Dominates(prog, DefPosition(prog, n), x)
    BY WithinABlock
  <2> QED
    BY <1>7, <2>1 DEF RunOK, DefinedAreKnown
<1>12. NamesAreApart(y, o1)
  <2> SUFFICES ASSUME NEW m, NEW n, InUse(prog, m, y), InUse(prog, n, y), o1[m] = o1[n], m # n
               PROVE  FALSE
    BY DEF NamesAreApart
  <2>1. CASE m # d /\ n # d
    <3>1. InUse(prog, m, x) /\ InUse(prog, n, x)
      BY <1>8, <2>1
    <3>2. o[m] = o[n]
      BY <1>7, <1>9, <2>1, <3>1
    <3> QED
      BY <3>1, <3>2 DEF RunOK, NamesAreApart
  <2>2. CASE m = d \/ n = d
    BY <1>7, <1>8, <1>9, <2>2
  <2> QED
    BY <2>1, <2>2
<1>13. NearestHold(y, o1, c1, e1)
  <2> SUFFICES ASSUME NEW v, IsVersion(v), Dominates(prog, v.at, y), NoneNearer(v, y),
                      InUse(prog, v.of, y)
               PROVE  v \in DOMAIN e1 /\ e1[v] = c1[o1[v.of]]
    BY DEF NearestHold
  <2>1. CASE v.of = d
    <3>1. v = NameValue(prog, d)
      BY <1>1, <1>2, <1>6, <2>1, NearestAfter
    <3> QED
      BY <1>7, <2>1, <3>1
  <2>2. CASE v.of # d
    <3>1. v.at # x
      BY <1>1, <1>4, <2>2, VersionHere
    <3>2. InUse(prog, v.of, x)
      BY <1>8, <2>2
    <3>3. v \in DOMAIN e /\ e[v] = c[o[v.of]]
      BY <3>1, <3>2, StillHeld
    <3>4. v # NameValue(prog, d)
      BY <1>6, <2>2
    <3>5. v \in DOMAIN e1 /\ e1[v] = e[v]
      BY <1>7, <3>3, <3>4
    <3>6. o1[v.of] = o[v.of] /\ c1[o[v.of]] = c[o[v.of]]
      BY <1>7, <1>9, <2>2, <3>2
    <3> QED
      BY <3>3, <3>5, <3>6
  <2> QED
    BY <2>1, <2>2
<1>14. ArgumentsHold(o1, e1)
  <2> SUFFICES ASSUME NEW a \in prog.args
               PROVE  /\ a \in DOMAIN o1 /\ o1[a] = <<"arg", a>>
                      /\ NameValue(prog, a) \in DOMAIN e1
                      /\ e1[NameValue(prog, a)] = <<<<"arg", a>>, 0>>
    BY DEF ArgumentsHold
  <2>1. a # d /\ NameValue(prog, a).of = a
    BY <1>5 DEF NameValue
  <2>2. NameValue(prog, a) # NameValue(prog, d)
    BY <1>6, <2>1
  <2> QED
    BY <1>7, <2>1, <2>2 DEF RunOK, ArgumentsHold
<1> QED
  BY <1>2, <1>10, <1>11, <1>12, <1>13, <1>14 DEF RunOK

-----------------------------------------------------------------------------
(* A step along an edge                                                    *)

(* The name at an incoming value of a PHI.                                 *)
LEMMA NameAlongEdge ==
  ASSUME NEW p, NEW t, NEW n \in Names, NEW e, e # Absent
  PROVE  /\ <<t, n>> \in SourcePhis(p) => NameAt(p, PhiSite(t, n, e)) = p.phis[t][n][e]
         /\ <<t, n>> \notin SourcePhis(p) => NameAt(p, PhiSite(t, n, e)) = n
<1>1. PICK s : s = PhiSite(t, n, e)
  OBVIOUS
<1>2. s.slot = n /\ s.edge = e /\ s.at[1] = t
  BY <1>1 DEF PhiSite
<1>3. s.slot # "obj" /\ s.slot # "in"
  BY <1>2, NamesAssumption
<1>4. NameAt(p, s) = IF <<t, n>> \in SourcePhis(p) THEN p.phis[t][n][e] ELSE n
  BY <1>2, <1>3 DEF NameAt
<1> QED
  BY <1>1, <1>4

(* What a PHI of the target takes along the edge: an operand that is used  *)
(* at the end of the block.                                                *)
LEMMA TakenAlongEdge ==
  ASSUME Built, NEW b \in prog.blocks, NEW j \in DOMAIN prog.succ[b], NEW t, t = prog.succ[b][j]
  PROVE  /\ t \in prog.blocks /\ t # prog.entry /\ t \in SuccSet(prog, b)
         /\ <<b, j>> \in EdgesInto(prog, t)
         /\ \A n \in DOMAIN prog.phis[t] :
              /\ PhiSite(t, n, <<b, j>>) \in SourceSites(prog)
              /\ Point(prog, PhiSite(t, n, <<b, j>>)) = Terminator(prog, b)
              /\ NameAt(prog, PhiSite(t, n, <<b, j>>)) = prog.phis[t][n][<<b, j>>]
              /\ InUse(prog, prog.phis[t][n][<<b, j>>], Terminator(prog, b))
         /\ \A n : <<t, n>> \in insertedPhis =>
              /\ n \in DefinedNames(prog) /\ n \notin DOMAIN prog.phis[t]
              /\ PhiSite(t, n, <<b, j>>) \in DOMAIN operand
              /\ ~ IsLookup(PhiSite(t, n, <<b, j>>))
              /\ Point(prog, PhiSite(t, n, <<b, j>>)) = Terminator(prog, b)
              /\ NameAt(prog, PhiSite(t, n, <<b, j>>)) = n
<1>1. IInv /\ PhisBelow /\ prog \in Programs
  BY BuiltFacts
<1> DEFINE ed == <<b, j>>
           Site(n) == PhiSite(t, n, ed)
<1>2. t \in SuccSet(prog, b) /\ t \in prog.blocks /\ t # prog.entry
  BY <1>1, SuccessorFacts DEF SuccSet
<1>3. ed \in EdgesInto(prog, t)
  <2>1. ed \in {b} \X DOMAIN prog.succ[b]
    OBVIOUS
  <2>2. ed \in Edges(prog)
    BY <2>1 DEF Edges
  <2> QED
    BY <2>2 DEF EdgesInto
<1>4. ed # Absent
  BY <1>1, <1>2, <1>3, EdgeFacts
<1>5. \A n : /\ Site(n).edge = ed /\ Site(n).slot = n /\ Site(n).at = <<t, 0>>
             /\ Point(prog, Site(n)) = Terminator(prog, b) /\ ~ IsLookup(Site(n))
  BY <1>4 DEF PhiSite, Point, IsLookup
<1>6. ASSUME NEW n \in DOMAIN prog.phis[t]
      PROVE  /\ Site(n) \in SourceSites(prog)
             /\ NameAt(prog, Site(n)) = prog.phis[t][n][ed]
             /\ InUse(prog, prog.phis[t][n][ed], Terminator(prog, b))
  <2>1. <<t, n>> \in SourcePhis(prog) /\ n \in Names
    BY <1>1, <1>2, PhiDefines DEF DefinedNames
  <2>2. Site(n) \in SourceSites(prog)
    <3>1. PICK z : z = <<t, n>>
      OBVIOUS
    <3>2. z \in SourcePhis(prog) /\ z[1] = t /\ z[2] = n
      BY <2>1, <3>1
    <3>3. Site(n) \in {PhiSite(z[1], z[2], g) : g \in EdgesInto(prog, z[1])}
      BY <1>3, <3>2
    <3> QED
      BY <3>2, <3>3 DEF SourceSites
  <2>3. NameAt(prog, Site(n)) = prog.phis[t][n][ed]
    BY <1>4, <2>1, NameAlongEdge
  <2>4. Point(prog, Site(n))[1] \in prog.blocks
    BY <1>5 DEF Terminator
  <2> QED
    BY <1>1, <1>5, <2>2, <2>3, <2>4, OperandsAreInUse
<1>7. ASSUME NEW n, <<t, n>> \in insertedPhis
      PROVE  /\ n \in DefinedNames(prog) /\ n \notin DOMAIN prog.phis[t]
             /\ Site(n) \in DOMAIN operand /\ NameAt(prog, Site(n)) = n
  <2>1. PICK z : z = <<t, n>>
    OBVIOUS
  <2>2. z \in insertedPhis /\ z[1] = t /\ z[2] = n
    BY <1>7, <2>1
  <2>3. n \in DefinedNames(prog)
    BY <1>1, <1>7 DEF IInv, TypeOK
  <2>4. n \notin DOMAIN prog.phis[t]
    <3> SUFFICES ASSUME n \in DOMAIN prog.phis[t]
                 PROVE  FALSE
      OBVIOUS
    <3>1. DefPosition(prog, n) = <<t, 0>>
      BY <1>1, <1>2, PhiDefines
    <3>2. Dominates(prog, <<t, 0>>, <<t, 0>>)
      BY <1>1, <2>2, <3>1 DEF PhisBelow
    <3> QED
      BY <1>1, <1>2, <3>2, PointsStrict
  <2>5. Site(n) \in DOMAIN operand
    BY <1>1, <1>3, <2>2 DEF IInv, SitesInv
  <2>6. <<t, n>> \notin SourcePhis(prog)
    <3> SUFFICES ASSUME <<t, n>> \in SourcePhis(prog)
                 PROVE  FALSE
      OBVIOUS
    <3>1. PICK y \in SourcePhis(prog) : y = <<t, n>>
      OBVIOUS
    <3>2. y[1] = t /\ y[2] = n
      BY <3>1
    <3> QED
      BY <1>1, <2>4, <3>2, SourcePhiFacts
  <2>7. n \in Names
    BY <2>3 DEF DefinedNames
  <2> QED
    BY <1>4, <2>3, <2>4, <2>5, <2>6, <2>7, NameAlongEdge
<1> QED
  BY <1>2, <1>3, <1>5, <1>6, <1>7

LEMMA TakenByOwn ==
  ASSUME Built, NEW b \in prog.blocks, NEW j \in DOMAIN prog.succ[b], NEW t, t = prog.succ[b][j],
         NEW ed, ed = <<b, j>>, NEW n \in DOMAIN prog.phis[t]
  PROVE  /\ PhiSite(t, n, ed) \in SourceSites(prog)
         /\ Point(prog, PhiSite(t, n, ed)) = Terminator(prog, b)
         /\ NameAt(prog, PhiSite(t, n, ed)) = prog.phis[t][n][ed]
         /\ InUse(prog, prog.phis[t][n][ed], Terminator(prog, b))
BY TakenAlongEdge

(* The same of all PHIs the target has in the source.                      *)
OwnsTake(t, ed, b) ==
  \A n \in DOMAIN prog.phis[t] :
    /\ PhiSite(t, n, ed) \in SourceSites(prog)
    /\ Point(prog, PhiSite(t, n, ed)) = Terminator(prog, b)
    /\ NameAt(prog, PhiSite(t, n, ed)) = prog.phis[t][n][ed]
    /\ InUse(prog, prog.phis[t][n][ed], Terminator(prog, b))

LEMMA OwnsTakeThem ==
  ASSUME Built, NEW b \in prog.blocks, NEW j \in DOMAIN prog.succ[b], NEW t, t = prog.succ[b][j],
         NEW ed, ed = <<b, j>>
  PROVE  OwnsTake(t, ed, b)
BY TakenByOwn DEF OwnsTake

(* And of all the pass gave it.                                            *)
AddedTake(t, ed, b) ==
  \A n : <<t, n>> \in insertedPhis =>
    /\ n \in DefinedNames(prog) /\ n \notin DOMAIN prog.phis[t]
    /\ PhiSite(t, n, ed) \in DOMAIN operand /\ ~ IsLookup(PhiSite(t, n, ed))
    /\ Point(prog, PhiSite(t, n, ed)) = Terminator(prog, b)
    /\ NameAt(prog, PhiSite(t, n, ed)) = n

LEMMA AddedTakeThem ==
  ASSUME Built, NEW b \in prog.blocks, NEW j \in DOMAIN prog.succ[b], NEW t, t = prog.succ[b][j],
         NEW ed, ed = <<b, j>>
  PROVE  AddedTake(t, ed, b)
<1>1. ASSUME NEW n, <<t, n>> \in insertedPhis
      PROVE  /\ n \in DefinedNames(prog) /\ n \notin DOMAIN prog.phis[t]
             /\ PhiSite(t, n, ed) \in DOMAIN operand /\ ~ IsLookup(PhiSite(t, n, ed))
             /\ Point(prog, PhiSite(t, n, ed)) = Terminator(prog, b)
             /\ NameAt(prog, PhiSite(t, n, ed)) = n
  BY <1>1, TakenAlongEdge
<1> QED
  BY <1>1 DEF AddedTake

LEMMA FirstOf == ASSUME NEW t, NEW x, x = <<t, 0>> PROVE x[1] = t
OBVIOUS

(* What is in use at the beginning of the target, but defined by a PHI of  *)
(* it, is in use at the end of the block.                                  *)
LEMMA FromAbove ==
  ASSUME Built, NEW b \in prog.blocks, NEW t \in SuccSet(prog, b), NEW n,
         n \notin DOMAIN prog.phis[t]
  PROVE  /\ InUse(prog, n, <<t, 1>>) =>
              /\ InUse(prog, n, Terminator(prog, b)) /\ t \in LiveIn(prog, n)
         /\ n \in DefinedNames(prog) /\ Dominates(prog, DefPosition(prog, n), <<t, 1>>) =>
              Dominates(prog, DefPosition(prog, n), Terminator(prog, b))
<1>1. prog \in Programs /\ t \in prog.blocks \ {prog.entry} /\ b \in Preds(prog, t)
  BY BuiltFacts, SuccessorFacts DEF Preds
<1>2. ASSUME n \in DefinedNames(prog), Dominates(prog, DefPosition(prog, n), <<t, 1>>)
      PROVE  DefPosition(prog, n)[1] # t /\ DefPosition(prog, n)[1] \in prog.blocks
  BY <1>1, <1>2, DefinedByPhi, DefPositionFacts
<1>3. ASSUME InUse(prog, n, <<t, 1>>)
      PROVE  InUse(prog, n, Terminator(prog, b)) /\ t \in LiveIn(prog, n)
  <2>1. DefPosition(prog, n)[1] # t
    BY <1>2, <1>3 DEF InUse
  <2>2. InUse(prog, n, Terminator(prog, b))
    BY <1>1, <1>3, <2>1, InUseAtEnd
  <2> QED
    BY <1>3, <2>1, <2>2 DEF InUse
<1>4. ASSUME n \in DefinedNames(prog), Dominates(prog, DefPosition(prog, n), <<t, 1>>)
      PROVE  Dominates(prog, DefPosition(prog, n), Terminator(prog, b))
  <2>1. <<DefPosition(prog, n)[1], t>> \in prog.dom
    BY <1>2, <1>4 DEF Dominates
  <2>2. <<DefPosition(prog, n)[1], b>> \in prog.dom
    BY <1>1, <1>2, <1>4, <2>1, DominatesPredecessors
  <2> QED
    BY <1>1, <1>4, <2>2, DummiesAreDominated
<1> QED
  BY <1>3, <1>4

(* An edge is taken with the objects o and the values e: what they are     *)
(* then, at the beginning of t.                                            *)
EdgeTaken(b, j, o, e, t, o1, e1) ==
  LET ed == <<b, j>>
      own == DOMAIN prog.phis[t]
      added == {n \in Names : <<t, n>> \in insertedPhis}
      phiValues == {NameValue(prog, n) : n \in own} \cup {PhiValue(t, n) : n \in added}
      defined == {v \in phiValues : operand[PhiSite(t, v.of, ed)] \in DOMAIN e}
  IN  /\ t = prog.succ[b][j]
      /\ e1 = [v \in DOMAIN e \cup defined |->
                 IF v \in defined THEN e[operand[PhiSite(t, v.of, ed)]] ELSE e[v]]
      /\ o1 = [n \in DOMAIN o \cup own |-> IF n \in own THEN o[prog.phis[t][n][ed]] ELSE o[n]]

LEMMA EdgeStep ==
  ASSUME Built, NEW b \in prog.blocks, NEW k, NEW o, NEW c, NEW e,
         RunOK(Terminator(prog, b), k, o, c, e),
         NEW j \in DOMAIN prog.succ[b], NEW t, NEW o1, NEW e1, EdgeTaken(b, j, o, e, t, o1, e1)
  PROVE  RunOK(<<t, 1>>, k + 1, o1, c, e1)
<1>1. IInv /\ prog \in Programs
  BY BuiltFacts
<1>2. PICK ed, own, added : /\ ed = <<b, j>> /\ own = DOMAIN prog.phis[t]
                            /\ added = {n \in Names : <<t, n>> \in insertedPhis}
  OBVIOUS
<1>3. PICK phiValues :
        phiValues = {NameValue(prog, n) : n \in own} \cup {PhiValue(t, n) : n \in added}
  OBVIOUS
<1>4. PICK defined : defined = {v \in phiValues : operand[PhiSite(t, v.of, ed)] \in DOMAIN e}
  OBVIOUS
<1>5. /\ t = prog.succ[b][j]
      /\ e1 = [v \in DOMAIN e \cup defined |->
                 IF v \in defined THEN e[operand[PhiSite(t, v.of, ed)]] ELSE e[v]]
      /\ o1 = [n \in DOMAIN o \cup own |-> IF n \in own THEN o[prog.phis[t][n][ed]] ELSE o[n]]
  BY <1>2, <1>3, <1>4 DEF EdgeTaken
<1> DEFINE x == Terminator(prog, b)
           y == <<t, 1>>
           From(n) == prog.phis[t][n][ed]
           Site(n) == PhiSite(t, n, ed)
<1>6. t \in prog.blocks /\ t # prog.entry /\ t \in SuccSet(prog, b) /\ ed \in EdgesInto(prog, t)
  BY <1>2, <1>5, TakenAlongEdge
<1>7. \A n \in own : /\ Site(n) \in SourceSites(prog) /\ Point(prog, Site(n)) = x
                     /\ NameAt(prog, Site(n)) = From(n) /\ InUse(prog, From(n), x)
  <2>1. OwnsTake(t, ed, b)
    BY <1>2, <1>5, OwnsTakeThem
  <2> QED
    BY <1>2, <2>1 DEF OwnsTake
<1>8. \A n : <<t, n>> \in insertedPhis =>
               /\ n \in DefinedNames(prog) /\ n \notin own
               /\ Site(n) \in DOMAIN operand /\ ~ IsLookup(Site(n))
               /\ Point(prog, Site(n)) = x /\ NameAt(prog, Site(n)) = n
  <2>1. AddedTake(t, ed, b)
    BY <1>2, <1>5, AddedTakeThem
  <2> QED
    BY <1>2, <2>1 DEF AddedTake
<1>9. \A n : n \notin own =>
               /\ InUse(prog, n, y) => InUse(prog, n, x) /\ t \in LiveIn(prog, n)
               /\ n \in DefinedNames(prog) /\ Dominates(prog, DefPosition(prog, n), y) =>
                    Dominates(prog, DefPosition(prog, n), x)
  BY <1>6, <1>2, FromAbove
<1>10. \A n \in own : /\ DefPosition(prog, n) = <<t, 0>> /\ n \notin prog.args
                      /\ n \in DefinedNames(prog)
  BY <1>1, <1>6, <1>2, PhiDefines
<1>11. \A n : InUse(prog, n, x) => n \in DOMAIN o /\ o[n] \in DOMAIN c /\ IsObject(o[n], k)
  BY DEF RunOK, InUse, DefinedAreKnown, ObjectsOK
<1>12. /\ \A n \in own : n \in DOMAIN o1 /\ o1[n] = o[From(n)]
       /\ \A n \in DOMAIN o : n \notin own => n \in DOMAIN o1 /\ o1[n] = o[n]
       /\ \A n \in DOMAIN o1 : n \notin own => n \in DOMAIN o
  BY <1>5
<1>13. /\ \A v \in defined : v \in DOMAIN e1 /\ e1[v] = e[operand[Site(v.of)]]
       /\ \A v \in DOMAIN e : v \notin defined => v \in DOMAIN e1 /\ e1[v] = e[v]
  BY <1>5
<1>14. IsPlace(y, k + 1) /\ \A u : IsObject(u, k) => IsObject(u, k + 1)
  <2>1. k \in Nat /\ Len(prog.code[t]) \in Nat
    BY <1>1, <1>6, CodeLength DEF RunOK, IsPlace
  <2>2. k + 1 \in Nat /\ 1 \in 1 .. Len(prog.code[t]) + 1 /\ \A i \in Nat : i <= k => i <= k + 1
    BY <2>1
  <2> QED
    BY <1>6, <2>2 DEF IsPlace, IsObject
<1>15. \A v \in defined : \/ \E n \in own : v = NameValue(prog, n)
                          \/ \E n \in added : v = PhiValue(t, n)
  BY <1>3, <1>4
<1>16. \A v \in phiValues : operand[Site(v.of)] \in DOMAIN e => v \in defined
  BY <1>4
<1>17. /\ \A n \in own : NameValue(prog, n) \in phiValues
       /\ \A n \in added : PhiValue(t, n) \in phiValues
       /\ \A n : <<t, n>> \in insertedPhis => n \in added
  BY <1>8, <1>2, <1>3 DEF DefinedNames
<1> HIDE DEF x, y, From, Site
<1>18. ObjectsOK(k + 1, o1, c)
  <2> SUFFICES ASSUME NEW n \in DOMAIN o1
               PROVE  IsObject(o1[n], k + 1) /\ o1[n] \in DOMAIN c
    BY DEF ObjectsOK
  <2>1. CASE n \in own
    <3>1. InUse(prog, From(n), x) /\ o1[n] = o[From(n)]
      BY <1>7, <1>12, <2>1
    <3>2. o[From(n)] \in DOMAIN c /\ IsObject(o[From(n)], k)
      BY <1>11, <3>1
    <3> QED
      BY <1>14, <3>1, <3>2
  <2>2. CASE n \notin own
    <3>1. n \in DOMAIN o
      BY <1>12, <2>2
    <3>2. o1[n] = o[n]
      BY <1>12, <2>2, <3>1
    <3>3. IsObject(o[n], k) /\ o[n] \in DOMAIN c
      BY <3>1 DEF RunOK, ObjectsOK
    <3> QED
      BY <1>14, <3>2, <3>3
  <2> QED
    BY <2>1, <2>2
<1>19. DefinedAreKnown(y, o1)
  <2> SUFFICES ASSUME NEW n \in DefinedNames(prog), Dominates(prog, DefPosition(prog, n), y)
               PROVE  n \in DOMAIN o1
    BY DEF DefinedAreKnown
  <2>1. CASE n \in own
    BY <1>12, <2>1
  <2>2. CASE n \notin own
    <3>1. n \in DOMAIN o
      BY <1>9, <2>2 DEF RunOK, DefinedAreKnown, x
    <3> QED
      BY <1>12, <2>2, <3>1
  <2> QED
    BY <2>1, <2>2
<1>20. PhisTakeOver(prog)
  BY BuiltFacts DEF CanRun
<1>21. NamesAreApart(y, o1)
  <2>1. NamesAreApart(x, o)
    BY DEF RunOK, x
  <2>2. ASSUME NEW m \in own, NEW n, n \notin own, InUse(prog, n, y), o1[m] = o1[n]
        PROVE  FALSE
    <3>1. InUse(prog, n, x) /\ t \in LiveIn(prog, n) /\ InUse(prog, From(m), x)
      BY <1>7, <1>9, <2>2
    <3>2. o[From(m)] = o[n]
      BY <1>11, <1>12, <2>2, <3>1
    <3>3. From(m) = n
      BY <2>1, <3>1, <3>2 DEF NamesAreApart
    <3>4. t \notin LiveIn(prog, From(m))
      BY <1>6, <1>20, <1>2 DEF PhisTakeOver, From
    <3> QED
      BY <3>1, <3>3, <3>4
  <2>3. ASSUME NEW m \in own, NEW n \in own, o1[m] = o1[n]
        PROVE  m = n
    <3>1. From(m) = From(n)
      BY <1>7, <1>12, <2>1, <2>3 DEF NamesAreApart
    <3> QED
      BY <1>6, <1>20, <1>2, <3>1 DEF PhisTakeOver, From
  <2>4. ASSUME NEW m, NEW n, m \notin own, n \notin own, InUse(prog, m, y), InUse(prog, n, y),
               o1[m] = o1[n]
        PROVE  m = n
    <3>1. InUse(prog, m, x) /\ InUse(prog, n, x)
      BY <1>9, <2>4
    <3>2. o[m] = o[n]
      BY <1>11, <1>12, <2>4, <3>1
    <3> QED
      BY <2>1, <3>1, <3>2 DEF NamesAreApart
  <2> QED
    BY <2>2, <2>3, <2>4 DEF NamesAreApart
<1>22. NearestHold(y, o1, c, e1)
  <2> SUFFICES ASSUME NEW v, IsVersion(v), Dominates(prog, v.at, y), NoneNearer(v, y),
                      InUse(prog, v.of, y)
               PROVE  v \in DOMAIN e1 /\ e1[v] = c[o1[v.of]]
    BY DEF NearestHold
  <2>1. CASE v.at[1] = t /\ v = NameValue(prog, v.of) /\ v.of \in own
    <3>1. operand[Site(v.of)] \in DOMAIN e /\ e[operand[Site(v.of)]] = c[o[From(v.of)]]
      BY <1>7, <2>1, SourceOperandHolds DEF x
    <3>2. v \in defined
      BY <1>16, <1>17, <2>1, <3>1
    <3> QED
      BY <1>12, <1>13, <2>1, <3>1, <3>2
  <2>2. CASE v.at[1] = t /\ v = PhiValue(t, v.of) /\ <<t, v.of>> \in insertedPhis
    <3>1. v.of \notin own /\ InUse(prog, v.of, x)
      BY <1>8, <1>9, <2>2
    <3>2. operand[Site(v.of)] \in DOMAIN e /\ e[operand[Site(v.of)]] = c[o[v.of]]
      BY <1>8, <2>2, <3>1, OperandHolds DEF x
    <3>3. v \in defined
      BY <1>16, <1>17, <2>2, <3>2
    <3>4. o1[v.of] = o[v.of]
      BY <1>11, <1>12, <3>1
    <3> QED
      BY <1>13, <3>2, <3>3, <3>4
  <2>3. CASE v.at[1] # t
    <3>1. Dominates(prog, v.at, x) /\ NoneNearer(v, x) /\ DefPosition(prog, v.of)[1] # t
      BY <1>6, <2>3, NearestAtEnd DEF x, y
    <3>2. v.of \notin own
      BY <1>10, <3>1
    <3>3. InUse(prog, v.of, x)
      BY <1>9, <3>2
    <3>4. v \in DOMAIN e /\ e[v] = c[o[v.of]]
      BY <3>1, <3>3, HeldThere DEF RunOK, x
    <3>5. v \notin defined
      <4> SUFFICES ASSUME v \in defined
                   PROVE  FALSE
        OBVIOUS
      <4>1. CASE \E n \in own : v = NameValue(prog, n)
        <5>1. PICK n \in own : v = NameValue(prog, n)
          BY <4>1
        <5>2. v.at = <<t, 0>>
          BY <1>10, <5>1 DEF NameValue
        <5> QED
          BY <2>3, <5>2, FirstOf
      <4>2. CASE \E n \in added : v = PhiValue(t, n)
        <5>1. PICK n \in added : v = PhiValue(t, n)
          BY <4>2
        <5>2. v.at = <<t, 0>>
          BY <5>1 DEF PhiValue
        <5> QED
          BY <2>3, <5>2, FirstOf
      <4> QED
        BY <1>15, <4>1, <4>2
    <3>6. o1[v.of] = o[v.of]
      BY <1>11, <1>12, <3>2, <3>3
    <3> QED
      BY <1>13, <3>4, <3>5, <3>6
  <2>4. v.at[1] = t => \/ v = NameValue(prog, v.of) /\ v.of \in own
                       \/ v = PhiValue(t, v.of) /\ <<t, v.of>> \in insertedPhis
    BY <1>1, <1>6, <1>2, VersionsAtBeginning DEF y
  <2> QED
    BY <2>1, <2>2, <2>3, <2>4
<1>23. ArgumentsHold(o1, e1)
  <2> SUFFICES ASSUME NEW a \in prog.args
               PROVE  /\ a \in DOMAIN o1 /\ o1[a] = <<"arg", a>>
                      /\ NameValue(prog, a) \in DOMAIN e1
                      /\ e1[NameValue(prog, a)] = <<<<"arg", a>>, 0>>
    BY DEF ArgumentsHold
  <2>1. /\ a \in DOMAIN o /\ o[a] = <<"arg", a>> /\ NameValue(prog, a) \in DOMAIN e
        /\ e[NameValue(prog, a)] = <<<<"arg", a>>, 0>>
    BY DEF RunOK, ArgumentsHold
  <2>2. a \notin own
    BY <1>10
  <2>3. NameValue(prog, a) \notin defined
    <3> SUFFICES ASSUME NameValue(prog, a) \in defined
                 PROVE  FALSE
      OBVIOUS
    <3>1. NameValue(prog, a).of = a /\ NameValue(prog, a).kind = "name"
      BY DEF NameValue
    <3>2. CASE \E n \in own : NameValue(prog, a) = NameValue(prog, n)
      <4>1. PICK n \in own : NameValue(prog, a) = NameValue(prog, n)
        BY <3>2
      <4>2. NameValue(prog, n).of = n
        BY DEF NameValue
      <4> QED
        BY <2>2, <3>1, <4>1, <4>2
    <3>3. CASE \E n \in added : NameValue(prog, a) = PhiValue(t, n)
      <4>1. PICK n \in added : NameValue(prog, a) = PhiValue(t, n)
        BY <3>3
      <4>2. PhiValue(t, n).kind = "phi"
        BY DEF PhiValue
      <4> QED
        BY <3>1, <4>1, <4>2
    <3> QED
      BY <1>15, <3>2, <3>3
  <2> QED
    BY <1>12, <1>13, <2>1, <2>2, <2>3
<1> QED
  BY <1>14, <1>18, <1>19, <1>21, <1>22, <1>23 DEF RunOK, y

-----------------------------------------------------------------------------
(* The run                                                                 *)

(* Only arguments are defined where the run begins.                        *)
LEMMA EntryDefines ==
  ASSUME NEW p \in Programs, NEW n \in DefinedNames(p),
         Dominates(p, DefPosition(p, n), <<p.entry, 1>>)
  PROVE  n \in p.args
<1>1. DefPosition(p, n) \in DefPositions(p, n) /\ DefPosition(p, n) \in p.blocks \X Int
  BY DefPositionFacts
<1>2. DefPosition(p, n)[1] = p.entry /\ DefPosition(p, n)[2] < 1
  BY <1>1, EntryDominated DEF Dominates
<1>3. CASE DefPosition(p, n) \in CodePositions(p)
  <2>1. DefPosition(p, n)[2] \in 1 .. Len(p.code[DefPosition(p, n)[1]])
    BY <1>3, CodePositionFacts
  <2> QED
    BY <1>2, <2>1
<1>4. CASE \E b \in p.blocks : DefPosition(p, n) = <<b, 0>> /\ <<b, n>> \in SourcePhis(p)
  <2>1. PICK b \in p.blocks : DefPosition(p, n) = <<b, 0>> /\ <<b, n>> \in SourcePhis(p)
    BY <1>4
  <2>2. PICK z \in SourcePhis(p) : z = <<b, n>>
    BY <2>1
  <2>3. z[1] = p.entry
    BY <1>2, <2>1, <2>2
  <2>4. DOMAIN p.phis[p.entry] = {}
    BY ProgramsAssumption DEF WellFormed
  <2> QED
    BY <2>2, <2>3, <2>4, SourcePhiFacts
<1> QED
  BY <1>1, <1>3, <1>4, PositionCases

LEMMA StartOK ==
  ASSUME IInv, PhisBelow,
         NEW o, o = [n \in prog.args |-> <<"arg", n>>],
         NEW c, c = [u \in {<<"arg", n>> : n \in prog.args} |-> <<u, 0>>],
         NEW e, e = [v \in {NameValue(prog, n) : n \in prog.args} |-> <<<<"arg", v.of>>, 0>>]
  PROVE  RunOK(<<prog.entry, 1>>, 0, o, c, e)
<1> DEFINE x == <<prog.entry, 1>>
<1>1. prog \in Programs /\ prog.entry \in prog.blocks
  BY GraphFacts DEF IInv, TypeOK
<1>2. IsPlace(x, 0)
  <2>1. Len(prog.code[prog.entry]) \in Nat
    BY <1>1, CodeLength
  <2>2. 1 \in 1 .. Len(prog.code[prog.entry]) + 1 /\ 0 \in Nat
    BY <2>1
  <2> QED
    BY <1>1, <2>2 DEF IsPlace
<1>3. ASSUME NEW a \in prog.args
      PROVE  /\ a \in DOMAIN o /\ o[a] = <<"arg", a>>
             /\ o[a] \in DOMAIN c /\ c[o[a]] = <<<<"arg", a>>, 0>>
             /\ NameValue(prog, a) \in DOMAIN e /\ e[NameValue(prog, a)] = <<<<"arg", a>>, 0>>
  <2>1. NameValue(prog, a).of = a
    BY DEF NameValue
  <2> QED
    BY <2>1
<1>4. \A n \in DOMAIN o : n \in prog.args
  OBVIOUS
<1>5. ObjectsOK(0, o, c)
  BY <1>3, <1>4 DEF ObjectsOK, IsObject
<1>6. \A n : n \in DefinedNames(prog) /\ Dominates(prog, DefPosition(prog, n), x) => n \in prog.args
  BY <1>1, EntryDefines
<1>7. DefinedAreKnown(x, o)
  BY <1>3, <1>6 DEF DefinedAreKnown
<1>8. NamesAreApart(x, o)
  BY <1>3, <1>6 DEF NamesAreApart, InUse
<1>9. NearestHold(x, o, c, e)
  <2> SUFFICES ASSUME NEW v, IsVersion(v), Dominates(prog, v.at, x), InUse(prog, v.of, x)
               PROVE  v \in DOMAIN e /\ e[v] = c[o[v.of]]
    BY DEF NearestHold
  <2>1. v.of \in prog.args
    BY <1>6 DEF InUse
  <2>2. /\ v.at \in prog.blocks \X Int
        /\ v.at[1] = prog.entry /\ v.at[2] < 1
    <3>1. v.at \in prog.blocks \X Int
      BY VersionKinds
    <3> QED
      BY <1>1, <3>1, EntryDominated DEF Dominates
  <2>3. v.kind # "phi"
    <3> SUFFICES ASSUME v.kind = "phi"
                 PROVE  FALSE
      OBVIOUS
    <3>1. PICK z \in insertedPhis : z = <<v.at[1], v.of>>
      BY VersionKinds
    <3> QED
      BY <2>2, <3>1 DEF PhisBelow
  <2>4. v.kind # "redef"
    <3> SUFFICES ASSUME v.kind = "redef"
                 PROVE  FALSE
      OBVIOUS
    <3>1. 1 <= v.at[2] /\ v.at[2] < 1 /\ v.at[2] \in Int
      BY <2>2, VersionKinds
    <3> QED
      BY <3>1
  <2>5. v = NameValue(prog, v.of)
    BY <2>3, <2>4, VersionKinds
  <2> QED
    BY <1>3, <2>1, <2>5
<1>10. ArgumentsHold(o, e)
  BY <1>3 DEF ArgumentsHold
<1> QED
  BY <1>2, <1>5, <1>7, <1>8, <1>9, <1>10 DEF RunOK

LEMMA RunOKThen ==
  ASSUME UNCHANGED <<prog, insertedPhis>>, NEW x, NEW k, NEW o, NEW c, NEW e, RunOK(x, k, o, c, e)
  PROVE  RunOK(x, k, o, c, e)'
<1>1. \A v : IsVersion(v)' <=> IsVersion(v)
  BY DEF IsVersion
<1>2. \A v, y : NoneNearer(v, y)' <=> NoneNearer(v, y)
  BY NearestStays
<1>3. NearestHold(x, o, c, e)'
  BY <1>1, <1>2 DEF RunOK, NearestHold
<1>4. /\ IsPlace(x, k)' /\ ObjectsOK(k, o, c)' /\ DefinedAreKnown(x, o)' /\ NamesAreApart(x, o)'
      /\ ArgumentsHold(o, e)'
  BY DEF RunOK, IsPlace, ObjectsOK, IsObject, DefinedAreKnown, NamesAreApart, ArgumentsHold
<1> QED
  BY <1>3, <1>4 DEF RunOK

RunBegins ==
  /\ xblock = prog.entry /\ xidx = 1 /\ clock = 0
  /\ objectOf = [n \in prog.args |-> <<"arg", n>>]
  /\ contents = [u \in {<<"arg", n>> : n \in prog.args} |-> <<u, 0>>]
  /\ env = [v \in {NameValue(prog, n) : n \in prog.args} |-> <<<<"arg", v.of>>, 0>>]

RunGoesOn == RunOK(<<xblock, xidx>>, clock, objectOf, contents, env)

(* What a step yields is what the run goes on with.                        *)
LEMMA GoesOn ==
  ASSUME UNCHANGED <<prog, insertedPhis>>,
         NEW x, NEW k, NEW o, NEW c, NEW e, RunOK(x, k, o, c, e),
         x = <<xblock', xidx'>>, k = clock', o = objectOf', c = contents', e = env'
  PROVE  RunGoesOn'
<1>1. RunOK(x, k, o, c, e)'
  BY RunOKThen
<1> QED
  BY <1>1 DEF RunGoesOn

LEMMA NotPastTheEnd == ASSUME NEW j \in Nat, NEW i \in 1 .. j + 1, i <= j PROVE i \in 1 .. j
OBVIOUS

LEMMA AtTheEnd == ASSUME NEW j \in Nat, NEW i \in 1 .. j + 1, i > j PROVE i = j + 1
OBVIOUS

LEMMA AtCode ==
  ASSUME Built, RunGoesOn, xidx <= Len(prog.code[xblock])
  PROVE  <<xblock, xidx>> \in CodePositions(prog) /\ Here = Instr(prog, <<xblock, xidx>>)
<1>1. xblock \in prog.blocks /\ xidx \in 1 .. Len(prog.code[xblock]) + 1
  BY DEF RunGoesOn, RunOK, IsPlace
<1>2. xidx \in 1 .. Len(prog.code[xblock])
  BY <1>1, BuiltFacts, CodeLength, NotPastTheEnd
<1> QED
  BY <1>1, <1>2, BuiltFacts, CodePositionIntro DEF Here, Instr

LEMMA EdgeIsTaken ==
  ASSUME RunEdge
  PROVE  \E j \in DOMAIN prog.succ[xblock] :
           EdgeTaken(xblock, j, objectOf, env, xblock', objectOf', env')
<1>1. PICK k \in DOMAIN prog.succ[xblock] :
        LET t == prog.succ[xblock][k]
            e == <<xblock, k>>
            own == DOMAIN prog.phis[t]
            added == {n \in Names : <<t, n>> \in insertedPhis}
            Of(v) == PhiSite(t, v.of, e)
            phiValues == {NameValue(prog, n) : n \in own} \cup {PhiValue(t, n) : n \in added}
            defined == {v \in phiValues : operand[Of(v)] \in DOMAIN env}
        IN  /\ xblock' = t
            /\ env' = [v \in DOMAIN env \cup defined |->
                         IF v \in defined THEN env[operand[Of(v)]] ELSE env[v]]
            /\ objectOf' = [n \in DOMAIN objectOf \cup own |->
                              IF n \in own THEN objectOf[prog.phis[t][n][e]] ELSE objectOf[n]]
  BY DEF RunEdge
<1> QED
  BY <1>1 DEF EdgeTaken

LEMMA RunStep ==
  ASSUME Built, RunGoesOn, RunMutation \/ RunRead \/ RunDefinition \/ RunEdge
  PROVE  RunGoesOn'
<1>1. PICK b, i, k, o, c, e : b = xblock /\ i = xidx /\ k = clock /\ o = objectOf
                              /\ c = contents /\ e = env
  OBVIOUS
<1>2. RunOK(<<b, i>>, k, o, c, e)
  BY <1>1 DEF RunGoesOn
<1>3. UNCHANGED <<prog, insertedPhis>>
  BY DEF RunMutation, RunRead, RunDefinition, RunEdge, vars, phiVars
<1>4. PICK o1, c1, e1 : o1 = objectOf' /\ c1 = contents' /\ e1 = env'
  OBVIOUS
<1>5. CASE RunMutation
  <2>1. PICK ins : ins = Here
    OBVIOUS
  <2>2. <<b, i>> \in CodePositions(prog) /\ ins = Instr(prog, <<b, i>>)
    BY <1>1, <1>5, <2>1, AtCode DEF RunMutation, AtInstruction
  <2>3. /\ ins.op \in {"mut", "call"} \/ (ins.op = "fold" /\ ins.mutates)
        /\ c1 = Put(c, o[ins.obj], <<o[ins.obj], k + 1>>)
        /\ e1 = Put(e, Redefinition(ins.obj, b, i), <<o[ins.obj], k + 1>>)
        /\ o1 = o /\ xblock' = b /\ xidx' = i + 1 /\ clock' = k + 1
    BY <1>1, <1>4, <1>5, <2>1 DEF RunMutation
  <2>4. RunOK(<<b, i + 1>>, k + 1, o, c1, e1)
    BY <1>2, <2>2, <2>3, MutationStep
  <2> QED
    BY <1>3, <1>4, <2>3, <2>4, GoesOn
<1>6. CASE RunRead
  <2>1. PICK ins : ins = Here
    OBVIOUS
  <2>2. <<b, i>> \in CodePositions(prog) /\ ins = Instr(prog, <<b, i>>)
    BY <1>1, <1>6, <2>1, AtCode DEF RunRead, AtInstruction
  <2>3. /\ ins.def = Absent
        /\ e1 = IF Redefines(ins)
                THEN Put(e, Redefinition(ins.obj, b, i), e[operand[ObjSite(b, i)]])
                ELSE e
        /\ o1 = o /\ c1 = c /\ xblock' = b /\ xidx' = i + 1 /\ clock' = k + 1
    BY <1>1, <1>4, <1>6, <2>1 DEF RunRead, Seen
  <2>4. RunOK(<<b, i + 1>>, k + 1, o, c, e1)
    BY <1>2, <2>2, <2>3, ReadStep
  <2> QED
    BY <1>3, <1>4, <2>3, <2>4, GoesOn
<1>7. CASE RunDefinition
  <2>1. PICK d, u : d = Here.def /\ u = <<"new", k + 1>>
    OBVIOUS
  <2>2. <<b, i>> \in CodePositions(prog) /\ d = Instr(prog, <<b, i>>).def
    BY <1>1, <1>7, <2>1, AtCode DEF RunDefinition, AtInstruction
  <2>3. /\ d # Absent
        /\ o1 = Put(o, d, u) /\ c1 = Put(c, u, <<u, k + 1>>)
        /\ e1 = Put(e, NameValue(prog, d), <<u, k + 1>>)
        /\ xblock' = b /\ xidx' = i + 1 /\ clock' = k + 1
    BY <1>1, <1>4, <1>7, <2>1 DEF RunDefinition
  <2>4. RunOK(<<b, i + 1>>, k + 1, o1, c1, e1)
    BY <1>2, <2>1, <2>2, <2>3, DefinitionStep
  <2> QED
    BY <1>3, <1>4, <2>3, <2>4, GoesOn
<1>8. CASE RunEdge
  <2>1. b \in prog.blocks /\ <<b, i>> = Terminator(prog, b)
    <3>1. b \in prog.blocks /\ i \in 1 .. Len(prog.code[b]) + 1
      BY <1>2 DEF RunOK, IsPlace
    <3>2. i > Len(prog.code[b])
      BY <1>1, <1>8 DEF RunEdge
    <3>3. i = Len(prog.code[b]) + 1
      BY <3>1, <3>2, BuiltFacts, CodeLength, AtTheEnd
    <3> QED
      BY <3>1, <3>3 DEF Terminator
  <2>2. PICK t : t = xblock'
    OBVIOUS
  <2>3. PICK j \in DOMAIN prog.succ[b] : EdgeTaken(b, j, o, e, t, o1, e1)
    BY <1>1, <1>4, <1>8, <2>2, EdgeIsTaken
  <2>4. RunOK(<<t, 1>>, k + 1, o1, c, e1)
    BY <1>2, <2>1, <2>3, EdgeStep
  <2>5. xidx' = 1 /\ clock' = k + 1 /\ c1 = c
    BY <1>1, <1>4, <1>8 DEF RunEdge
  <2> QED
    BY <1>3, <1>4, <2>2, <2>4, <2>5, GoesOn
<1> QED
  BY <1>5, <1>6, <1>7, <1>8

(* The invariant of construction and run.                                  *)
XInv ==
  /\ WInv /\ PhisInv /\ CanRun(prog)
  /\ pc = "done" => todo = <<>>
  /\ IF pc = "done" THEN RunGoesOn ELSE RunBegins

LEMMA XStart ==
  ASSUME \A p \in Programs : CanRun(p), XInit
  PROVE  XInv
<1>1. Init /\ prog \in Programs /\ pc # "done"
  BY DEF XInit, Init
<1>2. CanRun(prog) /\ SimpleEdges(prog)
  BY <1>1 DEF CanRun
<1>3. WInv
  <2>1. IInv /\ TreeInv /\ SitesAre /\ WalkInv
    BY <1>1, InitInv, TreeInit, SitesInit, WalkInit
  <2>2. PhisBelow /\ AskedHere /\ SiteIsHere
    BY <1>1 DEF Init, PhisBelow, AskedHere, SiteIsHere, Walking
  <2> QED
    BY <1>2, <2>1, <2>2 DEF WInv
<1>4. PhisInv
  BY <1>1, PhisInit
<1>5. RunBegins
  BY DEF XInit, RunBegins
<1> QED
  BY <1>1, <1>2, <1>3, <1>4, <1>5 DEF XInv

LEMMA ProgramStays == [Next]_vars => prog' = prog
BY DEF Next, Construct, Walk, Finished, PickName, InsertPhis, NameDone, SubtreeDone, WalkDone,
       Begin, Follow, Rename, Advance, LeaveBlock, PickBlock, vars

LEMMA XStep == XInv /\ [XNext]_xvars => XInv'
<1> SUFFICES ASSUME XInv, [XNext]_xvars
             PROVE  XInv'
  OBVIOUS
<1>1. [Next]_vars
  BY DEF XNext, RunMutation, RunRead, RunDefinition, RunEdge, Halted, xvars, Next
<1>2. WInv' /\ PhisInv' /\ prog' = prog /\ CanRun(prog)'
  <2>1. IInv
    BY DEF XInv, WInv
  <2>2. prog' = prog
    BY <1>1, ProgramStays
  <2> QED
    BY <1>1, <2>1, <2>2, WNext, PhisNext DEF XInv
<1>3. (pc = "done" => todo = <<>>)'
  BY <1>1 DEF XInv, Next, Construct, Walk, Finished, PickName, InsertPhis, NameDone, SubtreeDone,
              WalkDone, Begin, Follow, Rename, Advance, LeaveBlock, PickBlock, vars, walkVars
<1>4. CASE Construct /\ UNCHANGED runVars
  <2>1. pc # "done" /\ RunBegins
    BY <1>4 DEF XInv, Construct, Walk, PickName, InsertPhis, NameDone, SubtreeDone, WalkDone,
                Begin, Follow, Rename, Advance, LeaveBlock, PickBlock
  <2>2. RunBegins'
    BY <1>2, <1>4, <2>1 DEF RunBegins, runVars
  <2>3. ASSUME pc' = "done"
        PROVE  RunGoesOn'
    <3>1. IInv /\ PhisBelow
      BY DEF XInv, WInv
    <3>2. PICK x, o, c, e : x = <<xblock', xidx'>> /\ o = objectOf' /\ c = contents' /\ e = env'
      OBVIOUS
    <3>3. /\ x = <<prog.entry, 1>> /\ clock' = 0
          /\ o = [n \in prog.args |-> <<"arg", n>>]
          /\ c = [u \in {<<"arg", n>> : n \in prog.args} |-> <<u, 0>>]
          /\ e = [v \in {NameValue(prog, n) : n \in prog.args} |-> <<<<"arg", v.of>>, 0>>]
      BY <1>4, <2>1, <3>2 DEF RunBegins, runVars
    <3>4. RunOK(x, 0, o, c, e)
      BY <3>1, <3>3, StartOK
    <3>5. UNCHANGED <<prog, insertedPhis>>
      BY <1>2, <1>4, <2>3 DEF Construct, Walk, PickName, InsertPhis, NameDone, SubtreeDone, WalkDone,
                Begin, Follow, Rename, Advance, LeaveBlock, PickBlock, phiVars
    <3> QED
      BY <3>2, <3>3, <3>4, <3>5, GoesOn
  <2> QED
    BY <1>2, <1>3, <2>2, <2>3 DEF XInv
<1>5. CASE RunMutation \/ RunRead \/ RunDefinition \/ RunEdge
  <2>1. pc = "done" /\ pc' = "done"
    BY <1>5 DEF RunMutation, RunRead, RunDefinition, RunEdge, AtInstruction, Running, vars
  <2>2. Built /\ RunGoesOn
    BY <2>1 DEF XInv, Built
  <2>3. RunGoesOn'
    BY <1>5, <2>2, RunStep
  <2> QED
    BY <1>2, <1>3, <2>1, <2>3 DEF XInv
<1>6. CASE UNCHANGED xvars
  <2>1. UNCHANGED <<prog, pc, insertedPhis, xblock, xidx, clock, objectOf, contents, env>>
    BY <1>6 DEF xvars, vars, phiVars, runVars
  <2>2. RunBegins => RunBegins'
    BY <2>1 DEF RunBegins
  <2>3. RunGoesOn => RunGoesOn'
    <3> SUFFICES ASSUME RunGoesOn
                 PROVE  RunGoesOn'
      OBVIOUS
    <3>1. PICK x, k, o, c, e : /\ x = <<xblock, xidx>> /\ k = clock /\ o = objectOf
                               /\ c = contents /\ e = env
      OBVIOUS
    <3>2. RunOK(x, k, o, c, e)
      BY <3>1 DEF RunGoesOn
    <3> QED
      BY <2>1, <3>1, <3>2, GoesOn
  <2> QED
    BY <1>2, <1>3, <2>1, <2>2, <2>3 DEF XInv
<1> QED
  BY <1>4, <1>5, <1>6 DEF XNext, Halted

LEMMA XInvariance ==
  ASSUME \A p \in Programs : CanRun(p)
  PROVE  XSpec => []XInv
<1>1. XInit => XInv
  BY XStart
<1> QED
  BY <1>1, XStep, PTL DEF XSpec

(* An instruction finds in each operand the contents its object has in the *)
(* source at that moment.                                                  *)
THEOREM OperandsAreUpToDate ==
  ASSUME \A p \in Programs : CanRun(p)
  PROVE  XSpec => []ReadsSeeLatest
<1>1. XInv => ReadsSeeLatest
  <2> SUFFICES ASSUME XInv, AtInstruction, NEW s \in OperandsHere
               PROVE  operand[s] \in DOMAIN env
                      /\ env[operand[s]] = contents[objectOf[NameAt(prog, s)]]
    BY DEF ReadsSeeLatest
  <2>1. Built /\ RunGoesOn
    BY DEF XInv, Built, AtInstruction, Running
  <2>2. s \in DOMAIN operand /\ s.at = <<xblock, xidx>> /\ s.slot \in {"obj", "in"}
    BY DEF OperandsHere
  <2>3. s \in SourceSites(prog)
    <3>1. insertedPhis \subseteq prog.blocks \X Names
      BY <2>1, BuiltFacts DEF IInv, TypeOK, DefinedNames
    <3>2. ASSUME NEW x \in insertedPhis, NEW ed, s = PhiSite(x[1], x[2], ed)
          PROVE  FALSE
      BY <2>2, <3>1, <3>2, NamesAssumption DEF PhiSite
    <3>3. ASSUME NEW x \in insertedPhis, s = NameSite(x[1], 0, x[2])
          PROVE  FALSE
      BY <2>2, <3>1, <3>3, NamesAssumption DEF NameSite
    <3> QED
      BY <2>1, <2>2, <3>2, <3>3, BuiltFacts DEF SitesAre
  <2>4. Point(prog, s) = <<xblock, xidx>>
    <3>1. <<xblock, xidx>> \in CodePositions(prog)
      BY <2>1, AtCode DEF AtInstruction
    <3>2. xidx \in 1 .. Len(prog.code[xblock])
      BY <2>1, <3>1, BuiltFacts, CodePositionFacts
    <3>3. s.at[2] # 0
      BY <2>2, <3>2
    <3>4. s.edge = Absent
      <4> SUFFICES ASSUME NEW x \in SourcePhis(prog), NEW ed, s = PhiSite(x[1], x[2], ed)
                   PROVE  FALSE
        BY <2>3 DEF SourceSites, ObjSite, InSite, NameSite
      <4> QED
        BY <3>3 DEF PhiSite
    <3> QED
      BY <2>2, <3>4 DEF Point
  <2> QED
    BY <2>1, <2>3, <2>4, SourceOperandHolds DEF RunGoesOn
<1>2. XSpec => []XInv
  BY XInvariance
<1> QED
  BY <1>1, <1>2, PTL

-----------------------------------------------------------------------------
(* What callers learn                                                      *)

(* The walk has left the instruction at x behind.                          *)
Processed(x) ==
  /\ pc \notin {"pick name", "insert"}
  /\ ~ Pending(x[1])
  /\ Walking /\ x[1] = block => idx > x[2]

(* What reaches the return at x for the argument is not an instruction, or *)
(* is marked live out, or returned.                                        *)
LiveOutOf(x, a) ==
  \/ ~ IsInstruction(operand[NameSite(x[1], x[2], a)])
  \/ operand[NameSite(x[1], x[2], a)] \in DOMAIN liveOut
  \/ /\ Instr(prog, x).obj # Absent
     /\ operand[NameSite(x[1], x[2], a)] = operand[ObjSite(x[1], x[2])]

OutsInv ==
  \A x \in CodePositions(prog) : \A a \in prog.args :
    Instr(prog, x).op = "ret" /\ Processed(x) => LiveOutOf(x, a)

LEMMA ReturnFacts ==
  ASSUME NEW p \in Programs, NEW x \in CodePositions(p), Instr(p, x).op = "ret", NEW a \in p.args
  PROVE  /\ NameSite(x[1], x[2], a) \in SourceSites(p)
         /\ Point(p, NameSite(x[1], x[2], a)) = x
         /\ NameAt(p, NameSite(x[1], x[2], a)) = a
<1>1. x = <<x[1], x[2]>>
  BY CodePositionFacts
<1>2. PICK s : s = NameSite(x[1], x[2], a)
  OBVIOUS
<1>3. s.at = x /\ s.slot = a /\ s.edge = Absent
  BY <1>1, <1>2 DEF NameSite
<1>4. s \in SourceSites(p)
  BY <1>2 DEF SourceSites
<1>5. a \in Names
  BY ProgramsAssumption DEF WellFormed
<1>6. a # "obj" /\ a # "in"
  BY <1>5, NamesAssumption
<1>7. Point(p, s) = x
  BY <1>3 DEF Point
<1>8. NameAt(p, s) = a
  BY <1>3, <1>6 DEF NameAt
<1> QED
  BY <1>2, <1>4, <1>7, <1>8

LEMMA ProcessedIsBehind ==
  ASSUME WInv, NEW x \in CodePositions(prog), Processed(x), NEW s, Point(prog, s) = x
  PROVE  ~ Ahead(s)
<1>1. x[2] \in 1 .. Len(prog.code[x[1]]) /\ x = <<x[1], x[2]>>
  BY CodePositionFacts DEF WInv, IInv, TypeOK
<1>2. x[2] \in Int
  BY <1>1
<1>3. x[2] # idx \/ ~ (idx > x[2])
  BY <1>2, NotAfter
<1>4. Walking /\ x[1] = block => idx > x[2]
  BY DEF Processed
<1>5. ASSUME Walking, x[1] = block
      PROVE  ~ (x[2] > idx)
  <2>1. block \in prog.blocks /\ idx \in 0 .. Len(prog.code[block]) + 1 /\ prog \in Programs
    BY DEF WInv, IInv, TypeOK
  <2>2. Len(prog.code[block]) \in Nat
    BY <2>1, CodeLength
  <2>3. idx \in Int
    BY <2>1, <2>2
  <2> QED
    BY <1>2, <1>4, <1>5, <2>3
<1>6. ASSUME Walking, x[1] = block
      PROVE  ~ Asked(s)
  <2> SUFFICES ASSUME Asked(s)
               PROVE  FALSE
    OBVIOUS
  <2>1. Point(prog, s) = <<block, idx>>
    BY <1>6 DEF Asked, IsRequested, WInv, AskedHere, SiteIsHere
  <2>2. x[2] = idx
    BY <1>1, <2>1
  <2> QED
    BY <1>3, <1>4, <1>6, <2>2
<1> QED
  BY <1>5, <1>6 DEF Processed, Ahead

(* What was seen to stays so.                                              *)
LEMMA LiveOutStays ==
  ASSUME WInv, [Next]_vars, NEW x \in CodePositions(prog), Instr(prog, x).op = "ret",
         NEW a \in prog.args, Processed(x), LiveOutOf(x, a)
  PROVE  LiveOutOf(x, a)'
<1>1. prog' = prog /\ prog \in Programs /\ SourceSites(prog) \subseteq DOMAIN operand
  BY ProgramStays DEF WInv, IInv, TypeOK, SitesInv
<1>2. PICK s : s = NameSite(x[1], x[2], a)
  OBVIOUS
<1>3. operand'[s] = operand[s]
  <2>1. s \in SourceSites(prog) /\ Point(prog, s) = x
    BY <1>1, <1>2, ReturnFacts
  <2> QED
    BY <1>1, <2>1, ProcessedIsBehind, BehindIsFinal
<1>4. PICK r : r = ObjSite(x[1], x[2])
  OBVIOUS
<1>5. ASSUME Instr(prog, x).obj # Absent
      PROVE  operand'[r] = operand[r]
  <2>1. r \in SourceSites(prog) /\ Point(prog, r) = x
    BY <1>1, <1>4, <1>5, ObjectFacts
  <2> QED
    BY <1>1, <2>1, ProcessedIsBehind, BehindIsFinal
<1>6. DOMAIN liveOut \subseteq DOMAIN liveOut'
  <2>1. CASE Advance
    BY <2>1 DEF Advance, NewLiveOut
  <2> QED
    BY <2>1 DEF Next, Construct, Walk, Finished, PickName, InsertPhis, NameDone, SubtreeDone,
                WalkDone, Begin, Follow, Rename, LeaveBlock, PickBlock, vars
<1> QED
  BY <1>1, <1>2, <1>3, <1>4, <1>5, <1>6 DEF LiveOutOf, IsInstruction

(* The return that is visited is seen to.                                  *)
LEMMA ReturnIsSeenTo ==
  ASSUME WInv, Advance, NEW x \in CodePositions(prog), x = <<block, idx>>,
         Instr(prog, x).op = "ret", NEW a \in prog.args
  PROVE  LiveOutOf(x, a)'
<1>1. prog \in Programs /\ IInv /\ prog' = prog /\ operand' = operand
  BY DEF WInv, IInv, TypeOK, Advance
<1>2. idx # 0
  <2>1. x[2] \in 1 .. Len(prog.code[x[1]])
    BY <1>1, CodePositionFacts
  <2> QED
    BY <2>1
<1>3. PICK v, s : v = operand[s] /\ s = NameSite(block, idx, a)
  OBVIOUS
<1>4. IsVersion(v)
  <2>1. s \in DOMAIN operand
    BY <1>1, <1>3, ReturnFacts DEF IInv, SitesInv
  <2> QED
    BY <1>1, <1>3, <2>1 DEF IInv, OperandsAreDefined
<1>5. v # NoValue
  <2>1. v.kind # "null"
    BY <1>4 DEF IsVersion
  <2> QED
    BY <2>1 DEF NoValue
<1>6. PICK ins, returned : /\ ins = Instr(prog, <<block, idx>>)
                           /\ returned = IF ins.obj = Absent THEN NoValue
                                         ELSE operand[ObjSite(block, idx)]
  OBVIOUS
<1>7. ASSUME v # returned, IsInstruction(v)
      PROVE  v \in DOMAIN liveOut'
  <2>1. liveOut' = NewLiveOut(block, idx) /\ ins.op = "ret"
    BY <1>2, <1>6 DEF Advance
  <2>2. PICK outs : outs = {d \in prog.args : /\ operand[NameSite(block, idx, d)] # returned
                                              /\ IsInstruction(operand[NameSite(block, idx, d)])}
    OBVIOUS
  <2>3. DOMAIN NewLiveOut(block, idx)
          = DOMAIN liveOut \cup {operand[NameSite(block, idx, d)] : d \in outs}
    BY <1>6, <2>1, <2>2 DEF NewLiveOut
  <2>4. a \in outs
    BY <1>3, <1>7, <2>2
  <2> QED
    BY <1>3, <2>1, <2>3, <2>4
<1>8. v = returned => ins.obj # Absent /\ v = operand[ObjSite(block, idx)]
  BY <1>5, <1>6
<1> QED
  BY <1>1, <1>3, <1>6, <1>7, <1>8 DEF LiveOutOf, IsInstruction

LEMMA LaterThan ==
  ASSUME NEW j \in Nat, NEW i \in Int, NEW k \in Int, i > j, k <= j
  PROVE  i > k
OBVIOUS

LEMMA OutsNext == WInv /\ OutsInv /\ [Next]_vars => OutsInv'
<1> SUFFICES ASSUME WInv, OutsInv, [Next]_vars
             PROVE  OutsInv'
  OBVIOUS
<1>1. IInv /\ prog \in Programs /\ TreeInv /\ prog' = prog
  BY ProgramStays DEF WInv, IInv, TypeOK
<1> SUFFICES ASSUME NEW x \in CodePositions(prog), NEW a \in prog.args,
                    Instr(prog, x).op = "ret", Processed(x)'
             PROVE  LiveOutOf(x, a)'
  BY <1>1 DEF OutsInv
<1>2. /\ x = <<x[1], x[2]>> /\ x[1] \in prog.blocks /\ x[2] \in Int
      /\ 1 <= x[2] /\ x[2] <= Len(prog.code[x[1]])
  <2>1. x = <<x[1], x[2]>> /\ x[1] \in prog.blocks /\ x[2] \in 1 .. Len(prog.code[x[1]])
    BY <1>1, CodePositionFacts
  <2> QED
    BY <2>1
<1>3. Processed(x) => LiveOutOf(x, a)'
  BY LiveOutStays DEF OutsInv
<1>4. CASE PickName \/ InsertPhis
  BY <1>4 DEF Processed, PickName, InsertPhis
<1>5. CASE NameDone
  <2>1. todo' = <<{prog.entry}>>
    BY <1>1, <1>5 DEF TreeInv, NameDone, walkVars
  <2>2. 1 \in DOMAIN todo' /\ prog.entry \in todo'[1]
    BY <2>1, OfOne
  <2>3. <<prog.entry, x[1]>> \in prog.dom
    BY <1>1, <1>2, GraphFacts, DominanceFacts
  <2>4. Pending(x[1])'
    BY <1>1, <2>2, <2>3 DEF Pending
  <2> QED
    BY <2>4 DEF Processed
<1>6. CASE PickBlock
  <2>1. pc = "pick block" /\ pc' = "visit" /\ idx' = 0
    BY <1>6 DEF PickBlock
  <2>2. x[1] # block'
    <3> SUFFICES ASSUME x[1] = block'
                 PROVE  FALSE
      OBVIOUS
    <3>1. 0 > x[2]
      BY <2>1 DEF Processed, Walking
    <3> QED
      BY <1>2, <3>1
  <2>3. ~ Pending(x[1])
    BY <1>1, <1>2, <1>6, <2>2, PendingPick DEF Processed
  <2>4. Processed(x)
    BY <2>1, <2>3 DEF Processed, Walking
  <2> QED
    BY <1>3, <2>4
<1>7. CASE SubtreeDone
  <2>1. pc = "pick block" /\ pc' = pc
    BY <1>7 DEF SubtreeDone
  <2>2. ~ Pending(x[1])
    BY <1>1, <1>7, PendingRest DEF Processed
  <2>3. Processed(x)
    BY <2>1, <2>2 DEF Processed, Walking
  <2> QED
    BY <1>3, <2>3
<1>8. CASE Advance
  <2>1. /\ pc = "visit" /\ pc' = pc /\ todo' = todo /\ block' = block /\ idx' = idx + 1
    BY <1>8 DEF Advance
  <2>2. ~ Pending(x[1])
    BY <1>1, <2>1 DEF Processed, Pending
  <2>3. CASE x = <<block, idx>>
    BY <1>8, <2>3, ReturnIsSeenTo
  <2>4. CASE x # <<block, idx>>
    <3>1. x[1] = block => idx + 1 > x[2]
      BY <2>1 DEF Processed, Walking
    <3>2. x[1] = block => x[2] # idx
      BY <1>2, <2>4
    <3>3. idx \in Int
      <4>1. block \in prog.blocks /\ idx \in 0 .. Len(prog.code[block]) + 1
        BY <1>1 DEF IInv, TypeOK
      <4>2. Len(prog.code[block]) \in Nat
        BY <1>1, <4>1, CodeLength
      <4> QED
        BY <4>1, <4>2
    <3>4. x[1] = block => idx > x[2]
      BY <1>2, <3>1, <3>2, <3>3
    <3>5. Processed(x)
      BY <2>1, <2>2, <3>4 DEF Processed
    <3> QED
      BY <1>3, <3>5
  <2> QED
    BY <2>3, <2>4
<1>9. CASE LeaveBlock
  <2>1. pc = "visit" /\ pc' = "pick block" /\ todo' = todo /\ idx > Len(prog.code[block])
    BY <1>9 DEF LeaveBlock, walkVars
  <2>2. ~ Pending(x[1])
    BY <1>1, <2>1 DEF Processed, Pending
  <2>3. x[1] = block => idx > x[2]
    <3>1. block \in prog.blocks /\ idx \in 0 .. Len(prog.code[block]) + 1
      BY <1>1 DEF IInv, TypeOK
    <3>2. Len(prog.code[block]) \in Nat
      BY <1>1, <3>1, CodeLength
    <3>3. idx \in Int
      BY <3>1, <3>2
    <3>4. x[1] = block => x[2] <= Len(prog.code[block])
      BY <1>2
    <3> QED
      BY <1>2, <2>1, <3>2, <3>3, <3>4, LaterThan
  <2>4. Processed(x)
    BY <2>1, <2>2, <2>3 DEF Processed
  <2> QED
    BY <1>3, <2>4
<1>10. CASE WalkDone
  <2>1. pc = "pick block" /\ todo' = todo
    BY <1>10 DEF WalkDone, walkVars
  <2>2. Processed(x)
    BY <1>1, <2>1 DEF Processed, Pending, Walking
  <2> QED
    BY <1>3, <2>2
<1>11. CASE Begin \/ Follow \/ Rename \/ UNCHANGED vars
  <2>1. /\ UNCHANGED <<todo, block, idx>>
        /\ \/ pc \in {"visit", "search"} /\ pc' \in {"visit", "search"}
           \/ pc' = pc
    BY <1>11 DEF Begin, Follow, Rename, vars, walkVars
  <2>2. Processed(x)
    BY <1>1, <2>1 DEF Processed, Pending, Walking
  <2> QED
    BY <1>3, <2>2
<1> QED
  BY <1>4, <1>5, <1>6, <1>7, <1>8, <1>9, <1>10, <1>11 DEF Next, Construct, Walk, Finished

LEMMA OutsInvariance ==
  ASSUME \A p \in Programs : CanRun(p)
  PROVE  XSpec => [](XInv /\ OutsInv)
<1>1. XInit => XInv /\ OutsInv
  <2>1. Init => OutsInv
    BY DEF Init, OutsInv, Processed
  <2> QED
    BY <2>1, XStart DEF XInit
<1>2. XInv /\ OutsInv /\ [XNext]_xvars => (XInv /\ OutsInv)'
  <2> SUFFICES ASSUME XInv, OutsInv, [XNext]_xvars
               PROVE  XInv' /\ OutsInv'
    OBVIOUS
  <2>1. [Next]_vars
    BY DEF XNext, RunMutation, RunRead, RunDefinition, RunEdge, Halted, xvars, Next
  <2> QED
    BY <2>1, XStep, OutsNext DEF XInv
<1> QED
  BY <1>1, <1>2, PTL DEF XSpec

(* At a return the definition that reaches it for an argument holds the    *)
(* final contents of the argument's object, and is marked live out, or     *)
(* returned, if they changed.                                              *)
THEOREM LiveOutsAreUpToDate ==
  ASSUME \A p \in Programs : CanRun(p)
  PROVE  XSpec => []CallersSeeLatest
<1>1. XInv /\ OutsInv => CallersSeeLatest
  <2> SUFFICES ASSUME XInv, OutsInv, AtInstruction, Here.op = "ret", NEW a \in prog.args,
                      NEW v, v = operand[NameSite(xblock, xidx, a)]
               PROVE  /\ v \in DOMAIN env
                      /\ env[v] = contents[<<"arg", a>>]
                      /\ \/ contents[<<"arg", a>>] = <<<<"arg", a>>, 0>>
                         \/ v \in DOMAIN liveOut /\ liveOut[v] = a
                         \/ Here.obj # Absent /\ v = operand[ObjSite(xblock, xidx)]
    BY DEF CallersSeeLatest
  <2>1. Built /\ RunGoesOn
    BY DEF XInv, Built, AtInstruction, Running
  <2>2. IInv /\ prog \in Programs
    BY <2>1, BuiltFacts
  <2>3. PICK x : x = <<xblock, xidx>>
    OBVIOUS
  <2>4. x[1] = xblock /\ x[2] = xidx /\ x \in CodePositions(prog) /\ Here = Instr(prog, x)
    BY <2>1, <2>3, AtCode DEF AtInstruction
  <2>5. PICK s : s = NameSite(x[1], x[2], a)
    OBVIOUS
  <2>6. s \in SourceSites(prog) /\ Point(prog, s) = x /\ NameAt(prog, s) = a
    BY <2>2, <2>4, <2>5, ReturnFacts
  <2>7. RunOK(x, clock, objectOf, contents, env)
    BY <2>1, <2>3 DEF RunGoesOn
  <2>8. s \in DOMAIN operand /\ v \in DOMAIN env /\ env[v] = contents[objectOf[a]] /\ v = operand[s]
    BY <2>1, <2>4, <2>5, <2>6, <2>7, SourceOperandHolds
  <2>9. ArgumentsHold(objectOf, env)
    BY <2>7 DEF RunOK
  <2>10. env[v] = contents[<<"arg", a>>]
    BY <2>8, <2>9 DEF ArgumentsHold
  <2>11. IsVersion(v) /\ v.of = a
    BY <2>2, <2>6, <2>8 DEF IInv, OperandsAreDefined, OperandsKeepTheirNames
  <2>12. CASE ~ IsInstruction(v)
    <3>1. v.kind = "name"
      BY <2>12 DEF IsInstruction
    <3>2. v = NameValue(prog, a)
      BY <2>2, <2>11, <3>1, VersionKinds
    <3> QED
      BY <2>8, <2>9, <2>10, <3>2 DEF ArgumentsHold
  <2>13. CASE v \in DOMAIN liveOut
    <3>1. liveOut[v] = a
      BY <2>2, <2>11, <2>13 DEF IInv, LiveOutsNameTheirArgument
    <3> QED
      BY <2>8, <2>10, <2>13, <3>1
  <2>14. CASE Here.obj # Absent /\ v = operand[ObjSite(xblock, xidx)]
    BY <2>8, <2>10, <2>14
  <2>15. Processed(x)
    <3>1. pc = "done" /\ todo = <<>>
      BY <2>1 DEF Built
    <3>2. DOMAIN <<>> = {}
      OBVIOUS
    <3> QED
      BY <3>1, <3>2 DEF Processed, Pending, Walking
  <2>16. LiveOutOf(x, a)
    BY <2>4, <2>15 DEF OutsInv
  <2> QED
    BY <2>4, <2>12, <2>13, <2>14, <2>16 DEF LiveOutOf
<1>2. XSpec => [](XInv /\ OutsInv)
  BY OutsInvariance
<1> QED
  BY <1>1, <1>2, PTL
=============================================================================
